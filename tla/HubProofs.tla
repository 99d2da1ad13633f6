------------------------------ MODULE HubProofs ------------------------------
(***************************************************************************)
(* Theorems about Hub, for any number of connections, sessions and rooms,  *)
(* any buffer size and whatever the clients send.                          *)
(***************************************************************************)
EXTENDS HubTypeProofs

(***************************************************************************)
(* The garbage collector.                                                  *)
(***************************************************************************)
\* Only the creation of a room and the collector change what the map holds.
LEMMA ManagerKept ==
  ASSUME NEW c \in Conn, StepOf(c)
  PROVE  UNCHANGED <<now, gc>> /\ (GetOrCreateRoom(c) \/ UNCHANGED <<made, current>>)
PROOF
  <1>1. CASE \/ Connect(c) \/ ReceiveGarbage(c)
             \/ \E q \in Request : ReceiveJoin(c, q) \/ Receive(c, q)
    BY <1>1 DEF Connect, ReceiveGarbage, ReceiveJoin, Receive, Read, manager
  <1>2. CASE \/ GetOrCreateRoom(c) \/ Join(c) \/ RegisterClient(c)
             \/ BuildRoomState(c) \/ Welcome(c)
    BY <1>2 DEF GetOrCreateRoom, Join, RegisterClient, BuildRoomState, Welcome, manager
  <1>3. CASE HandlerStep(c)
    BY <1>3 DEF HandlerStep, manager
  <1>4. CASE \/ Forget(c) \/ Snapshot(c) \/ \E d \in Conn : SendOne(c, d)
    BY <1>4 DEF Forget, Snapshot, SendOne, manager
  <1>5. CASE \/ ReadFails(c) \/ RateLimited(c) \/ MarkDisconnected(c) \/ Bye(c)
             \/ PumpStops(c) \/ Deliver(c)
    BY <1>5 DEF ReadFails, RateLimited, CleanUp, MarkDisconnected, Bye, PumpStops,
                Deliver, manager
  <1> QED BY <1>1, <1>2, <1>3, <1>4, <1>5 DEF StepOf

\* Although the collector chooses its candidate in one critical section and
\* deletes it in another (room_manager.go:53), a room disappears
\* only when nobody is registered and its last activity is older than the expiry.
THEOREM GarbageCollection == Spec => GCSparesTheLiving
PROOF
  <1> DEFINE Spared == current # NoRoom /\ current' = NoRoom =>
                         /\ clients = {}
                         /\ now - heap[current].lastActivity > RoomExpiry
  <1>1. TypeInv /\ [Next]_vars => Spared
    <2> SUFFICES ASSUME TypeInv, [Next]_vars, current # NoRoom, current' = NoRoom
                 PROVE  /\ clients = {}
                        /\ now - heap[current].lastActivity > RoomExpiry
      OBVIOUS
    <2>1. ASSUME NEW c \in Conn, StepOf(c) PROVE FALSE
      BY <2>1, ManagerKept, GetOrCreateRoomSteps, RoomIds
    <2>2. DeleteCandidates
      BY <2>1, NextSteps DEF CollectCandidates, Tick, vars, manager
    <2>3. clients = {} /\ gc - heap[current].lastActivity > RoomExpiry
      BY <2>2 DEF DeleteCandidates, Stale
    <2>4. gc \in Nat /\ gc <= now /\ now \in Nat
      BY DEF TypeInv, RestOK
    <2>5. heap[current].lastActivity \in Nat
      BY CurrentOK DEF IsRoom
    <2>6. RoomExpiry \in Nat
      BY HubAssumption
    <2> QED BY <2>3, <2>4, <2>5, <2>6
  <1>2. Spec => [][Spared]_vars
    BY <1>1, TypeInvInvariant, PTL DEF Spec
  <1> QED BY <1>2 DEF GCSparesTheLiving

(***************************************************************************)
(* The cards of the ballot in progress are secret.                         *)
(***************************************************************************)
\* The cards m carries, if any, are those of an earlier ballot of its room,
\* or of one that is revealed.
Revealed(m) == Carried(m) # {} =>
  LET i == m.ballot[1]
  IN  \/ m.ballot[2] < round[i]
      \/ m.ballot[2] = round[i] /\ heap[i].phase = "reveal"

AllRevealed(msgs) == \A k \in DOMAIN msgs : Revealed(msgs[k])

\* Nothing under way tells a card too early; a room not made yet is voting.
SecretInv ==
  /\ \A c \in Conn : AllRevealed(buf[c]) /\ AllRevealed(job[c].todo)
  /\ \A i \in RoomId : i > made => heap[i].phase = "voting"

\* In a step, the ballot of every room goes on, perhaps to be revealed, or
\* another one begins.
BallotsGoOn ==
  \A i \in RoomId :
    \/ round'[i] = round[i] /\ heap'[i].phase \in {heap[i].phase, "reveal"}
    \/ round'[i] = round[i] + 1

\* A card that may be told may be told after any step.
LEMMA RevealedStays ==
  ASSUME TypeInv, BallotsGoOn, NEW m \in Message, Revealed(m)
  PROVE  Revealed(m)'
PROOF
  <1> SUFFICES ASSUME Carried(m) # {} PROVE Revealed(m)'
    BY DEF Revealed
  <1> DEFINE i == m.ballot[1]
             n == m.ballot[2]
  <1>1. i \in RoomId /\ n \in Nat
    <2>1. m.ballot \in Ballots
      BY DEF Carried, Message
    <2> QED BY <2>1 DEF Ballots
  <1>2. n < round[i] \/ (n = round[i] /\ heap[i].phase = "reveal")
    BY DEF Revealed
  <1>3. round[i] \in Nat
    BY <1>1 DEF TypeInv, RestOK
  <1>4. \/ round'[i] = round[i] /\ heap'[i].phase \in {heap[i].phase, "reveal"}
        \/ round'[i] = round[i] + 1
    BY <1>1 DEF BallotsGoOn
  <1> HIDE DEF i, n
  <1>5. n < round'[i] \/ (n = round'[i] /\ heap'[i].phase = "reveal")
    BY <1>1, <1>2, <1>3, <1>4
  <1> QED BY <1>5 DEF Revealed, i, n

\* The same for all messages of a sequence.
LEMMA AllRevealedStays ==
  ASSUME TypeInv, BallotsGoOn, NEW msgs \in Seq(Message), AllRevealed(msgs)
  PROVE  AllRevealed(msgs)'
PROOF
  <1>1. \A k \in DOMAIN msgs : msgs[k] \in Message
    OBVIOUS
  <1> QED BY <1>1, RevealedStays DEF AllRevealed

\* What does not change stays so, and one message more may be sent.
LEMMA UnchangedRevealed ==
  ASSUME TypeInv, BallotsGoOn, NEW d \in Conn
  PROVE  /\ AllRevealed(buf[d]) /\ buf'[d] = buf[d] => AllRevealed(buf[d])'
         /\ AllRevealed(job[d].todo) /\ job'[d] = job[d] => AllRevealed(job[d].todo)'
PROOF
  <1>1. buf[d] \in Seq(Message) /\ job[d].todo \in Seq(Message)
    BY OfConn DEF TypeInv, BuffersOK, Job
  <1>2. ASSUME AllRevealed(buf[d]), buf'[d] = buf[d] PROVE AllRevealed(buf[d])'
    <2>1. PICK msgs \in Seq(Message) : msgs = buf[d]
      BY <1>1
    <2>2. AllRevealed(msgs)
      BY <1>2, <2>1
    <2>3. AllRevealed(msgs)'
      BY <2>2, AllRevealedStays
    <2> QED BY <1>2, <2>1, <2>3 DEF AllRevealed
  <1>3. ASSUME AllRevealed(job[d].todo), job'[d] = job[d]
        PROVE  AllRevealed(job[d].todo)'
    <2>1. PICK msgs \in Seq(Message) : msgs = job[d].todo
      BY <1>1
    <2>2. AllRevealed(msgs)
      BY <1>3, <2>1
    <2>3. AllRevealed(msgs)'
      BY <2>2, AllRevealedStays
    <2> QED BY <1>3, <2>1, <2>3 DEF AllRevealed
  <1> QED BY <1>2, <1>3

\* A message that tells no card too early may be queued.
LEMMA RevealedSent ==
  ASSUME TypeInv, BallotsGoOn, \A d \in Conn : AllRevealed(buf[d]),
         NEW c \in Conn, NEW m \in Message, Revealed(m)', Send(c, m)
  PROVE  \A d \in Conn : AllRevealed(buf[d])'
PROOF
  <1>0. buf \in [Conn -> Seq(Message)]
    BY DEF TypeInv, BuffersOK
  <1>1. ASSUME NEW d \in Conn, buf'[d] = buf[d] PROVE AllRevealed(buf[d])'
    BY <1>1, UnchangedRevealed
  <1>2. CASE UNCHANGED buf
    BY <1>1, <1>2
  <1>3. CASE buf' = [buf EXCEPT ![c] = Append(@, m)]
    <2>1. \A d \in Conn \ {c} : buf'[d] = buf[d]
      BY <1>0, <1>3
    <2>2. AllRevealed(buf[c])'
      <3>1. PICK msgs \in Seq(Message) : msgs = buf[c]
        BY <1>0
      <3>2. AllRevealed(msgs)'
        BY <3>1, AllRevealedStays
      <3>3. buf'[c] = Append(msgs, m)
        BY <1>0, <1>3, <3>1
      <3>4. \A k \in DOMAIN Append(msgs, m) :
              \/ k \in DOMAIN msgs /\ Append(msgs, m)[k] = msgs[k]
              \/ Append(msgs, m)[k] = m
        OBVIOUS
      <3>5. AllRevealed(Append(msgs, m))'
        BY <3>2, <3>4 DEF AllRevealed
      <3> QED BY <3>3, <3>5 DEF AllRevealed
    <2> QED BY <1>1, <2>1, <2>2
  <1> QED BY <1>2, <1>3 DEF Send

\* Nothing with cards in it tells nothing.
LEMMA NothingTold ==
  ASSUME NEW msgs, \A k \in DOMAIN msgs : Carried(msgs[k]) = {}
  PROVE  AllRevealed(msgs)'
  BY DEF AllRevealed, Revealed

\* A step that keeps the phase of the room it changes.
LEMMA PhaseKept ==
  ASSUME TypeInv, NEW i \in RoomId, NEW r, r.phase = heap[i].phase,
         heap' = [heap EXCEPT ![i] = r], UNCHANGED round
  PROVE  BallotsGoOn /\ \A k \in RoomId : heap'[k].phase = heap[k].phase
PROOF
  <1>1. heap'[i] = r /\ \A k \in RoomId \ {i} : heap'[k] = heap[k]
    BY DEF TypeInv, RoomsOK
  <1>2. \A k \in RoomId : heap'[k].phase = heap[k].phase
    BY <1>1
  <1> QED BY <1>2 DEF BallotsGoOn

\* The rooms that are not made yet have nothing to reveal.
Unmade == \A i \in RoomId : i > made => heap[i].phase = "voting"

\* Every step of a connection lets the ballots go on.
LEMMA BallotsStep ==
  ASSUME TypeInv, Unmade, NEW c \in Conn, StepOf(c)
  PROVE  BallotsGoOn /\ Unmade'
PROOF
  <1>0. \A i \in RoomId : i \in Nat
    BY RoomIds
  <1>1. ASSUME UNCHANGED <<heap, round, made>> PROVE BallotsGoOn /\ Unmade'
    BY <1>1 DEF BallotsGoOn, Unmade
  <1>2. ASSUME NEW i \in RoomId, NEW r, r.phase = heap[i].phase,
               heap' = [heap EXCEPT ![i] = r], UNCHANGED <<round, made>>
        PROVE  BallotsGoOn /\ Unmade'
    BY <1>2, PhaseKept DEF Unmade
  <1>3. CASE \/ Connect(c) \/ ReceiveGarbage(c)
             \/ \E q \in Request : ReceiveJoin(c, q) \/ Receive(c, q)
             \/ RegisterClient(c) \/ Welcome(c) \/ Forget(c) \/ Snapshot(c)
             \/ \E d \in Conn : SendOne(c, d)
    <2>1. UNCHANGED <<heap, round, made>>
      BY <1>3 DEF Connect, ReceiveGarbage, ReceiveJoin, Receive, Read, manager,
                  RegisterClient, Welcome, Forget, Snapshot, SendOne
    <2> QED BY <1>1, <2>1
  <1>4. CASE ReadFails(c) \/ RateLimited(c) \/ Bye(c) \/ PumpStops(c) \/ Deliver(c)
    <2>1. UNCHANGED <<heap, round, made>>
      BY <1>4 DEF ReadFails, RateLimited, CleanUp, Bye, PumpStops, Deliver, manager
    <2> QED BY <1>1, <2>1
  <1>5. CASE GetOrCreateRoom(c)
    <2>1. UNCHANGED round
      BY <1>5 DEF GetOrCreateRoom
    <2>2. CASE UNCHANGED <<heap, made, current, clients>>
      BY <1>1, <2>1, <2>2
    <2>3. CASE /\ made' = made + 1 /\ made' \in RoomId
               /\ heap' = [heap EXCEPT ![made'] = NewRoom(now)]
      <3>1. made \in Nat
        BY CurrentOK
      <3>2. heap[made'].phase = "voting"
        BY <1>0, <2>3, <3>1 DEF Unmade
      <3>3. NewRoom(now).phase = heap[made'].phase
        BY <3>2, NewRoomPresent
      <3>4. BallotsGoOn /\ \A k \in RoomId : heap'[k].phase = heap[k].phase
        BY <2>1, <2>3, <3>3, PhaseKept
      <3>5. \A k \in RoomId : k > made' => k > made
        BY <1>0, <2>3, <3>1
      <3> QED BY <3>4, <3>5 DEF Unmade
    <2> QED BY <1>5, <2>2, <2>3, GetOrCreateRoomSteps
  <1>6. CASE Join(c)
    <2>1. pc[c] = "join" /\ UNCHANGED <<round, made>>
      BY <1>6 DEF Join, manager
    <2>2. CASE UNCHANGED heap
      BY <1>1, <2>1, <2>2
    <2>3. CASE Becomes(c, AfterJoin(RoomOf(c), job[c].event.session,
                                    job[c].event.name, job[c].event.role, now))
      <3> DEFINE r == AfterJoin(RoomOf(c), job[c].event.session,
                                job[c].event.name, job[c].event.role, now)
      <3>1. job[c].room \in RoomId /\ IsRoom(RoomOf(c))
        BY <2>1, HasRoom
      <3>2. r.phase = heap[job[c].room].phase
        BY <3>1, JoinEffect DEF RoomOf
      <3>3. heap' = [heap EXCEPT ![job[c].room] = r]
        BY <2>3 DEF Becomes
      <3> HIDE DEF r
      <3> QED BY <1>2, <2>1, <3>1, <3>2, <3>3
    <2> QED BY <1>6, <2>2, <2>3, JoinSteps
  <1>7. CASE BuildRoomState(c)
    <2> DEFINE i == job[c].room
               r == AfterTimerInfo(heap[i], now)
    <2>1. i \in RoomId /\ heap' = [heap EXCEPT ![i] = r] /\ UNCHANGED <<round, made>>
          /\ pc[c] = "state"
      BY <1>7, BuildRoomStateSteps DEF BuildRoomState, manager
    <2>2. IsRoom(heap[i])
      BY <2>1 DEF TypeInv, RoomsOK
    <2>3. r.phase = heap[i].phase
      BY <2>2, TimerInfoEffect DEF AfterTimerInfo
    <2> HIDE DEF i, r
    <2> QED BY <1>2, <2>1, <2>3
  <1>8. CASE MarkDisconnected(c)
    <2> DEFINE i == job[c].room
               r == AfterDisconnect(heap[i], sid[c])
    <2>1. i \in RoomId /\ heap' = [heap EXCEPT ![i] = r] /\ UNCHANGED <<round, made>>
      BY <1>8, MarkDisconnectedSteps DEF MarkDisconnected, manager
    <2>2. IsRoom(heap[i])
      BY <2>1 DEF TypeInv, RoomsOK
    <2>3. r.phase = heap[i].phase
      BY <2>2, DisconnectEffect DEF AfterDisconnect
    <2> HIDE DEF i, r
    <2> QED BY <1>2, <2>1, <2>3
  <1>9. CASE HandlerStep(c)
    <2> DEFINE i == job[c].room
    <2>1. /\ pc[c] = "handle" /\ BallotStep(i) /\ UNCHANGED made
          /\ \A k \in RoomId \ {i} : heap'[k] = heap[k]
      BY <1>9 DEF HandlerStep, manager
    <2>2. i \in RoomId /\ i <= made /\ made \in Nat
      BY <2>1, HasRoom, CurrentOK
    <2>3. round \in [RoomId -> Nat]
      BY DEF TypeInv, RestOK
    <2> HIDE DEF i
    <2>4. BallotsGoOn
      BY <2>1, <2>2, <2>3 DEF BallotStep, BallotsGoOn
    <2>5. \A k \in RoomId : k > made => k # i
      BY <1>0, <2>2
    <2> QED BY <2>1, <2>4, <2>5 DEF Unmade
  <1> QED BY <1>3, <1>4, <1>5, <1>6, <1>7, <1>8, <1>9 DEF StepOf

\* The locals of the connection that moved; the others have what they had.
LEMMA RevealedMoves ==
  ASSUME TypeInv, BallotsGoOn, \A d \in Conn : AllRevealed(job[d].todo),
         NEW c \in Conn, NEW p, NEW j, NEW s, Steps(c, p, j, s),
         AllRevealed(j.todo)'
  PROVE  \A d \in Conn : AllRevealed(job[d].todo)'
PROOF
  <1>1. /\ job'[c] = j
        /\ \A d \in Conn \ {c} : job'[d] = job[d]
    BY DEF Steps, Moves, TypeInv, ConnsOK
  <1>2. AllRevealed(job[c].todo)'
    BY <1>1 DEF AllRevealed
  <1> QED BY <1>1, <1>2, UnchangedRevealed

\* An error tells no cards.
LEMMA ErrorReveals ==
  ASSUME TypeInv, BallotsGoOn, \A d \in Conn : AllRevealed(buf[d]),
         NEW c \in Conn, SendError(c) \/ UNCHANGED <<buf, done>>
  PROVE  \A d \in Conn : AllRevealed(buf[d])'
PROOF
  <1>1. CASE UNCHANGED <<buf, done>>
    BY <1>1, UnchangedRevealed
  <1>2. CASE SendError(c)
    <2>1. Plain("error") \in Message /\ Carried(Plain("error")) = {}
      BY PlainOK
    <2>2. PICK m \in Message : m = Plain("error") /\ Carried(m) = {}
      BY <2>1
    <2>3. Revealed(m)'
      BY <2>2 DEF Revealed
    <2>4. Send(c, m)
      BY <1>2, <2>2 DEF SendError
    <2> QED BY <2>3, <2>4, RevealedSent
  <1> QED BY <1>1, <1>2

\* What is in the buffers, and what the handlers still have to send.
Told ==
  /\ \A d \in Conn : AllRevealed(buf[d])
  /\ \A d \in Conn : AllRevealed(job[d].todo)

\* Events arrive, and nothing is said of cards.
LEMMA ArrivalsTold ==
  ASSUME TypeInv, BallotsGoOn, Told, NEW c \in Conn,
         \/ Connect(c) \/ ReceiveGarbage(c)
         \/ \E q \in Request : ReceiveJoin(c, q) \/ Receive(c, q)
  PROVE  Told'
PROOF
  <1>0. AllRevealed(<<>>)'
    BY DEF AllRevealed
  <1>1. ASSUME UNCHANGED job PROVE \A d \in Conn : AllRevealed(job[d].todo)'
    BY <1>1, UnchangedRevealed DEF Told
  <1>2. CASE Connect(c)
    <2>1. Steps(c, "read", NoJob, sid[c]) /\ UNCHANGED <<buf, done>>
      BY <1>2, ConnectSteps DEF Connect
    <2>2. AllRevealed(NoJob.todo)'
      BY <1>0 DEF NoJob
    <2> QED BY <2>1, <2>2, RevealedMoves, ErrorReveals DEF Told
  <1>3. CASE ReceiveGarbage(c)
    <2>1. SendError(c) /\ UNCHANGED job
      BY <1>3 DEF ReceiveGarbage
    <2> QED BY <1>1, <2>1, ErrorReveals DEF Told
  <1>4. ASSUME NEW q \in Request, ReceiveJoin(c, q) PROVE Told'
    <2>1. CASE SendError(c) /\ UNCHANGED <<pc, job, sid>>
      BY <1>1, <2>1, ErrorReveals DEF Told
    <2>2. CASE /\ Steps(c, "create", [NoJob EXCEPT !.event = q], sid[c])
               /\ UNCHANGED <<buf, done>>
      <3>1. AllRevealed([NoJob EXCEPT !.event = q].todo)'
        <4>1. [NoJob EXCEPT !.event = q].todo = <<>>
          BY DEF NoJob
        <4> QED BY <1>0, <4>1
      <3> QED BY <2>2, <3>1, RevealedMoves, ErrorReveals DEF Told
    <2> QED BY <1>4, <2>1, <2>2, ReceiveJoinSteps
  <1>5. ASSUME NEW q \in Request, Receive(c, q) PROVE Told'
    <2>1. ASSUME NEW p, NEW j, Steps(c, p, j, sid[c]), UNCHANGED <<buf, done>>,
                 j.todo = <<>> \/ j.todo = <<Plain("room_cleared")>>
          PROVE  Told'
      <3>1. Carried(Plain("room_cleared")) = {}
        BY PlainOK
      <3>2. AllRevealed(<<Plain("room_cleared")>>)'
        <4>1. \A m : \A k \in DOMAIN <<m>> : <<m>>[k] = m
          OBVIOUS
        <4>2. PICK msgs : msgs = <<Plain("room_cleared")>>
          OBVIOUS
        <4>3. \A k \in DOMAIN msgs : Carried(msgs[k]) = {}
          BY <3>1, <4>1, <4>2
        <4>4. AllRevealed(msgs)'
          BY <4>3, NothingTold
        <4> QED BY <4>2, <4>4 DEF AllRevealed, Plain
      <3>3. PICK msgs : /\ msgs = <<>> \/ msgs = <<Plain("room_cleared")>>
                        /\ j.todo = msgs
        BY <2>1
      <3>4. AllRevealed(msgs)'
        BY <1>0, <3>2, <3>3 DEF AllRevealed, Plain
      <3>5. AllRevealed(j.todo)'
        BY <3>3, <3>4 DEF AllRevealed
      <3>6. \A d \in Conn : AllRevealed(job[d].todo)'
        BY <2>1, <3>5, RevealedMoves DEF Told
      <3>7. \A d \in Conn : AllRevealed(buf[d])'
        BY <2>1, ErrorReveals DEF Told
      <3> QED BY <3>6, <3>7 DEF Told
    <2>2. CASE /\ UNCHANGED <<pc, job, sid>>
               /\ SendError(c) \/ UNCHANGED <<buf, done>>
      BY <1>1, <2>2, ErrorReveals DEF Told
    <2>3. /\ [NoJob EXCEPT !.event = q, !.room = current,
                           !.todo = <<Plain("room_cleared")>>,
                           !.next = "handle"].todo = <<Plain("room_cleared")>>
          /\ [NoJob EXCEPT !.event = q, !.room = current].todo = <<>>
      BY DEF NoJob
    <2> QED BY <1>5, <2>1, <2>2, <2>3, ReceiveSteps
  <1> QED BY <1>2, <1>3, <1>4, <1>5

\* A join: the room_state shows cards only if the ballot is revealed, and a
\* room_state or a votes_revealed is announced as it was prepared.
LEMMA JoiningTold ==
  ASSUME TypeInv, BallotsGoOn, Told, NEW c \in Conn,
         \/ GetOrCreateRoom(c) \/ Join(c) \/ RegisterClient(c)
         \/ BuildRoomState(c) \/ Welcome(c)
  PROVE  Told'
PROOF
  <1>0. AllRevealed(NoJob.todo)' /\ job[c] \in Job
    <2>1. job[c] \in Job
      BY OfConn
    <2>2. AllRevealed(NoJob.todo)'
      BY DEF AllRevealed, NoJob
    <2> QED BY <2>1, <2>2
  <1>1. AllRevealed(job[c].todo) /\ job[c].todo \in Seq(Message)
    BY <1>0 DEF Told, Job
  <1>2. PICK old \in Seq(Message) : old = job[c].todo
    BY <1>1
  <1>3. AllRevealed(old) /\ AllRevealed(old)'
    BY <1>1, <1>2, AllRevealedStays
  <1>4. CASE GetOrCreateRoom(c)
    <2> DEFINE j == [job[c] EXCEPT !.room = current']
    <2>1. Steps(c, "join", j, sid[c]) /\ UNCHANGED <<buf, done>>
      BY <1>4, GetOrCreateRoomSteps DEF GetOrCreateRoom
    <2>2. j.todo = old
      BY <1>0, <1>2 DEF Job
    <2>3. PICK k : k = j
      OBVIOUS
    <2> HIDE DEF j
    <2>4. AllRevealed(k.todo)'
      BY <1>3, <2>2, <2>3 DEF AllRevealed
    <2> QED BY <2>1, <2>3, <2>4, RevealedMoves, ErrorReveals DEF Told
  <1>5. CASE Join(c)
    <2>1. CASE Steps(c, "read", NoJob, sid[c]) /\ SendError(c)
      BY <1>0, <2>1, RevealedMoves, ErrorReveals DEF Told
    <2>2. CASE /\ UNCHANGED <<buf, done>>
               /\ \E m \in Message : \E j :
                    /\ Carried(m) = {}
                    /\ Steps(c, "register", j, job[c].event.session)
                    /\ j.todo = <<m>> /\ j.room = job[c].room
      <3>1. PICK m \in Message :
              /\ Carried(m) = {}
              /\ \E j : /\ Steps(c, "register", j, job[c].event.session)
                       /\ j.todo = <<m>>
        BY <2>2
      <3>2. PICK j : Steps(c, "register", j, job[c].event.session) /\ j.todo = <<m>>
        BY <3>1
      <3>3. \A k \in DOMAIN j.todo : Carried(j.todo[k]) = {}
        BY <3>1, <3>2
      <3>4. AllRevealed(j.todo)'
        BY <3>3, NothingTold
      <3> QED BY <2>2, <3>2, <3>4, RevealedMoves, ErrorReveals DEF Told
    <2> QED BY <1>5, <2>1, <2>2, JoinSteps
  <1>6. CASE RegisterClient(c)
    <2>1. Steps(c, "state", job[c], sid[c]) /\ UNCHANGED <<buf, done>>
      BY <1>6, RegisterClientSteps DEF RegisterClient
    <2>2. PICK j : j = job[c] /\ j.todo = old
      BY <1>2
    <2>3. AllRevealed(j.todo)'
      BY <1>3, <2>2
    <2> QED BY <2>1, <2>2, <2>3, RevealedMoves, ErrorReveals DEF Told
  <1>7. CASE BuildRoomState(c)
    <2> DEFINE i == job[c].room
               state == RoomState(heap[i], now, <<i, round[i]>>)
    <2>1. /\ i \in RoomId /\ Len(job[c].todo) = 1
          /\ state \in Message /\ state.ballot = <<i, round[i]>>
          /\ Carried(state) # {} => heap[i].phase = "reveal"
          /\ \E j : /\ Steps(c, "welcome", j, sid[c])
                    /\ j.todo = <<state>> \o job[c].todo
      BY <1>7, BuildRoomStateSteps
    <2> HIDE DEF i, state
    <2>2. PICK m \in Message : m = state
      BY <2>1
    <2>3. PICK j : Steps(c, "welcome", j, sid[c]) /\ j.todo = <<m>> \o old
      BY <1>2, <2>1, <2>2
    <2>4. Revealed(m)
      BY <2>1, <2>2 DEF Revealed
    <2>5. Revealed(m)'
      BY <2>4, RevealedStays
    <2>6. /\ DOMAIN j.todo = {1, 2}
          /\ j.todo[1] = m /\ j.todo[2] = old[1] /\ 1 \in DOMAIN old
      BY <1>2, <2>1, <2>3, TwoMessages
    <2>7. AllRevealed(j.todo)'
      BY <1>3, <2>5, <2>6 DEF AllRevealed
    <2>8. UNCHANGED <<buf, done>>
      BY <1>7 DEF BuildRoomState
    <2> QED BY <2>3, <2>7, <2>8, RevealedMoves, ErrorReveals DEF Told
  <1>8. CASE Welcome(c)
    <2> DEFINE n == Reread(RoomOf(c), job[c].todo[2])
    <2>1. /\ DOMAIN old = {1, 2} /\ old[1] \in Message
          /\ n \in Message /\ (Carried(n) # {} => n = old[2])
          /\ Send(c, old[1])
          /\ \E j : Steps(c, "snapshot", j, sid[c]) /\ j.todo = <<n>>
      BY <1>2, <1>8, WelcomeSteps
    <2>2. PICK m \in Message : m = n
      BY <2>1
    <2>3. PICK j : Steps(c, "snapshot", j, sid[c]) /\ j.todo = <<m>>
      BY <2>1, <2>2
    <2>4. Carried(m) # {} => m = old[2]
      BY <2>1, <2>2
    <2>5. Revealed(old[1])' /\ Revealed(old[2])'
      BY <1>3, <2>1 DEF AllRevealed
    <2>6. Revealed(m)'
      BY <2>4, <2>5 DEF Revealed
    <2>7. AllRevealed(j.todo)'
      <3>1. \A k \in DOMAIN j.todo : j.todo[k] = m
        BY <2>3
      <3> QED BY <2>6, <3>1 DEF AllRevealed
    <2>8. PICK first \in Message : first = old[1]
      BY <2>1
    <2>9. Revealed(first)' /\ Send(c, first)
      BY <2>1, <2>5, <2>8
    <2> QED BY <2>3, <2>7, <2>9, RevealedMoves, RevealedSent DEF Told
  <1> QED BY <1>4, <1>5, <1>6, <1>7, <1>8

\* What a broadcast still has to send is some of what it had.
LEMMA LessTold ==
  ASSUME TypeInv, BallotsGoOn, Told, NEW c \in Conn, NEW msgs,
         \A k \in DOMAIN msgs : \E n \in DOMAIN job[c].todo : msgs[k] = job[c].todo[n]
  PROVE  AllRevealed(msgs)'
PROOF
  <1>1. job[c].todo \in Seq(Message) /\ AllRevealed(job[c].todo)
    BY OfConn DEF Told, Job
  <1>2. PICK old \in Seq(Message) : old = job[c].todo
    BY <1>1
  <1>3. AllRevealed(old)'
    BY <1>1, <1>2, AllRevealedStays
  <1>4. \A k \in DOMAIN msgs : \E n \in DOMAIN old : msgs[k] = old[n]
    BY <1>2
  <1> QED BY <1>3, <1>4 DEF AllRevealed

\* The handlers announce cards of revealed ballots only, and a broadcast sends
\* what was prepared, whatever happens to the room in between.
LEMMA HandlingTold ==
  ASSUME TypeInv, BallotsGoOn, Told, NEW c \in Conn,
         \/ HandlerStep(c) \/ Forget(c) \/ Snapshot(c)
         \/ \E d \in Conn : SendOne(c, d)
  PROVE  Told'
PROOF
  <1>0. AllRevealed(NoJob.todo)'
    BY DEF AllRevealed, NoJob
  <1>1. CASE HandlerStep(c)
    <2>1. CASE /\ SendError(c) \/ UNCHANGED <<buf, done>>
               /\ Steps(c, "read", NoJob, sid[c])
      BY <1>0, <2>1, RevealedMoves, ErrorReveals DEF Told
    <2>2. CASE /\ UNCHANGED <<buf, done>>
               /\ \E j : /\ Steps(c, "snapshot", j, sid[c])
                         /\ CardsRevealed(j.todo, job[c].room)
      <3>1. PICK j : Steps(c, "snapshot", j, sid[c]) /\ CardsRevealed(j.todo, job[c].room)
        BY <2>2
      <3>2. AllRevealed(j.todo)'
        BY <3>1 DEF CardsRevealed, AllRevealed, Revealed
      <3> QED BY <2>2, <3>1, <3>2, RevealedMoves, ErrorReveals DEF Told
    <2> QED BY <1>1, <2>1, <2>2, HandlerSteps
  <1>2. CASE Forget(c)
    <2>1. Steps(c, "read", NoJob, "") /\ UNCHANGED <<buf, done>>
      BY <1>2, ForgetSteps DEF Forget
    <2> QED BY <1>0, <2>1, RevealedMoves, ErrorReveals DEF Told
  <1>3. ASSUME NEW rest \in SUBSET Conn, Proceed(c, rest),
               pc[c] \in {"snapshot", "send"}, UNCHANGED sid
        PROVE  \A d \in Conn : AllRevealed(job[d].todo)'
    <2>1. PICK p \in {"read", "handle", "forget", "bye", "snapshot", "send"} :
            \E j : ProceedsTo(c, p, j)
      BY <1>3, ProceedSteps
    <2>2. PICK j : ProceedsTo(c, p, j)
      BY <2>1
    <2>3. AllRevealed(j.todo)'
      BY <2>2, LessTold DEF ProceedsTo
    <2> QED BY <2>2, <2>3, RevealedMoves DEF ProceedsTo, Told
  <1>4. CASE Snapshot(c)
    <2>1. /\ pc[c] = "snapshot" /\ UNCHANGED <<sid, buf, done>>
          /\ Proceed(c, clients \ job[c].skip)
      BY <1>4 DEF Snapshot
    <2>2. clients \ job[c].skip \in SUBSET Conn
      BY DEF TypeInv, RestOK
    <2> QED BY <1>3, <2>1, <2>2, ErrorReveals DEF Told
  <1>5. ASSUME NEW d \in Conn, SendOne(c, d) PROVE Told'
    <2>1. /\ pc[c] = "send" /\ Proceed(c, job[c].rest \ {d})
          /\ Send(d, Head(job[c].todo)) /\ UNCHANGED sid
      BY <1>5 DEF SendOne
    <2>2. job[c] \in Job /\ job[c].todo # <<>>
      BY <2>1, OfConn DEF PlaceOK
    <2>3. job[c].rest \ {d} \in SUBSET Conn /\ job[c].todo \in Seq(Message)
      BY <2>2 DEF Job
    <2>4. /\ Head(job[c].todo) = job[c].todo[1] /\ job[c].todo[1] \in Message
          /\ 1 \in DOMAIN job[c].todo
      BY <2>2, <2>3, SeqFacts
    <2>5. PICK m \in Message : m = job[c].todo[1]
      BY <2>4
    <2>6. Revealed(m)
      BY <2>4, <2>5 DEF Told, AllRevealed
    <2>7. Revealed(m)' /\ Send(d, m)
      BY <2>1, <2>4, <2>5, <2>6, RevealedStays
    <2>8. \A e \in Conn : AllRevealed(buf[e])'
      BY <2>7, RevealedSent DEF Told
    <2> QED BY <1>3, <2>1, <2>3, <2>8 DEF Told
  <1> QED BY <1>1, <1>2, <1>4, <1>5

\* The end of a connection tells no cards; delivered is what was sent.
LEMMA EndingTold ==
  ASSUME TypeInv, BallotsGoOn, Told, NEW c \in Conn,
         \/ ReadFails(c) \/ RateLimited(c) \/ MarkDisconnected(c) \/ Bye(c)
         \/ PumpStops(c) \/ Deliver(c)
  PROVE  Told'
PROOF
  <1>0. AllRevealed(NoJob.todo)' /\ buf \in [Conn -> Seq(Message)]
    <2>1. AllRevealed(NoJob.todo)'
      BY DEF AllRevealed, NoJob
    <2> QED BY <2>1 DEF TypeInv, BuffersOK
  <1>1. ASSUME UNCHANGED job PROVE \A d \in Conn : AllRevealed(job[d].todo)'
    BY <1>1, UnchangedRevealed DEF Told
  <1>2. ASSUME NEW msgs, buf' = [buf EXCEPT ![c] = msgs],
               \A k \in DOMAIN msgs : \/ Carried(msgs[k]) = {}
                                      \/ \E n \in DOMAIN buf[c] : msgs[k] = buf[c][n]
        PROVE  \A d \in Conn : AllRevealed(buf[d])'
    <2>1. PICK old \in Seq(Message) : old = buf[c]
      BY <1>0
    <2>2. AllRevealed(old)'
      BY <2>1, AllRevealedStays DEF Told
    <2>3. \A k \in DOMAIN msgs : \/ Carried(msgs[k]) = {}
                                 \/ \E n \in DOMAIN old : msgs[k] = old[n]
      BY <1>2, <2>1
    <2>4. AllRevealed(msgs)'
      BY <2>2, <2>3 DEF AllRevealed, Revealed
    <2>5. buf'[c] = msgs /\ \A d \in Conn \ {c} : buf'[d] = buf[d]
      BY <1>0, <1>2
    <2>6. AllRevealed(buf[c])'
      BY <2>4, <2>5 DEF AllRevealed
    <2> QED BY <2>5, <2>6, UnchangedRevealed DEF Told
  <1>3. CASE ReadFails(c) \/ RateLimited(c)
    <2>1. pc[c] = "read" /\ CleanUp(c)
      BY <1>3 DEF ReadFails, RateLimited
    <2>2. \A d \in Conn : AllRevealed(job[d].todo)'
      <3>1. CASE Steps(c, "bye", NoJob, sid[c])
        BY <1>0, <3>1, RevealedMoves DEF Told
      <3>2. CASE \E j : Steps(c, "mark", j, sid[c]) /\ j.todo = <<>>
        <4>1. PICK j : Steps(c, "mark", j, sid[c]) /\ j.todo = <<>>
          BY <3>2
        <4>2. AllRevealed(j.todo)'
          BY <4>1 DEF AllRevealed
        <4> QED BY <4>1, <4>2, RevealedMoves DEF Told
      <3> QED BY <2>1, <3>1, <3>2, CleanUpSteps
    <2>3. \A d \in Conn : AllRevealed(buf[d])'
      <3>1. CASE UNCHANGED buf
        BY <3>1, UnchangedRevealed DEF Told
      <3>2. CASE buf' = [buf EXCEPT ![c] = Append(@, Plain("error"))]
        <4>1. Plain("error") \in Message /\ Carried(Plain("error")) = {}
          BY PlainOK
        <4>2. PICK m \in Message : m = Plain("error") /\ Carried(m) = {}
          BY <4>1
        <4>3. buf[c] \in Seq(Message) /\ buf' = [buf EXCEPT ![c] = Append(buf[c], m)]
          BY <1>0, <3>2, <4>2
        <4>4. \A k \in DOMAIN Append(buf[c], m) :
                \/ k \in DOMAIN buf[c] /\ Append(buf[c], m)[k] = buf[c][k]
                \/ Append(buf[c], m)[k] = m
          BY <4>3
        <4>5. \A k \in DOMAIN Append(buf[c], m) :
                \/ Carried(Append(buf[c], m)[k]) = {}
                \/ \E n \in DOMAIN buf[c] : Append(buf[c], m)[k] = buf[c][n]
          BY <4>2, <4>4
        <4> HIDE DEF Told
        <4> QED BY <1>2, <4>3, <4>5
      <3> QED BY <1>3, <3>1, <3>2 DEF ReadFails, RateLimited
    <2> QED BY <2>2, <2>3 DEF Told
  <1>4. CASE MarkDisconnected(c)
    <2> DEFINE n == Presence(sid[c], "disconnected")
    <2>1. /\ n \in Message /\ Carried(n) = {}
          /\ \E j : Steps(c, "snapshot", j, sid[c]) /\ j.todo = <<n>>
      BY <1>4, MarkDisconnectedSteps
    <2>2. PICK m \in Message : m = n
      BY <2>1
    <2>3. PICK j : Steps(c, "snapshot", j, sid[c]) /\ j.todo = <<m>>
      BY <2>1, <2>2
    <2>4. \A k \in DOMAIN j.todo : Carried(j.todo[k]) = {}
      BY <2>1, <2>2, <2>3
    <2>5. AllRevealed(j.todo)'
      BY <2>4, NothingTold
    <2>6. UNCHANGED <<buf, done>>
      BY <1>4 DEF MarkDisconnected
    <2> QED BY <2>3, <2>5, <2>6, RevealedMoves, ErrorReveals DEF Told
  <1>5. ASSUME StopPump(c) PROVE \A d \in Conn : AllRevealed(buf[d])'
    <2>1. buf' = [buf EXCEPT ![c] = <<>>]
      BY <1>5 DEF StopPump
    <2>2. \A k \in DOMAIN <<>> : \/ Carried(<<>>[k]) = {}
                                \/ \E n \in DOMAIN buf[c] : <<>>[k] = buf[c][n]
      OBVIOUS
    <2> QED BY <1>2, <2>1, <2>2, Zenon
  <1>6. CASE Bye(c)
    <2>1. StopPump(c)
      BY <1>6 DEF Bye
    <2> QED BY <1>0, <1>5, <1>6, <2>1, ByeSteps, RevealedMoves DEF Told
  <1>7. CASE PumpStops(c)
    BY <1>1, <1>5, <1>7 DEF PumpStops, Told
  <1>8. CASE Deliver(c)
    <2>1. UNCHANGED job /\ buf[c] # <<>> /\ buf' = [buf EXCEPT ![c] = Tail(buf[c])]
      BY <1>8 DEF Deliver
    <2>2. buf[c] \in Seq(Message)
      BY <1>0
    <2>3. \A k \in DOMAIN Tail(buf[c]) :
            k + 1 \in DOMAIN buf[c] /\ Tail(buf[c])[k] = buf[c][k + 1]
      BY <2>1, <2>2
    <2>4. PICK msgs : msgs = Tail(buf[c])
      OBVIOUS
    <2>5. \A k \in DOMAIN msgs : \/ Carried(msgs[k]) = {}
                                 \/ \E n \in DOMAIN buf[c] : msgs[k] = buf[c][n]
      BY <2>3, <2>4
    <2>6. buf' = [buf EXCEPT ![c] = msgs]
      BY <2>1, <2>4
    <2>7. \A d \in Conn : AllRevealed(buf[d])'
      BY <1>2, <2>5, <2>6, Zenon
    <2> QED BY <1>1, <2>1, <2>7 DEF Told
  <1> QED BY <1>3, <1>4, <1>6, <1>7, <1>8

\* No step puts a card of a ballot in progress under way.
LEMMA SecretInvStep == TypeInv /\ SecretInv /\ [Next]_vars => SecretInv'
PROOF
  <1> SUFFICES ASSUME TypeInv, SecretInv, [Next]_vars PROVE SecretInv'
    OBVIOUS
  <1>0. SecretInv <=> Told /\ Unmade
    BY DEF SecretInv, Told, Unmade
  <1>1. SecretInv' <=> Told' /\ Unmade'
    BY DEF SecretInv, Told, Unmade
  <1>2. ASSUME NEW c \in Conn, StepOf(c) PROVE Told' /\ Unmade'
    <2>1. BallotsGoOn /\ Unmade'
      BY <1>0, <1>2, BallotsStep
    <2> QED BY <1>0, <1>2, <2>1, ArrivalsTold, JoiningTold, HandlingTold, EndingTold
            DEF StepOf
  <1>3. ASSUME CollectCandidates \/ DeleteCandidates \/ Tick \/ UNCHANGED vars
        PROVE  Told' /\ Unmade'
    <2>1. UNCHANGED <<heap, made, round, job, buf>>
      BY <1>3 DEF CollectCandidates, DeleteCandidates, Tick, vars, manager, conns
    <2>2. BallotsGoOn
      BY <2>1 DEF BallotsGoOn
    <2>3. Told'
      BY <1>0, <2>1, <2>2, UnchangedRevealed DEF Told
    <2> QED BY <1>0, <2>1, <2>3 DEF Unmade
  <1>4. Told' /\ Unmade'
    BY <1>2, <1>3, NextSteps
  <1> QED BY <1>1, <1>4

\* What VotesStaySecret needs: no prepared or queued message shows a card of a
\* ballot in progress (room_manager.go:267), and unmade rooms have no revealed one.
THEOREM SecretInvInvariant == Spec => []SecretInv
PROOF
  <1>1. Init => SecretInv
    <2> SUFFICES ASSUME Init PROVE SecretInv
      OBVIOUS
    <2>1. \A c \in Conn : buf[c] = <<>> /\ job[c].todo = <<>>
      BY DEF Init, NoJob
    <2>2. \A c \in Conn : AllRevealed(buf[c]) /\ AllRevealed(job[c].todo)
      BY <2>1 DEF AllRevealed
    <2>3. \A i \in RoomId : heap[i].phase = "voting"
      BY NewRoomPresent DEF Init
    <2> QED BY <2>2, <2>3 DEF SecretInv
  <1>2. TypeInv /\ SecretInv /\ [Next]_vars => SecretInv'
    BY SecretInvStep
  <1> QED BY <1>1, <1>2, TypeInvInvariant, PTL DEF Spec

\* No message under way, prepared by a handler or waiting in a buffer, shows a
\* card of a ballot in progress, although the handlers read the cards under the
\* room's lock and send them after it (ws.go:246-250, room_manager.go:267).
THEOREM Secrecy == Spec => []VotesStaySecret
PROOF
  <1>1. TypeInv /\ SecretInv => VotesStaySecret
    <2> SUFFICES ASSUME TypeInv, SecretInv, NEW i \in RoomId, heap[i].phase = "voting",
                        NEW m \in Mail, Carried(m) # {}, m.ballot[1] = i
                 PROVE  m.ballot[2] < round[i]
      BY DEF VotesStaySecret
    <2>1. Revealed(m)
      BY DEF Mail, SecretInv, AllRevealed
    <2> QED BY <2>1 DEF Revealed
  <1> QED BY <1>1, TypeInvInvariant, SecretInvInvariant, PTL

(***************************************************************************)
(* Who is shown as present has a connection.                               *)
(***************************************************************************)
\* What a step owes to the table: the sessions that become phantoms by it are
\* deserted by it.
OnlyDeserted == \A s \in Phantoms' \ Phantoms : Deserted(s)

\* Who is a phantom.
LEMMA PhantomsAre ==
  Phantoms = {s \in IF current = NoRoom THEN {} ELSE Present(heap[current]) :
                \A c \in Conn : ~StandsFor(c, s)}
  BY DEF Phantoms, Present

\* Whoever c stood for and is still present, c stands for, or another does.
LEMMA PresenceKept ==
  ASSUME TypeInv, NEW c \in Conn, NEW p, NEW j, NEW me,
         Steps(c, p, j, me), UNCHANGED current,
         current # NoRoom => \A s \in Present(heap'[current]) :
           \/ StandsFor(c, s)' \/ Deserted(s)
           \/ s \in Present(heap[current]) /\ (StandsFor(c, s) => StandsFor(c, s)')
  PROVE  OnlyDeserted
PROOF
  <1>1. \A d \in Conn \ {c} : pc'[d] = pc[d] /\ job'[d] = job[d] /\ sid'[d] = sid[d]
    BY DEF Steps, Moves, TypeInv, ConnsOK
  <1>2. \A d \in Conn \ {c} : \A s : StandsFor(d, s) => StandsFor(d, s)'
    BY <1>1 DEF StandsFor
  <1> SUFFICES ASSUME NEW s \in Phantoms', s \notin Phantoms
               PROVE  Deserted(s)
    BY DEF OnlyDeserted
  <1>3. /\ current # NoRoom /\ s \in Present(heap'[current])
        /\ \A d \in Conn : ~StandsFor(d, s)'
    BY DEF Phantoms, Present
  <1>4. CASE /\ s \in Present(heap[current])
             /\ StandsFor(c, s) => StandsFor(c, s)'
    <2>1. PICK d \in Conn : StandsFor(d, s)
      BY <1>3, <1>4 DEF Phantoms, Present
    <2>2. CASE d = c
      BY <1>3, <1>4, <2>1, <2>2
    <2>3. CASE d # c
      BY <1>2, <1>3, <2>1, <2>3
    <2> QED BY <2>2, <2>3
  <1> QED BY <1>3, <1>4

\* A step that moves nobody and changes no room.
LEMMA NobodyLeaves ==
  ASSUME UNCHANGED <<heap, current, pc, job, sid>>
  PROVE  OnlyDeserted
PROOF
  <1>1. \A s : \A c \in Conn : StandsFor(c, s)' <=> StandsFor(c, s)
    BY DEF StandsFor
  <1>2. Phantoms' = Phantoms
    BY <1>1 DEF Phantoms
  <1> QED BY <1>2 DEF OnlyDeserted

\* A table nobody sits at.
LEMMA NobodyAtAll ==
  ASSUME current' = NoRoom \/ Present(heap[current])' = {}
  PROVE  OnlyDeserted
PROOF
  <1>1. Phantoms' = {}
    BY DEF Phantoms, Present
  <1> QED BY <1>1 DEF OnlyDeserted

\* Where c is after its step.
LEMMA MovedTo ==
  ASSUME TypeInv, NEW c \in Conn, NEW p, NEW j, NEW me, Steps(c, p, j, me)
  PROVE  pc'[c] = p /\ job'[c] = j /\ sid'[c] = me
  BY DEF Steps, Moves, TypeInv, ConnsOK

\* A present session is one, and has a room that exists.
LEMMA PresentSession ==
  ASSUME TypeInv, current # NoRoom, NEW s \in Present(heap[current])
  PROVE  s \in Session /\ s # ""
PROOF
  <1>1. IsRoom(heap[current])
    BY CurrentOK
  <1>2. s \in Session
    BY <1>1 DEF Present, IsRoom
  <1> QED BY <1>2, HubAssumption

\* An end that is none: c stays the one it was, at a place of the living.
LEMMA StaysPresent ==
  ASSUME TypeInv, NEW c \in Conn, NEW p, NEW j,
         Steps(c, p, j, sid[c]), UNCHANGED <<heap, current>>,
         p \notin {"new", "forget", "bye", "gone"},
         p \in {"snapshot", "send"} => j.next \notin {"forget", "bye"},
         p = "mark" \/ (p = "handle" /\ j.event.kind = "leave") => j.room = current
  PROVE  OnlyDeserted
PROOF
  <1>1. \A s : StandsFor(c, s) => StandsFor(c, s)'
    BY MovedTo DEF StandsFor
  <1> QED BY <1>1, PresenceKept

\* Receiving an event.
LEMMA ArrivalsPresence ==
  ASSUME TypeInv, NEW c \in Conn,
         \/ Connect(c) \/ ReceiveGarbage(c)
         \/ \E q \in Request : ReceiveJoin(c, q) \/ Receive(c, q)
  PROVE  OnlyDeserted
PROOF
  <1>0. UNCHANGED <<heap, current>>
    BY DEF Connect, ReceiveGarbage, ReceiveJoin, Receive, Read, manager
  <1>1. CASE Connect(c)
    BY <1>0, <1>1, ConnectSteps, StaysPresent
  <1>2. CASE ReceiveGarbage(c)
    <2>1. UNCHANGED <<pc, job, sid>>
      BY <1>2 DEF ReceiveGarbage, Read
    <2> QED BY <1>0, <2>1, NobodyLeaves
  <1>3. ASSUME NEW q \in Request, ReceiveJoin(c, q) PROVE OnlyDeserted
    <2>1. CASE UNCHANGED <<pc, job, sid>>
      BY <1>0, <2>1, NobodyLeaves
    <2>2. CASE Steps(c, "create", [NoJob EXCEPT !.event = q], sid[c])
      <3> DEFINE j == [NoJob EXCEPT !.event = q]
      <3>1. Steps(c, "create", j, sid[c])
        BY <2>2
      <3> HIDE DEF j
      <3> QED BY <1>0, <3>1, StaysPresent
    <2> QED BY <1>3, <2>1, <2>2, ReceiveJoinSteps
  <1>4. ASSUME NEW q \in Request, Receive(c, q) PROVE OnlyDeserted
    <2>1. CASE UNCHANGED <<pc, job, sid>>
      BY <1>0, <2>1, NobodyLeaves
    <2>2. ASSUME NEW j, Steps(c, "snapshot", j, sid[c]), j.next = "handle"
          PROVE  OnlyDeserted
      BY <1>0, <2>2, StaysPresent
    <2>3. ASSUME NEW j, Steps(c, "handle", j, sid[c]), j.room = current
          PROVE  OnlyDeserted
      BY <1>0, <2>3, StaysPresent
    <2>4. /\ [NoJob EXCEPT !.event = q, !.room = current,
                           !.todo = <<Plain("room_cleared")>>,
                           !.next = "handle"].next = "handle"
          /\ [NoJob EXCEPT !.event = q, !.room = current].room = current
      BY DEF NoJob
    <2> QED BY <1>4, <2>1, <2>2, <2>3, <2>4, ReceiveSteps
  <1> QED BY <1>1, <1>2, <1>3, <1>4

\* Joining: from the step that makes the session present on, c stands for it.
LEMMA JoiningPresence ==
  ASSUME TypeInv, NEW c \in Conn,
         \/ GetOrCreateRoom(c) \/ Join(c) \/ RegisterClient(c)
         \/ BuildRoomState(c) \/ Welcome(c)
  PROVE  OnlyDeserted
PROOF
  <1>1. CASE GetOrCreateRoom(c)
    <2> DEFINE j == [job[c] EXCEPT !.room = current']
    <2>1. Steps(c, "join", j, sid[c])
      BY <1>1, GetOrCreateRoomSteps
    <2>2. CASE UNCHANGED <<heap, made, current, clients>>
      <3> HIDE DEF j
      <3> QED BY <2>1, <2>2, StaysPresent
    <2>3. CASE /\ current' = made' /\ made' \in RoomId
               /\ heap' = [heap EXCEPT ![made'] = NewRoom(now)]
      <3>1. heap'[current'] = NewRoom(now)
        BY <2>3 DEF TypeInv, RoomsOK
      <3>2. Present(heap[current])' = {}
        BY <3>1, NewRoomPresent
      <3> QED BY <3>2, NobodyAtAll
    <2> QED BY <1>1, <2>2, <2>3, GetOrCreateRoomSteps
  <1>2. CASE Join(c)
    <2>1. pc[c] = "join" /\ UNCHANGED current
      BY <1>2, ManagerKept DEF Join, manager
    <2>2. CASE Steps(c, "read", NoJob, sid[c]) /\ UNCHANGED heap
      BY <2>1, <2>2, StaysPresent
    <2>3. CASE /\ Becomes(c, AfterJoin(RoomOf(c), job[c].event.session,
                             job[c].event.name, job[c].event.role, now))
               /\ \E j : Steps(c, "register", j, job[c].event.session)
      <3>0. PICK me : me = job[c].event.session
        OBVIOUS
      <3> DEFINE r == AfterJoin(RoomOf(c), me, job[c].event.name,
                                job[c].event.role, now)
      <3>1. PICK j : Steps(c, "register", j, me)
        BY <2>3, <3>0
      <3>2. job[c].room \in RoomId /\ IsRoom(RoomOf(c)) /\ me # ""
        BY <2>1, <3>1, HasRoom DEF Steps, PlaceOK
      <3>3. Present(r) = Present(RoomOf(c)) \cup {me}
        <4>1. IsRoom(RoomOf(c))
          BY <3>2
        <4>2. \A raw, role, t :
                Present(AfterJoin(RoomOf(c), me, raw, role, t))
                  = Present(RoomOf(c)) \cup {me}
          BY <4>1, JoinPresent
        <4> QED BY <4>2
      <3>4. heap' = [heap EXCEPT ![job[c].room] = r]
        BY <2>3, <3>0 DEF Becomes
      <3> HIDE DEF r
      <3>5. /\ heap'[job[c].room] = r
            /\ \A k \in RoomId \ {job[c].room} : heap'[k] = heap[k]
        BY <3>2, <3>4 DEF TypeInv, RoomsOK
      <3>6. StandsFor(c, me)'
        BY <3>1, MovedTo DEF StandsFor
      <3>7. ASSUME current # NoRoom, NEW s \in Present(heap'[current])
            PROVE  \/ StandsFor(c, s)' \/ Deserted(s)
                   \/ s \in Present(heap[current]) /\ (StandsFor(c, s) => StandsFor(c, s)')
        <4>1. current \in RoomId
          BY <3>7, CurrentOK
        <4>2. CASE s = me
          BY <3>6, <4>2
        <4>3. CASE s # me
          <5>1. s \in Present(heap[current])
            BY <3>3, <3>5, <3>7, <4>1, <4>3 DEF RoomOf
          <5>2. CASE sid[c] = s
            BY <3>1, <3>2, <4>3, <5>2, MovedTo DEF Deserted
          <5>3. CASE sid[c] # s
            BY <5>1, <5>3 DEF StandsFor
          <5> QED BY <5>2, <5>3
        <4> QED BY <4>2, <4>3
      <3> QED BY <2>1, <3>1, <3>7, PresenceKept
    <2> QED BY <1>2, <2>2, <2>3, JoinSteps
  <1>3. CASE RegisterClient(c)
    <2>1. Steps(c, "state", job[c], sid[c]) /\ UNCHANGED <<heap, current>>
      BY <1>3, RegisterClientSteps DEF RegisterClient
    <2>2. PICK j : j = job[c]
      OBVIOUS
    <2> QED BY <2>1, <2>2, StaysPresent
  <1>4. CASE BuildRoomState(c)
    <2> DEFINE i == job[c].room
    <2>1. /\ pc[c] = "state" /\ i \in RoomId /\ UNCHANGED current
          /\ heap' = [heap EXCEPT ![i] = AfterTimerInfo(heap[i], now)]
          /\ \E j : Steps(c, "welcome", j, sid[c])
      BY <1>4, BuildRoomStateSteps DEF BuildRoomState, manager
    <2>2. PICK j : Steps(c, "welcome", j, sid[c])
      BY <2>1
    <2>3. \A k \in RoomId : Present(heap'[k]) = Present(heap[k])
      <3>1. IsRoom(heap[i])
        BY <2>1 DEF TypeInv, RoomsOK
      <3>2. heap'[i] = AfterTimerInfo(heap[i], now)
            /\ \A k \in RoomId \ {i} : heap'[k] = heap[k]
        BY <2>1 DEF TypeInv, RoomsOK
      <3> QED BY <3>1, <3>2, TimerPresent
    <2>4. current # NoRoom => Present(heap'[current]) = Present(heap[current])
      BY <2>3, CurrentOK
    <2>5. \A s : StandsFor(c, s) => StandsFor(c, s)'
      BY <2>2, MovedTo DEF StandsFor
    <2> QED BY <2>1, <2>2, <2>4, <2>5, PresenceKept
  <1>5. CASE Welcome(c)
    <2>1. UNCHANGED <<heap, current>>
      BY <1>5 DEF Welcome, manager
    <2>2. PICK j : Steps(c, "snapshot", j, sid[c]) /\ j.next = "read"
      BY <1>5, WelcomeSteps
    <2> QED BY <2>1, <2>2, StaysPresent
  <1> QED BY <1>1, <1>2, <1>3, <1>4, <1>5

\* A handler removes its own session or brings it back, and stands for it
\* except in the room it is leaving.
LEMMA HandlingPresence ==
  ASSUME TypeInv, NEW c \in Conn,
         \/ HandlerStep(c) \/ Forget(c) \/ Snapshot(c)
         \/ \E d \in Conn : SendOne(c, d)
  PROVE  OnlyDeserted
PROOF
  <1>0. UNCHANGED current
    BY DEF HandlerStep, Forget, Snapshot, SendOne, manager
  <1>1. CASE HandlerStep(c)
    <2> DEFINE i == job[c].room
    <2>1. pc[c] = "handle" /\ \A k \in RoomId \ {i} : heap'[k] = heap[k]
      BY <1>1 DEF HandlerStep
    <2>2. CASE job[c].event.kind = "leave"
      <3>1. Present(heap'[i]) \subseteq Present(heap[i]) \ {sid[c]}
        BY <1>1, <2>2 DEF HandlerStep, RoomOf
      <3>2. PICK j : Steps(c, "snapshot", j, sid[c])
        BY <1>1, <2>2, HandlerSteps
      <3>3. ASSUME current # NoRoom, NEW s \in Present(heap'[current])
            PROVE  s \in Present(heap[current]) /\ ~StandsFor(c, s)
        <4>1. current \in RoomId
          BY <3>3, CurrentOK
        <4>2. CASE current = i
          BY <3>1, <3>3, <4>2 DEF StandsFor
        <4>3. CASE current # i
          BY <2>1, <2>2, <3>3, <4>1, <4>3 DEF StandsFor
        <4> QED BY <4>2, <4>3
      <3> QED BY <1>0, <3>2, <3>3, PresenceKept
    <2>3. CASE job[c].event.kind # "leave"
      <3>1. Present(heap'[i]) \subseteq Present(heap[i]) \cup {sid[c]}
        BY <1>1, <2>3 DEF HandlerStep, RoomOf
      <3>2. ASSUME NEW p \in {"snapshot", "read"}, NEW j, Steps(c, p, j, sid[c]),
                   p = "snapshot" => j.next = "read"
            PROVE  OnlyDeserted
        <4>1. StandsFor(c, sid[c])'
          BY <3>2, MovedTo DEF StandsFor
        <4>2. ASSUME current # NoRoom, NEW s \in Present(heap'[current])
              PROVE  \/ StandsFor(c, s)'
                     \/ s \in Present(heap[current]) /\ (StandsFor(c, s) => StandsFor(c, s)')
          <5>1. current \in RoomId
            BY <4>2, CurrentOK
          <5>2. CASE s = sid[c]
            <6>1. sid'[c] = s
              BY <3>2, <5>2, MovedTo
            <6> QED BY <3>2, <6>1, MovedTo DEF StandsFor
          <5>3. CASE s # sid[c]
            <6>1. s \in Present(heap[current])
              BY <2>1, <3>1, <4>2, <5>1, <5>3
            <6> QED BY <5>3, <6>1 DEF StandsFor
          <5> QED BY <5>2, <5>3
        <4> QED BY <1>0, <3>2, <4>2, PresenceKept
      <3> QED BY <1>1, <2>3, <3>2, HandlerSteps
    <2> QED BY <2>2, <2>3
  <1>2. ASSUME pc[c] = "forget" \/ (/\ pc[c] \in {"snapshot", "send"}
                                    /\ job[c].next \in {"forget", "bye"}),
               UNCHANGED heap, NEW p, NEW j, NEW me, Steps(c, p, j, me)
        PROVE  OnlyDeserted
    <2>1. \A s : ~StandsFor(c, s)
      BY <1>2 DEF StandsFor
    <2> QED BY <1>0, <1>2, <2>1, PresenceKept
  <1>3. CASE Forget(c)
    <2>1. pc[c] = "forget" /\ UNCHANGED heap
      BY <1>3 DEF Forget
    <2> QED BY <1>2, <1>3, <2>1, ForgetSteps
  <1>4. ASSUME NEW rest \in SUBSET Conn, Proceed(c, rest),
               pc[c] \in {"snapshot", "send"}, UNCHANGED <<heap, sid>>
        PROVE  OnlyDeserted
    <2>1. PICK p \in {"read", "handle", "forget", "bye", "snapshot", "send"} :
            \E j : ProceedsTo(c, p, j)
      BY <1>4, ProceedSteps
    <2>2. PICK j : ProceedsTo(c, p, j)
      BY <2>1
    <2>3. Steps(c, p, j, sid[c])
      BY <2>2 DEF ProceedsTo
    <2>4. CASE job[c].next \in {"forget", "bye"}
      BY <1>2, <1>4, <2>3, <2>4
    <2>5. CASE job[c].next \notin {"forget", "bye"}
      <3>1. p \notin {"forget", "bye"}
        BY <2>2, <2>5 DEF ProceedsTo
      <3>2. p \in {"snapshot", "send"} => j.next \notin {"forget", "bye"}
        BY <2>2, <2>5 DEF ProceedsTo
      <3>3. p = "handle" => j.event.kind # "leave"
        BY <2>2 DEF ProceedsTo
      <3> QED BY <1>0, <1>4, <2>1, <2>3, <3>1, <3>2, <3>3, StaysPresent
    <2> QED BY <2>4, <2>5
  <1>5. CASE Snapshot(c)
    <2>1. /\ pc[c] = "snapshot" /\ UNCHANGED <<heap, sid>>
          /\ Proceed(c, clients \ job[c].skip)
      BY <1>5 DEF Snapshot
    <2>2. clients \ job[c].skip \in SUBSET Conn
      BY DEF TypeInv, RestOK
    <2> QED BY <1>4, <2>1, <2>2
  <1>6. ASSUME NEW d \in Conn, SendOne(c, d) PROVE OnlyDeserted
    <2>1. /\ pc[c] = "send" /\ Proceed(c, job[c].rest \ {d})
          /\ UNCHANGED <<heap, sid>>
      BY <1>6 DEF SendOne
    <2>2. job[c] \in Job
      BY OfConn
    <2>3. job[c].rest \ {d} \in SUBSET Conn
      BY <2>2 DEF Job
    <2> QED BY <1>4, <2>1, <2>3
  <1> QED BY <1>1, <1>3, <1>5, <1>6

\* A connection that ends tells the room it stood in, if it stood in one.
LEMMA EndingPresence ==
  ASSUME TypeInv, NEW c \in Conn,
         \/ ReadFails(c) \/ RateLimited(c) \/ MarkDisconnected(c) \/ Bye(c)
         \/ PumpStops(c) \/ Deliver(c)
  PROVE  OnlyDeserted
PROOF
  <1>1. CASE ReadFails(c) \/ RateLimited(c)
    <2>1. pc[c] = "read" /\ CleanUp(c)
      BY <1>1 DEF ReadFails, RateLimited
    <2>2. UNCHANGED <<heap, current>>
      BY <2>1 DEF CleanUp, manager
    <2>3. CASE current = NoRoom
      BY <2>2, <2>3, NobodyAtAll
    <2>4. CASE sid[c] = "" /\ Steps(c, "bye", NoJob, sid[c])
      <3>1. current # NoRoom => \A s \in Present(heap[current]) : ~StandsFor(c, s)
        BY <2>4, PresentSession DEF StandsFor
      <3> QED BY <2>2, <2>4, <3>1, PresenceKept
    <2>5. CASE \E j : Steps(c, "mark", j, sid[c]) /\ j.room = current
      <3>1. PICK j : Steps(c, "mark", j, sid[c]) /\ j.room = current
        BY <2>5
      <3> QED BY <2>2, <3>1, StaysPresent
    <2> QED BY <2>1, <2>3, <2>4, <2>5, CleanUpSteps
  <1>2. CASE MarkDisconnected(c)
    <2> DEFINE i == job[c].room
    <2>1. /\ pc[c] = "mark" /\ i \in RoomId
          /\ heap' = [heap EXCEPT ![i] = AfterDisconnect(heap[i], sid[c])]
          /\ \E j : Steps(c, "snapshot", j, sid[c])
      BY <1>2, MarkDisconnectedSteps
    <2>2. PICK j : Steps(c, "snapshot", j, sid[c])
      BY <2>1
    <2>3. IsRoom(heap[i])
      BY <2>1 DEF TypeInv, RoomsOK
    <2>4. Present(AfterDisconnect(heap[i], sid[c])) = Present(heap[i]) \ {sid[c]}
      BY <2>3, DisconnectPresent
    <2>5. /\ heap'[i] = AfterDisconnect(heap[i], sid[c])
          /\ \A k \in RoomId \ {i} : heap'[k] = heap[k]
      BY <2>1 DEF TypeInv, RoomsOK
    <2>6. UNCHANGED current
      BY <1>2 DEF MarkDisconnected, manager
    <2>7. ASSUME current # NoRoom, NEW s \in Present(heap'[current])
          PROVE  s \in Present(heap[current]) /\ ~StandsFor(c, s)
      <3>1. current \in RoomId
        BY <2>7, CurrentOK
      <3>2. CASE current = i
        BY <2>4, <2>5, <2>7, <3>2 DEF StandsFor
      <3>3. CASE current # i
        BY <2>1, <2>5, <2>7, <3>1, <3>3 DEF StandsFor
      <3> QED BY <3>2, <3>3
    <2> QED BY <2>2, <2>6, <2>7, PresenceKept
  <1>3. CASE Bye(c)
    <2>1. pc[c] = "bye" /\ UNCHANGED <<heap, current>>
      BY <1>3 DEF Bye
    <2>2. \A s : ~StandsFor(c, s)
      BY <2>1 DEF StandsFor
    <2> QED BY <1>3, <2>1, <2>2, ByeSteps, PresenceKept
  <1>4. CASE PumpStops(c) \/ Deliver(c)
    <2>1. UNCHANGED <<heap, current, pc, job, sid>>
      BY <1>4 DEF PumpStops, Deliver, manager
    <2> QED BY <2>1, NobodyLeaves
  <1> QED BY <1>1, <1>2, <1>3, <1>4

\* No step leaves a present session without a connection but by desertion.
LEMMA OnlyDesertedSteps == TypeInv /\ [Next]_vars => OnlyDeserted
PROOF
  <1> SUFFICES ASSUME TypeInv, [Next]_vars PROVE OnlyDeserted
    OBVIOUS
  <1>1. ASSUME NEW c \in Conn, StepOf(c) PROVE OnlyDeserted
    BY <1>1, ArrivalsPresence, JoiningPresence, HandlingPresence, EndingPresence
    DEF StepOf
  <1>2. ASSUME CollectCandidates \/ DeleteCandidates \/ Tick \/ UNCHANGED vars
        PROVE  OnlyDeserted
    <2>1. UNCHANGED <<heap, pc, job, sid>> /\ (UNCHANGED current \/ current' = NoRoom)
      BY <1>2 DEF CollectCandidates, DeleteCandidates, Tick, vars, manager, conns
    <2>2. CASE current' = NoRoom
      BY <2>2, NobodyAtAll
    <2> QED BY <2>1, <2>2, NobodyLeaves
  <1> QED BY <1>1, <1>2, NextSteps

\* A session on the table as active or idle loses the last connection that
\* stands for it only to a join of that connection as another session
\* (SetSessionID, ws.go:242, overwrites it), although marking the participant
\* of a lost connection, looking up its room and leaving are separate critical
\* sections (ws.go:101-119, ws.go:609) and other tabs may be at any of them.
THEOREM DesertedHaunt == Spec => OnlyTheDesertedHaunt
PROOF
  <1>1. TypeInv /\ [Next]_vars => [\A s \in Phantoms' \ Phantoms : Deserted(s)]_vars
    BY OnlyDesertedSteps DEF OnlyDeserted
  <1> QED BY <1>1, TypeInvInvariant, PTL DEF Spec, OnlyTheDesertedHaunt

\* What the web client guarantees, whose session id is fixed, and the server
\* does not insist on: a connection that has a session joins as no other.
NobodySwitches ==
  \A c \in Conn : sid'[c] # sid[c] => sid[c] = "" \/ sid'[c] = ""

NoPhantoms == Phantoms = {}

\* So with clients that keep their session, as the web client does, whoever the
\* room shows as active or idle has a connection behind it, at every moment.
THEOREM NobodyHaunts == Spec /\ [][NobodySwitches]_vars => []NoPhantoms
PROOF
  <1>1. Init => NoPhantoms
    BY DEF Init, NoPhantoms, Phantoms
  <1>2. TypeInv => "" \notin Phantoms
    BY PresentSession DEF Phantoms, Present
  <1>3. ("" \notin Phantoms)' /\ NoPhantoms /\ OnlyDeserted /\ [NobodySwitches]_vars
        => NoPhantoms'
    <2> SUFFICES ASSUME "" \notin Phantoms', NoPhantoms, OnlyDeserted, [NobodySwitches]_vars,
                        NEW s \in Phantoms'
                 PROVE  FALSE
      BY DEF NoPhantoms
    <2>1. PICK c \in Conn : sid[c] = s /\ sid'[c] \notin {s, ""}
      BY DEF OnlyDeserted, Deserted, NoPhantoms
    <2>2. NobodySwitches
      BY <2>1 DEF vars, conns
    <2> QED BY <2>1, <2>2 DEF NobodySwitches
  <1>4. TypeInv /\ [Next]_vars => OnlyDeserted
    BY OnlyDesertedSteps
  <1> QED BY <1>1, <1>2, <1>3, <1>4, TypeInvInvariant, PTL DEF Spec

(***************************************************************************)
(* Who has joined is registered.                                           *)
(***************************************************************************)
\* Who is registered has a session and is not gone.
NoGhosts == \A c \in Conn : c \in clients => sid[c] # "" /\ pc[c] # "gone"

\* Who has a session is registered, except within a join and after the end.
NobodyDeaf ==
  \A c \in Conn :
    sid[c] # "" /\ pc[c] \notin {"register", "gone"} => c \in clients

\* A new room, whose set of clients is empty, takes the place of clients of
\* a room that was collected (room_manager.go:101).
Replaces == made' # made /\ clients # {}

\* What a step owes to the registration: the second part only if it replaces
\* nobody's room.
RegistrationGoesOn == NoGhosts' /\ (NobodyDeaf /\ ~Replaces => NobodyDeaf')

\* c moves on, and is registered at its next place exactly if it has a session.
LEMMA RegisteredNext ==
  ASSUME TypeInv, NoGhosts, NEW c \in Conn, NEW p, NEW j, NEW me,
         Steps(c, p, j, me),
         \A d \in Conn \ {c} : d \in clients' => d \in clients,
         ~Replaces => \A d \in Conn \ {c} : d \in clients => d \in clients',
         c \in clients' => me # "" /\ p # "gone",
         NobodyDeaf /\ ~Replaces /\ p \notin {"register", "gone"} /\ me # ""
           => c \in clients'
  PROVE  RegistrationGoesOn
PROOF
  <1>1. pc'[c] = p /\ sid'[c] = me
    BY MovedTo
  <1>2. \A d \in Conn \ {c} : pc'[d] = pc[d] /\ sid'[d] = sid[d]
    BY DEF Steps, Moves, TypeInv, ConnsOK
  <1>3. NoGhosts'
    BY <1>1, <1>2 DEF NoGhosts
  <1>4. NobodyDeaf /\ ~Replaces => NobodyDeaf'
    BY <1>1, <1>2 DEF NobodyDeaf
  <1> QED BY <1>3, <1>4 DEF RegistrationGoesOn

\* The same for a step that leaves the registration alone.
LEMMA RegisteredStays ==
  ASSUME TypeInv, NoGhosts, NEW c \in Conn, NEW p, NEW j,
         Steps(c, p, j, sid[c]), UNCHANGED clients,
         pc[c] \notin {"register", "gone"}, p \notin {"register", "gone"}
  PROVE  RegistrationGoesOn
PROOF
  <1>1. c \in clients => sid[c] # ""
    BY DEF NoGhosts
  <1>2. NobodyDeaf /\ sid[c] # "" => c \in clients
    BY DEF NobodyDeaf
  <1> QED BY <1>1, <1>2, RegisteredNext

\* A step that moves nobody and registers nobody.
LEMMA NobodyJoins ==
  ASSUME NoGhosts, UNCHANGED <<clients, pc, sid>>
  PROVE  RegistrationGoesOn
  BY DEF NoGhosts, NobodyDeaf, RegistrationGoesOn

\* Receiving an event.
LEMMA ArrivalsJoined ==
  ASSUME TypeInv, NoGhosts, NEW c \in Conn,
         \/ Connect(c) \/ ReceiveGarbage(c)
         \/ \E q \in Request : ReceiveJoin(c, q) \/ Receive(c, q)
  PROVE  RegistrationGoesOn
PROOF
  <1>0. UNCHANGED <<clients, sid>> /\ pc[c] \in {"new", "read"}
    BY DEF Connect, ReceiveGarbage, ReceiveJoin, Receive, Read, manager
  <1>1. CASE Connect(c)
    BY <1>0, <1>1, ConnectSteps, RegisteredStays
  <1>2. CASE ReceiveGarbage(c)
    BY <1>0, <1>2, NobodyJoins DEF ReceiveGarbage
  <1>3. ASSUME NEW p \in {"create", "snapshot", "handle"}, NEW j,
               Steps(c, p, j, sid[c])
        PROVE  RegistrationGoesOn
    BY <1>0, <1>3, RegisteredStays
  <1>4. ASSUME NEW q \in Request, ReceiveJoin(c, q) PROVE RegistrationGoesOn
    BY <1>0, <1>3, <1>4, ReceiveJoinSteps, NobodyJoins
  <1>5. ASSUME NEW q \in Request, Receive(c, q) PROVE RegistrationGoesOn
    BY <1>0, <1>3, <1>5, ReceiveSteps, NobodyJoins
  <1> QED BY <1>1, <1>2, <1>4, <1>5

\* Joining: the session is known one step before the client is registered.
LEMMA JoiningJoined ==
  ASSUME TypeInv, NoGhosts, NEW c \in Conn,
         \/ GetOrCreateRoom(c) \/ Join(c) \/ RegisterClient(c)
         \/ BuildRoomState(c) \/ Welcome(c)
  PROVE  RegistrationGoesOn
PROOF
  <1>1. CASE GetOrCreateRoom(c)
    <2> DEFINE j == [job[c] EXCEPT !.room = current']
    <2>1. /\ Steps(c, "join", j, sid[c]) /\ pc[c] = "create"
          /\ current' \in RoomId
      BY <1>1, GetOrCreateRoomSteps DEF GetOrCreateRoom
    <2>2. clients' \in {clients, {}} /\ (~Replaces => clients' = clients)
      <3>1. made \in Nat
        BY CurrentOK
      <3>2. \/ clients' = clients
            \/ clients' = {} /\ made' = made + 1
        BY <1>1, GetOrCreateRoomSteps
      <3>3. made' = made + 1 => made' # made
        BY <3>1
      <3> QED BY <3>2, <3>3 DEF Replaces
    <2>3. c \in clients => sid[c] # ""
      BY DEF NoGhosts
    <2>4. NobodyDeaf /\ sid[c] # "" => c \in clients
      BY <2>1 DEF NobodyDeaf
    <2> HIDE DEF j
    <2> QED BY <2>1, <2>2, <2>3, <2>4, RegisteredNext
  <1>2. CASE Join(c)
    <2>1. pc[c] = "join" /\ UNCHANGED clients
      BY <1>2 DEF Join, manager
    <2>2. CASE Steps(c, "read", NoJob, sid[c])
      BY <2>1, <2>2, RegisteredStays
    <2>3. CASE \E j : Steps(c, "register", j, job[c].event.session)
      <3>1. job[c].event.session # ""
        BY <2>3 DEF Steps, PlaceOK
      <3> QED BY <2>1, <2>3, <3>1, RegisteredNext
    <2> QED BY <1>2, <2>2, <2>3, JoinSteps
  <1>3. CASE RegisterClient(c)
    <2>1. pc[c] = "register" /\ clients' = clients \cup {c}
      BY <1>3 DEF RegisterClient
    <2>2. sid[c] # ""
      BY <2>1, HasSession, HubAssumption
    <2>3. PICK j : Steps(c, "state", j, sid[c])
      BY <1>3, RegisterClientSteps
    <2> QED BY <2>1, <2>2, <2>3, RegisteredNext
  <1>4. CASE BuildRoomState(c)
    <2>1. pc[c] = "state" /\ UNCHANGED clients
      BY <1>4 DEF BuildRoomState, manager
    <2>2. PICK j : Steps(c, "welcome", j, sid[c])
      BY <1>4, BuildRoomStateSteps
    <2> QED BY <2>1, <2>2, RegisteredStays
  <1>5. CASE Welcome(c)
    <2>1. pc[c] = "welcome" /\ UNCHANGED clients
      BY <1>5 DEF Welcome, manager
    <2>2. PICK j : Steps(c, "snapshot", j, sid[c])
      BY <1>5, WelcomeSteps
    <2> QED BY <2>1, <2>2, RegisteredStays
  <1> QED BY <1>1, <1>2, <1>3, <1>4, <1>5

\* Handling an event: only leave unregisters, and forgets the session after it.
LEMMA HandlingJoined ==
  ASSUME TypeInv, NoGhosts, NEW c \in Conn,
         \/ HandlerStep(c) \/ Forget(c) \/ Snapshot(c)
         \/ \E d \in Conn : SendOne(c, d)
  PROVE  RegistrationGoesOn
PROOF
  <1>1. CASE HandlerStep(c)
    <2>1. pc[c] = "handle" /\ UNCHANGED clients
      BY <1>1 DEF HandlerStep, manager
    <2>2. ASSUME NEW p \in {"snapshot", "read"}, NEW j, Steps(c, p, j, sid[c])
          PROVE  RegistrationGoesOn
      BY <2>1, <2>2, RegisteredStays
    <2> QED BY <1>1, <2>2, HandlerSteps
  <1>2. CASE Forget(c)
    <2>1. pc[c] = "forget" /\ clients' = clients \ {c}
      BY <1>2 DEF Forget
    <2>2. Steps(c, "read", NoJob, "")
      BY <1>2, ForgetSteps
    <2> QED BY <2>1, <2>2, RegisteredNext
  <1>3. ASSUME NEW rest \in SUBSET Conn, Proceed(c, rest),
               pc[c] \in {"snapshot", "send"}, UNCHANGED <<clients, sid>>
        PROVE  RegistrationGoesOn
    <2>1. PICK p \in {"read", "handle", "forget", "bye", "snapshot", "send"} :
            \E j : ProceedsTo(c, p, j)
      BY <1>3, ProceedSteps
    <2>2. PICK j : Steps(c, p, j, sid[c])
      BY <2>1 DEF ProceedsTo
    <2> QED BY <1>3, <2>1, <2>2, RegisteredStays
  <1>4. CASE Snapshot(c)
    <2>1. /\ pc[c] = "snapshot" /\ UNCHANGED <<clients, sid>>
          /\ Proceed(c, clients \ job[c].skip)
      BY <1>4 DEF Snapshot, manager
    <2>2. clients \ job[c].skip \in SUBSET Conn
      BY DEF TypeInv, RestOK
    <2> QED BY <1>3, <2>1, <2>2
  <1>5. ASSUME NEW d \in Conn, SendOne(c, d) PROVE RegistrationGoesOn
    <2>1. /\ pc[c] = "send" /\ Proceed(c, job[c].rest \ {d})
          /\ UNCHANGED <<clients, sid>>
      BY <1>5 DEF SendOne, manager
    <2>2. job[c] \in Job
      BY OfConn
    <2>3. job[c].rest \ {d} \in SUBSET Conn
      BY <2>2 DEF Job
    <2> QED BY <1>3, <2>1, <2>3
  <1> QED BY <1>1, <1>2, <1>4, <1>5

\* The end of a connection, which unregisters the client last.
LEMMA EndingJoined ==
  ASSUME TypeInv, NoGhosts, NEW c \in Conn,
         \/ ReadFails(c) \/ RateLimited(c) \/ MarkDisconnected(c) \/ Bye(c)
         \/ PumpStops(c) \/ Deliver(c)
  PROVE  RegistrationGoesOn
PROOF
  <1>1. CASE ReadFails(c) \/ RateLimited(c)
    <2>1. pc[c] = "read" /\ CleanUp(c)
      BY <1>1 DEF ReadFails, RateLimited
    <2>2. UNCHANGED clients
      BY <2>1 DEF CleanUp, manager
    <2>3. ASSUME NEW p \in {"bye", "mark"}, NEW j, Steps(c, p, j, sid[c])
          PROVE  RegistrationGoesOn
      BY <2>1, <2>2, <2>3, RegisteredStays
    <2> QED BY <2>1, <2>3, CleanUpSteps
  <1>2. CASE MarkDisconnected(c)
    <2>1. pc[c] = "mark" /\ UNCHANGED clients
      BY <1>2 DEF MarkDisconnected, manager
    <2>2. PICK j : Steps(c, "snapshot", j, sid[c])
      BY <1>2, MarkDisconnectedSteps
    <2> QED BY <2>1, <2>2, RegisteredStays
  <1>3. CASE Bye(c)
    <2>1. clients' = clients \ {c}
      BY <1>3 DEF Bye
    <2>2. Steps(c, "gone", NoJob, sid[c])
      BY <1>3, ByeSteps
    <2> QED BY <2>1, <2>2, RegisteredNext
  <1>4. CASE PumpStops(c) \/ Deliver(c)
    <2>1. UNCHANGED <<clients, pc, sid>>
      BY <1>4 DEF PumpStops, Deliver, manager
    <2> QED BY <2>1, NobodyJoins
  <1> QED BY <1>1, <1>2, <1>3, <1>4

\* Every step.
LEMMA RegistrationStep ==
  ASSUME TypeInv, NoGhosts, [Next]_vars
  PROVE  RegistrationGoesOn
PROOF
  <1>1. ASSUME NEW c \in Conn, StepOf(c) PROVE RegistrationGoesOn
    BY <1>1, ArrivalsJoined, JoiningJoined, HandlingJoined, EndingJoined DEF StepOf
  <1>2. ASSUME CollectCandidates \/ DeleteCandidates \/ Tick \/ UNCHANGED vars
        PROVE  RegistrationGoesOn
    <2>1. UNCHANGED <<clients, pc, sid>>
      BY <1>2 DEF CollectCandidates, DeleteCandidates, Stale, Tick, vars, manager, conns
    <2> QED BY <2>1, NobodyJoins
  <1> QED BY <1>1, <1>2, NextSteps

\* Who left or is gone is sent no broadcast any more, the collector or not: no
\* step of leaving (ws.go:617) or of the end of a connection (ws.go:124), and
\* no join that fails in between, leaves a client registered without a session.
THEOREM NobodyListensIn == Spec => []NoGhosts
PROOF
  <1>1. Init => NoGhosts
    BY DEF Init, NoGhosts
  <1>2. TypeInv /\ NoGhosts /\ [Next]_vars => NoGhosts'
    BY RegistrationStep DEF RegistrationGoesOn
  <1> QED BY <1>1, <1>2, TypeInvInvariant, PTL DEF Spec

\* No room is made while clients of a collected one are registered.
NobodyReplaced == [][~Replaces]_vars

\* A connection between two events is registered for broadcasts exactly if the
\* server knows its session: the steps of joining (ws.go:231-250), leaving and
\* cleaning up leave no client deaf and none haunted, whatever the others do in
\* between.  The one thing that deafens a client is that GetOrCreateRoom replaces
\* a room collected in the middle of its join (room_manager.go:101).
THEOREM Registration == Spec /\ NobodyReplaced => []RegisteredIffJoined
PROOF
  <1>1. Init => NobodyDeaf
    BY DEF Init, NobodyDeaf
  <1>2. TypeInv /\ NoGhosts /\ NobodyDeaf /\ [Next]_vars /\ [~Replaces]_vars
        => NobodyDeaf'
    <2>1. ASSUME UNCHANGED vars, NobodyDeaf PROVE NobodyDeaf'
      BY <2>1 DEF NobodyDeaf, vars, manager, conns
    <2> QED BY <2>1, RegistrationStep DEF RegistrationGoesOn
  <1>3. TypeInv /\ NoGhosts /\ NobodyDeaf => RegisteredIffJoined
    BY OfConn DEF NoGhosts, NobodyDeaf, RegisteredIffJoined, PlaceOK
  <1>4. NobodyReplaced => [][~Replaces]_vars
    BY DEF NobodyReplaced
  <1> QED BY <1>1, <1>2, <1>3, <1>4, TypeInvInvariant, NobodyListensIn, PTL DEF Spec

(***************************************************************************)
(* Every room of the hub is a room of module Room, under the refinement    *)
(* mapping RoomAt.  One operation, as Hub takes it on the room i of its    *)
(* heap, is one step of Room: the operators of RoomOps and their copies in *)
(* the instance have the same definitions.                                 *)
(***************************************************************************)
\* heap[i] becomes q while the clock stands.
Updates(i, q) == heap'[i] = q /\ UNCHANGED now

\* The copy of Cardinality in the instance counts alike.
LEMMA SameCardinality ==
  ASSUME NEW i \in RoomId, NEW S
  PROVE  RoomAt(i)!Cardinality(S) = Cardinality(S)
  BY Zenon DEF Cardinality, RoomAt!Cardinality

\* The operations, one by one.
LEMMA JoinIsAStep ==
  ASSUME NEW i \in RoomId, NEW s \in Session, NEW raw \in RawName,
         NEW role \in RoleInput, CanJoin(heap[i], s, raw, role),
         Updates(i, AfterJoin(heap[i], s, raw, role, now))
  PROVE  RoomAt(i)!Next
PROOF
  <1>1. RoomAt(i)!CanJoin(heap[i], s, raw, role)
    BY SameCardinality
    DEF CanJoin, RoomAt!CanJoin, JoinRole, RoomAt!JoinRole, Roles, RoomAt!Roles,
        Members, RoomAt!Members
  <1>2. RoomAt(i)!AfterJoin(heap[i], s, raw, role, now)
          = AfterJoin(heap[i], s, raw, role, now)
    BY DEF AfterJoin, RoomAt!AfterJoin, JoinRole, RoomAt!JoinRole,
           Members, RoomAt!Members, Put, RoomAt!Put, Touch, RoomAt!Touch,
           Rejoined, RoomAt!Rejoined, Newcomer, RoomAt!Newcomer,
           CardKept, RoomAt!CardKept
  <1>3. RoomAt(i)!Join(s, raw, role)
    BY <1>1, <1>2 DEF RoomAt!Join, Updates
  <1> QED BY <1>3 DEF RoomAt!Next

LEMMA LeaveIsAStep ==
  ASSUME NEW i \in RoomId, NEW s \in Session, CanLeave(heap[i], s),
         Updates(i, AfterLeave(heap[i], s, now))
  PROVE  RoomAt(i)!Next
PROOF
  <1>1. RoomAt(i)!Leave(s)
    BY DEF RoomAt!Leave, Updates, CanLeave, RoomAt!CanLeave, Members, RoomAt!Members,
           AfterLeave, RoomAt!AfterLeave, Touch, RoomAt!Touch,
           Restrict, RoomAt!Restrict
  <1> QED BY <1>1 DEF RoomAt!Next

LEMMA UpdateRoleIsAStep ==
  ASSUME NEW i \in RoomId, NEW s \in Session, NEW role \in RoleInput,
         CanUpdateRole(heap[i], s, role),
         Updates(i, AfterUpdateRole(heap[i], s, role, now))
  PROVE  RoomAt(i)!Next
PROOF
  <1>1. RoomAt(i)!UpdateRole(s, role)
    BY DEF RoomAt!UpdateRole, Updates, CanUpdateRole, RoomAt!CanUpdateRole,
           Roles, RoomAt!Roles, Members, RoomAt!Members,
           AfterUpdateRole, RoomAt!AfterUpdateRole, CardKept, RoomAt!CardKept,
           Touch, RoomAt!Touch
  <1> QED BY <1>1 DEF RoomAt!Next

LEMMA CastVoteIsAStep ==
  ASSUME NEW i \in RoomId, NEW s \in Session, NEW value \in VoteInput,
         CanCastVote(heap[i], s, value),
         Updates(i, AfterCastVote(heap[i], s, value, now))
  PROVE  RoomAt(i)!Next
PROOF
  <1>1. RoomAt(i)!CastVote(s, value)
    BY DEF RoomAt!CastVote, Updates, CanCastVote, RoomAt!CanCastVote,
           ValidVotes, RoomAt!ValidVotes, Members, RoomAt!Members,
           AfterCastVote, RoomAt!AfterCastVote, Touch, RoomAt!Touch
  <1> QED BY <1>1 DEF RoomAt!Next

LEMMA RevealIsAStep ==
  ASSUME NEW i \in RoomId, CanReveal(heap[i]), Updates(i, AfterReveal(heap[i], now))
  PROVE  RoomAt(i)!Next
PROOF
  <1>1. RoomAt(i)!Reveal
    BY DEF RoomAt!Reveal, Updates, CanReveal, RoomAt!CanReveal,
           AfterReveal, RoomAt!AfterReveal, Touch, RoomAt!Touch
  <1> QED BY <1>1 DEF RoomAt!Next

LEMMA NewRoundIsAStep ==
  ASSUME NEW i \in RoomId, CanNewRound(heap[i]),
         Updates(i, AfterNewRound(heap[i], now))
  PROVE  RoomAt(i)!Next
PROOF
  <1>1. RoomAt(i)!NewRound
    BY DEF RoomAt!NewRound, Updates, CanNewRound, RoomAt!CanNewRound,
           AfterNewRound, RoomAt!AfterNewRound, WithoutVotes, RoomAt!WithoutVotes,
           IdleTimer, RoomAt!IdleTimer, ZeroTime, RoomAt!ZeroTime,
           Touch, RoomAt!Touch
  <1> QED BY <1>1 DEF RoomAt!Next

\* A room that is made is one that is cleared.
LEMMA NewRoomIsAStep ==
  ASSUME NEW i \in RoomId, Updates(i, NewRoom(now))
  PROVE  RoomAt(i)!Next
PROOF
  <1>1. RoomAt(i)!ClearRoom
    BY DEF RoomAt!ClearRoom, Updates, RoomAt!AfterClearRoom, NewRoom, RoomAt!NewRoom,
           IdleTimer, RoomAt!IdleTimer, ZeroTime, RoomAt!ZeroTime
  <1> QED BY <1>1 DEF RoomAt!Next

LEMMA UpdateNameIsAStep ==
  ASSUME NEW i \in RoomId, NEW s \in Session, NEW raw \in RawName,
         CanUpdateName(heap[i], s, raw),
         Updates(i, AfterUpdateName(heap[i], s, raw, now))
  PROVE  RoomAt(i)!Next
PROOF
  <1>1. RoomAt(i)!UpdateName(s, raw)
    BY DEF RoomAt!UpdateName, Updates, CanUpdateName, RoomAt!CanUpdateName,
           Members, RoomAt!Members, AfterUpdateName, RoomAt!AfterUpdateName,
           Touch, RoomAt!Touch
  <1> QED BY <1>1 DEF RoomAt!Next

LEMMA UpdatePresenceIsAStep ==
  ASSUME NEW i \in RoomId, NEW s \in Session, NEW status \in StatusInput,
         CanUpdatePresence(heap[i], s, status),
         Updates(i, AfterUpdatePresence(heap[i], s, status, now))
  PROVE  RoomAt(i)!Next
PROOF
  <1>1. RoomAt(i)!UpdatePresence(s, status)
    BY DEF RoomAt!UpdatePresence, Updates, CanUpdatePresence,
           RoomAt!CanUpdatePresence, Members, RoomAt!Members,
           AfterUpdatePresence, RoomAt!AfterUpdatePresence, Touch, RoomAt!Touch
  <1> QED BY <1>1 DEF RoomAt!Next

\* Marking a participant who is not in the room changes nothing.
LEMMA DisconnectIsAStep ==
  ASSUME NEW i \in RoomId, NEW s \in Session, Updates(i, AfterDisconnect(heap[i], s))
  PROVE  RoomAt(i)!Next \/ heap'[i] = heap[i]
PROOF
  <1>1. CASE s \notin Members(heap[i])
    BY <1>1 DEF Updates, AfterDisconnect
  <1>2. CASE s \in Members(heap[i])
    <2>1. RoomAt(i)!Disconnect(s)
      BY <1>2 DEF RoomAt!Disconnect, Updates, Members, RoomAt!Members,
                  AfterDisconnect, RoomAt!AfterDisconnect
    <2> QED BY <2>1 DEF RoomAt!Next
  <1> QED BY <1>1, <1>2

LEMMA SetTimerDurationIsAStep ==
  ASSUME NEW i \in RoomId, NEW d \in DurationInput, CanSetTimerDuration(heap[i], d),
         Updates(i, AfterSetTimerDuration(heap[i], d, now))
  PROVE  RoomAt(i)!Next
PROOF
  <1>1. RoomAt(i)!SetTimerDuration(d)
    BY DEF RoomAt!SetTimerDuration, Updates, CanSetTimerDuration,
           RoomAt!CanSetTimerDuration, Durations, RoomAt!Durations,
           AfterSetTimerDuration, RoomAt!AfterSetTimerDuration, Touch, RoomAt!Touch
  <1> QED BY <1>1 DEF RoomAt!Next

LEMMA StartTimerIsAStep ==
  ASSUME NEW i \in RoomId, CanStartTimer(heap[i]),
         Updates(i, AfterStartTimer(heap[i], now))
  PROVE  RoomAt(i)!Next
PROOF
  <1>1. RoomAt(i)!StartTimer
    BY DEF RoomAt!StartTimer, Updates, CanStartTimer, RoomAt!CanStartTimer,
           AfterStartTimer, RoomAt!AfterStartTimer, Touch, RoomAt!Touch
  <1> QED BY <1>1 DEF RoomAt!Next

LEMMA ResetTimerIsAStep ==
  ASSUME NEW i \in RoomId, CanResetTimer(heap[i]),
         Updates(i, AfterResetTimer(heap[i], now))
  PROVE  RoomAt(i)!Next
PROOF
  <1>1. RoomAt(i)!ResetTimer
    BY DEF RoomAt!ResetTimer, Updates, CanResetTimer, RoomAt!CanResetTimer,
           AfterResetTimer, RoomAt!AfterResetTimer, IdleTimer, RoomAt!IdleTimer,
           ZeroTime, RoomAt!ZeroTime, Touch, RoomAt!Touch
  <1> QED BY <1>1 DEF RoomAt!Next

\* A look at the timer changes a countdown that is over, and nothing else.
LEMMA TimerInfoIsAStep ==
  ASSUME NEW i \in RoomId, Updates(i, AfterTimerInfo(heap[i], now))
  PROVE  RoomAt(i)!Next \/ heap'[i] = heap[i]
PROOF
  <1>1. CASE ~TimeIsUp(heap[i], now)
    BY <1>1 DEF Updates, AfterTimerInfo
  <1>2. CASE TimeIsUp(heap[i], now)
    <2>1. RoomAt(i)!ReadTimer
      BY <1>2 DEF RoomAt!ReadTimer, Updates, TimeIsUp, RoomAt!TimeIsUp,
                  AfterTimerInfo, RoomAt!AfterTimerInfo
    <2> QED BY <2>1 DEF RoomAt!Next
  <1> QED BY <1>1, <1>2

(***************************************************************************)
(* What the connections and the collector do, room by room.                *)
(***************************************************************************)
\* The room i takes a step of Room, or none; the others take none.
OneRoomSteps(i) ==
  /\ UNCHANGED now
  /\ RoomAt(i)!Next \/ heap'[i] = heap[i]
  /\ \A k \in RoomId \ {i} : heap'[k] = heap[k]

\* An assignment to one room of the heap changes that room alone.
LEMMA RoomUpdated ==
  ASSUME TypeInv, NEW i \in RoomId, NEW r, heap' = [heap EXCEPT ![i] = r],
         UNCHANGED now
  PROVE  Updates(i, r) /\ \A k \in RoomId \ {i} : heap'[k] = heap[k]
  BY DEF TypeInv, RoomsOK, Updates

\* A handler in its critical section.
LEMMA HandlerUpdates ==
  ASSUME TypeInv, NEW c \in Conn, NEW kind, Locked(c, kind)
  PROVE  /\ job[c].room \in RoomId /\ sid[c] \in Session
         /\ job[c].event \in Request /\ job[c].event.kind = kind
         /\ \A r : Becomes(c, r) => Updates(job[c].room, r)
PROOF
  <1>1. pc[c] = "handle" /\ UNCHANGED now /\ job[c].event.kind = kind
    BY DEF Locked
  <1>2. job[c].room \in RoomId /\ sid[c] \in Session
    BY <1>1, HasRoom, HasSession
  <1>3. job[c].event \in Request
    BY <1>1, OfConn DEF PlaceOK
  <1>4. ASSUME NEW r, Becomes(c, r) PROVE Updates(job[c].room, r)
    BY <1>1, <1>2, <1>4, RoomUpdated DEF Becomes
  <1> QED BY <1>1, <1>2, <1>3, <1>4

\* The handlers with one critical section.
HandlesRoom(c) ==
  \/ HandleVote(c) \/ HandleReveal(c) \/ HandleNewRound(c)
  \/ HandleClearRoom(c) \/ HandleUpdateName(c) \/ HandlePresence(c)
  \/ HandleUpdateRole(c) \/ HandleTimerSetDuration(c) \/ HandleTimerStart(c)
  \/ HandleTimerReset(c) \/ HandleLeave(c)

\* A handler in its critical section takes one step of its room.
LEMMA HandlersImplementRoom ==
  ASSUME TypeInv, NEW c \in Conn, NEW i \in RoomId, i = job[c].room,
         HandlesRoom(c)
  PROVE  RoomAt(i)!Next \/ heap'[i] = heap[i]
PROOF
  <1> DEFINE s == sid[c]
  <1>1. CASE HandleVote(c)
    <2> DEFINE value == job[c].event.value
    <2>1. Locked(c, "vote")
      BY <1>1 DEF HandleVote
    <2>2. s \in Session /\ value \in VoteInput
      BY <2>1, HandlerUpdates, RequestFields
    <2>3. \/ /\ CanCastVote(heap[i], s, value)
             /\ Updates(i, AfterCastVote(heap[i], s, value, now))
          \/ UNCHANGED heap
      BY <1>1, <2>1, HandlerUpdates DEF HandleVote, Commit, Refuse, RoomOf
    <2> HIDE DEF value
    <2> QED BY <2>1, <2>2, <2>3, CastVoteIsAStep
  <1>2. CASE HandleReveal(c)
    <2>1. Locked(c, "reveal")
      BY <1>2 DEF HandleReveal
    <2>2. \/ CanReveal(heap[i]) /\ Updates(i, AfterReveal(heap[i], now))
          \/ UNCHANGED heap
      BY <1>2, <2>1, HandlerUpdates DEF HandleReveal, Commit, Refuse, RoomOf
    <2> QED BY <2>1, <2>2, RevealIsAStep
  <1>3. CASE HandleNewRound(c)
    <2>1. Locked(c, "new_round")
      BY <1>3 DEF HandleNewRound
    <2>2. \/ CanNewRound(heap[i]) /\ Updates(i, AfterNewRound(heap[i], now))
          \/ Updates(i, AfterTimerInfo(heap[i], now))
      BY <1>3, <2>1, HandlerUpdates DEF HandleNewRound, Commit, RoomOf
    <2> QED BY <2>1, <2>2, NewRoundIsAStep,
            TimerInfoIsAStep
  <1>4. CASE HandleClearRoom(c)
    <2>1. Locked(c, "clear_room") /\ Becomes(c, NewRoom(now))
      BY <1>4 DEF HandleClearRoom, AfterClearRoom
    <2>2. Updates(i, NewRoom(now))
      BY <2>1, HandlerUpdates
    <2> QED BY <2>2, NewRoomIsAStep
  <1>5. CASE HandleUpdateName(c)
    <2> DEFINE raw == job[c].event.name
    <2>1. Locked(c, "update_name")
      BY <1>5 DEF HandleUpdateName
    <2>2. s \in Session /\ raw \in RawName
      BY <2>1, HandlerUpdates, RequestFields
    <2>3. \/ /\ CanUpdateName(heap[i], s, raw)
             /\ Updates(i, AfterUpdateName(heap[i], s, raw, now))
          \/ UNCHANGED heap
      BY <1>5, <2>1, HandlerUpdates DEF HandleUpdateName, Commit, Refuse, RoomOf
    <2> HIDE DEF raw
    <2> QED BY <2>1, <2>2, <2>3, UpdateNameIsAStep
  <1>6. CASE HandlePresence(c)
    <2> DEFINE status == job[c].event.status
    <2>1. Locked(c, "presence")
      BY <1>6 DEF HandlePresence
    <2>2. s \in Session /\ status \in StatusInput
      BY <2>1, HandlerUpdates, RequestFields
    <2>3. \/ /\ CanUpdatePresence(heap[i], s, status)
             /\ Updates(i, AfterUpdatePresence(heap[i], s, status, now))
          \/ UNCHANGED heap
      BY <1>6, <2>1, HandlerUpdates DEF HandlePresence, Commit, Refuse, RoomOf
    <2> HIDE DEF status
    <2> QED BY <2>1, <2>2, <2>3, UpdatePresenceIsAStep
  <1>7. CASE HandleUpdateRole(c)
    <2> DEFINE role == job[c].event.role
    <2>1. Locked(c, "update_role")
      BY <1>7 DEF HandleUpdateRole
    <2>2. s \in Session /\ role \in RoleInput
      BY <2>1, HandlerUpdates, RequestFields
    <2>3. \/ /\ CanUpdateRole(heap[i], s, role)
             /\ Updates(i, AfterUpdateRole(heap[i], s, role, now))
          \/ UNCHANGED heap
      BY <1>7, <2>1, HandlerUpdates DEF HandleUpdateRole, Commit, Refuse, RoomOf
    <2> HIDE DEF role
    <2> QED BY <2>1, <2>2, <2>3, UpdateRoleIsAStep
  <1>8. CASE HandleTimerSetDuration(c)
    <2> DEFINE d == job[c].event.duration
    <2>1. Locked(c, "timer_set_duration")
      BY <1>8 DEF HandleTimerSetDuration
    <2>2. d \in DurationInput
      BY <2>1, HandlerUpdates, RequestFields
    <2>3. \/ /\ CanSetTimerDuration(heap[i], d)
             /\ Updates(i, AfterSetTimerDuration(heap[i], d, now))
          \/ UNCHANGED heap
      BY <1>8, <2>1, HandlerUpdates DEF HandleTimerSetDuration, Commit, Refuse, RoomOf
    <2> HIDE DEF d
    <2> QED BY <2>1, <2>2, <2>3, SetTimerDurationIsAStep
  <1>9. CASE HandleTimerStart(c)
    <2>1. Locked(c, "timer_start")
      BY <1>9 DEF HandleTimerStart
    <2>2. \/ CanStartTimer(heap[i]) /\ Updates(i, AfterStartTimer(heap[i], now))
          \/ UNCHANGED heap
      BY <1>9, <2>1, HandlerUpdates DEF HandleTimerStart, Commit, Ignore, RoomOf
    <2> QED BY <2>1, <2>2, StartTimerIsAStep
  <1>10. CASE HandleTimerReset(c)
    <2>1. Locked(c, "timer_reset")
      BY <1>10 DEF HandleTimerReset
    <2>2. \/ CanResetTimer(heap[i]) /\ Updates(i, AfterResetTimer(heap[i], now))
          \/ UNCHANGED heap
      BY <1>10, <2>1, HandlerUpdates DEF HandleTimerReset, Commit, Ignore, RoomOf
    <2> QED BY <2>1, <2>2, ResetTimerIsAStep
  <1>11. CASE HandleLeave(c)
    <2>1. Locked(c, "leave")
      BY <1>11 DEF HandleLeave
    <2>2. s \in Session
      BY <2>1, HandlerUpdates
    <2>3. \/ CanLeave(heap[i], s) /\ Updates(i, AfterLeave(heap[i], s, now))
          \/ UNCHANGED heap
      BY <1>11, <2>1, HandlerUpdates DEF HandleLeave, RoomOf
    <2> QED BY <2>1, <2>2, <2>3, LeaveIsAStep
  <1> QED BY <1>1, <1>2, <1>3, <1>4, <1>5, <1>6, <1>7, <1>8, <1>9, <1>10, <1>11 DEF HandlesRoom

\* All the other steps of c.
OtherStep(c) ==
  \/ Connect(c) \/ ReceiveGarbage(c)
  \/ \E q \in Request : ReceiveJoin(c, q) \/ Receive(c, q)
  \/ GetOrCreateRoom(c) \/ Join(c) \/ RegisterClient(c) \/ BuildRoomState(c)
  \/ Welcome(c) \/ Forget(c) \/ Snapshot(c)
  \/ \E d \in Conn : SendOne(c, d)
  \/ ReadFails(c) \/ RateLimited(c) \/ MarkDisconnected(c) \/ Bye(c)
  \/ PumpStops(c) \/ Deliver(c)

\* All the other steps of a connection take one step of one room, or none.
LEMMA OthersImplementRoom ==
  ASSUME TypeInv, NEW c \in Conn, OtherStep(c)
  PROVE  UNCHANGED <<heap, now>> \/ \E i \in RoomId : OneRoomSteps(i)
PROOF
  <1>1. CASE \/ Connect(c) \/ ReceiveGarbage(c)
             \/ \E q \in Request : ReceiveJoin(c, q) \/ Receive(c, q)
             \/ RegisterClient(c) \/ Welcome(c) \/ Forget(c) \/ Snapshot(c)
             \/ \E d \in Conn : SendOne(c, d)
    BY <1>1 DEF Connect, ReceiveGarbage, ReceiveJoin, Receive, Read, RegisterClient,
                Welcome, Forget, Snapshot, SendOne
  <1>2. CASE ReadFails(c) \/ RateLimited(c) \/ Bye(c) \/ PumpStops(c) \/ Deliver(c)
    BY <1>2 DEF ReadFails, RateLimited, CleanUp, Bye, PumpStops, Deliver
  <1>3. CASE GetOrCreateRoom(c)
    <2>1. UNCHANGED now
      BY <1>3 DEF GetOrCreateRoom
    <2>2. CASE UNCHANGED heap
      BY <2>1, <2>2
    <2>3. CASE made' \in RoomId /\ heap' = [heap EXCEPT ![made'] = NewRoom(now)]
      <3>1. PICK i \in RoomId : heap' = [heap EXCEPT ![i] = NewRoom(now)]
        BY <2>3
      <3>2. Updates(i, NewRoom(now)) /\ \A k \in RoomId \ {i} : heap'[k] = heap[k]
        BY <2>1, <3>1, RoomUpdated
      <3>3. RoomAt(i)!Next
        BY <3>2, NewRoomIsAStep
      <3>4. OneRoomSteps(i)
        BY <2>1, <3>2, <3>3 DEF OneRoomSteps
      <3> QED BY <3>4
    <2> QED BY <1>3, <2>2, <2>3, GetOrCreateRoomSteps
  <1>4. CASE Join(c)
    <2> DEFINE s == job[c].event.session
               q == job[c].event
    <2>1. pc[c] = "join" /\ UNCHANGED now
      BY <1>4 DEF Join
    <2>2. CASE UNCHANGED heap
      BY <2>1, <2>2
    <2>3. CASE /\ CanJoin(RoomOf(c), s, q.name, q.role)
               /\ Becomes(c, AfterJoin(RoomOf(c), s, q.name, q.role, now))
      <3>1. PICK i \in RoomId : i = job[c].room
        BY <2>1, HasRoom
      <3>2. q \in Request /\ q.kind = "join"
        BY <2>1, OfConn DEF PlaceOK
      <3>3. s \in Session /\ q.name \in RawName /\ q.role \in RoleInput
        BY <3>2, RequestFields
      <3> HIDE DEF s, q
      <3>4. /\ CanJoin(heap[i], s, q.name, q.role)
            /\ heap' = [heap EXCEPT ![i] = AfterJoin(heap[i], s, q.name, q.role, now)]
        BY <2>3, <3>1 DEF Becomes, RoomOf
      <3>5. /\ Updates(i, AfterJoin(heap[i], s, q.name, q.role, now))
            /\ \A k \in RoomId \ {i} : heap'[k] = heap[k]
        BY <2>1, <3>4, RoomUpdated
      <3>6. PICK raw \in RawName, role \in RoleInput : raw = q.name /\ role = q.role
        BY <3>3
      <3>7. PICK me \in Session : me = s
        BY <3>3
      <3>8. /\ CanJoin(heap[i], me, raw, role)
            /\ Updates(i, AfterJoin(heap[i], me, raw, role, now))
        BY <3>4, <3>5, <3>6, <3>7
      <3>9. RoomAt(i)!Next
        BY <3>8, JoinIsAStep
      <3>10. OneRoomSteps(i)
        BY <2>1, <3>5, <3>9 DEF OneRoomSteps
      <3> QED BY <3>10
    <2> QED BY <1>4, <2>2, <2>3, JoinSteps
  <1>5. CASE BuildRoomState(c)
    <2>1. UNCHANGED now
      BY <1>5 DEF BuildRoomState
    <2>2. PICK i \in RoomId : heap' = [heap EXCEPT ![i] = AfterTimerInfo(heap[i], now)]
      BY <1>5, BuildRoomStateSteps
    <2>3. /\ Updates(i, AfterTimerInfo(heap[i], now))
          /\ \A k \in RoomId \ {i} : heap'[k] = heap[k]
      BY <2>1, <2>2, RoomUpdated
    <2>4. OneRoomSteps(i)
      BY <2>1, <2>3, TimerInfoIsAStep DEF OneRoomSteps
    <2> QED BY <2>4
  <1>6. CASE MarkDisconnected(c)
    <2>1. UNCHANGED now /\ pc[c] = "mark"
      BY <1>6 DEF MarkDisconnected
    <2>2. PICK i \in RoomId :
            heap' = [heap EXCEPT ![i] = AfterDisconnect(heap[i], sid[c])]
      BY <1>6, MarkDisconnectedSteps
    <2>3. PICK s \in Session : s = sid[c]
      BY <2>1, HasSession
    <2>4. /\ Updates(i, AfterDisconnect(heap[i], s))
          /\ \A k \in RoomId \ {i} : heap'[k] = heap[k]
      BY <2>1, <2>2, <2>3, RoomUpdated
    <2>5. OneRoomSteps(i)
      BY <2>1, <2>4, DisconnectIsAStep DEF OneRoomSteps
    <2> QED BY <2>5
  <1> QED BY <1>1, <1>2, <1>3, <1>4, <1>5, <1>6 DEF OtherStep

\* In one step of the hub, every room takes a step of Room or none.
LEMMA HubStepsRooms ==
  ASSUME TypeInv, [Next]_vars, NEW i \in RoomId
  PROVE  [RoomAt(i)!Next]_(RoomAt(i)!vars)
PROOF
  <1>1. ASSUME UNCHANGED <<heap, now>> PROVE UNCHANGED RoomAt(i)!vars
    BY <1>1 DEF RoomAt!vars
  <1>2. ASSUME NEW k \in RoomId, OneRoomSteps(k)
        PROVE  [RoomAt(i)!Next]_(RoomAt(i)!vars)
    <2>1. CASE i # k
      BY <1>2, <2>1 DEF OneRoomSteps, RoomAt!vars
    <2>2. CASE i = k
      BY <1>2, <2>2 DEF OneRoomSteps, RoomAt!vars
    <2> QED BY <2>1, <2>2
  <1>3. ASSUME NEW c \in Conn, HandlesRoom(c) PROVE \E k \in RoomId : OneRoomSteps(k)
    <2>1. HandlerStep(c)
      BY <1>3, VoteHandled, RevealHandled, NewRoundHandled, ClearRoomHandled,
         UpdateNameHandled, PresenceHandled, UpdateRoleHandled, TimerHandled,
         LeaveHandled DEF HandlesRoom
    <2>2. /\ pc[c] = "handle" /\ UNCHANGED now
          /\ \A k \in RoomId \ {job[c].room} : heap'[k] = heap[k]
      BY <2>1 DEF HandlerStep, manager
    <2>3. PICK k \in RoomId : k = job[c].room
      BY <2>2, HasRoom
    <2>4. OneRoomSteps(k)
      BY <1>3, <2>2, <2>3, HandlersImplementRoom DEF OneRoomSteps
    <2> QED BY <2>4
  <1>4. ASSUME NEW c \in Conn, HandlesRoom(c) \/ OtherStep(c)
        PROVE  [RoomAt(i)!Next]_(RoomAt(i)!vars)
    BY <1>1, <1>2, <1>3, <1>4, OthersImplementRoom
  <1>5. CASE CollectCandidates \/ DeleteCandidates \/ UNCHANGED vars
    BY <1>1, <1>5 DEF CollectCandidates, DeleteCandidates, vars
  <1>6. CASE Tick
    <2>1. RoomAt(i)!Tick
      BY <1>6 DEF Tick, RoomAt!Tick
    <2> QED BY <2>1 DEF RoomAt!Next
  <1>7. CASE \E c \in Conn : HandlesRoom(c) \/ OtherStep(c)
    BY <1>4, <1>7
  <1>8. Next => \/ \E c \in Conn : HandlesRoom(c) \/ OtherStep(c)
                \/ CollectCandidates \/ DeleteCandidates \/ Tick
    BY DEF Next, Serve, Handle, HandlesRoom, OtherStep
  <1> QED BY <1>5, <1>6, <1>7, <1>8

\* In the beginning all rooms are new.
LEMMA HubInitsRooms ==
  ASSUME Init, NEW i \in RoomId
  PROVE  RoomAt(i)!Init
  BY DEF Init, RoomAt!Init, NewRoom, RoomAt!NewRoom, IdleTimer, RoomAt!IdleTimer,
         ZeroTime, RoomAt!ZeroTime

\* Whatever the handlers of several connections do to a room, in whatever order
\* they get its lock (ws.go:231, ws.go:292 and the others), and whether or not
\* the collector took it off the map, is one call of a method of Room at a time.
THEOREM Refinement == Spec => HubImplementsRoom
PROOF
  <1> DEFINE Inits == \A i \in RoomId : RoomAt(i)!Init
             Moved == \A i \in RoomId : [RoomAt(i)!Next]_(RoomAt(i)!vars)
  <1>1. Init => Inits
    BY HubInitsRooms
  <1>2. TypeInv /\ [Next]_vars => [Moved]_vars
    BY HubStepsRooms
  <1>3. Spec => Inits /\ [][Moved]_vars
    BY <1>1, <1>2, TypeInvInvariant, PTL DEF Spec
  <1> QED BY <1>3 DEF HubImplementsRoom

\* The same for one room, with the specification of Room.
THEOREM RoomRefinement ==
  ASSUME NEW i \in RoomId
  PROVE  Spec => RoomAt(i)!Spec
PROOF
  <1>1. Init => RoomAt(i)!Init
    BY HubInitsRooms
  <1>2. TypeInv /\ [Next]_vars => [RoomAt(i)!Next]_(RoomAt(i)!vars)
    BY HubStepsRooms
  <1> QED BY <1>1, <1>2, TypeInvInvariant, PTL DEF Spec, RoomAt!Spec
=============================================================================

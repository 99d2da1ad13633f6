--------------------------- MODULE HubTypeProofs ---------------------------
(***************************************************************************)
(* The type invariant of Hub, what every step does to the connection that  *)
(* takes it, and the proof that the invariant holds.                       *)
(***************************************************************************)
EXTENDS Hub, RoomOpsProofs

(***************************************************************************)
(* What is sent are messages.                                              *)
(***************************************************************************)
LEMMA CountdownOK ==
  ASSUME NEW r, IsRoom(r), NEW t \in Nat
  PROVE  TimerInfo(r, t) \in Countdown
PROOF
  <1> DEFINE tm == AfterTimerInfo(r, t).timer
  <1>1. tm \in Timer
    BY TimerOK DEF IsRoom
  <1> HIDE DEF tm
  <1>2. tm.duration \in Durations /\ tm.state \in TimerStates /\ tm.startedAt \in Nat
    BY <1>1 DEF Timer
  <1>3. tm.duration \in Int
    <2>1. MinTimerDuration \in Nat /\ MaxTimerDuration \in Nat
      BY RoomAssumption
    <2> QED BY <1>2, <2>1 DEF Durations
  <1>4. CASE tm.state = "idle"
    BY <1>2, <1>3, <1>4 DEF TimerInfo, Countdown, tm
  <1>5. CASE tm.state = "running"
    BY <1>2, <1>3, <1>5 DEF TimerInfo, Countdown, tm
  <1>6. CASE tm.state = "expired"
    BY <1>2, <1>3, <1>6 DEF TimerInfo, Countdown, tm
  <1> QED BY <1>2, <1>4, <1>5, <1>6 DEF TimerStates

\* The cards of a room are cards of the deck, one for a session.
LEMMA CardsOK ==
  ASSUME NEW r, IsRoom(r)
  PROVE  ResultVotes(r) \in Cards
PROOF
  <1>1. \A m \in Members(r) : m \in Session /\ r.participants[m].vote \in ValidVotes
    BY MemberOK DEF IsRoom, Participant
  <1>2. \A m \in Members(r) :
          <<m, r.participants[m].vote>> \in Session \X ValidVotes
    BY <1>1
  <1> QED BY <1>2, Zenon DEF ResultVotes, Cards

\* The announcements.
LEMMA PlainOK ==
  ASSUME NEW type \in {"error", "room_cleared", "round_reset"}
  PROVE  Plain(type) \in Message /\ Carried(Plain(type)) = {}
  BY DEF Plain, Message, Carried

LEMMA AboutOK ==
  ASSUME NEW s \in Session,
         NEW type \in {"vote_cast", "vote_retracted", "participant_left"}
  PROVE  About(type, s) \in Message /\ Carried(About(type, s)) = {}
  BY DEF About, Message, Carried

LEMMA PresenceOK ==
  ASSUME NEW s \in Session, NEW status \in Statuses
  PROVE  Presence(s, status) \in Message /\ Carried(Presence(s, status)) = {}
  BY DEF Presence, Message, Carried

LEMMA NameUpdatedOK ==
  ASSUME NEW s \in Session, NEW name \in Name
  PROVE  NameUpdated(s, name) \in Message /\ Carried(NameUpdated(s, name)) = {}
  BY DEF NameUpdated, Message, Carried

LEMMA RoleUpdatedOK ==
  ASSUME NEW s \in Session, NEW role \in Roles
  PROVE  RoleUpdated(s, role) \in Message /\ Carried(RoleUpdated(s, role)) = {}
  BY DEF RoleUpdated, Message, Carried

LEMMA JoinedOK ==
  ASSUME NEW s \in Session, NEW p \in Participant
  PROVE  Joined(s, p) \in Message /\ Carried(Joined(s, p)) = {}
  BY DEF Joined, Message, Carried, Participant

\* The countdown told, expired or not.
LEMMA TimerUpdatedOK ==
  ASSUME NEW r, IsRoom(r), NEW t \in Nat
  PROVE  TimerUpdated(r, t) \in Message /\ Carried(TimerUpdated(r, t)) = {}
PROOF
  <1>1. TimerInfo(r, t) \in Countdown
    BY CountdownOK
  <1> QED BY <1>1 DEF TimerUpdated, Message, Carried

\* The cards of a revealed ballot carry its number.
LEMMA VotesRevealedOK ==
  ASSUME NEW r, IsRoom(r), NEW ballot \in Ballots
  PROVE  /\ VotesRevealed(r, ballot) \in Message
         /\ VotesRevealed(r, ballot).ballot = ballot
PROOF
  <1>1. ResultVotes(r) \in Cards
    BY CardsOK
  <1> QED BY <1>1 DEF VotesRevealed, Message

\* A room_state carries cards only of a revealed ballot.
LEMMA RoomStateOK ==
  ASSUME NEW r, IsRoom(r), NEW t \in Nat, NEW ballot \in Ballots
  PROVE  /\ RoomState(r, t, ballot) \in Message
         /\ RoomState(r, t, ballot).ballot = ballot
         /\ Carried(RoomState(r, t, ballot)) # {} => r.phase = "reveal"
PROOF
  <1> DEFINE seats == [s \in Members(r) |->
                        [name     |-> r.participants[s].name,
                         status   |-> r.participants[s].status,
                         role     |-> r.participants[s].role,
                         hasVoted |-> r.participants[s].vote # ""]]
             votes == IF r.phase = "reveal" THEN ResultVotes(r) ELSE {}
             m == RoomState(r, t, ballot)
  <1>1. seats \in UNION {[S -> Seat] : S \in SUBSET Session}
    <2>1. \A s \in Members(r) : seats[s] \in Seat
      BY MemberOK DEF Participant, Seat
    <2>2. seats \in [Members(r) -> Seat] /\ Members(r) \in SUBSET Session
      BY <2>1 DEF IsRoom
    <2> QED BY <2>2
  <1>2. votes \in Cards /\ r.phase \in Phases
    BY CardsOK DEF Cards, IsRoom
  <1>3. TimerInfo(r, t) \in Countdown
    BY CountdownOK
  <1>4. m = [type |-> "room_state", phase |-> r.phase, participants |-> seats,
             votes |-> votes, ballot |-> ballot, timer |-> TimerInfo(r, t)]
    BY DEF RoomState
  <1>5. votes # {} => r.phase = "reveal"
    OBVIOUS
  <1> HIDE DEF seats, votes, m
  <1>6. m \in Message
    BY <1>1, <1>2, <1>3, <1>4 DEF Message
  <1>7. m.ballot = ballot /\ Carried(m) = votes
    BY <1>4 DEF Carried
  <1> QED BY <1>5, <1>6, <1>7 DEF m

(***************************************************************************)
(* The type invariant, with what the locals of a handler are at each of    *)
(* its places.                                                             *)
(***************************************************************************)
PlaceOK(p, j, s) ==
  /\ p \in {"new", "read", "gone"} => j = NoJob
  /\ p = "new" => s = ""
  /\ p \in {"create", "join", "register", "state", "welcome"} =>
       j.event \in Request /\ j.event.kind = "join" /\ j.next = "read"
  /\ p \notin {"new", "read", "create", "bye", "gone"} => j.room # NoRoom
  /\ p \notin {"new", "read", "create", "join", "bye", "gone"} => s # ""
  /\ p \in {"register", "state"} => Len(j.todo) = 1
  /\ p = "welcome" => Len(j.todo) = 2
  /\ p = "handle" => j.event \in Request
  /\ p \in {"snapshot", "send"} =>
       /\ j.todo # <<>>
       /\ j.next = "handle" => j.event \in Request /\ j.event.kind = "clear_room"

RoomsOK == DOMAIN heap = RoomId /\ \A i \in RoomId : IsRoom(heap[i])

ConnsOK ==
  /\ pc \in [Conn -> Places]
  /\ job \in [Conn -> Job]
  /\ sid \in [Conn -> Session \cup {""}]
  /\ \A c \in Conn : /\ job[c].room <= made
                     /\ PlaceOK(pc[c], job[c], sid[c])

BuffersOK ==
  /\ buf \in [Conn -> Seq(Message)]
  /\ done \in [Conn -> BOOLEAN]
  /\ \A c \in Conn : Len(buf[c]) <= SendBufferSize

LocksOK ==
  /\ lock \in [RoomId -> Conn \cup {NoConn}]
  /\ \A i \in RoomId : \A c \in Conn :
       lock[i] = c <=> pc[c] \in {"register", "state"} /\ job[c].room = i

RestOK ==
  /\ made \in 0 .. MaxRooms
  /\ current \in 0 .. made
  /\ clients \subseteq Conn
  /\ gc \in 0 .. now
  /\ now \in Nat \ {0}
  /\ pump \in [Conn -> BOOLEAN]
  /\ left \in [Conn -> Nat]
  /\ round \in [RoomId -> Nat]

TypeInv == RoomsOK /\ ConnsOK /\ BuffersOK /\ LocksOK /\ RestOK

\* The invariant is as strong as the type.
LEMMA TypeInvSuffices == TypeInv => TypeOK
  BY DEF TypeInv, TypeOK, RoomsOK, ConnsOK, BuffersOK, LocksOK, RestOK

\* The order of numbers, for steps that do no other arithmetic.
LEMMA AtMostTransitive ==
  \A x, y, z \in Nat : x <= y /\ y <= z => x <= z
  OBVIOUS

\* The room numbers; 0 stands for none.
LEMMA RoomIds ==
  /\ MaxRooms \in Nat \ {0} /\ MaxRooms \in Nat
  /\ \A i \in RoomId : i \in Nat /\ i # NoRoom /\ i <= MaxRooms
  /\ \A i \in {NoRoom} \cup RoomId : i \in Nat
PROOF
  <1>1. MaxRooms \in Nat \ {0} /\ MaxRooms \in Nat
    BY HubAssumption
  <1> QED BY <1>1 DEF RoomId, NoRoom

\* A handler that has nothing to do.
LEMMA NoJobOK ==
  /\ NoJob \in Job /\ NoJob.room = NoRoom
  /\ PlaceOK("new", NoJob, "")
  /\ \A p \in {"read", "gone", "bye"} : \A s : PlaceOK(p, NoJob, s)
PROOF
  <1>1. <<>> \in Seq(Message)
    OBVIOUS
  <1>2. NoJob \in Job /\ NoJob.room = NoRoom
    BY <1>1 DEF NoJob, Job
  <1>3. PlaceOK("new", NoJob, "")
    BY DEF PlaceOK
  <1>4. \A p \in {"read", "gone", "bye"} : \A s : PlaceOK(p, NoJob, s)
    BY DEF PlaceOK
  <1> QED BY <1>2, <1>3, <1>4

\* The invariant holds in the beginning.
LEMMA InitOK == Init => TypeInv
PROOF
  <1> SUFFICES ASSUME Init PROVE TypeInv
    OBVIOUS
  <1>1. RoomsOK
    BY NewRoomOK DEF RoomsOK, Init
  <1>2. ConnsOK
    <2>0. /\ pc = [c \in Conn |-> "new"]
          /\ job = [c \in Conn |-> NoJob]
          /\ sid = [c \in Conn |-> ""]
          /\ made = NoRoom
      BY DEF Init, NoRoom
    <2>1. /\ pc \in [Conn -> Places]
          /\ job \in [Conn -> Job]
          /\ sid \in [Conn -> Session \cup {""}]
      BY <2>0, NoJobOK DEF Places
    <2>2. ASSUME NEW c \in Conn
          PROVE  /\ job[c].room <= made
                 /\ PlaceOK(pc[c], job[c], sid[c])
      <3>1. pc[c] = "new" /\ job[c] = NoJob /\ sid[c] = ""
        BY <2>0
      <3>2. NoRoom <= NoRoom
        BY DEF NoRoom
      <3>3. job[c].room <= made
        BY <2>0, <3>1, <3>2, NoJobOK
      <3> QED BY <3>1, <3>3, NoJobOK
    <2> QED BY <2>1, <2>2 DEF ConnsOK
  <1>3. BuffersOK
    <2>1. buf = [c \in Conn |-> <<>>] /\ done = [c \in Conn |-> FALSE]
      BY DEF Init
    <2>2. <<>> \in Seq(Message) /\ Len(<<>>) = 0
      OBVIOUS
    <2>3. 0 <= SendBufferSize
      <3>1. SendBufferSize \in Nat
        BY HubAssumption
      <3> QED BY <3>1
    <2>4. \A c \in Conn : Len(buf[c]) <= SendBufferSize
      BY <2>1, <2>2, <2>3
    <2> QED BY <2>1, <2>2, <2>4 DEF BuffersOK
  <1>4. LocksOK
    BY HubAssumption DEF LocksOK, Init
  <1>5. RestOK
    <2>1. left \in [Conn -> Nat]
      BY HubAssumption DEF Init
    <2>2. MaxRooms \in Nat
      BY HubAssumption
    <2>3. made = 0 /\ current = 0
      BY DEF Init, NoRoom
    <2>5. made \in 0 .. MaxRooms /\ current \in 0 .. made
      BY <2>2, <2>3
    <2>4. /\ clients = {} /\ gc = 0 /\ now = 1
          /\ pump = [c \in Conn |-> FALSE]
          /\ round = [i \in RoomId |-> 1]
      BY DEF Init
    <2> QED BY <2>1, <2>4, <2>5 DEF RestOK
  <1> QED BY <1>1, <1>2, <1>3, <1>4, <1>5 DEF TypeInv

\* The handler of c takes a step, to p with the locals j and the session s.
Moves(c, p, j, s) ==
  /\ pc' = [pc EXCEPT ![c] = p]
  /\ job' = [job EXCEPT ![c] = j]
  /\ sid' = [sid EXCEPT ![c] = s]

\* If only c moves and fits its new place, all fit theirs.
LEMMA OneMoves ==
  ASSUME ConnsOK, NEW c \in Conn, NEW p \in Places, NEW j \in Job,
         NEW s \in Session \cup {""}, Moves(c, p, j, s),
         made \in Nat, made' \in Nat, made <= made', j.room <= made',
         PlaceOK(p, j, s)
  PROVE  ConnsOK'
PROOF
  <1>1. /\ pc' \in [Conn -> Places]
        /\ job' \in [Conn -> Job]
        /\ sid' \in [Conn -> Session \cup {""}]
    BY DEF ConnsOK, Moves
  <1>2. pc'[c] = p /\ job'[c] = j /\ sid'[c] = s
    BY DEF ConnsOK, Moves
  <1>3. \A d \in Conn \ {c} : pc'[d] = pc[d] /\ job'[d] = job[d] /\ sid'[d] = sid[d]
    BY DEF ConnsOK, Moves
  <1>4. \A d \in Conn : job[d].room \in Nat
    BY RoomIds DEF ConnsOK, Job
  <1>5. ASSUME NEW d \in Conn
        PROVE  /\ job'[d].room <= made'
               /\ PlaceOK(pc'[d], job'[d], sid'[d])
    <2>1. CASE d = c
      BY <1>2, <2>1
    <2>2. CASE d # c
      <3>1. pc'[d] = pc[d] /\ job'[d] = job[d] /\ sid'[d] = sid[d]
        BY <1>3, <2>2
      <3>2. /\ job[d].room <= made
            /\ PlaceOK(pc[d], job[d], sid[d])
        BY DEF ConnsOK
      <3>3. job[d].room <= made'
        BY <1>4, <3>2, AtMostTransitive, Zenon
      <3> QED BY <3>1, <3>2, <3>3
    <2> QED BY <2>1, <2>2
  <1> QED BY <1>1, <1>5 DEF ConnsOK

\* Outside of the critical section of a join, moves keep the locks as they are.
LEMMA LocksKept ==
  ASSUME LocksOK, ConnsOK, NEW c \in Conn, NEW p \in Places, NEW j, NEW s,
         Moves(c, p, j, s), UNCHANGED lock,
         pc[c] \notin {"register", "state"}, p \notin {"register", "state"}
  PROVE  LocksOK'
PROOF
  <1>1. pc'[c] = p /\ \A d \in Conn \ {c} : pc'[d] = pc[d] /\ job'[d] = job[d]
    BY DEF ConnsOK, Moves
  <1> QED BY <1>1 DEF LocksOK

\* Sending keeps the buffers within their size.
LEMMA SendOK ==
  ASSUME BuffersOK, NEW d \in Conn, NEW m \in Message, Send(d, m)
  PROVE  BuffersOK'
PROOF
  <1>0. SendBufferSize \in Nat
    BY HubAssumption
  <1>1. CASE Len(buf[d]) < SendBufferSize
    <2>1. buf' = [buf EXCEPT ![d] = Append(buf[d], m)] /\ done' = done
      BY <1>1 DEF Send
    <2>2. Append(buf[d], m) \in Seq(Message)
      BY DEF BuffersOK
    <2>3. Len(Append(buf[d], m)) = Len(buf[d]) + 1 /\ Len(buf[d]) \in Nat
      BY DEF BuffersOK
    <2>4. Len(Append(buf[d], m)) <= SendBufferSize
      BY <1>0, <1>1, <2>3
    <2> QED BY <2>1, <2>2, <2>4 DEF BuffersOK
  <1>2. CASE ~(Len(buf[d]) < SendBufferSize)
    BY <1>2 DEF Send, BuffersOK
  <1> QED BY <1>1, <1>2

\* One room changes.
LEMMA RoomChanges ==
  ASSUME RoomsOK, NEW i \in RoomId, NEW r, IsRoom(r), heap' = [heap EXCEPT ![i] = r]
  PROVE  RoomsOK' /\ heap'[i] = r /\ \A k \in RoomId \ {i} : heap'[k] = heap[k]
PROOF
  <1>1. DOMAIN heap' = RoomId
    BY DEF RoomsOK
  <1>2. heap'[i] = r /\ \A k \in RoomId \ {i} : heap'[k] = heap[k]
    BY DEF RoomsOK
  <1> QED BY <1>1, <1>2 DEF RoomsOK

(***************************************************************************)
(* The handlers that lock the room for one step.                           *)
(***************************************************************************)
LEMMA RequestFields ==
  ASSUME NEW q \in Request
  PROVE  /\ q.kind = "join" =>
              q.session \in Session /\ q.name \in RawName /\ q.role \in RoleInput
         /\ q.kind = "vote" => q.value \in VoteInput
         /\ q.kind = "update_name" => q.name \in RawName
         /\ q.kind = "presence" => q.status \in StatusInput
         /\ q.kind = "update_role" => q.role \in RoleInput
         /\ q.kind = "timer_set_duration" => q.duration \in DurationInput
  BY DEF Request

\* What is known of a connection that has a room and a session.
LEMMA HasRoom ==
  ASSUME TypeInv, NEW c \in Conn,
         pc[c] \notin {"new", "read", "create", "bye", "gone"}
  PROVE  /\ job[c].room \in RoomId /\ job[c].room <= made
         /\ IsRoom(RoomOf(c))
         /\ now \in Nat
         /\ <<job[c].room, round[job[c].room]>> \in Ballots
         /\ job[c] \in Job
PROOF
  <1>1. job[c] \in Job /\ job[c].room <= made /\ PlaceOK(pc[c], job[c], sid[c])
    BY DEF TypeInv, ConnsOK
  <1>2. job[c].room \in RoomId
    BY <1>1 DEF PlaceOK, Job
  <1>3. IsRoom(RoomOf(c))
    BY <1>2 DEF TypeInv, RoomsOK, RoomOf
  <1>4. now \in Nat /\ round[job[c].room] \in Nat
    BY <1>2 DEF TypeInv, RestOK
  <1> QED BY <1>1, <1>2, <1>3, <1>4 DEF Ballots

\* Whoever is past Join of a handler has the session it sends.
LEMMA HasSession ==
  ASSUME TypeInv, NEW c \in Conn,
         pc[c] \in {"register", "state", "welcome", "handle", "snapshot", "send",
                    "forget", "mark"}
  PROVE  sid[c] \in Session
PROOF
  <1>1. sid[c] \in Session \cup {""} /\ PlaceOK(pc[c], job[c], sid[c])
    BY DEF TypeInv, ConnsOK
  <1>2. sid[c] # ""
    BY <1>1 DEF PlaceOK
  <1> QED BY <1>1, <1>2, HubAssumption

\* The ballot of a room goes on, perhaps to be revealed, or a new one begins.
BallotStep(i) ==
  \/ UNCHANGED round /\ heap'[i].phase \in {heap[i].phase, "reveal"}
  \/ round' = [round EXCEPT ![i] = @ + 1]

\* What is prepared to be said of the cards is said of a revealed ballot.
CardsRevealed(msgs, i) ==
  \A n \in DOMAIN msgs : Carried(msgs[n]) # {} =>
    /\ msgs[n].ballot = <<i, round[i]>>
    /\ UNCHANGED round /\ heap'[i].phase = "reveal"

\* How a handler goes on: it has something to announce, or it returns.
Announces(c, next) ==
  \E msgs \in Seq(Message), skip \in SUBSET Conn :
    /\ msgs # <<>>
    /\ Broadcast(c, msgs, skip, next)
    /\ CardsRevealed(msgs, job[c].room)
    /\ UNCHANGED <<buf, done>>

Answers(c) == Return(c) /\ (SendError(c) \/ UNCHANGED <<buf, done>>)

\* The step of a handler in its critical section: it may bring the presence
\* of its own session back, never that of another.
HandlerStep(c) ==
  /\ pc[c] = "handle"
  /\ UNCHANGED <<lock, now, manager, sid, pump, left>>
  /\ RoomsOK'
  /\ \A k \in RoomId \ {job[c].room} : heap'[k] = heap[k]
  /\ BallotStep(job[c].room)
  /\ \/ /\ job[c].event.kind = "leave"
        /\ Present(heap'[job[c].room]) \subseteq Present(RoomOf(c)) \ {sid[c]}
        /\ Announces(c, "forget")
     \/ /\ job[c].event.kind # "leave"
        /\ Present(heap'[job[c].room]) \subseteq Present(RoomOf(c)) \cup {sid[c]}
        /\ Announces(c, "read") \/ Answers(c)

\* A handler that changes the room and announces it.
LEMMA Committed ==
  ASSUME TypeInv, NEW c \in Conn, NEW kind, kind # "leave", Locked(c, kind),
         NEW r, IsRoom(r), NEW msgs \in Seq(Message), msgs # <<>>,
         Commit(c, r, msgs),
         \A n \in DOMAIN msgs : Carried(msgs[n]) = {},
         Present(r) \subseteq Present(RoomOf(c)) \cup {sid[c]},
         \/ UNCHANGED round /\ r.phase = RoomOf(c).phase
         \/ NextBallot(c)
  PROVE  HandlerStep(c)
PROOF
  <1>1. pc[c] = "handle" /\ job[c].event.kind = kind
        /\ UNCHANGED <<lock, now, manager, sid, pump, left>>
    BY DEF Locked
  <1>2. job[c].room \in RoomId
    BY <1>1, HasRoom
  <1>3. heap' = [heap EXCEPT ![job[c].room] = r]
    BY DEF Commit, Becomes
  <1>4. RoomsOK' /\ heap'[job[c].room] = r
        /\ \A k \in RoomId \ {job[c].room} : heap'[k] = heap[k]
    BY <1>2, <1>3, RoomChanges DEF TypeInv
  <1>5. BallotStep(job[c].room)
    BY <1>4 DEF BallotStep, NextBallot, RoomOf
  <1>6. Announces(c, "read")
    <2>1. Broadcast(c, msgs, {}, "read") /\ UNCHANGED <<buf, done>>
      BY DEF Commit
    <2>2. CardsRevealed(msgs, job[c].room)
      BY DEF CardsRevealed
    <2> QED BY <2>1, <2>2 DEF Announces
  <1> QED BY <1>1, <1>4, <1>5, <1>6 DEF HandlerStep

\* A refused call, and one that has nothing to say.
LEMMA Returned ==
  ASSUME TypeInv, NEW c \in Conn, NEW kind, kind # "leave", Locked(c, kind),
         NEW r, IsRoom(r), \/ Becomes(c, r)
                           \/ UNCHANGED heap /\ r = RoomOf(c),
         Present(r) \subseteq Present(RoomOf(c)) \cup {sid[c]},
         \/ UNCHANGED round /\ r.phase = RoomOf(c).phase
         \/ NextBallot(c),
         Return(c), SendError(c) \/ UNCHANGED <<buf, done>>
  PROVE  HandlerStep(c)
PROOF
  <1>1. pc[c] = "handle" /\ job[c].event.kind = kind
        /\ UNCHANGED <<lock, now, manager, sid, pump, left>>
    BY DEF Locked
  <1>2. job[c].room \in RoomId
    BY <1>1, HasRoom
  <1>3. RoomsOK' /\ heap'[job[c].room] = r
        /\ \A k \in RoomId \ {job[c].room} : heap'[k] = heap[k]
    <2>1. CASE Becomes(c, r)
      BY <1>2, <2>1, RoomChanges DEF TypeInv, Becomes
    <2>2. CASE UNCHANGED heap /\ r = RoomOf(c)
      BY <2>2 DEF TypeInv, RoomsOK, RoomOf
    <2> QED BY <2>1, <2>2
  <1>4. BallotStep(job[c].room)
    BY <1>3 DEF BallotStep, NextBallot, RoomOf
  <1>5. Answers(c)
    BY DEF Answers
  <1> QED BY <1>1, <1>3, <1>4, <1>5 DEF HandlerStep

\* A handler that changes nothing.
LEMMA Refused ==
  ASSUME TypeInv, NEW c \in Conn, NEW kind, kind # "leave", Locked(c, kind),
         Refuse(c) \/ Ignore(c), UNCHANGED round
  PROVE  HandlerStep(c)
PROOF
  <1>1. IsRoom(RoomOf(c))
    BY HasRoom DEF Locked
  <1>2. /\ UNCHANGED heap /\ Return(c)
        /\ SendError(c) \/ UNCHANGED <<buf, done>>
    BY DEF Refuse, Ignore
  <1> QED BY <1>1, <1>2, Returned

\* A single message to announce.
LEMMA OneMessage ==
  ASSUME NEW m \in Message
  PROVE  /\ <<m>> \in Seq(Message) /\ <<m>> # <<>>
         /\ DOMAIN <<m>> = {1} /\ <<m>>[1] = m
  OBVIOUS

\* Each handler, one by one: a vote.
LEMMA VoteHandled ==
  ASSUME TypeInv, NEW c \in Conn, HandleVote(c)
  PROVE  HandlerStep(c)
PROOF
  <1> DEFINE s == sid[c]
             value == job[c].event.value
             r == AfterCastVote(RoomOf(c), s, value, now)
             m == About(IF value = "" THEN "vote_retracted" ELSE "vote_cast", s)
  <1>1. Locked(c, "vote") /\ UNCHANGED round
    BY DEF HandleVote
  <1>2. IsRoom(RoomOf(c)) /\ now \in Nat /\ s \in Session
    BY <1>1, HasRoom, HasSession DEF Locked
  <1>3. CASE CanCastVote(RoomOf(c), s, value)
    <2>1. s \in Members(RoomOf(c))
      BY <1>3 DEF CanCastVote
    <2>2. IsRoom(r)
      BY <1>2, <1>3, CastVoteOK
    <2>3. r.phase = RoomOf(c).phase
      BY <1>2, <2>1, CastVoteEffect
    <2>4. Present(r) = Present(RoomOf(c))
      BY <1>2, <2>1, CastVotePresent
    <2>5. m \in Message /\ Carried(m) = {}
      BY <1>2, AboutOK
    <2>6. \/ Commit(c, r, <<m>>)
          \/ Becomes(c, r) /\ Return(c) /\ UNCHANGED <<buf, done>>
      BY <1>3 DEF HandleVote
    <2> HIDE DEF r, m, s, value
    <2>7. CASE Commit(c, r, <<m>>)
      BY <1>1, <2>2, <2>3, <2>4, <2>5, <2>7, OneMessage, Committed
    <2>8. CASE Becomes(c, r) /\ Return(c) /\ UNCHANGED <<buf, done>>
      BY <1>1, <2>2, <2>3, <2>4, <2>8, Returned
    <2> QED BY <2>6, <2>7, <2>8
  <1>4. CASE ~CanCastVote(RoomOf(c), s, value)
    BY <1>1, <1>4, Refused DEF HandleVote
  <1> QED BY <1>3, <1>4

\* A reveal, which prepares the cards of the ballot it ends.
LEMMA RevealHandled ==
  ASSUME TypeInv, NEW c \in Conn, HandleReveal(c)
  PROVE  HandlerStep(c)
PROOF
  <1> DEFINE i == job[c].room
             r == AfterReveal(RoomOf(c), now)
             m == VotesRevealed(r, <<i, round[i]>>)
  <1>1. Locked(c, "reveal") /\ UNCHANGED round
    BY DEF HandleReveal
  <1>2. /\ IsRoom(RoomOf(c)) /\ now \in Nat /\ i \in RoomId
        /\ <<i, round[i]>> \in Ballots
    BY <1>1, HasRoom DEF Locked
  <1>3. CASE CanReveal(RoomOf(c))
    <2>1. IsRoom(r) /\ r.phase = "reveal" /\ Present(r) = Present(RoomOf(c))
      BY <1>2, TimerOK, RevealEffect, TimerPresent
    <2>2. m \in Message /\ m.ballot = <<i, round[i]>>
      BY <1>2, <2>1, VotesRevealedOK
    <2>3. Commit(c, r, <<m>>)
      BY <1>3 DEF HandleReveal
    <2> HIDE DEF m, r
    <2>4. RoomsOK' /\ heap'[i] = r /\ \A k \in RoomId \ {i} : heap'[k] = heap[k]
      BY <1>2, <2>1, <2>3, RoomChanges DEF TypeInv, Commit, Becomes
    <2>5. CardsRevealed(<<m>>, i)
      BY <1>1, <2>1, <2>2, <2>4, OneMessage DEF CardsRevealed
    <2>6. Announces(c, "read")
      <3>1. Broadcast(c, <<m>>, {}, "read") /\ UNCHANGED <<buf, done>>
        BY <2>3 DEF Commit
      <3>2. {} \in SUBSET Conn /\ <<m>> \in Seq(Message) /\ <<m>> # <<>>
        BY <2>2
      <3> QED BY <2>5, <3>1, <3>2 DEF Announces
    <2>7. BallotStep(i)
      BY <1>1, <2>1, <2>4 DEF BallotStep
    <2> QED BY <1>1, <2>1, <2>4, <2>6, <2>7 DEF HandlerStep, Locked
  <1>4. CASE ~CanReveal(RoomOf(c))
    BY <1>1, <1>4, Refused DEF HandleReveal
  <1> QED BY <1>3, <1>4

\* A new round.
LEMMA NewRoundHandled ==
  ASSUME TypeInv, NEW c \in Conn, HandleNewRound(c)
  PROVE  HandlerStep(c)
PROOF
  <1> DEFINE r == AfterNewRound(RoomOf(c), now)
             q == AfterTimerInfo(RoomOf(c), now)
             msgs == <<Plain("round_reset"), TimerUpdated(r, now)>>
  <1>1. Locked(c, "new_round")
    BY DEF HandleNewRound
  <1>2. IsRoom(RoomOf(c)) /\ now \in Nat
    BY <1>1, HasRoom DEF Locked
  <1>3. CASE CanNewRound(RoomOf(c))
    <2>1. IsRoom(r) /\ Present(r) = Present(RoomOf(c))
      BY <1>2, NewRoundOK, NewRoundPresent
    <2>2. /\ Plain("round_reset") \in Message /\ Carried(Plain("round_reset")) = {}
          /\ TimerUpdated(r, now) \in Message /\ Carried(TimerUpdated(r, now)) = {}
      BY <1>2, <2>1, PlainOK, TimerUpdatedOK
    <2>3. /\ msgs \in Seq(Message) /\ msgs # <<>>
          /\ \A n \in DOMAIN msgs : Carried(msgs[n]) = {}
      BY <2>2
    <2>4. Commit(c, r, msgs) /\ NextBallot(c)
      BY <1>3 DEF HandleNewRound
    <2> HIDE DEF r, msgs
    <2> QED BY <1>1, <2>1, <2>3, <2>4, Committed
  <1>4. CASE ~CanNewRound(RoomOf(c))
    <2>1. /\ Becomes(c, q) /\ SendError(c) /\ Return(c) /\ UNCHANGED round
      BY <1>4 DEF HandleNewRound
    <2>2. IsRoom(q) /\ Present(q) = Present(RoomOf(c))
      BY <1>2, TimerOK, TimerPresent
    <2>3. q.phase = RoomOf(c).phase
      BY <1>2 DEF AfterTimerInfo, IsRoom
    <2> HIDE DEF q
    <2> QED BY <1>1, <2>1, <2>2, <2>3, Returned
  <1> QED BY <1>3, <1>4

\* A clearing, which was announced before.
LEMMA ClearRoomHandled ==
  ASSUME TypeInv, NEW c \in Conn, HandleClearRoom(c)
  PROVE  HandlerStep(c)
PROOF
  <1> DEFINE r == AfterClearRoom(RoomOf(c), now)
  <1>1. /\ Locked(c, "clear_room") /\ Becomes(c, r) /\ NextBallot(c) /\ Return(c)
        /\ UNCHANGED <<buf, done>>
    BY DEF HandleClearRoom
  <1>2. IsRoom(r) /\ Present(r) = {}
    BY <1>1, HasRoom, NewRoomOK, NewRoomPresent DEF AfterClearRoom, Locked
  <1> HIDE DEF r
  <1> QED BY <1>1, <1>2, Returned

\* Another name.
LEMMA UpdateNameHandled ==
  ASSUME TypeInv, NEW c \in Conn, HandleUpdateName(c)
  PROVE  HandlerStep(c)
PROOF
  <1> DEFINE s == sid[c]
             raw == job[c].event.name
             r == AfterUpdateName(RoomOf(c), s, raw, now)
             m == NameUpdated(s, displayName[raw])
  <1>1. Locked(c, "update_name") /\ UNCHANGED round
    BY DEF HandleUpdateName
  <1>2. /\ IsRoom(RoomOf(c)) /\ now \in Nat /\ s \in Session
        /\ raw \in RawName
    BY <1>1, HasRoom, HasSession, RequestFields
       DEF Locked, TypeInv, ConnsOK, PlaceOK
  <1>3. CASE CanUpdateName(RoomOf(c), s, raw)
    <2>1. s \in Members(RoomOf(c)) /\ displayName[raw] \in Name
      BY <1>2, <1>3, RoomAssumption DEF CanUpdateName
    <2>2. IsRoom(r)
      BY <1>2, <1>3, UpdateNameOK
    <2>3. r.phase = RoomOf(c).phase /\ Present(r) = Present(RoomOf(c))
      BY <1>2, <2>1, UpdateNameEffect, UpdateNamePresent
    <2>4. m \in Message /\ Carried(m) = {}
      BY <1>2, <2>1, NameUpdatedOK
    <2>5. Commit(c, r, <<m>>)
      BY <1>3 DEF HandleUpdateName
    <2> HIDE DEF r, m, s, raw
    <2> QED BY <1>1, <2>2, <2>3, <2>4, <2>5, OneMessage, Committed
  <1>4. CASE ~CanUpdateName(RoomOf(c), s, raw)
    BY <1>1, <1>4, Refused DEF HandleUpdateName
  <1> QED BY <1>3, <1>4

\* A change of presence, which brings back no session but its own.
LEMMA PresenceHandled ==
  ASSUME TypeInv, NEW c \in Conn, HandlePresence(c)
  PROVE  HandlerStep(c)
PROOF
  <1> DEFINE s == sid[c]
             status == job[c].event.status
             r == AfterUpdatePresence(RoomOf(c), s, status, now)
             m == Presence(s, status)
  <1>1. Locked(c, "presence") /\ UNCHANGED round
    BY DEF HandlePresence
  <1>2. IsRoom(RoomOf(c)) /\ now \in Nat /\ s \in Session
    BY <1>1, HasRoom, HasSession DEF Locked
  <1>3. CASE CanUpdatePresence(RoomOf(c), s, status)
    <2>1. s \in Members(RoomOf(c)) /\ status \in Statuses
      BY <1>3 DEF CanUpdatePresence, Statuses
    <2>2. IsRoom(r)
      BY <1>2, <1>3, UpdatePresenceOK
    <2>3. r.phase = RoomOf(c).phase /\ Present(r) = Present(RoomOf(c)) \cup {s}
      BY <1>2, <1>3, <2>1, UpdatePresenceEffect, UpdatePresencePresent
    <2>4. m \in Message /\ Carried(m) = {}
      BY <1>2, <2>1, PresenceOK
    <2>5. Commit(c, r, <<m>>)
      BY <1>3 DEF HandlePresence
    <2> HIDE DEF r, m, status
    <2> QED BY <1>1, <2>2, <2>3, <2>4, <2>5, OneMessage, Committed
  <1>4. CASE ~CanUpdatePresence(RoomOf(c), s, status)
    BY <1>1, <1>4, Refused DEF HandlePresence
  <1> QED BY <1>3, <1>4

\* Another role.
LEMMA UpdateRoleHandled ==
  ASSUME TypeInv, NEW c \in Conn, HandleUpdateRole(c)
  PROVE  HandlerStep(c)
PROOF
  <1> DEFINE s == sid[c]
             role == job[c].event.role
             r == AfterUpdateRole(RoomOf(c), s, role, now)
             m == RoleUpdated(s, role)
  <1>1. Locked(c, "update_role") /\ UNCHANGED round
    BY DEF HandleUpdateRole
  <1>2. IsRoom(RoomOf(c)) /\ now \in Nat /\ s \in Session
    BY <1>1, HasRoom, HasSession DEF Locked
  <1>3. CASE CanUpdateRole(RoomOf(c), s, role)
    <2>1. s \in Members(RoomOf(c)) /\ role \in Roles
      BY <1>3 DEF CanUpdateRole
    <2>2. IsRoom(r)
      BY <1>2, <1>3, UpdateRoleOK
    <2>3. r.phase = RoomOf(c).phase /\ Present(r) = Present(RoomOf(c))
      BY <1>2, <2>1, UpdateRoleEffect, UpdateRolePresent
    <2>4. m \in Message /\ Carried(m) = {}
      BY <1>2, <2>1, RoleUpdatedOK
    <2>5. Commit(c, r, <<m>>)
      BY <1>3 DEF HandleUpdateRole
    <2> HIDE DEF r, m, s, role
    <2> QED BY <1>1, <2>2, <2>3, <2>4, <2>5, OneMessage, Committed
  <1>4. CASE ~CanUpdateRole(RoomOf(c), s, role)
    BY <1>1, <1>4, Refused DEF HandleUpdateRole
  <1> QED BY <1>3, <1>4

\* The countdown.
LEMMA TimerHandled ==
  ASSUME TypeInv, NEW c \in Conn,
         HandleTimerSetDuration(c) \/ HandleTimerStart(c) \/ HandleTimerReset(c)
  PROVE  HandlerStep(c)
PROOF
  <1>1. ASSUME NEW kind, kind # "leave", Locked(c, kind), UNCHANGED round,
               NEW r, IsRoom(r), r.phase = RoomOf(c).phase,
               Present(r) = Present(RoomOf(c)),
               Commit(c, r, <<TimerUpdated(r, now)>>)
        PROVE  HandlerStep(c)
    <2>1. now \in Nat
      BY <1>1, HasRoom DEF Locked
    <2>2. /\ TimerUpdated(r, now) \in Message
          /\ Carried(TimerUpdated(r, now)) = {}
      BY <1>1, <2>1, TimerUpdatedOK
    <2> QED BY <1>1, <2>2, OneMessage, Committed
  <1>2. pc[c] = "handle"
    BY DEF HandleTimerSetDuration, HandleTimerStart, HandleTimerReset, Locked
  <1>3. IsRoom(RoomOf(c)) /\ now \in Nat
    BY <1>2, HasRoom
  <1>4. CASE HandleTimerSetDuration(c)
    <2> DEFINE d == job[c].event.duration
               r == AfterSetTimerDuration(RoomOf(c), d, now)
    <2>1. Locked(c, "timer_set_duration") /\ UNCHANGED round
      BY <1>4 DEF HandleTimerSetDuration
    <2>2. CASE CanSetTimerDuration(RoomOf(c), d)
      <3>1. IsRoom(r) /\ r.phase = RoomOf(c).phase /\ Present(r) = Present(RoomOf(c))
        BY <1>3, <2>2, TimerOK, SetTimerDurationEffect, TimerPresent
      <3>2. Commit(c, r, <<TimerUpdated(r, now)>>)
        BY <1>4, <2>2 DEF HandleTimerSetDuration
      <3> HIDE DEF r
      <3> QED BY <1>1, <2>1, <3>1, <3>2
    <2>3. CASE ~CanSetTimerDuration(RoomOf(c), d)
      BY <1>4, <2>1, <2>3, Refused DEF HandleTimerSetDuration
    <2> QED BY <2>2, <2>3
  <1>5. CASE HandleTimerStart(c)
    <2> DEFINE r == AfterStartTimer(RoomOf(c), now)
    <2>1. Locked(c, "timer_start") /\ UNCHANGED round
      BY <1>5 DEF HandleTimerStart
    <2>2. CASE CanStartTimer(RoomOf(c))
      <3>1. IsRoom(r) /\ r.phase = RoomOf(c).phase /\ Present(r) = Present(RoomOf(c))
        BY <1>3, TimerOK, StartTimerEffect, TimerPresent
      <3>2. Commit(c, r, <<TimerUpdated(r, now)>>)
        BY <1>5, <2>2 DEF HandleTimerStart
      <3> HIDE DEF r
      <3> QED BY <1>1, <2>1, <3>1, <3>2
    <2>3. CASE ~CanStartTimer(RoomOf(c))
      BY <1>5, <2>1, <2>3, Refused DEF HandleTimerStart
    <2> QED BY <2>2, <2>3
  <1>6. CASE HandleTimerReset(c)
    <2> DEFINE r == AfterResetTimer(RoomOf(c), now)
    <2>1. Locked(c, "timer_reset") /\ UNCHANGED round
      BY <1>6 DEF HandleTimerReset
    <2>2. CASE CanResetTimer(RoomOf(c))
      <3>1. IsRoom(r) /\ r.phase = RoomOf(c).phase /\ Present(r) = Present(RoomOf(c))
        BY <1>3, TimerOK, ResetTimerEffect, TimerPresent
      <3>2. Commit(c, r, <<TimerUpdated(r, now)>>)
        BY <1>6, <2>2 DEF HandleTimerReset
      <3> HIDE DEF r
      <3> QED BY <1>1, <2>1, <3>1, <3>2
    <2>3. CASE ~CanResetTimer(RoomOf(c))
      BY <1>6, <2>1, <2>3, Refused DEF HandleTimerReset
    <2> QED BY <2>2, <2>3
  <1> QED BY <1>4, <1>5, <1>6

\* A leave, after which the session is not present.
LEMMA LeaveHandled ==
  ASSUME TypeInv, NEW c \in Conn, HandleLeave(c)
  PROVE  HandlerStep(c)
PROOF
  <1> DEFINE i == job[c].room
             s == sid[c]
             r == IF CanLeave(RoomOf(c), s) THEN AfterLeave(RoomOf(c), s, now)
                  ELSE RoomOf(c)
             m == About("participant_left", s)
  <1>1. Locked(c, "leave") /\ UNCHANGED <<round, buf, done>>
    BY DEF HandleLeave
  <1>2. IsRoom(RoomOf(c)) /\ now \in Nat /\ s \in Session /\ i \in RoomId
    BY <1>1, HasRoom, HasSession DEF Locked
  <1>3. /\ IsRoom(r) /\ r.phase = RoomOf(c).phase
        /\ Present(r) \subseteq Present(RoomOf(c)) \ {s}
    <2>1. CASE CanLeave(RoomOf(c), s)
      BY <1>2, <2>1, LeaveOK, LeaveEffect, LeavePresent
    <2>2. CASE ~CanLeave(RoomOf(c), s)
      BY <1>2, <2>2 DEF CanLeave, Present
    <2> QED BY <2>1, <2>2
  <1>4. m \in Message /\ Carried(m) = {}
    BY <1>2, AboutOK
  <1>5. Broadcast(c, <<m>>, {c}, "forget")
    BY DEF HandleLeave
  <1>6. \/ Becomes(c, r)
        \/ UNCHANGED heap /\ r = RoomOf(c)
    BY DEF HandleLeave
  <1> HIDE DEF r, m
  <1>7. RoomsOK' /\ heap'[i] = r /\ \A k \in RoomId \ {i} : heap'[k] = heap[k]
    <2>1. CASE Becomes(c, r)
      BY <1>2, <1>3, <2>1, RoomChanges DEF TypeInv, Becomes
    <2>2. CASE UNCHANGED heap /\ r = RoomOf(c)
      BY <2>2 DEF TypeInv, RoomsOK, RoomOf
    <2> QED BY <1>6, <2>1, <2>2
  <1>8. BallotStep(i)
    BY <1>1, <1>3, <1>7 DEF BallotStep, RoomOf
  <1>9. Announces(c, "forget")
    <2>1. CardsRevealed(<<m>>, i)
      BY <1>4, OneMessage DEF CardsRevealed
    <2>2. {c} \in SUBSET Conn
      OBVIOUS
    <2> QED BY <1>1, <1>4, <1>5, <2>1, <2>2, OneMessage DEF Announces
  <1> QED BY <1>1, <1>3, <1>7, <1>8, <1>9 DEF HandlerStep, Locked

(***************************************************************************)
(* Where every other step takes its connection.                            *)
(***************************************************************************)
Steps(c, p, j, s) ==
  /\ Moves(c, p, j, s)
  /\ p \in Places /\ j \in Job /\ s \in Session \cup {""}
  /\ PlaceOK(p, j, s)

\* What TypeInv says of one connection.
LEMMA OfConn ==
  ASSUME TypeInv, NEW c \in Conn
  PROVE  /\ pc[c] \in Places /\ job[c] \in Job
         /\ sid[c] \in Session \cup {""}
         /\ job[c].room <= made
         /\ PlaceOK(pc[c], job[c], sid[c])
  BY DEF TypeInv, ConnsOK

\* How Goto moves c.
LEMMA Moving ==
  ASSUME TypeInv, NEW c \in Conn, NEW p, Goto(c, p)
  PROVE  /\ UNCHANGED <<job, sid>> => Moves(c, p, job[c], sid[c])
         /\ \A j : job' = [job EXCEPT ![c] = j] /\ UNCHANGED sid
                     => Moves(c, p, j, sid[c])
PROOF
  <1>1. sid = [sid EXCEPT ![c] = sid[c]] /\ job = [job EXCEPT ![c] = job[c]]
    BY DEF TypeInv, ConnsOK
  <1>2. pc' = [pc EXCEPT ![c] = p]
    BY DEF Goto
  <1>3. UNCHANGED <<job, sid>> => Moves(c, p, job[c], sid[c])
    BY <1>1, <1>2 DEF Moves
  <1>4. ASSUME NEW j, job' = [job EXCEPT ![c] = j], UNCHANGED sid
        PROVE  Moves(c, p, j, sid[c])
    BY <1>1, <1>2, <1>4 DEF Moves
  <1> QED BY <1>3, <1>4

\* A connection begins to read.
LEMMA ConnectSteps ==
  ASSUME TypeInv, NEW c \in Conn, Connect(c)
  PROVE  Steps(c, "read", NoJob, sid[c])
PROOF
  <1>1. pc[c] = "new" /\ Goto(c, "read") /\ UNCHANGED <<job, sid>>
    BY DEF Connect
  <1>2. job[c] = NoJob /\ sid[c] = ""
    BY <1>1, OfConn DEF PlaceOK
  <1>3. Moves(c, "read", NoJob, sid[c])
    BY <1>1, <1>2, Moving
  <1>4. PlaceOK("read", NoJob, sid[c])
    BY <1>2, NoJobOK
  <1> QED BY <1>3, <1>4, OfConn, NoJobOK DEF Steps, Places

\* A join that was received.
LEMMA ReceiveJoinSteps ==
  ASSUME TypeInv, NEW c \in Conn, NEW q \in Request, ReceiveJoin(c, q)
  PROVE  \/ /\ Steps(c, "create", [NoJob EXCEPT !.event = q], sid[c])
            /\ UNCHANGED <<buf, done>>
         \/ SendError(c) /\ UNCHANGED <<pc, job, sid>>
PROOF
  <1> DEFINE j == [NoJob EXCEPT !.event = q]
  <1>1. Read(c, q) /\ q.kind = "join"
    BY DEF ReceiveJoin
  <1>2. pc[c] = "read" /\ UNCHANGED sid
    BY <1>1 DEF Read
  <1>3. job[c] = NoJob
    BY <1>2, OfConn DEF PlaceOK
  <1>4. CASE /\ Goto(c, "create")
             /\ job' = [job EXCEPT ![c] = [@ EXCEPT !.event = q]]
             /\ UNCHANGED <<buf, done>>
    <2>1. job' = [job EXCEPT ![c] = j]
      BY <1>3, <1>4 DEF TypeInv, ConnsOK
    <2>2. j \in Job
      BY NoJobOK DEF Job
    <2>3. j.event = q /\ j.next = "read"
      BY DEF NoJob
    <2> HIDE DEF j
    <2>4. Moves(c, "create", j, sid[c])
      BY <1>2, <1>4, <2>1, Moving
    <2>5. PlaceOK("create", j, sid[c])
      BY <1>1, <2>3 DEF PlaceOK
    <2>6. Steps(c, "create", j, sid[c])
      BY <2>2, <2>4, <2>5, OfConn DEF Steps, Places
    <2> QED BY <1>4, <2>6 DEF j
  <1>5. CASE current = NoRoom /\ SendError(c) /\ UNCHANGED <<pc, job>>
    BY <1>2, <1>5
  <1> QED BY <1>4, <1>5 DEF ReceiveJoin

\* Any other event that was received.
LEMMA ReceiveSteps ==
  ASSUME TypeInv, NEW c \in Conn, NEW q \in Request, Receive(c, q)
  PROVE  \/ /\ UNCHANGED <<pc, job, sid>>
            /\ SendError(c) \/ UNCHANGED <<buf, done>>
         \/ /\ current # NoRoom /\ UNCHANGED <<buf, done>>
            /\ Steps(c, "snapshot",
                     [NoJob EXCEPT !.event = q, !.room = current,
                                   !.todo = <<Plain("room_cleared")>>,
                                   !.next = "handle"], sid[c])
            /\ q.kind = "clear_room"
         \/ /\ current # NoRoom /\ UNCHANGED <<buf, done>>
            /\ Steps(c, "handle", [NoJob EXCEPT !.event = q, !.room = current],
                     sid[c])
PROOF
  <1>1. Read(c, q)
    BY DEF Receive
  <1>2. pc[c] = "read" /\ UNCHANGED sid
    BY <1>1 DEF Read
  <1>3. CASE sid[c] = "" \/ current = NoRoom
    <2>1. /\ IF q.kind = "leave" THEN UNCHANGED <<buf, done>> ELSE SendError(c)
          /\ UNCHANGED <<pc, job>>
      BY <1>3 DEF Receive
    <2> QED BY <1>2, <2>1
  <1>4. CASE ~(sid[c] = "" \/ current = NoRoom)
    <2>0. current \in RoomId /\ sid[c] # "" /\ UNCHANGED <<buf, done>>
      <3>1. made \in Nat /\ MaxRooms \in Nat /\ current \in 0 .. made
            /\ made <= MaxRooms
        BY RoomIds DEF TypeInv, RestOK
      <3>2. current # 0
        BY <1>4 DEF NoRoom
      <3>3. current \in 1 .. MaxRooms
        BY <3>1, <3>2
      <3> QED BY <1>4, <3>3 DEF RoomId, Receive
    <2>1. CASE q.kind = "clear_room"
      <3> DEFINE j == [NoJob EXCEPT !.event = q, !.room = current,
                                    !.todo = <<Plain("room_cleared")>>,
                                    !.next = "handle"]
      <3>1. Goto(c, "snapshot") /\ job' = [job EXCEPT ![c] = j]
        BY <1>4, <2>1 DEF Receive
      <3>0. <<Plain("room_cleared")>> \in Seq(Message) \ {<<>>}
        BY PlainOK, OneMessage
      <3>2. j \in Job
        BY <2>0, <3>0, NoJobOK DEF Job
      <3>3. /\ j.event = q /\ j.room = current
            /\ j.todo = <<Plain("room_cleared")>> /\ j.next = "handle"
        BY DEF NoJob
      <3> HIDE DEF j
      <3>4. Moves(c, "snapshot", j, sid[c])
        BY <1>2, <3>1, Moving
      <3>5. PlaceOK("snapshot", j, sid[c])
        BY <2>0, <2>1, <3>0, <3>3, RoomIds DEF PlaceOK
      <3>6. Steps(c, "snapshot", j, sid[c])
        BY <3>2, <3>4, <3>5, OfConn DEF Steps, Places
      <3> QED BY <1>4, <2>0, <2>1, <3>6 DEF j
    <2>2. CASE q.kind # "clear_room"
      <3> DEFINE j == [NoJob EXCEPT !.event = q, !.room = current]
      <3>1. Goto(c, "handle") /\ job' = [job EXCEPT ![c] = j]
        BY <1>4, <2>2 DEF Receive
      <3>2. j \in Job
        BY <2>0, NoJobOK DEF Job
      <3>3. j.event = q /\ j.room = current
        BY DEF NoJob
      <3> HIDE DEF j
      <3>4. Moves(c, "handle", j, sid[c])
        BY <1>2, <3>1, Moving
      <3>5. PlaceOK("handle", j, sid[c])
        BY <2>0, <3>3, RoomIds DEF PlaceOK
      <3>6. Steps(c, "handle", j, sid[c])
        BY <3>2, <3>4, <3>5, OfConn DEF Steps, Places
      <3> QED BY <1>4, <2>0, <3>6 DEF j
    <2> QED BY <2>1, <2>2
  <1> QED BY <1>3, <1>4

\* What TypeInv says of the room of the map.
LEMMA CurrentOK ==
  ASSUME TypeInv
  PROVE  /\ made \in Nat /\ current \in Nat /\ current <= made /\ made <= MaxRooms
         /\ now \in Nat
         /\ current # NoRoom => current \in RoomId /\ IsRoom(heap[current])
PROOF
  <1>1. MaxRooms \in Nat /\ made \in 0 .. MaxRooms /\ current \in 0 .. made
        /\ now \in Nat
    BY RoomIds DEF TypeInv, RestOK
  <1>2. made \in Nat /\ current \in Nat /\ current <= made /\ made <= MaxRooms
    BY <1>1
  <1>3. current # 0 => current \in 1 .. MaxRooms
    BY <1>1, <1>2
  <1> QED BY <1>1, <1>2, <1>3 DEF RoomId, NoRoom, TypeInv, RoomsOK

\* A room is found or made.
LEMMA GetOrCreateRoomSteps ==
  ASSUME TypeInv, NEW c \in Conn, GetOrCreateRoom(c)
  PROVE  /\ current' \in RoomId
         /\ Steps(c, "join", [job[c] EXCEPT !.room = current'], sid[c])
         /\ \/ UNCHANGED <<heap, made, current, clients>>
            \/ /\ current = NoRoom /\ current' = made' /\ clients' = {}
               /\ made' = made + 1 /\ made' \in RoomId
               /\ heap' = [heap EXCEPT ![made'] = NewRoom(now)]
PROOF
  <1>1. pc[c] = "create" /\ Goto(c, "join") /\ UNCHANGED sid
    BY DEF GetOrCreateRoom
  <1>2. /\ current' \in RoomId
        /\ job' = [job EXCEPT ![c] = [job[c] EXCEPT !.room = current']]
        /\ \/ UNCHANGED <<heap, made, current, clients>>
           \/ /\ current = NoRoom /\ current' = made' /\ clients' = {}
              /\ made' = made + 1 /\ made' \in RoomId
              /\ heap' = [heap EXCEPT ![made'] = NewRoom(now)]
    <2>1. CASE current # NoRoom
      BY <2>1, CurrentOK DEF GetOrCreateRoom
    <2>2. CASE current = NoRoom
      <3>1. /\ made < MaxRooms /\ made' = made + 1 /\ current' = made'
            /\ heap' = [heap EXCEPT ![made'] = NewRoom(now)]
            /\ clients' = {}
            /\ job' = [job EXCEPT ![c] = [job[c] EXCEPT !.room = made']]
        BY <2>2 DEF GetOrCreateRoom
      <3>2. MaxRooms \in Nat /\ made \in Nat
        BY RoomIds, CurrentOK
      <3>3. made' \in 1 .. MaxRooms
        BY <3>1, <3>2
      <3> QED BY <2>2, <3>1, <3>3 DEF RoomId
    <2> QED BY <2>1, <2>2
  <1> DEFINE j == [job[c] EXCEPT !.room = current']
  <1>4. j = [job[c] EXCEPT !.room = current'] /\ Moves(c, "join", j, sid[c])
    BY <1>1, <1>2, Moving
  <1> HIDE DEF j
  <1>3. j \in Job /\ j.room = current' /\ j.event = job[c].event /\ j.next = job[c].next
    <2>1. job[c] \in Job /\ current' \in RoomId
      BY <1>2, OfConn
    <2> QED BY <1>4, <2>1 DEF Job
  <1>5. /\ job[c].event \in Request /\ job[c].event.kind = "join"
        /\ job[c].next = "read"
    BY <1>1, OfConn DEF PlaceOK
  <1>6. PlaceOK("join", j, sid[c])
    BY <1>2, <1>3, <1>5, RoomIds DEF PlaceOK
  <1>7. Steps(c, "join", j, sid[c])
    BY <1>3, <1>4, <1>6, OfConn DEF Steps, Places
  <1> QED BY <1>2, <1>7 DEF j

\* A handler ends.
LEMMA ReturnSteps ==
  ASSUME TypeInv, NEW c \in Conn, Return(c), NEW s \in Session \cup {""},
         sid' = [sid EXCEPT ![c] = s]
  PROVE  Steps(c, "read", NoJob, s)
  BY NoJobOK DEF Return, Goto, Steps, Moves, Places

\* A join succeeds and keeps the lock, or is refused.
LEMMA JoinSteps ==
  ASSUME TypeInv, NEW c \in Conn, Join(c)
  PROVE  \/ /\ CanJoin(RoomOf(c), job[c].event.session,
                       job[c].event.name, job[c].event.role)
            /\ Becomes(c, AfterJoin(RoomOf(c), job[c].event.session,
                                    job[c].event.name, job[c].event.role, now))
            /\ lock[job[c].room] = NoConn
            /\ lock' = [lock EXCEPT ![job[c].room] = c]
            /\ UNCHANGED <<buf, done>>
            /\ \E m \in Message : \E j :
                 /\ Carried(m) = {}
                 /\ Steps(c, "register", j, job[c].event.session)
                 /\ j.todo = <<m>> /\ j.room = job[c].room
         \/ /\ Steps(c, "read", NoJob, sid[c])
            /\ SendError(c) /\ UNCHANGED <<heap, lock>>
PROOF
  <1> DEFINE i == job[c].room
             q == job[c].event
             s == q.session
             r == AfterJoin(heap[i], s, q.name, q.role, now)
             m == IF s \in Members(heap[i]) THEN Presence(s, "active")
                  ELSE Joined(s, r.participants[s])
             msgs == <<m>>
             j == [job[c] EXCEPT !.skip = {c}, !.todo = msgs]
  <1>1. pc[c] = "join" /\ lock[i] = NoConn
    BY DEF Join
  <1>0. /\ IsRoom(heap[i]) /\ now \in Nat
        /\ q \in Request /\ q.kind = "join" /\ job[c].next = "read"
        /\ i \in RoomId
    BY <1>1, HasRoom, OfConn DEF RoomOf, PlaceOK
  <1>2. /\ IsRoom(heap[i]) /\ now \in Nat /\ s \in Session
        /\ q \in Request /\ q.kind = "join" /\ job[c].next = "read"
        /\ i \in RoomId
    BY <1>0, RequestFields
  <1>3. CASE CanJoin(heap[i], s, q.name, q.role)
    <2>1. /\ heap' = [heap EXCEPT ![i] = r]
          /\ lock' = [lock EXCEPT ![i] = c]
          /\ sid' = [sid EXCEPT ![c] = s]
          /\ job' = [job EXCEPT ![c] = [@ EXCEPT !.skip = {c}, !.todo = <<m>>]]
          /\ Goto(c, "register")
          /\ UNCHANGED <<buf, done>>
      BY <1>3 DEF Join
    <2>2. m \in Message /\ Carried(m) = {}
      <3>1. CASE s \in Members(heap[i])
        BY <1>2, <3>1, PresenceOK DEF Statuses
      <3>2. CASE s \notin Members(heap[i])
        <4>1. IsRoom(r)
          BY <1>2, <1>3, JoinOK, RequestFields
        <4>2. s \in Members(r)
          BY <1>2, JoinEffect
        <4>3. r.participants[s] \in Participant
          BY <4>1, <4>2, MemberOK
        <4> HIDE DEF r
        <4> QED BY <1>2, <3>2, <4>3, JoinedOK
      <3> QED BY <3>1, <3>2
    <2> HIDE DEF m
    <2>3. msgs \in Seq(Message) /\ {c} \in SUBSET Conn /\ job[c] \in Job
          /\ Len(msgs) = 1
      BY <2>2, OneMessage, OfConn
    <2> HIDE DEF msgs
    <2>5. /\ j = [job[c] EXCEPT !.skip = {c}, !.todo = msgs]
          /\ job' = [job EXCEPT ![c] = j]
      BY <2>1, Zenon DEF msgs
    <2> HIDE DEF j
    <2>4. /\ j \in Job
          /\ j.room = i /\ j.event = q /\ j.next = "read" /\ j.todo = msgs
      <3>1. /\ j \in Job /\ j.todo = msgs
            /\ j.room = job[c].room /\ j.event = job[c].event
            /\ j.next = job[c].next
        BY <2>3, <2>5 DEF Job
      <3> QED BY <1>2, <3>1
    <2>6. Moves(c, "register", j, s)
      BY <2>1, <2>5 DEF Moves, Goto
    <2>7. PlaceOK("register", j, s)
      BY <1>2, <2>3, <2>4, RoomIds, HubAssumption DEF PlaceOK
    <2>8. Steps(c, "register", j, s)
      BY <1>2, <2>4, <2>6, <2>7 DEF Steps, Places
    <2>9. j.todo = <<m>>
      BY <2>4 DEF msgs
    <2>10. \E k : /\ Steps(c, "register", k, s)
                 /\ k.todo = <<m>> /\ k.room = job[c].room
      BY <2>4, <2>8, <2>9
    <2> QED BY <1>1, <1>3, <2>1, <2>2, <2>10 DEF RoomOf, Becomes
  <1>4. CASE ~CanJoin(heap[i], s, q.name, q.role)
    <2>1. SendError(c) /\ Return(c) /\ UNCHANGED <<heap, lock, sid>>
      BY <1>4 DEF Join
    <2>2. sid' = [sid EXCEPT ![c] = sid[c]]
      BY <2>1 DEF TypeInv, ConnsOK
    <2>3. Steps(c, "read", NoJob, sid[c])
      BY <2>1, <2>2, ReturnSteps, OfConn
    <2> QED BY <2>1, <2>3
  <1> QED BY <1>3, <1>4

\* The client is registered.
LEMMA RegisterClientSteps ==
  ASSUME TypeInv, NEW c \in Conn, RegisterClient(c)
  PROVE  pc[c] = "register" /\ Steps(c, "state", job[c], sid[c])
PROOF
  <1>1. pc[c] = "register" /\ Goto(c, "state") /\ UNCHANGED <<job, sid>>
    BY DEF RegisterClient
  <1>2. Moves(c, "state", job[c], sid[c])
    BY <1>1, Moving
  <1>3. PlaceOK("state", job[c], sid[c])
    BY <1>1, OfConn DEF PlaceOK
  <1> QED BY <1>1, <1>2, <1>3, OfConn DEF Steps, Places

\* One message in front of another.
LEMMA TwoMessages ==
  ASSUME NEW m \in Message, NEW msgs \in Seq(Message), Len(msgs) = 1
  PROVE  /\ <<m>> \o msgs \in Seq(Message) /\ Len(<<m>> \o msgs) = 2
         /\ (<<m>> \o msgs)[1] = m /\ (<<m>> \o msgs)[2] = msgs[1]
         /\ DOMAIN (<<m>> \o msgs) = {1, 2}
  OBVIOUS

\* The room_state is prepared, and the lock given back.
LEMMA BuildRoomStateSteps ==
  ASSUME TypeInv, NEW c \in Conn, BuildRoomState(c)
  PROVE  LET i == job[c].room
             m == RoomState(heap[i], now, <<i, round[i]>>)
         IN  /\ pc[c] = "state" /\ i \in RoomId /\ Len(job[c].todo) = 1
             /\ m \in Message /\ m.ballot = <<i, round[i]>>
             /\ Carried(m) # {} => heap[i].phase = "reveal"
             /\ heap' = [heap EXCEPT ![i] = AfterTimerInfo(heap[i], now)]
             /\ \E j : /\ Steps(c, "welcome", j, sid[c])
                      /\ j.todo = <<m>> \o job[c].todo /\ j.room = i
PROOF
  <1> DEFINE i == job[c].room
             m == RoomState(heap[i], now, <<i, round[i]>>)
             msgs == <<m>> \o job[c].todo
             j == [job[c] EXCEPT !.todo = msgs]
  <1>1. /\ pc[c] = "state" /\ Goto(c, "welcome") /\ UNCHANGED sid
        /\ heap' = [heap EXCEPT ![i] = AfterTimerInfo(heap[i], now)]
    BY DEF BuildRoomState
  <1>2. /\ i \in RoomId /\ IsRoom(heap[i]) /\ now \in Nat
        /\ <<i, round[i]>> \in Ballots /\ job[c] \in Job
    BY <1>1, HasRoom DEF RoomOf
  <1>3. /\ m \in Message /\ m.ballot = <<i, round[i]>>
        /\ Carried(m) # {} => heap[i].phase = "reveal"
    BY <1>2, RoomStateOK
  <1>4. /\ Len(job[c].todo) = 1 /\ job[c].event \in Request
        /\ job[c].event.kind = "join" /\ job[c].next = "read" /\ sid[c] # ""
    BY <1>1, OfConn DEF PlaceOK
  <1>5. job[c].todo \in Seq(Message)
    BY <1>2 DEF Job
  <1>6. j = [job[c] EXCEPT !.todo = msgs] /\ job' = [job EXCEPT ![c] = j]
    BY Zenon DEF BuildRoomState
  <1> HIDE DEF j
  <1>7. msgs \in Seq(Message) /\ Len(msgs) = 2
    BY <1>3, <1>4, <1>5, TwoMessages
  <1> HIDE DEF msgs
  <1>8. /\ j \in Job /\ j.todo = msgs
        /\ j.room = job[c].room /\ j.event = job[c].event
        /\ j.next = job[c].next
    <2>1. job[c] \in Job
      BY <1>2
    <2> QED BY <1>6, <1>7, <2>1 DEF Job
  <1>9. Moves(c, "welcome", j, sid[c])
    BY <1>1, <1>6, Moving
  <1>10. PlaceOK("welcome", j, sid[c])
    BY <1>2, <1>4, <1>7, <1>8, RoomIds DEF PlaceOK
  <1>11. Steps(c, "welcome", j, sid[c])
    BY <1>8, <1>9, <1>10, OfConn DEF Steps, Places
  <1>12. msgs = <<m>> \o job[c].todo
    BY DEF msgs
  <1> HIDE DEF m
  <1>13. \E k : /\ Steps(c, "welcome", k, sid[c])
               /\ k.todo = <<m>> \o job[c].todo /\ k.room = i
    BY <1>8, <1>11, <1>12
  <1> QED BY <1>1, <1>2, <1>3, <1>4, <1>13 DEF m

\* Reading a participant again changes no cards.
LEMMA RereadOK ==
  ASSUME NEW r, IsRoom(r), NEW m \in Message
  PROVE  /\ Reread(r, m) \in Message
         /\ Carried(Reread(r, m)) # {} => Reread(r, m) = m
PROOF
  <1>1. CASE m.type = "participant_joined" /\ m.session \in Members(r)
    <2>1. r.participants[m.session] \in Participant /\ m.session \in Session
      BY <1>1, MemberOK DEF IsRoom
    <2> QED BY <1>1, <2>1, JoinedOK DEF Reread
  <1>2. CASE ~(m.type = "participant_joined" /\ m.session \in Members(r))
    BY <1>2 DEF Reread
  <1> QED BY <1>1, <1>2

\* The room_state is sent, the announcement follows.
LEMMA WelcomeSteps ==
  ASSUME TypeInv, NEW c \in Conn, Welcome(c)
  PROVE  LET m == Reread(RoomOf(c), job[c].todo[2])
         IN  /\ pc[c] = "welcome" /\ DOMAIN job[c].todo = {1, 2}
             /\ job[c].todo[1] \in Message /\ m \in Message
             /\ Carried(m) # {} => m = job[c].todo[2]
             /\ Send(c, job[c].todo[1])
             /\ \E j : /\ Steps(c, "snapshot", j, sid[c])
                      /\ j.todo = <<m>> /\ j.room = job[c].room /\ j.next = "read"
PROOF
  <1> DEFINE m == Reread(RoomOf(c), job[c].todo[2])
             msgs == <<m>>
             j == [job[c] EXCEPT !.todo = msgs]
  <1>1. pc[c] = "welcome" /\ Goto(c, "snapshot") /\ UNCHANGED sid
    BY DEF Welcome
  <1>2. job[c] \in Job /\ job[c].room \in RoomId /\ IsRoom(RoomOf(c))
    BY <1>1, HasRoom
  <1>3. Len(job[c].todo) = 2 /\ job[c].next = "read" /\ sid[c] # ""
    BY <1>1, OfConn DEF PlaceOK
  <1>4. job[c].todo \in Seq(Message)
    BY <1>2 DEF Job
  <1>5. /\ DOMAIN job[c].todo = {1, 2} /\ job[c].todo[1] \in Message
        /\ job[c].todo[2] \in Message /\ Head(job[c].todo) = job[c].todo[1]
    <2>1. \A msgs2 \in Seq(Message) : Len(msgs2) = 2 =>
            /\ DOMAIN msgs2 = {1, 2} /\ msgs2[1] \in Message
            /\ msgs2[2] \in Message /\ Head(msgs2) = msgs2[1]
      <3>1. 1 .. 2 = {1, 2}
        OBVIOUS
      <3> QED BY <3>1
    <2> QED BY <1>3, <1>4, <2>1
  <1>6. m \in Message /\ (Carried(m) # {} => m = job[c].todo[2])
    BY <1>2, <1>5, RereadOK
  <1>7. j = [job[c] EXCEPT !.todo = msgs] /\ job' = [job EXCEPT ![c] = j]
    BY Zenon DEF Welcome
  <1>8. Send(c, job[c].todo[1])
    BY <1>5 DEF Welcome
  <1> HIDE DEF j
  <1>9. msgs \in Seq(Message) /\ msgs # <<>>
    BY <1>6, OneMessage
  <1> HIDE DEF msgs
  <1>10. /\ j \in Job /\ j.todo = msgs /\ j.room = job[c].room
         /\ j.next = job[c].next
    <2>1. job[c] \in Job
      BY <1>2
    <2> QED BY <1>7, <1>9, <2>1 DEF Job
  <1>11. Moves(c, "snapshot", j, sid[c])
    BY <1>1, <1>7, Moving
  <1>12. PlaceOK("snapshot", j, sid[c])
    BY <1>2, <1>3, <1>9, <1>10, RoomIds DEF PlaceOK
  <1>13. Steps(c, "snapshot", j, sid[c])
    BY <1>10, <1>11, <1>12, OfConn DEF Steps, Places
  <1>14. msgs = <<m>>
    BY DEF msgs
  <1> HIDE DEF m
  <1>15. \E k : /\ Steps(c, "snapshot", k, sid[c])
               /\ k.todo = <<m>> /\ k.room = job[c].room /\ k.next = "read"
    BY <1>3, <1>10, <1>13, <1>14
  <1> QED BY <1>1, <1>5, <1>6, <1>8, <1>15 DEF m

\* A handler has something to broadcast.
LEMMA BroadcastSteps ==
  ASSUME TypeInv, NEW c \in Conn, pc[c] \in {"handle", "mark"}, UNCHANGED sid,
         NEW msgs \in Seq(Message), msgs # <<>>, NEW skip \in SUBSET Conn,
         NEW next \in {"read", "forget", "bye"}, Broadcast(c, msgs, skip, next)
  PROVE  \E j : /\ Steps(c, "snapshot", j, sid[c])
               /\ j.todo = msgs /\ j.room = job[c].room /\ j.next = next
PROOF
  <1> DEFINE j == [job[c] EXCEPT !.todo = msgs, !.skip = skip, !.next = next]
  <1>1. Goto(c, "snapshot") /\ job' = [job EXCEPT ![c] = j]
    BY DEF Broadcast
  <1>2. job[c] \in Job
    BY OfConn
  <1>3. j = [job[c] EXCEPT !.todo = msgs, !.skip = skip, !.next = next]
    OBVIOUS
  <1> HIDE DEF j
  <1>4. j \in Job /\ j.todo = msgs /\ j.room = job[c].room /\ j.next = next
    BY <1>2, <1>3 DEF Job
  <1>5. Moves(c, "snapshot", j, sid[c])
    BY <1>1, Moving
  <1>6. job[c].room # NoRoom /\ sid[c] # ""
    BY OfConn DEF PlaceOK
  <1>7. PlaceOK("snapshot", j, sid[c])
    BY <1>4, <1>6 DEF PlaceOK
  <1>8. Steps(c, "snapshot", j, sid[c])
    BY <1>4, <1>5, <1>7, OfConn DEF Steps, Places
  <1> QED BY <1>4, <1>8

\* A handler in its critical section.
LEMMA HandlerSteps ==
  ASSUME TypeInv, NEW c \in Conn, HandlerStep(c)
  PROVE  \/ /\ UNCHANGED <<buf, done>>
            /\ \E j : /\ Steps(c, "snapshot", j, sid[c])
                     /\ CardsRevealed(j.todo, job[c].room) /\ j.room = job[c].room
                     /\ j.next = IF job[c].event.kind = "leave"
                                 THEN "forget" ELSE "read"
         \/ /\ SendError(c) \/ UNCHANGED <<buf, done>>
            /\ job[c].event.kind # "leave"
            /\ Steps(c, "read", NoJob, sid[c])
PROOF
  <1>1. pc[c] = "handle" /\ UNCHANGED sid
    BY DEF HandlerStep
  <1>2. ASSUME NEW next \in {"read", "forget"}, Announces(c, next)
        PROVE  /\ UNCHANGED <<buf, done>>
               /\ \E j : /\ Steps(c, "snapshot", j, sid[c])
                        /\ CardsRevealed(j.todo, job[c].room) /\ j.room = job[c].room
                        /\ j.next = next
    <2>1. PICK msgs \in Seq(Message), skip \in SUBSET Conn :
            /\ msgs # <<>>
            /\ Broadcast(c, msgs, skip, next)
            /\ CardsRevealed(msgs, job[c].room)
            /\ UNCHANGED <<buf, done>>
      BY <1>2 DEF Announces
    <2>2. PICK j : /\ Steps(c, "snapshot", j, sid[c])
                   /\ j.todo = msgs /\ j.room = job[c].room /\ j.next = next
      BY <1>1, <1>2, <2>1, BroadcastSteps
    <2> QED BY <2>1, <2>2
  <1>3. CASE job[c].event.kind = "leave"
    <2>1. Announces(c, "forget")
      BY <1>3 DEF HandlerStep
    <2> QED BY <1>2, <1>3, <2>1
  <1>4. CASE job[c].event.kind # "leave"
    <2>1. CASE Announces(c, "read")
      BY <1>2, <1>4, <2>1
    <2>2. CASE Answers(c)
      <3>1. sid' = [sid EXCEPT ![c] = sid[c]]
        BY <1>1 DEF TypeInv, ConnsOK
      <3>2. Steps(c, "read", NoJob, sid[c])
        BY <2>2, <3>1, ReturnSteps, OfConn DEF Answers
      <3> QED BY <1>4, <2>2, <3>2 DEF Answers
    <2> QED BY <1>4, <2>1, <2>2 DEF HandlerStep
  <1> QED BY <1>3, <1>4

\* A leave ends and the session is forgotten.
LEMMA ForgetSteps ==
  ASSUME TypeInv, NEW c \in Conn, Forget(c)
  PROVE  Steps(c, "read", NoJob, "")
  BY ReturnSteps DEF Forget

\* What is still to be broadcast.
LEMMA SeqFacts ==
  ASSUME NEW msgs \in Seq(Message)
  PROVE  /\ msgs # <<>> => /\ Head(msgs) = msgs[1] /\ msgs[1] \in Message
                           /\ 1 \in DOMAIN msgs
         /\ Len(msgs) > 1 => /\ Tail(msgs) \in Seq(Message) /\ Tail(msgs) # <<>>
                             /\ \A k \in DOMAIN Tail(msgs) :
                                  k + 1 \in DOMAIN msgs /\ Tail(msgs)[k] = msgs[k + 1]
PROOF
  <1>1. Len(msgs) \in Nat /\ DOMAIN msgs = 1 .. Len(msgs)
    OBVIOUS
  <1>2. ASSUME msgs # <<>>
        PROVE  /\ Head(msgs) = msgs[1] /\ msgs[1] \in Message
               /\ 1 \in DOMAIN msgs
    BY <1>2
  <1>3. ASSUME Len(msgs) > 1
        PROVE  /\ Tail(msgs) \in Seq(Message) /\ Tail(msgs) # <<>>
               /\ \A k \in DOMAIN Tail(msgs) :
                    k + 1 \in DOMAIN msgs /\ Tail(msgs)[k] = msgs[k + 1]
    <2>1. Tail(msgs) \in Seq(Message) /\ Len(Tail(msgs)) = Len(msgs) - 1
      BY <1>3
    <2>2. Tail(msgs) # <<>>
      <3>1. Len(Tail(msgs)) # 0
        BY <1>1, <1>3, <2>1
      <3>2. Len(<<>>) = 0
        OBVIOUS
      <3> QED BY <3>1, <3>2, Zenon
    <2>3. DOMAIN Tail(msgs) = 1 .. (Len(msgs) - 1)
      BY <1>1, <1>3, <2>1
    <2>4. \A k \in 1 .. (Len(msgs) - 1) : Tail(msgs)[k] = msgs[k + 1]
      BY <1>1, <1>3
    <2>5. \A k \in 1 .. (Len(msgs) - 1) : k + 1 \in 1 .. Len(msgs)
      BY <1>1
    <2> QED BY <1>1, <2>1, <2>2, <2>3, <2>4, <2>5
  <1> QED BY <1>2, <1>3

\* Where a broadcast takes its handler, and what of it is left.
ProceedsTo(c, p, j) ==
  /\ Steps(c, p, j, sid[c])
  /\ \/ j.room = job[c].room /\ j.next = job[c].next
     \/ p = "read" /\ j = NoJob
  /\ p \notin {"snapshot", "send"} => p = job[c].next
  /\ p = "handle" => j.event.kind = "clear_room"
  /\ \A k \in DOMAIN j.todo :
       \E n \in DOMAIN job[c].todo : j.todo[k] = job[c].todo[n]

\* A broadcast proceeds: to another client, another message, or its end.
LEMMA ProceedSteps ==
  ASSUME TypeInv, NEW c \in Conn, pc[c] \in {"snapshot", "send"}, UNCHANGED sid,
         NEW rest \in SUBSET Conn, Proceed(c, rest)
  PROVE  \E p \in {"read", "handle", "forget", "bye", "snapshot", "send"} : \E j :
           ProceedsTo(c, p, j)
PROOF
  <1>1. /\ job[c].todo # <<>> /\ job[c].room # NoRoom /\ sid[c] # ""
        /\ job[c].next = "handle" =>
             job[c].event \in Request /\ job[c].event.kind = "clear_room"
    BY OfConn DEF PlaceOK
  <1>2. job[c] \in Job
    BY OfConn
  <1>3. job[c].todo \in Seq(Message)
    BY <1>2 DEF Job
  <1>4. CASE /\ rest # {} /\ Goto(c, "send")
             /\ job' = [job EXCEPT ![c] = [@ EXCEPT !.rest = rest]]
    <2> DEFINE j == [job[c] EXCEPT !.rest = rest]
    <2>1. j = [job[c] EXCEPT !.rest = rest] /\ job' = [job EXCEPT ![c] = j]
      BY <1>4
    <2> HIDE DEF j
    <2>2. /\ j \in Job /\ j.todo = job[c].todo /\ j.room = job[c].room
          /\ j.next = job[c].next /\ j.event = job[c].event
      BY <1>2, <2>1 DEF Job
    <2>3. Moves(c, "send", j, sid[c])
      BY <1>4, <2>1, Moving
    <2>4. PlaceOK("send", j, sid[c])
      BY <1>1, <2>2 DEF PlaceOK
    <2>5. Steps(c, "send", j, sid[c])
      BY <2>2, <2>3, <2>4, OfConn DEF Steps, Places
    <2>6. ProceedsTo(c, "send", j)
      BY <2>2, <2>5 DEF ProceedsTo
    <2> QED BY <2>6
  <1>5. CASE /\ rest = {} /\ Len(job[c].todo) > 1 /\ Goto(c, "snapshot")
             /\ job' = [job EXCEPT ![c] =
                          [@ EXCEPT !.rest = {}, !.todo = Tail(job[c].todo)]]
    <2> DEFINE msgs == Tail(job[c].todo)
               j == [job[c] EXCEPT !.rest = {}, !.todo = msgs]
    <2>1. j = [job[c] EXCEPT !.rest = {}, !.todo = msgs]
          /\ job' = [job EXCEPT ![c] = j]
      BY <1>5
    <2> HIDE DEF j
    <2>2. /\ msgs \in Seq(Message) /\ msgs # <<>>
          /\ \A k \in DOMAIN msgs : k + 1 \in DOMAIN job[c].todo
                                   /\ msgs[k] = job[c].todo[k + 1]
      BY <1>3, <1>5, SeqFacts
    <2> HIDE DEF msgs
    <2>3. /\ j \in Job /\ j.todo = msgs /\ j.room = job[c].room
          /\ j.next = job[c].next /\ j.event = job[c].event
      <3>1. {} \in SUBSET Conn /\ msgs \in Seq(Message)
        BY <2>2
      <3> QED BY <1>2, <2>1, <3>1 DEF Job
    <2>4. Moves(c, "snapshot", j, sid[c])
      BY <1>5, <2>1, Moving
    <2>5. PlaceOK("snapshot", j, sid[c])
      BY <1>1, <2>2, <2>3 DEF PlaceOK
    <2>6. Steps(c, "snapshot", j, sid[c])
      BY <2>3, <2>4, <2>5, OfConn DEF Steps, Places
    <2>7. ProceedsTo(c, "snapshot", j)
      BY <2>2, <2>3, <2>6 DEF ProceedsTo
    <2> QED BY <2>7
  <1>6. CASE Len(job[c].todo) = 1 /\ job[c].next = "read" /\ Return(c)
    <2>1. sid' = [sid EXCEPT ![c] = sid[c]]
      BY DEF TypeInv, ConnsOK
    <2>2. Steps(c, "read", NoJob, sid[c])
      BY <1>6, <2>1, ReturnSteps, OfConn
    <2>3. NoJob.todo = <<>> /\ DOMAIN NoJob.todo = {}
      BY DEF NoJob
    <2>4. ProceedsTo(c, "read", NoJob)
      BY <1>6, <2>2, <2>3 DEF ProceedsTo
    <2> QED BY <2>4
  <1>7. CASE /\ Len(job[c].todo) = 1 /\ job[c].next # "read"
             /\ Goto(c, job[c].next)
             /\ job' = [job EXCEPT ![c] = [@ EXCEPT !.rest = {}, !.todo = <<>>]]
    <2> DEFINE j == [job[c] EXCEPT !.rest = {}, !.todo = <<>>]
               p == job[c].next
    <2>1. j = [job[c] EXCEPT !.rest = {}, !.todo = <<>>]
          /\ job' = [job EXCEPT ![c] = j]
      BY <1>7
    <2> HIDE DEF j
    <2>2. /\ j \in Job /\ j.todo = <<>> /\ j.room = job[c].room
          /\ j.next = job[c].next /\ j.event = job[c].event
      <3>1. {} \in SUBSET Conn /\ <<>> \in Seq(Message)
        OBVIOUS
      <3> QED BY <1>2, <2>1, <3>1 DEF Job
    <2>3. Moves(c, p, j, sid[c])
      BY <1>7, <2>1, Moving
    <2>4. p \in {"handle", "forget", "bye"}
      BY <1>2, <1>7 DEF Job
    <2>5. PlaceOK(p, j, sid[c])
      BY <1>1, <2>2, <2>4 DEF PlaceOK
    <2>6. Steps(c, p, j, sid[c])
      BY <2>2, <2>3, <2>4, <2>5, OfConn DEF Steps, Places
    <2>7. DOMAIN j.todo = {}
      BY <2>2
    <2>8. p = "handle" => j.event.kind = "clear_room"
      BY <1>1, <2>2
    <2>9. ProceedsTo(c, p, j)
      BY <2>2, <2>4, <2>6, <2>7, <2>8 DEF ProceedsTo
    <2> HIDE DEF p
    <2> QED BY <2>4, <2>9
  <1> QED BY <1>4, <1>5, <1>6, <1>7 DEF Proceed

\* A connection ends.
LEMMA CleanUpSteps ==
  ASSUME TypeInv, NEW c \in Conn, pc[c] = "read", CleanUp(c)
  PROVE  \/ /\ sid[c] = "" \/ current = NoRoom
            /\ Steps(c, "bye", NoJob, sid[c])
         \/ /\ sid[c] # "" /\ current \in RoomId
            /\ \E j : Steps(c, "mark", j, sid[c]) /\ j.room = current
                     /\ j.todo = <<>>
PROOF
  <1>1. CASE sid[c] = "" \/ current = NoRoom
    <2>1. Moves(c, "bye", NoJob, sid[c])
      BY <1>1, Moving DEF CleanUp
    <2> QED BY <1>1, <2>1, NoJobOK, OfConn DEF Steps, Places
  <1>2. CASE ~(sid[c] = "" \/ current = NoRoom)
    <2> DEFINE j == [NoJob EXCEPT !.room = current]
    <2>1. Goto(c, "mark") /\ job' = [job EXCEPT ![c] = j] /\ UNCHANGED sid
      BY <1>2 DEF CleanUp
    <2>2. current \in RoomId
      BY <1>2, CurrentOK
    <2>3. j \in Job /\ j.room = current /\ j.todo = <<>>
      <3>1. j.room = current /\ j.todo = <<>>
        BY DEF NoJob
      <3> QED BY <2>2, <3>1, NoJobOK DEF Job
    <2> HIDE DEF j
    <2>4. Moves(c, "mark", j, sid[c])
      BY <2>1, Moving
    <2>5. PlaceOK("mark", j, sid[c])
      BY <1>2, <2>3 DEF PlaceOK
    <2>6. Steps(c, "mark", j, sid[c])
      BY <2>3, <2>4, <2>5, OfConn DEF Steps, Places
    <2> QED BY <1>2, <2>2, <2>3, <2>6
  <1> QED BY <1>1, <1>2

\* The clean-up marks and announces the participant.
LEMMA MarkDisconnectedSteps ==
  ASSUME TypeInv, NEW c \in Conn, MarkDisconnected(c)
  PROVE  LET i == job[c].room
             m == Presence(sid[c], "disconnected")
         IN  /\ pc[c] = "mark" /\ i \in RoomId
             /\ m \in Message /\ Carried(m) = {}
             /\ IsRoom(AfterDisconnect(heap[i], sid[c]))
             /\ heap' = [heap EXCEPT ![i] = AfterDisconnect(heap[i], sid[c])]
             /\ \E j : /\ Steps(c, "snapshot", j, sid[c])
                      /\ j.todo = <<m>> /\ j.room = i /\ j.next = "bye"
PROOF
  <1> DEFINE i == job[c].room
             m == Presence(sid[c], "disconnected")
  <1>1. /\ pc[c] = "mark" /\ UNCHANGED sid
        /\ heap' = [heap EXCEPT ![i] = AfterDisconnect(heap[i], sid[c])]
        /\ Broadcast(c, <<m>>, {}, "bye")
    BY DEF MarkDisconnected, RoomOf, Becomes
  <1>2. i \in RoomId /\ IsRoom(heap[i]) /\ sid[c] \in Session
    BY <1>1, HasRoom, HasSession DEF RoomOf
  <1>3. m \in Message /\ Carried(m) = {}
    BY <1>2, PresenceOK DEF Statuses
  <1>4. IsRoom(AfterDisconnect(heap[i], sid[c]))
    BY <1>2, DisconnectOK
  <1>5. \E j : /\ Steps(c, "snapshot", j, sid[c])
              /\ j.todo = <<m>> /\ j.room = i /\ j.next = "bye"
    <2> DEFINE msgs == <<m>>
    <2>1. msgs \in Seq(Message) /\ msgs # <<>> /\ {} \in SUBSET Conn
      BY <1>3, OneMessage
    <2>2. Broadcast(c, msgs, {}, "bye")
      BY <1>1
    <2> HIDE DEF msgs
    <2>3. \E j : /\ Steps(c, "snapshot", j, sid[c])
                /\ j.todo = msgs /\ j.room = job[c].room /\ j.next = "bye"
      BY <1>1, <2>1, <2>2, BroadcastSteps
    <2> QED BY <2>3 DEF msgs
  <1> QED BY <1>1, <1>2, <1>3, <1>4, <1>5

\* The end of the end.
LEMMA ByeSteps ==
  ASSUME TypeInv, NEW c \in Conn, Bye(c)
  PROVE  Steps(c, "gone", NoJob, sid[c])
PROOF
  <1>1. Moves(c, "gone", NoJob, sid[c])
    BY Moving DEF Bye
  <1> QED BY <1>1, NoJobOK, OfConn DEF Steps, Places

(***************************************************************************)
(* The invariant holds.                                                    *)
(***************************************************************************)
\* The steps of one connection, the handlers' critical sections in one.
StepOf(c) ==
  \/ Connect(c) \/ ReceiveGarbage(c)
  \/ \E q \in Request : ReceiveJoin(c, q) \/ Receive(c, q)
  \/ GetOrCreateRoom(c) \/ Join(c) \/ RegisterClient(c) \/ BuildRoomState(c)
  \/ Welcome(c) \/ HandlerStep(c) \/ Forget(c) \/ Snapshot(c)
  \/ \E d \in Conn : SendOne(c, d)
  \/ ReadFails(c) \/ RateLimited(c) \/ MarkDisconnected(c) \/ Bye(c)
  \/ PumpStops(c) \/ Deliver(c)

\* The next-state relation, by who takes the step.
LEMMA NextSteps ==
  ASSUME TypeInv, [Next]_vars
  PROVE  \/ \E c \in Conn : StepOf(c)
         \/ CollectCandidates \/ DeleteCandidates \/ Tick \/ UNCHANGED vars
PROOF
  <1>1. ASSUME NEW c \in Conn, Handle(c)
        PROVE  StepOf(c)
    <2>1. CASE \/ HandleVote(c) \/ HandleReveal(c) \/ HandleNewRound(c)
               \/ HandleClearRoom(c) \/ HandleUpdateName(c)
               \/ HandlePresence(c) \/ HandleUpdateRole(c)
               \/ HandleTimerSetDuration(c) \/ HandleTimerStart(c)
               \/ HandleTimerReset(c) \/ HandleLeave(c)
      <3>1. HandlerStep(c)
        BY <2>1, VoteHandled, RevealHandled, NewRoundHandled, ClearRoomHandled,
           UpdateNameHandled, PresenceHandled, UpdateRoleHandled, TimerHandled,
           LeaveHandled
      <3> QED BY <3>1 DEF StepOf
    <2>2. CASE \/ GetOrCreateRoom(c) \/ Join(c) \/ RegisterClient(c)
               \/ BuildRoomState(c) \/ Welcome(c) \/ Forget(c) \/ Snapshot(c)
               \/ (\E d \in Conn : SendOne(c, d)) \/ MarkDisconnected(c) \/ Bye(c)
      BY <2>2 DEF StepOf
    <2> QED BY <1>1, <2>1, <2>2 DEF Handle
  <1>2. CASE Next
    <2>1. CASE Serve
      BY <1>1, <2>1 DEF Serve, StepOf
    <2>2. CASE \E c \in Conn : Deliver(c)
      BY <2>2 DEF StepOf
    <2> QED BY <1>2, <2>1, <2>2 DEF Next
  <1> QED BY <1>2

\* What a step does to the connections, and to the locks outside of a join.
LEMMA StepsOK ==
  ASSUME TypeInv, NEW c \in Conn, NEW p, NEW j, NEW s, Steps(c, p, j, s),
         made' \in Nat, made <= made', j.room <= made'
  PROVE  /\ ConnsOK'
         /\ UNCHANGED lock /\ {pc[c], p} \cap {"register", "state"} = {} => LocksOK'
PROOF
  <1>1. ConnsOK'
    BY CurrentOK, OneMoves DEF Steps, TypeInv
  <1>2. ASSUME UNCHANGED lock, {pc[c], p} \cap {"register", "state"} = {}
        PROVE  LocksOK'
    BY <1>2, LocksKept DEF Steps, TypeInv
  <1> QED BY <1>1, <1>2

\* The same when no room is made.
LEMMA StepsInPlace ==
  ASSUME TypeInv, NEW c \in Conn, NEW p, NEW j, NEW s, Steps(c, p, j, s),
         UNCHANGED made, j = NoJob \/ j.room = job[c].room \/ j.room = current
  PROVE  /\ ConnsOK'
         /\ UNCHANGED lock /\ {pc[c], p} \cap {"register", "state"} = {} => LocksOK'
PROOF
  <1>1. NoJob.room = 0
    BY NoJobOK DEF NoRoom
  <1>2. made \in Nat /\ current <= made /\ job[c].room <= made
    BY CurrentOK, OfConn
  <1>3. 0 <= made /\ made <= made
    BY <1>2
  <1>4. j.room <= made
    BY <1>1, <1>2, <1>3
  <1> QED BY <1>2, <1>3, <1>4, StepsOK

\* Nothing moves.
LEMMA NobodyMoves ==
  ASSUME TypeInv, UNCHANGED <<pc, job, sid, lock, made>>
  PROVE  ConnsOK' /\ LocksOK'
  BY DEF TypeInv, ConnsOK, LocksOK

\* The variables that most steps leave alone.
LEMMA RestKept ==
  ASSUME TypeInv, UNCHANGED <<now, round, made, current, gc>>,
         clients' \subseteq Conn,
         pump' \in [Conn -> BOOLEAN], left' \in [Conn -> Nat]
  PROVE  RestOK'
  BY DEF TypeInv, RestOK

\* Sending an error, or nothing.
LEMMA ErrorSent ==
  ASSUME TypeInv, NEW c \in Conn, SendError(c) \/ UNCHANGED <<buf, done>>
  PROVE  BuffersOK'
PROOF
  <1>1. CASE SendError(c)
    BY <1>1, SendOK, PlainOK DEF SendError, TypeInv
  <1>2. CASE UNCHANGED <<buf, done>>
    BY <1>2 DEF TypeInv, BuffersOK
  <1> QED BY <1>1, <1>2

\* What reading an event leaves alone.
LEMMA ReadKeeps ==
  ASSUME TypeInv, NEW c \in Conn, NEW q, Read(c, q)
  PROVE  RoomsOK' /\ RestOK' /\ UNCHANGED <<lock, made, sid>> /\ pc[c] = "read"
PROOF
  <1>1. /\ UNCHANGED <<heap, lock, now, round, made, current, clients, gc, sid, pump>>
        /\ pc[c] = "read" /\ left[c] > 0
        /\ left' = [left EXCEPT ![c] = left[c] - 1]
    BY DEF Read, manager
  <1>2. left \in [Conn -> Nat] /\ clients \subseteq Conn /\ pump \in [Conn -> BOOLEAN]
    BY DEF TypeInv, RestOK
  <1>3. left[c] - 1 \in Nat
    BY <1>1, <1>2
  <1>4. left' \in [Conn -> Nat]
    BY <1>1, <1>2, <1>3
  <1> QED BY <1>1, <1>2, <1>4, RestKept DEF TypeInv, RoomsOK

\* Events arrive.
LEMMA ArrivalsType ==
  ASSUME TypeInv, NEW c \in Conn,
         \/ Connect(c) \/ ReceiveGarbage(c)
         \/ \E q \in Request : ReceiveJoin(c, q) \/ Receive(c, q)
  PROVE  TypeInv'
PROOF
  <1>1. CASE Connect(c)
    <2>1. Steps(c, "read", NoJob, sid[c]) /\ pc[c] = "new"
      BY <1>1, ConnectSteps DEF Connect
    <2>2. /\ UNCHANGED <<heap, lock, now, round, made, current, clients, gc, buf,
                         done, left>>
          /\ pump' = [pump EXCEPT ![c] = TRUE]
      BY <1>1 DEF Connect, manager
    <2>3. ConnsOK' /\ LocksOK'
      BY <2>1, <2>2, StepsInPlace
    <2>4. RestOK'
      BY <2>2, RestKept DEF TypeInv, RestOK
    <2> QED BY <2>2, <2>3, <2>4 DEF TypeInv, RoomsOK, BuffersOK
  <1>2. CASE ReceiveGarbage(c)
    <2>1. PICK q \in Request : Read(c, q)
      BY <1>2 DEF ReceiveGarbage
    <2>2. SendError(c) /\ UNCHANGED <<pc, job>>
      BY <1>2 DEF ReceiveGarbage
    <2> QED BY <2>1, <2>2, ReadKeeps, NobodyMoves, ErrorSent DEF TypeInv
  <1>3. ASSUME NEW q \in Request, ReceiveJoin(c, q) PROVE TypeInv'
    <2>1. RoomsOK' /\ RestOK' /\ UNCHANGED <<lock, made, sid>> /\ pc[c] = "read"
      BY <1>3, ReadKeeps DEF ReceiveJoin
    <2>2. BuffersOK'
      BY <1>3, ReceiveJoinSteps, ErrorSent
    <2>3. ConnsOK' /\ LocksOK'
      <3>1. CASE Steps(c, "create", [NoJob EXCEPT !.event = q], sid[c])
        <4> DEFINE j == [NoJob EXCEPT !.event = q]
        <4>1. j.room = NoRoom /\ NoRoom <= made'
          BY <2>1, CurrentOK DEF NoJob, NoRoom
        <4>2. made' \in Nat /\ made <= made' /\ j.room <= made'
          BY <2>1, <4>1, CurrentOK
        <4>3. Steps(c, "create", j, sid[c])
          BY <3>1
        <4> HIDE DEF j
        <4> QED BY <2>1, <4>2, <4>3, StepsOK
      <3>2. CASE UNCHANGED <<pc, job, sid>>
        BY <2>1, <3>2, NobodyMoves
      <3> QED BY <1>3, <3>1, <3>2, ReceiveJoinSteps
    <2> QED BY <2>1, <2>2, <2>3 DEF TypeInv
  <1>4. ASSUME NEW q \in Request, Receive(c, q) PROVE TypeInv'
    <2>1. RoomsOK' /\ RestOK' /\ UNCHANGED <<lock, made, sid>> /\ pc[c] = "read"
      BY <1>4, ReadKeeps DEF Receive
    <2>2. BuffersOK'
      BY <1>4, ReceiveSteps, ErrorSent
    <2>3. ConnsOK' /\ LocksOK'
      <3>1. ASSUME NEW p \in {"snapshot", "handle"}, NEW j,
                   Steps(c, p, j, sid[c]), j.room = current
            PROVE  ConnsOK' /\ LocksOK'
        BY <2>1, <3>1, StepsInPlace
      <3>2. CASE UNCHANGED <<pc, job, sid>>
        BY <2>1, <3>2, NobodyMoves
      <3>3. /\ [NoJob EXCEPT !.event = q, !.room = current,
                             !.todo = <<Plain("room_cleared")>>,
                             !.next = "handle"].room = current
            /\ [NoJob EXCEPT !.event = q, !.room = current].room = current
        BY DEF NoJob
      <3> QED BY <1>4, <3>1, <3>2, <3>3, ReceiveSteps
    <2> QED BY <2>1, <2>2, <2>3 DEF TypeInv
  <1> QED BY <1>1, <1>2, <1>3, <1>4

\* A join, with the critical section that spans several steps.
LEMMA JoiningType ==
  ASSUME TypeInv, NEW c \in Conn,
         \/ GetOrCreateRoom(c) \/ Join(c) \/ RegisterClient(c)
         \/ BuildRoomState(c) \/ Welcome(c)
  PROVE  TypeInv'
PROOF
  <1>0. /\ pump \in [Conn -> BOOLEAN] /\ left \in [Conn -> Nat]
        /\ clients \subseteq Conn /\ job \in [Conn -> Job] /\ lock \in [RoomId -> Conn \cup {NoConn}]
    BY DEF TypeInv, RestOK, ConnsOK, LocksOK
  <1>1. CASE GetOrCreateRoom(c)
    <2> DEFINE j == [job[c] EXCEPT !.room = current']
    <2>1. /\ pc[c] = "create"
          /\ UNCHANGED <<lock, gc, now, round, sid, buf, done, pump, left>>
      BY <1>1 DEF GetOrCreateRoom
    <2>2. /\ current' \in RoomId
          /\ Steps(c, "join", j, sid[c])
          /\ \/ UNCHANGED <<heap, made, current, clients>>
             \/ /\ current = NoRoom /\ current' = made' /\ clients' = {}
                /\ made' = made + 1 /\ made' \in RoomId
                /\ heap' = [heap EXCEPT ![made'] = NewRoom(now)]
      BY <1>1, GetOrCreateRoomSteps
    <2>3. j.room = current'
      <3>1. job[c] \in Job
        BY <1>0
      <3> QED BY <3>1 DEF Job
    <2> HIDE DEF j
    <2>4. /\ made' \in Nat /\ made <= made' /\ current' <= made'
          /\ made' \in 0 .. MaxRooms /\ current' \in 0 .. made'
      <3>1. MaxRooms \in Nat /\ made \in Nat /\ current \in Nat
            /\ current <= made /\ made <= MaxRooms
        BY RoomIds, CurrentOK
      <3>2. CASE UNCHANGED <<made, current>>
        BY <3>1, <3>2
      <3>3. CASE made' = made + 1 /\ made' \in RoomId /\ current' = made'
        BY <3>1, <3>3 DEF RoomId
      <3> QED BY <2>2, <3>2, <3>3
    <2>5. ConnsOK' /\ LocksOK'
      BY <2>1, <2>2, <2>3, <2>4, StepsOK
    <2>6. RoomsOK'
      BY <2>2, NewRoomOK, CurrentOK, RoomChanges DEF TypeInv, RoomsOK
    <2>7. clients' \subseteq Conn
      BY <1>0, <2>2
    <2>8. RestOK'
      BY <1>0, <2>1, <2>4, <2>7 DEF TypeInv, RestOK
    <2> QED BY <2>1, <2>5, <2>6, <2>8 DEF TypeInv, BuffersOK
  <1>2. CASE Join(c)
    <2>1. /\ pc[c] = "join"
          /\ UNCHANGED <<now, round, made, current, clients, gc, pump, left>>
      BY <1>2 DEF Join, manager
    <2>2. RestOK'
      BY <1>0, <2>1, RestKept
    <2>3. CASE /\ Steps(c, "read", NoJob, sid[c]) /\ SendError(c)
               /\ UNCHANGED <<heap, lock>>
      BY <2>1, <2>2, <2>3, StepsInPlace, ErrorSent DEF TypeInv, RoomsOK
    <2>4. CASE /\ CanJoin(RoomOf(c), job[c].event.session,
                          job[c].event.name, job[c].event.role)
               /\ Becomes(c, AfterJoin(RoomOf(c), job[c].event.session,
                             job[c].event.name, job[c].event.role, now))
               /\ lock[job[c].room] = NoConn
               /\ lock' = [lock EXCEPT ![job[c].room] = c]
               /\ UNCHANGED <<buf, done>>
               /\ \E m \in Message : \E j :
                    /\ Carried(m) = {}
                    /\ Steps(c, "register", j, job[c].event.session)
                    /\ j.todo = <<m>> /\ j.room = job[c].room
      <3>1. PICK j : /\ Steps(c, "register", j, job[c].event.session)
                     /\ j.room = job[c].room
        BY <2>4
      <3>2. ConnsOK'
        BY <2>1, <3>1, StepsInPlace
      <3>3. job[c].room \in RoomId /\ IsRoom(RoomOf(c)) /\ now \in Nat
        BY <2>1, HasRoom
      <3>4. /\ job[c].event.session \in Session
            /\ job[c].event \in Request /\ job[c].event.kind = "join"
        BY <2>1, OfConn, RequestFields DEF PlaceOK
      <3>5. IsRoom(AfterJoin(RoomOf(c), job[c].event.session,
                             job[c].event.name, job[c].event.role, now))
        BY <2>4, <3>3, <3>4, JoinOK, RequestFields
      <3>6. RoomsOK'
        BY <2>4, <3>3, <3>5, RoomChanges DEF TypeInv, Becomes
      <3>7. LocksOK'
        <4>1. /\ pc'[c] = "register" /\ job'[c].room = job[c].room
              /\ \A d \in Conn \ {c} : pc'[d] = pc[d] /\ job'[d] = job[d]
          BY <3>1 DEF Steps, Moves, TypeInv, ConnsOK
        <4>2. lock' \in [RoomId -> Conn \cup {NoConn}]
          BY <1>0, <2>4
        <4>3. \A d \in Conn : ~(pc[d] \in {"register", "state"}
                                /\ job[d].room = job[c].room)
          <5>1. \A d \in Conn : d # NoConn
            BY HubAssumption
          <5>2. \A d \in Conn : lock[job[c].room] = d <=>
                  pc[d] \in {"register", "state"} /\ job[d].room = job[c].room
            BY <3>3 DEF TypeInv, LocksOK
          <5> QED BY <2>4, <5>1, <5>2
        <4>4. lock'[job[c].room] = c
              /\ \A i \in RoomId \ {job[c].room} : lock'[i] = lock[i]
          BY <1>0, <2>4, <3>3
        <4>5. ASSUME NEW i \in RoomId, NEW d \in Conn
              PROVE  lock'[i] = d <=>
                       pc'[d] \in {"register", "state"} /\ job'[d].room = i
          <5>1. lock[i] = d <=> pc[d] \in {"register", "state"} /\ job[d].room = i
            BY DEF TypeInv, LocksOK
          <5>2. CASE i = job[c].room
            BY <4>1, <4>3, <4>4, <5>2
          <5>3. CASE i # job[c].room
            BY <2>1, <4>1, <4>4, <5>1, <5>3
          <5> QED BY <5>2, <5>3
        <4> QED BY <4>2, <4>5 DEF LocksOK
      <3> QED BY <2>2, <2>4, <3>2, <3>6, <3>7 DEF TypeInv, BuffersOK
    <2> QED BY <1>2, <2>3, <2>4, JoinSteps
  <1>3. CASE RegisterClient(c)
    <2>1. Steps(c, "state", job[c], sid[c]) /\ pc[c] = "register"
      BY <1>3, RegisterClientSteps
    <2>2. /\ UNCHANGED <<heap, lock, now, round, made, current, gc, buf, done, pump,
                         left>>
          /\ clients' = clients \cup {c}
      BY <1>3 DEF RegisterClient
    <2>3. ConnsOK'
      BY <2>1, <2>2, StepsInPlace
    <2>4. LocksOK'
      <3>1. /\ pc'[c] = "state" /\ job'[c] = job[c]
            /\ \A d \in Conn \ {c} : pc'[d] = pc[d] /\ job'[d] = job[d]
        BY <2>1 DEF Steps, Moves, TypeInv, ConnsOK
      <3> QED BY <2>1, <2>2, <3>1 DEF TypeInv, LocksOK
    <2>5. RestOK'
      BY <1>0, <2>2, RestKept
    <2> QED BY <2>2, <2>3, <2>4, <2>5 DEF TypeInv, RoomsOK, BuffersOK
  <1>4. CASE BuildRoomState(c)
    <2> DEFINE i == job[c].room
    <2>1. /\ UNCHANGED <<now, round, made, current, clients, gc, buf, done, pump, left>>
          /\ lock' = [lock EXCEPT ![i] = NoConn]
      BY <1>4 DEF BuildRoomState, manager
    <2>2. /\ pc[c] = "state" /\ i \in RoomId
          /\ heap' = [heap EXCEPT ![i] = AfterTimerInfo(heap[i], now)]
          /\ \E j : Steps(c, "welcome", j, sid[c]) /\ j.room = i
      BY <1>4, BuildRoomStateSteps
    <2>3. PICK j : Steps(c, "welcome", j, sid[c]) /\ j.room = i
      BY <2>2
    <2>4. ConnsOK'
      BY <2>1, <2>3, StepsInPlace
    <2>5. RoomsOK'
      <3>1. IsRoom(heap[i]) /\ now \in Nat
        BY <2>2, HasRoom DEF RoomOf
      <3>2. IsRoom(AfterTimerInfo(heap[i], now))
        BY <3>1, TimerOK
      <3> QED BY <2>2, <3>2, RoomChanges DEF TypeInv
    <2>6. LocksOK'
      <3>1. /\ pc'[c] = "welcome"
            /\ \A d \in Conn \ {c} : pc'[d] = pc[d] /\ job'[d] = job[d]
        BY <2>3 DEF Steps, Moves, TypeInv, ConnsOK
      <3>2. lock' \in [RoomId -> Conn \cup {NoConn}]
        BY <1>0, <2>1
      <3>3. lock'[i] = NoConn /\ \A k \in RoomId \ {i} : lock'[k] = lock[k]
        BY <1>0, <2>1, <2>2
      <3>4. lock[i] = c
        BY <2>2 DEF TypeInv, LocksOK
      <3>5. ASSUME NEW k \in RoomId, NEW d \in Conn
            PROVE  lock'[k] = d <=>
                     pc'[d] \in {"register", "state"} /\ job'[d].room = k
        <4>1. lock[k] = d <=> pc[d] \in {"register", "state"} /\ job[d].room = k
          BY DEF TypeInv, LocksOK
        <4>2. CASE k = i
          BY <3>1, <3>3, <3>4, <4>1, <4>2, HubAssumption
        <4>3. CASE k # i
          BY <2>2, <3>1, <3>3, <4>1, <4>3
        <4> QED BY <4>2, <4>3
      <3> QED BY <3>2, <3>5 DEF LocksOK
    <2>7. RestOK'
      BY <1>0, <2>1, RestKept
    <2> QED BY <2>1, <2>4, <2>5, <2>6, <2>7 DEF TypeInv, BuffersOK
  <1>5. CASE Welcome(c)
    <2>1. UNCHANGED <<heap, lock, now, round, made, current, clients, gc, pump, left>>
      BY <1>5 DEF Welcome, manager
    <2>2. /\ pc[c] = "welcome"
          /\ job[c].todo[1] \in Message /\ Send(c, job[c].todo[1])
          /\ \E j : Steps(c, "snapshot", j, sid[c]) /\ j.room = job[c].room
      BY <1>5, WelcomeSteps
    <2>3. PICK j : Steps(c, "snapshot", j, sid[c]) /\ j.room = job[c].room
      BY <2>2
    <2>4. ConnsOK' /\ LocksOK'
      BY <2>1, <2>2, <2>3, StepsInPlace
    <2>5. BuffersOK'
      BY <2>2, SendOK DEF TypeInv
    <2>6. RestOK'
      BY <1>0, <2>1, RestKept
    <2> QED BY <2>1, <2>4, <2>5, <2>6 DEF TypeInv, RoomsOK
  <1> QED BY <1>1, <1>2, <1>3, <1>4, <1>5

\* The handlers and their broadcasts.
LEMMA HandlingType ==
  ASSUME TypeInv, NEW c \in Conn,
         \/ HandlerStep(c) \/ Forget(c) \/ Snapshot(c)
         \/ \E d \in Conn : SendOne(c, d)
  PROVE  TypeInv'
PROOF
  <1>0. /\ pump \in [Conn -> BOOLEAN] /\ left \in [Conn -> Nat]
        /\ clients \subseteq Conn
    BY DEF TypeInv, RestOK
  <1>1. CASE HandlerStep(c)
    <2>1. /\ UNCHANGED <<lock, now, made, current, clients, gc, pump, left>>
          /\ pc[c] = "handle" /\ RoomsOK' /\ BallotStep(job[c].room)
      BY <1>1 DEF HandlerStep, manager
    <2>2. ConnsOK' /\ LocksOK' /\ BuffersOK'
      <3>1. CASE UNCHANGED <<buf, done>>
                 /\ \E j : Steps(c, "snapshot", j, sid[c]) /\ j.room = job[c].room
        BY <2>1, <3>1, StepsInPlace, ErrorSent
      <3>2. CASE /\ SendError(c) \/ UNCHANGED <<buf, done>>
                 /\ Steps(c, "read", NoJob, sid[c])
        BY <2>1, <3>2, StepsInPlace, ErrorSent
      <3> QED BY <1>1, <3>1, <3>2, HandlerSteps
    <2>3. round' \in [RoomId -> Nat]
      <3>1. round \in [RoomId -> Nat] /\ job[c].room \in RoomId
        BY <2>1, HasRoom DEF TypeInv, RestOK
      <3>2. round[job[c].room] + 1 \in Nat
        BY <3>1
      <3> QED BY <2>1, <3>1, <3>2 DEF BallotStep
    <2>4. RestOK'
      BY <2>1, <2>3 DEF TypeInv, RestOK
    <2> QED BY <2>1, <2>2, <2>4 DEF TypeInv
  <1>2. CASE Forget(c)
    <2>1. /\ UNCHANGED <<heap, lock, now, round, made, current, gc, buf, done, pump,
                         left>>
          /\ clients' = clients \ {c} /\ pc[c] = "forget"
      BY <1>2 DEF Forget
    <2>2. ConnsOK' /\ LocksOK'
      <3>1. Steps(c, "read", NoJob, "")
        BY <1>2, ForgetSteps
      <3>2. {pc[c], "read"} \cap {"register", "state"} = {}
        BY <2>1
      <3>3. UNCHANGED made /\ UNCHANGED lock /\ NoJob = NoJob
        BY <2>1
      <3> QED BY <3>1, <3>2, <3>3, StepsInPlace, Zenon
    <2>3. RestOK'
      BY <1>0, <2>1, RestKept
    <2> QED BY <2>1, <2>2, <2>3 DEF TypeInv, RoomsOK, BuffersOK
  <1>3. ASSUME NEW rest \in SUBSET Conn, Proceed(c, rest),
               pc[c] \in {"snapshot", "send"}, UNCHANGED <<sid, lock, made>>
        PROVE  ConnsOK' /\ LocksOK'
    <2>1. PICK p \in {"read", "handle", "forget", "bye", "snapshot", "send"} :
            \E j : ProceedsTo(c, p, j)
      BY <1>3, ProceedSteps
    <2>2. PICK j : ProceedsTo(c, p, j)
      BY <2>1
    <2>3. Steps(c, p, j, sid[c]) /\ (j = NoJob \/ j.room = job[c].room)
      BY <2>2 DEF ProceedsTo
    <2>4. {pc[c], p} \cap {"register", "state"} = {}
      BY <1>3, <2>1
    <2> QED BY <1>3, <2>3, <2>4, StepsInPlace
  <1>4. CASE Snapshot(c)
    <2>1. /\ UNCHANGED <<heap, lock, now, round, made, current, clients, gc, sid, buf,
                         done, pump, left>>
          /\ pc[c] = "snapshot" /\ Proceed(c, clients \ job[c].skip)
      BY <1>4 DEF Snapshot, manager
    <2>2. RestOK'
      BY <1>0, <2>1, RestKept
    <2>3. clients \ job[c].skip \in SUBSET Conn
      BY <1>0
    <2> QED BY <1>3, <2>1, <2>2, <2>3 DEF TypeInv, RoomsOK, BuffersOK
  <1>5. ASSUME NEW d \in Conn, SendOne(c, d) PROVE TypeInv'
    <2>1. /\ UNCHANGED <<heap, lock, now, round, made, current, clients, gc, sid, pump,
                         left>>
          /\ pc[c] = "send" /\ Proceed(c, job[c].rest \ {d})
          /\ Send(d, Head(job[c].todo))
      BY <1>5 DEF SendOne, manager
    <2>2. RestOK'
      BY <1>0, <2>1, RestKept
    <2>3. job[c] \in Job /\ job[c].todo # <<>>
      BY <2>1, OfConn DEF PlaceOK
    <2>4. job[c].rest \ {d} \in SUBSET Conn /\ job[c].todo \in Seq(Message)
      BY <2>3 DEF Job
    <2>5. BuffersOK'
      BY <2>1, <2>3, <2>4, SeqFacts, SendOK DEF TypeInv
    <2> QED BY <1>3, <2>1, <2>2, <2>4, <2>5 DEF TypeInv, RoomsOK
  <1> QED BY <1>1, <1>2, <1>4, <1>5

\* Connections end.
LEMMA EndingType ==
  ASSUME TypeInv, NEW c \in Conn,
         \/ ReadFails(c) \/ RateLimited(c) \/ MarkDisconnected(c) \/ Bye(c)
         \/ PumpStops(c) \/ Deliver(c)
  PROVE  TypeInv'
PROOF
  <1>0. /\ pump \in [Conn -> BOOLEAN] /\ left \in [Conn -> Nat]
        /\ clients \subseteq Conn
        /\ buf \in [Conn -> Seq(Message)] /\ done \in [Conn -> BOOLEAN]
        /\ SendBufferSize \in Nat /\ \A d \in Conn : Len(buf[d]) <= SendBufferSize
    <2>1. SendBufferSize \in Nat
      BY HubAssumption
    <2> QED BY <2>1 DEF TypeInv, RestOK, BuffersOK
  <1>1. CASE ReadFails(c) \/ RateLimited(c)
    <2>1. pc[c] = "read" /\ CleanUp(c)
      BY <1>1 DEF ReadFails, RateLimited
    <2>2. /\ UNCHANGED <<heap, lock, now, round, made, current, clients, gc, sid, pump,
                         left>>
          /\ done' = [done EXCEPT ![c] = TRUE]
      BY <2>1 DEF CleanUp, manager
    <2>3. ConnsOK' /\ LocksOK'
      <3>1. CASE Steps(c, "bye", NoJob, sid[c])
        BY <2>1, <2>2, <3>1, StepsInPlace
      <3>2. CASE \E j : Steps(c, "mark", j, sid[c]) /\ j.room = current
        BY <2>1, <2>2, <3>2, StepsInPlace
      <3> QED BY <2>1, <3>1, <3>2, CleanUpSteps
    <2>4. BuffersOK'
      <3>1. CASE UNCHANGED buf
        BY <1>0, <2>2, <3>1 DEF BuffersOK
      <3>2. CASE /\ Len(buf[c]) < SendBufferSize
                 /\ buf' = [buf EXCEPT ![c] = Append(@, Plain("error"))]
        <4> DEFINE m == Plain("error")
        <4>1. m \in Message
          BY PlainOK
        <4> HIDE DEF m
        <4>2. /\ Append(buf[c], m) \in Seq(Message)
              /\ Len(Append(buf[c], m)) = Len(buf[c]) + 1 /\ Len(buf[c]) \in Nat
          BY <1>0, <4>1
        <4>3. Len(Append(buf[c], m)) <= SendBufferSize
          BY <1>0, <3>2, <4>2
        <4>4. buf' = [buf EXCEPT ![c] = Append(buf[c], m)]
          BY <3>2 DEF m
        <4> QED BY <1>0, <2>2, <4>2, <4>3, <4>4 DEF BuffersOK
      <3> QED BY <1>1, <3>1, <3>2 DEF ReadFails, RateLimited
    <2>5. RestOK'
      BY <1>0, <2>2, RestKept
    <2> QED BY <2>2, <2>3, <2>4, <2>5 DEF TypeInv, RoomsOK
  <1>2. CASE MarkDisconnected(c)
    <2>1. UNCHANGED <<lock, now, round, made, current, clients, gc, buf, done, pump,
                      left>>
      BY <1>2 DEF MarkDisconnected, manager
    <2> DEFINE i == job[c].room
    <2>2. /\ pc[c] = "mark" /\ i \in RoomId
          /\ IsRoom(AfterDisconnect(heap[i], sid[c]))
          /\ heap' = [heap EXCEPT ![i] = AfterDisconnect(heap[i], sid[c])]
          /\ \E j : Steps(c, "snapshot", j, sid[c]) /\ j.room = i
      BY <1>2, MarkDisconnectedSteps
    <2>3. ConnsOK' /\ LocksOK'
      BY <2>1, <2>2, StepsInPlace
    <2>4. RoomsOK'
      BY <2>2, RoomChanges DEF TypeInv
    <2>5. RestOK'
      BY <1>0, <2>1, RestKept
    <2> QED BY <2>1, <2>3, <2>4, <2>5 DEF TypeInv, BuffersOK
  <1>3. ASSUME StopPump(c), UNCHANGED done
        PROVE  BuffersOK' /\ pump' \in [Conn -> BOOLEAN]
    <2>1. <<>> \in Seq(Message) /\ Len(<<>>) <= SendBufferSize
      BY <1>0
    <2> QED BY <1>0, <1>3, <2>1 DEF StopPump, BuffersOK
  <1>4. CASE Bye(c)
    <2>1. /\ UNCHANGED <<heap, lock, now, round, made, current, gc, sid, done, left>>
          /\ clients' = clients \ {c} /\ pc[c] = "bye" /\ StopPump(c)
      BY <1>4 DEF Bye
    <2>2. ConnsOK' /\ LocksOK'
      BY <1>4, <2>1, ByeSteps, StepsInPlace
    <2>3. RestOK'
      BY <1>0, <1>3, <2>1, RestKept
    <2> QED BY <1>3, <2>1, <2>2, <2>3 DEF TypeInv, RoomsOK
  <1>5. CASE PumpStops(c)
    <2>1. /\ UNCHANGED <<heap, lock, now, round, made, current, clients, gc, pc, job,
                         sid, done, left>>
          /\ StopPump(c)
      BY <1>5 DEF PumpStops, manager
    <2>2. RestOK'
      BY <1>0, <1>3, <2>1, RestKept
    <2> QED BY <1>3, <2>1, <2>2, NobodyMoves DEF TypeInv, RoomsOK
  <1>6. CASE Deliver(c)
    <2>1. /\ UNCHANGED <<heap, lock, now, round, made, current, clients, gc, pc, job,
                         sid, done, pump, left>>
          /\ buf[c] # <<>> /\ buf' = [buf EXCEPT ![c] = Tail(buf[c])]
      BY <1>6 DEF Deliver, manager
    <2>2. /\ Tail(buf[c]) \in Seq(Message) /\ Len(buf[c]) \in Nat
          /\ Len(Tail(buf[c])) = Len(buf[c]) - 1
      BY <1>0, <2>1
    <2>3. Len(Tail(buf[c])) <= SendBufferSize
      <3>1. Len(buf[c]) <= SendBufferSize
        BY <1>0
      <3> QED BY <1>0, <2>2, <3>1
    <2>4. BuffersOK'
      BY <1>0, <2>1, <2>2, <2>3 DEF BuffersOK
    <2>5. RestOK'
      BY <1>0, <2>1, RestKept
    <2> QED BY <2>1, <2>4, <2>5, NobodyMoves DEF TypeInv, RoomsOK
  <1> QED BY <1>1, <1>2, <1>4, <1>5, <1>6

\* The collector and the clock.
LEMMA RestType ==
  ASSUME TypeInv, CollectCandidates \/ DeleteCandidates \/ Tick \/ UNCHANGED vars
  PROVE  TypeInv'
PROOF
  <1>0. /\ now \in Nat /\ gc \in 0 .. now /\ made \in 0 .. MaxRooms
        /\ current \in 0 .. made /\ MaxRooms \in Nat
    BY RoomIds DEF TypeInv, RestOK
  <1>1. UNCHANGED <<heap, made, lock, pc, job, sid, buf, done, pump, left, round>>
    BY DEF CollectCandidates, DeleteCandidates, Tick, vars, manager, conns
  <1>2. RoomsOK' /\ ConnsOK' /\ LocksOK' /\ BuffersOK'
    BY <1>1, NobodyMoves DEF TypeInv, RoomsOK, BuffersOK
  <1>3. /\ current' \in 0 .. made /\ clients' \subseteq Conn
        /\ now' \in Nat \ {0} /\ gc' \in 0 .. now'
    <2>1. CASE CollectCandidates
      BY <1>0, <2>1 DEF CollectCandidates, TypeInv, RestOK
    <2>2. CASE DeleteCandidates
      <3>1. 0 \in 0 .. made /\ 0 \in 0 .. now
        BY <1>0
      <3> QED BY <1>0, <2>2, <3>1 DEF DeleteCandidates, TypeInv, RestOK, NoRoom
    <2>3. CASE Tick
      BY <1>0, <2>3 DEF Tick, TypeInv, RestOK, manager
    <2>4. CASE UNCHANGED vars
      BY <2>4 DEF vars, manager, TypeInv, RestOK
    <2> QED BY <2>1, <2>2, <2>3, <2>4
  <1>4. RestOK'
    BY <1>1, <1>3 DEF TypeInv, RestOK
  <1> QED BY <1>2, <1>4 DEF TypeInv

\* Every step keeps the invariant.
LEMMA TypeStep == TypeInv /\ [Next]_vars => TypeInv'
PROOF
  <1> SUFFICES ASSUME TypeInv, [Next]_vars PROVE TypeInv'
    OBVIOUS
  <1>1. ASSUME NEW c \in Conn, StepOf(c) PROVE TypeInv'
    BY <1>1, ArrivalsType, JoiningType, HandlingType, EndingType DEF StepOf
  <1> QED BY <1>1, NextSteps, RestType

\* The type with what each place of a handler knows: its event, its room, its
\* session and its lock (ws.go:193-619).
THEOREM TypeInvInvariant == Spec => []TypeInv
PROOF
  <1>1. Init => TypeInv
    BY InitOK
  <1>2. TypeInv /\ [Next]_vars => TypeInv'
    BY TypeStep
  <1> QED BY <1>1, <1>2, PTL DEF Spec

\* Whatever the clients send and however the handlers interleave, every
\* variable keeps its shape: rooms are well formed, buffers hold messages and
\* are never longer than the channel, and a room's mutex is held exactly by
\* the join that is between room.Lock() and room.Unlock() (ws.go:231, ws.go:247).
THEOREM HubTypeCorrect == Spec => []TypeOK
PROOF
  <1>1. TypeInv => TypeOK
    BY TypeInvSuffices
  <1> QED BY <1>1, TypeInvInvariant, PTL
=============================================================================

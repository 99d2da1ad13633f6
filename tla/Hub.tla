--------------------------------- MODULE Hub ---------------------------------
(***************************************************************************)
(* The server around one room id: RoomManager (internal/server/            *)
(* room_manager.go), the clients with their send buffers (client.go) and   *)
(* the WebSocket handlers (ws.go).  Every connection has a reading         *)
(* goroutine, which runs one handler at a time, and a writing one; the     *)
(* garbage collector is a goroutine of its own.                            *)
(*                                                                         *)
(* The manager's mutex rm.mu is never held across a step: its critical     *)
(* sections are the atomic steps below.  A room's mutex is, by handleJoin, *)
(* which registers the client and builds its room_state with the room      *)
(* locked; lock records it.  The other handlers lock the room for one step.*)
(*                                                                         *)
(* The map rm.rooms holds at most one room under the id, but a goroutine   *)
(* may still hold a pointer to one that was collected: heap keeps every    *)
(* room the id ever had, current is the one the map points to.             *)
(***************************************************************************)
EXTENDS RoomOps, Sequences

CONSTANTS
  Conn,            \* connections, each made and lost once
  KindsOf,         \* the kinds of events each connection's client sends
  SessionsOf,      \* the sessions it may send with a join
  VoteInput, RoleInput, StatusInput, DurationInput, \* what they send with them
  SendBufferSize,  \* 32 in the code
  RoomExpiry,      \* 24 h
  MaxRequests,     \* bound: events each connection sends
  MaxRooms,        \* bound: rooms made under the id
  MaxTime          \* bound: the clock

NoRoom == 0
NoConn == "none"
RoomId == 1 .. MaxRooms

ASSUME HubAssumption ==
  /\ "" \notin Session
  /\ NoConn \notin Conn
  /\ SendBufferSize \in Nat \ {0}
  /\ MaxRequests \in [Conn -> Nat]
  /\ RoomExpiry \in Nat
  /\ {MaxRooms, MaxTime} \subseteq Nat \ {0}

VARIABLES
  heap,     \* heap[i]: the i-th room made under the id
  made,     \* how many of them exist
  current,  \* rm.rooms[id], or NoRoom
  clients,  \* rm.clients[id]
  lock,     \* lock[i]: the connection whose handler holds heap[i].mu
  gc,       \* the time collectGarbage noted with its candidate, 0: no candidate
  now,
  pc,       \* pc[c]: where the reading goroutine of c is
  job,      \* job[c]: the locals of its handler
  sid,      \* sid[c]: Client.sessionID
  buf,      \* buf[c]: Client.send
  done,     \* done[c]: Client.done is closed
  pump,     \* pump[c]: the WritePump runs, the context is not cancelled
  left,     \* left[c]: events the client may still send (bound)
  round     \* history: round[i] counts the ballots started in heap[i]

manager == <<made, current, clients, gc>>
conns == <<pc, job, sid, buf, done, pump, left>>
vars == <<heap, lock, now, round, manager, conns>>

-----------------------------------------------------------------------------
(* Events to the clients.                                                  *)

Plain(type) == [type |-> type]
About(type, s) == [type |-> type, session |-> s]
Joined(s, p) == [type |-> "participant_joined", session |-> s,
                 name |-> p.name, role |-> p.role]
Presence(s, status) ==
  [type |-> "presence_changed", session |-> s, status |-> status]
NameUpdated(s, name) == [type |-> "name_updated", session |-> s, name |-> name]
RoleUpdated(s, role) == [type |-> "role_updated", session |-> s, role |-> role]
TimerUpdated(r, t) == [type |-> "timer_updated", timer |-> TimerInfo(r, t)]

\* Cards are stamped with the ballot they are of, a room and its round.
VotesRevealed(r, ballot) ==
  [type |-> "votes_revealed", votes |-> ResultVotes(r), ballot |-> ballot]

\* Mutant: room_state carries the cards in every phase.
RoomStateWithCards(r, t, ballot) ==
  [type         |-> "room_state",
   phase        |-> r.phase,
   participants |-> [s \in Members(r) |->
                       [hasVoted |-> r.participants[s].vote # ""]],
   votes        |-> ResultVotes(r),
   ballot       |-> ballot,
   timer        |-> TimerInfo(r, t)]

\* BuildRoomState: everything but the cards, and those too once revealed.
RoomState(r, t, ballot) ==
  [type         |-> "room_state",
   phase        |-> r.phase,
   participants |-> [s \in Members(r) |->
                       [name     |-> r.participants[s].name,
                        status   |-> r.participants[s].status,
                        role     |-> r.participants[s].role,
                        hasVoted |-> r.participants[s].vote # ""]],
   votes        |-> IF r.phase = "reveal" THEN ResultVotes(r) ELSE {},
   ballot       |-> ballot,
   timer        |-> TimerInfo(r, t)]

\* The events that carry cards.
Carried(m) ==
  IF m.type \in {"votes_revealed", "room_state"} THEN m.votes ELSE {}

\* What a room_state says of a participant, and of the countdown.
Seat == [name : Name, status : Statuses, role : Roles, hasVoted : BOOLEAN]
Countdown == [duration : Durations, state : TimerStates, remaining : Int]

Cards == SUBSET (Session \X ValidVotes)
Ballots == RoomId \X Nat

Message ==
  [type : {"error", "room_cleared", "round_reset"}] \cup
  [type : {"vote_cast", "vote_retracted", "participant_left"},
   session : Session] \cup
  [type : {"participant_joined"}, session : Session, name : Name,
   role : Roles] \cup
  [type : {"presence_changed"}, session : Session, status : Statuses] \cup
  [type : {"name_updated"}, session : Session, name : Name] \cup
  [type : {"role_updated"}, session : Session, role : Roles] \cup
  [type : {"timer_updated"}, timer : Countdown] \cup
  [type : {"votes_revealed"}, votes : Cards, ballot : Ballots] \cup
  [type : {"room_state"}, phase : Phases,
   participants : UNION {[S -> Seat] : S \in SUBSET Session},
   votes : Cards, ballot : Ballots, timer : Countdown]

-----------------------------------------------------------------------------
(* Events from the clients.                                                *)

Request ==
  [kind : {"leave", "reveal", "new_round", "clear_room", "timer_start",
           "timer_reset", "garbage"}] \cup
  [kind : {"join"}, session : Session, name : RawName, role : RoleInput] \cup
  [kind : {"vote"}, value : VoteInput] \cup
  [kind : {"update_name"}, name : RawName] \cup
  [kind : {"presence"}, status : StatusInput] \cup
  [kind : {"update_role"}, role : RoleInput] \cup
  [kind : {"timer_set_duration"}, duration : DurationInput]

Idle == [kind |-> "none"]

\* The locals of a handler: the event, the room pointer, the messages still to
\* broadcast, the clients still to be sent the first of them, whom a
\* broadcast skips, and the place to go on from after the last.
Job == [event : Request \cup {Idle}, room : {NoRoom} \cup RoomId,
        todo : Seq(Message), rest : SUBSET Conn, skip : SUBSET Conn,
        next : {"read", "handle", "forget", "bye"}]

NoJob == [event |-> Idle, room |-> NoRoom, todo |-> <<>>, rest |-> {},
          skip |-> {}, next |-> "read"]

-----------------------------------------------------------------------------
Init ==
  /\ heap = [i \in RoomId |-> NewRoom(1)]
  /\ made = 0
  /\ current = NoRoom
  /\ clients = {}
  /\ lock = [i \in RoomId |-> NoConn]
  /\ gc = 0
  /\ now = 1
  /\ pc = [c \in Conn |-> "new"]
  /\ job = [c \in Conn |-> NoJob]
  /\ sid = [c \in Conn |-> ""]
  /\ buf = [c \in Conn |-> <<>>]
  /\ done = [c \in Conn |-> FALSE]
  /\ pump = [c \in Conn |-> FALSE]
  /\ left = MaxRequests
  /\ round = [i \in RoomId |-> 1]

Goto(c, place) == pc' = [pc EXCEPT ![c] = place]
Return(c) == Goto(c, "read") /\ job' = [job EXCEPT ![c] = NoJob]

RoomOf(c) == heap[job[c].room]

\* Client.Send to d: never blocks; a full buffer closes the connection.
Send(d, m) ==
  IF Len(buf[d]) < SendBufferSize
  THEN buf' = [buf EXCEPT ![d] = Append(@, m)] /\ UNCHANGED done
  ELSE done' = [done EXCEPT ![d] = TRUE] /\ UNCHANGED buf

SendError(c) == Send(c, Plain("error"))

\* The handler of c goes on to broadcast msgs, skipping some clients.
Broadcast(c, msgs, skip, next) ==
  /\ Goto(c, "snapshot")
  /\ job' = [job EXCEPT ![c] =
               [@ EXCEPT !.todo = msgs, !.skip = skip, !.next = next]]

-----------------------------------------------------------------------------
(* HandleWebSocket and readPump: a connection comes and events arrive.     *)

Connect(c) ==
  /\ pc[c] = "new"
  /\ Goto(c, "read")
  /\ pump' = [pump EXCEPT ![c] = TRUE]
  /\ UNCHANGED <<heap, lock, now, round, manager, job, sid, buf, done, left>>

\* The read pump has an event, counts it and calls the handler.
Read(c, q) ==
  /\ pc[c] = "read"
  /\ pump[c]
  /\ left[c] > 0
  /\ q.kind \in KindsOf[c]
  /\ left' = [left EXCEPT ![c] = @ - 1]
  /\ UNCHANGED <<heap, lock, now, round, manager, sid, pump>>

\* An event that does not parse, or is of no known type.
ReceiveGarbage(c) ==
  /\ \E q \in Request : q.kind = "garbage" /\ Read(c, q)
  /\ SendError(c)
  /\ UNCHANGED <<pc, job>>

\* handleJoin up to the creation check: without a room, the limiter decides.
ReceiveJoin(c, q) ==
  /\ q.kind = "join"
  /\ q.session \in SessionsOf[c]
  /\ Read(c, q)
  /\ \/ /\ Goto(c, "create")
        /\ job' = [job EXCEPT ![c] = [@ EXCEPT !.event = q]]
        /\ UNCHANGED <<buf, done>>
     \/ /\ current = NoRoom
        /\ SendError(c)
        /\ UNCHANGED <<pc, job>>

\* Every other handler first asks for a session and for the room; only leave
\* gives up silently.
Receive(c, q) ==
  /\ q.kind \notin {"join", "garbage"}
  /\ Read(c, q)
  /\ IF sid[c] = "" \/ current = NoRoom
     THEN /\ IF q.kind = "leave" THEN UNCHANGED <<buf, done>> ELSE SendError(c)
          /\ UNCHANGED <<pc, job>>
     ELSE /\ IF q.kind = "clear_room"
             THEN /\ Goto(c, "snapshot")
                  /\ job' = [job EXCEPT ![c] =
                       [NoJob EXCEPT !.event = q, !.room = current,
                                     !.todo = <<Plain("room_cleared")>>,
                                     !.next = "handle"]]
             ELSE /\ Goto(c, "handle")
                  /\ job' = [job EXCEPT ![c] =
                       [NoJob EXCEPT !.event = q, !.room = current]]
          /\ UNCHANGED <<buf, done>>

-----------------------------------------------------------------------------
(* handleJoin.                                                             *)

GetOrCreateRoom(c) ==
  /\ pc[c] = "create"
  /\ IF current # NoRoom
     THEN /\ job' = [job EXCEPT ![c] = [@ EXCEPT !.room = current]]
          /\ UNCHANGED <<heap, made, current, clients>>
     ELSE /\ made < MaxRooms
          /\ made' = made + 1
          /\ current' = made'
          /\ heap' = [heap EXCEPT ![made'] = NewRoom(now)]
          /\ clients' = {}
          /\ job' = [job EXCEPT ![c] = [@ EXCEPT !.room = made']]
  /\ Goto(c, "join")
  /\ UNCHANGED <<lock, gc, now, round, sid, buf, done, pump, left>>

\* Mutant: the early return of a refused join forgets room.Unlock().
JoinKeepsLock(c) ==
  LET i == job[c].room
      q == job[c].event
      s == q.session
      r == AfterJoin(heap[i], s, q.name, q.role, now)
  IN  /\ pc[c] = "join"
      /\ lock[i] = NoConn
      /\ lock' = [lock EXCEPT ![i] = c]
      /\ IF CanJoin(heap[i], s, q.name, q.role)
         THEN /\ heap' = [heap EXCEPT ![i] = r]
              /\ sid' = [sid EXCEPT ![c] = s]
              /\ job' = [job EXCEPT ![c] = [@ EXCEPT !.skip = {c}, !.todo =
                   <<IF s \in Members(heap[i]) THEN Presence(s, "active")
                     ELSE Joined(s, r.participants[s])>>]]
              /\ Goto(c, "register")
              /\ UNCHANGED <<buf, done>>
         ELSE /\ SendError(c)
              /\ Return(c)
              /\ UNCHANGED <<heap, sid>>
      /\ UNCHANGED <<now, round, manager, pump, left>>

\* room.Lock(); room.Join(...); on success the room stays locked.  A session
\* the connection had before is overwritten; nothing is said of it.
Join(c) ==
  LET i == job[c].room
      q == job[c].event
      s == q.session
      r == AfterJoin(heap[i], s, q.name, q.role, now)
  IN  /\ pc[c] = "join"
      /\ lock[i] = NoConn
      /\ IF CanJoin(heap[i], s, q.name, q.role)
         THEN /\ heap' = [heap EXCEPT ![i] = r]
              /\ lock' = [lock EXCEPT ![i] = c]
              /\ sid' = [sid EXCEPT ![c] = s]
              /\ job' = [job EXCEPT ![c] = [@ EXCEPT !.skip = {c}, !.todo =
                   <<IF s \in Members(heap[i]) THEN Presence(s, "active")
                     ELSE Joined(s, r.participants[s])>>]]
              /\ Goto(c, "register")
              /\ UNCHANGED <<buf, done>>
         ELSE /\ SendError(c)
              /\ Return(c)
              /\ UNCHANGED <<heap, lock, sid>>
      /\ UNCHANGED <<now, round, manager, pump, left>>

RegisterClient(c) ==
  /\ pc[c] = "register"
  /\ clients' = clients \cup {c}
  /\ Goto(c, "state")
  /\ UNCHANGED <<heap, lock, now, round, made, current, gc,
                 job, sid, buf, done, pump, left>>

\* BuildRoomState, which reads the timer, and room.Unlock().
BuildRoomState(c) ==
  LET i == job[c].room
  IN  /\ pc[c] = "state"
      /\ heap' = [heap EXCEPT ![i] = AfterTimerInfo(@, now)]
      /\ lock' = [lock EXCEPT ![i] = NoConn]
      /\ job' = [job EXCEPT ![c] = [@ EXCEPT !.todo =
                   <<RoomState(heap[i], now, <<i, round[i]>>)>> \o job[c].todo]]
      /\ Goto(c, "welcome")
      /\ UNCHANGED <<now, round, manager, sid, buf, done, pump, left>>

\* The announcement of a new participant reads name and role with the room
\* unlocked: another connection of the session may have changed them.
Reread(r, m) ==
  IF m.type = "participant_joined" /\ m.session \in Members(r)
  THEN Joined(m.session, r.participants[m.session]) ELSE m

\* The room_state goes to the joining client, unlocked, then the others hear.
Welcome(c) ==
  /\ pc[c] = "welcome"
  /\ Send(c, Head(job[c].todo))
  /\ job' = [job EXCEPT ![c] =
               [@ EXCEPT !.todo = <<Reread(RoomOf(c), job[c].todo[2])>>]]
  /\ Goto(c, "snapshot")
  /\ UNCHANGED <<heap, lock, now, round, manager, sid, pump, left>>

-----------------------------------------------------------------------------
(* The other handlers: one critical section of the room, then broadcasts.  *)

Locked(c, kind) ==
  /\ pc[c] = "handle"
  /\ job[c].event.kind = kind
  /\ lock[job[c].room] = NoConn
  /\ UNCHANGED <<lock, now, manager, sid, pump, left>>

Becomes(c, r) == heap' = [heap EXCEPT ![job[c].room] = r]
NextBallot(c) == round' = [round EXCEPT ![job[c].room] = @ + 1]

\* The handler changed the room to r and announces it.
Commit(c, r, msgs) ==
  /\ Becomes(c, r)
  /\ Broadcast(c, msgs, {}, "read")
  /\ UNCHANGED <<buf, done>>

\* The room refused: an error to the client, or nothing at all.
Refuse(c) == UNCHANGED heap /\ SendError(c) /\ Return(c)
Ignore(c) == UNCHANGED <<heap, buf, done>> /\ Return(c)

\* Mutant: a card taken back is not announced.
HandleVoteQuietly(c) ==
  LET s == sid[c]
      value == job[c].event.value
      r == AfterCastVote(RoomOf(c), s, value, now)
  IN  /\ Locked(c, "vote")
      /\ IF CanCastVote(RoomOf(c), s, value)
         THEN IF value = ""
              THEN Becomes(c, r) /\ Return(c) /\ UNCHANGED <<buf, done>>
              ELSE Commit(c, r, <<About("vote_cast", s)>>)
         ELSE Refuse(c)
      /\ UNCHANGED round

HandleVote(c) ==
  LET s == sid[c]
      value == job[c].event.value
      r == AfterCastVote(RoomOf(c), s, value, now)
      hadVote == RoomOf(c).participants[s].vote # ""
  IN  /\ Locked(c, "vote")
      /\ IF CanCastVote(RoomOf(c), s, value)
         THEN IF value = "" /\ ~hadVote
              THEN Becomes(c, r) /\ Return(c) /\ UNCHANGED <<buf, done>>
              ELSE Commit(c, r, <<About(IF value = "" THEN "vote_retracted"
                                        ELSE "vote_cast", s)>>)
         ELSE Refuse(c)
      /\ UNCHANGED round

HandleReveal(c) ==
  LET i == job[c].room
      r == AfterReveal(RoomOf(c), now)
  IN  /\ Locked(c, "reveal")
      /\ IF CanReveal(RoomOf(c))
         THEN Commit(c, r, <<VotesRevealed(r, <<i, round[i]>>)>>)
         ELSE Refuse(c)
      /\ UNCHANGED round

\* TimerInfo is read, and may expire the timer, even if NewRound is refused.
HandleNewRound(c) ==
  LET r == AfterNewRound(RoomOf(c), now)
  IN  /\ Locked(c, "new_round")
      /\ IF CanNewRound(RoomOf(c))
         THEN /\ Commit(c, r, <<Plain("round_reset"), TimerUpdated(r, now)>>)
              /\ NextBallot(c)
         ELSE /\ Becomes(c, AfterTimerInfo(RoomOf(c), now))
              /\ SendError(c)
              /\ Return(c)
              /\ UNCHANGED round

\* Receive has broadcast room_cleared already.
HandleClearRoom(c) ==
  /\ Locked(c, "clear_room")
  /\ Becomes(c, AfterClearRoom(RoomOf(c), now))
  /\ NextBallot(c)
  /\ Return(c)
  /\ UNCHANGED <<buf, done>>

HandleUpdateName(c) ==
  LET s == sid[c]
      raw == job[c].event.name
  IN  /\ Locked(c, "update_name")
      /\ IF CanUpdateName(RoomOf(c), s, raw)
         THEN Commit(c, AfterUpdateName(RoomOf(c), s, raw, now),
                     <<NameUpdated(s, displayName[raw])>>)
         ELSE Refuse(c)
      /\ UNCHANGED round

\* Mutant: the status is written without the validation of UpdatePresence.
HandlePresenceUnchecked(c) ==
  LET s == sid[c]
      status == job[c].event.status
  IN  /\ Locked(c, "presence")
      /\ IF s \in Members(RoomOf(c))
         THEN Commit(c, AfterUpdatePresence(RoomOf(c), s, status, now),
                     <<Presence(s, status)>>)
         ELSE Refuse(c)
      /\ UNCHANGED round

HandlePresence(c) ==
  LET s == sid[c]
      status == job[c].event.status
  IN  /\ Locked(c, "presence")
      /\ IF CanUpdatePresence(RoomOf(c), s, status)
         THEN Commit(c, AfterUpdatePresence(RoomOf(c), s, status, now),
                     <<Presence(s, status)>>)
         ELSE Refuse(c)
      /\ UNCHANGED round

\* Mutant: the handler writes the role itself and leaves the card.
HandleUpdateRoleKeepsCard(c) ==
  LET s == sid[c]
      role == job[c].event.role
  IN  /\ Locked(c, "update_role")
      /\ IF CanUpdateRole(RoomOf(c), s, role)
         THEN Commit(c, Touch([RoomOf(c) EXCEPT !.participants[s].role = role],
                              now),
                     <<RoleUpdated(s, role)>>)
         ELSE Refuse(c)
      /\ UNCHANGED round

HandleUpdateRole(c) ==
  LET s == sid[c]
      role == job[c].event.role
  IN  /\ Locked(c, "update_role")
      /\ IF CanUpdateRole(RoomOf(c), s, role)
         THEN Commit(c, AfterUpdateRole(RoomOf(c), s, role, now),
                     <<RoleUpdated(s, role)>>)
         ELSE Refuse(c)
      /\ UNCHANGED round

HandleTimerSetDuration(c) ==
  LET d == job[c].event.duration
      r == AfterSetTimerDuration(RoomOf(c), d, now)
  IN  /\ Locked(c, "timer_set_duration")
      /\ IF CanSetTimerDuration(RoomOf(c), d)
         THEN Commit(c, r, <<TimerUpdated(r, now)>>)
         ELSE Refuse(c)
      /\ UNCHANGED round

HandleTimerStart(c) ==
  LET r == AfterStartTimer(RoomOf(c), now)
  IN  /\ Locked(c, "timer_start")
      /\ IF CanStartTimer(RoomOf(c))
         THEN Commit(c, r, <<TimerUpdated(r, now)>>)
         ELSE Ignore(c)
      /\ UNCHANGED round

HandleTimerReset(c) ==
  LET r == AfterResetTimer(RoomOf(c), now)
  IN  /\ Locked(c, "timer_reset")
      /\ IF CanResetTimer(RoomOf(c))
         THEN Commit(c, r, <<TimerUpdated(r, now)>>)
         ELSE Ignore(c)
      /\ UNCHANGED round

\* The others are told even when the session was not in the room any more.
HandleLeave(c) ==
  LET s == sid[c]
  IN  /\ Locked(c, "leave")
      /\ IF CanLeave(RoomOf(c), s)
         THEN Becomes(c, AfterLeave(RoomOf(c), s, now))
         ELSE UNCHANGED heap
      /\ Broadcast(c, <<About("participant_left", s)>>, {c}, "forget")
      /\ UNCHANGED <<round, buf, done>>

\* Mutant: SetSessionID("") is missing.
ForgetKeepsSession(c) ==
  /\ pc[c] = "forget"
  /\ clients' = clients \ {c}
  /\ Return(c)
  /\ UNCHANGED <<heap, lock, now, round, made, current, gc,
                 sid, buf, done, pump, left>>

\* The end of handleLeave: UnregisterClient and SetSessionID("").
Forget(c) ==
  /\ pc[c] = "forget"
  /\ clients' = clients \ {c}
  /\ sid' = [sid EXCEPT ![c] = ""]
  /\ Return(c)
  /\ UNCHANGED <<heap, lock, now, round, made, current, gc,
                 buf, done, pump, left>>

-----------------------------------------------------------------------------
(* Broadcast and BroadcastExcept: copy the client set, then send one by    *)
(* one with no lock held.                                                  *)

\* The clients in rest are still to be sent the first message; after the last
\* of them comes the next message, and after that the handler goes on.
Proceed(c, rest) ==
  LET j == job[c]
  IN  \/ /\ rest # {}
         /\ Goto(c, "send")
         /\ job' = [job EXCEPT ![c] = [@ EXCEPT !.rest = rest]]
      \/ /\ rest = {}
         /\ Len(j.todo) > 1
         /\ Goto(c, "snapshot")
         /\ job' = [job EXCEPT ![c] =
                      [@ EXCEPT !.rest = {}, !.todo = Tail(j.todo)]]
      \/ /\ rest = {}
         /\ Len(j.todo) = 1
         /\ IF j.next = "read"
            THEN Return(c)
            ELSE /\ Goto(c, j.next)
                 /\ job' = [job EXCEPT ![c] =
                              [@ EXCEPT !.rest = {}, !.todo = <<>>]]

Snapshot(c) ==
  /\ pc[c] = "snapshot"
  /\ Proceed(c, clients \ job[c].skip)
  /\ UNCHANGED <<heap, lock, now, round, manager, sid, buf, done, pump, left>>

SendOne(c, d) ==
  /\ pc[c] = "send"
  /\ d \in job[c].rest
  /\ Send(d, Head(job[c].todo))
  /\ Proceed(c, job[c].rest \ {d})
  /\ UNCHANGED <<heap, lock, now, round, manager, sid, pump, left>>

-----------------------------------------------------------------------------
(* A connection ends: the read pump returns and HandleWebSocket cleans up. *)

\* Mutant: the participant of a lost connection is not looked up.
CleanUpWithoutMark(c) ==
  /\ done' = [done EXCEPT ![c] = TRUE]
  /\ Goto(c, "bye")
  /\ job' = [job EXCEPT ![c] = NoJob]
  /\ UNCHANGED <<heap, lock, now, round, manager, sid, pump, left>>

\* What follows the return of readPump: Client.Close(), and for a joined
\* client the look-up of the room.
CleanUp(c) ==
  /\ done' = [done EXCEPT ![c] = TRUE]
  /\ IF sid[c] = "" \/ current = NoRoom
     THEN Goto(c, "bye") /\ job' = [job EXCEPT ![c] = NoJob]
     ELSE /\ Goto(c, "mark")
          /\ job' = [job EXCEPT ![c] = [NoJob EXCEPT !.room = current]]
  /\ UNCHANGED <<heap, lock, now, round, manager, sid, pump, left>>

\* conn.Read fails: the peer is gone, or the write pump cancelled the context.
ReadFails(c) == pc[c] = "read" /\ CleanUp(c) /\ UNCHANGED buf

\* More events than the message limiter allows: an error and the end.
RateLimited(c) ==
  /\ pc[c] = "read"
  /\ pump[c]
  /\ IF Len(buf[c]) < SendBufferSize
     THEN buf' = [buf EXCEPT ![c] = Append(@, Plain("error"))]
     ELSE UNCHANGED buf
  /\ CleanUp(c)

\* Mutant: the clean-up does not unlock the room.
MarkKeepsLock(c) ==
  /\ pc[c] = "mark"
  /\ lock[job[c].room] = NoConn
  /\ lock' = [lock EXCEPT ![job[c].room] = c]
  /\ Becomes(c, AfterDisconnect(RoomOf(c), sid[c]))
  /\ Broadcast(c, <<Presence(sid[c], "disconnected")>>, {}, "bye")
  /\ UNCHANGED <<now, round, manager, sid, buf, done, pump, left>>

\* Mutant: the end of a connection counts as activity.
MarkTouches(c) ==
  /\ pc[c] = "mark"
  /\ lock[job[c].room] = NoConn
  /\ Becomes(c, Touch(AfterDisconnect(RoomOf(c), sid[c]), now))
  /\ Broadcast(c, <<Presence(sid[c], "disconnected")>>, {}, "bye")
  /\ UNCHANGED <<lock, now, round, manager, sid, buf, done, pump, left>>

MarkDisconnected(c) ==
  /\ pc[c] = "mark"
  /\ lock[job[c].room] = NoConn
  /\ Becomes(c, AfterDisconnect(RoomOf(c), sid[c]))
  /\ Broadcast(c, <<Presence(sid[c], "disconnected")>>, {}, "bye")
  /\ UNCHANGED <<lock, now, round, manager, sid, buf, done, pump, left>>

\* The WritePump returns; what the channel holds will never be read.
StopPump(c) ==
  /\ pump' = [pump EXCEPT ![c] = FALSE]
  /\ buf' = [buf EXCEPT ![c] = <<>>]

\* UnregisterClient, the close of the socket and the cancelled context, which
\* ends the write pump.
Bye(c) ==
  /\ pc[c] = "bye"
  /\ clients' = clients \ {c}
  /\ Goto(c, "gone")
  /\ job' = [job EXCEPT ![c] = NoJob]
  /\ StopPump(c)
  /\ UNCHANGED <<heap, lock, now, round, made, current, gc, sid, done, left>>

-----------------------------------------------------------------------------
(* The write pump.                                                         *)

Deliver(c) ==
  /\ pump[c]
  /\ buf[c] # <<>>
  /\ buf' = [buf EXCEPT ![c] = Tail(@)]
  /\ UNCHANGED <<heap, lock, now, round, manager, pc, job, sid, done, pump, left>>

\* Mutant: the pump empties its channel before it looks at done.
PumpDrainsFirst(c) ==
  /\ pump[c]
  /\ buf[c] = <<>>
  /\ StopPump(c)
  /\ UNCHANGED <<heap, lock, now, round, manager, pc, job, sid, done, left>>

\* Client.done is closed, or a write or a ping fails or times out.
PumpStops(c) ==
  /\ pump[c]
  /\ StopPump(c)
  /\ UNCHANGED <<heap, lock, now, round, manager, pc, job, sid, done, left>>

-----------------------------------------------------------------------------
(* collectGarbage and the clock.                                           *)

Stale(t) == clients = {} /\ t - heap[current].lastActivity > RoomExpiry

\* Phase 1, under the read lock: the room is a candidate.
CollectCandidates ==
  /\ gc = 0
  /\ current # NoRoom
  /\ Stale(now)
  /\ gc' = now
  /\ UNCHANGED <<heap, lock, now, round, made, current, clients, conns>>

\* Mutant: what phase 1 found is deleted without another look.
DeleteUnchecked ==
  /\ gc # 0
  /\ gc' = 0
  /\ current' = NoRoom
  /\ clients' = {}
  /\ UNCHANGED <<heap, lock, now, round, made, conns>>

\* Phase 2, under the write lock: look again, with the time of phase 1.
DeleteCandidates ==
  /\ gc # 0
  /\ gc' = 0
  /\ IF current # NoRoom /\ Stale(gc)
     THEN current' = NoRoom /\ clients' = {}
     ELSE UNCHANGED <<current, clients>>
  /\ UNCHANGED <<heap, lock, now, round, made, conns>>

Tick ==
  /\ now < MaxTime
  /\ now' = now + 1
  /\ UNCHANGED <<heap, lock, round, manager, conns>>

-----------------------------------------------------------------------------
\* The steps of c's reading goroutine that wait for nothing but the lock.
Handle(c) ==
  \/ GetOrCreateRoom(c) \/ Join(c) \/ RegisterClient(c) \/ BuildRoomState(c)
  \/ Welcome(c) \/ HandleVote(c) \/ HandleReveal(c) \/ HandleNewRound(c)
  \/ HandleClearRoom(c) \/ HandleUpdateName(c) \/ HandlePresence(c)
  \/ HandleUpdateRole(c) \/ HandleTimerSetDuration(c) \/ HandleTimerStart(c)
  \/ HandleTimerReset(c) \/ HandleLeave(c) \/ Forget(c) \/ Snapshot(c)
  \/ (\E d \in Conn : SendOne(c, d)) \/ MarkDisconnected(c) \/ Bye(c)

\* What the server does, and what befalls it; but the delivery of messages.
Serve ==
  \/ \E c \in Conn :
       \/ Connect(c) \/ ReceiveGarbage(c)
       \/ \E q \in Request : ReceiveJoin(c, q) \/ Receive(c, q)
       \/ Handle(c)
       \/ ReadFails(c) \/ RateLimited(c) \/ PumpStops(c)
  \/ CollectCandidates
  \/ DeleteCandidates
  \/ Tick

Next == Serve \/ \E c \in Conn : Deliver(c)

Spec == Init /\ [][Next]_vars

\* What the Go runtime and the code guarantee: a runnable handler goes on; a
\* closed client's write pump chooses the closed channel in the end; a
\* cancelled context fails the read.  Nobody has to send anything, the network
\* has to deliver nothing and the clock need not move.
Fairness ==
  \A c \in Conn :
    /\ WF_vars(Handle(c))
    /\ WF_vars(done[c] /\ PumpStops(c))
    /\ WF_vars(~pump[c] /\ ReadFails(c))

FairSpec == Spec /\ Fairness

-----------------------------------------------------------------------------
(* Invariants.                                                             *)

Places == {"new", "read", "create", "join", "register", "state", "welcome",
           "handle", "snapshot", "send", "forget", "mark", "bye", "gone"}

\* Every variable has its shape, whatever the clients send: rooms are well
\* formed and so are the events on their way, no send buffer outgrows its
\* channel, and the one critical section that spans several steps is bracketed: a room is
\* locked exactly while its holder is between Join and BuildRoomState.
TypeOK ==
  /\ DOMAIN heap = RoomId /\ \A i \in RoomId : IsRoom(heap[i])
  /\ lock \in [RoomId -> Conn \cup {NoConn}]
  /\ made \in 0 .. MaxRooms
  /\ current \in 0 .. made
  /\ clients \subseteq Conn
  /\ gc \in 0 .. now
  /\ now \in Nat \ {0}
  /\ pc \in [Conn -> Places]
  /\ sid \in [Conn -> Session \cup {""}]
  /\ done \in [Conn -> BOOLEAN]
  /\ pump \in [Conn -> BOOLEAN]
  /\ left \in [Conn -> Nat]
  /\ round \in [RoomId -> Nat]
  /\ job \in [Conn -> Job]
  /\ buf \in [Conn -> Seq(Message)]
  /\ \A c \in Conn : Len(buf[c]) <= SendBufferSize /\ job[c].room <= made
  /\ \A i \in RoomId, c \in Conn :
       lock[i] = c <=> pc[c] \in {"register", "state"} /\ job[c].room = i

\* Between two events a connection hears the room's broadcasts exactly if the
\* server knows its session: the several steps of joining and leaving, the
\* joins that fail and the clean-up leave no client deaf and none haunted.
\* (Instances where the garbage collector never runs; see
\* RoomOfConnectedClientSurvives for the ones where it does.)
RegisteredIffJoined ==
  \A c \in Conn :
    /\ pc[c] = "read" => (c \in clients <=> sid[c] # "")
    /\ pc[c] \in {"new", "gone"} => c \notin clients

\* c stands for the session s in the room of the map: it has that session, it
\* is not past its leaving or its end, and if either is under way it is going
\* to tell this very room.
StandsFor(c, s) ==
  /\ sid[c] = s
  /\ pc[c] \notin {"new", "forget", "bye", "gone"}
  /\ pc[c] \in {"snapshot", "send"} => job[c].next \notin {"forget", "bye"}
  /\ pc[c] = "mark" \/ (pc[c] = "handle" /\ job[c].event.kind = "leave")
       => job[c].room = current

\* The sessions on the table as active or idle with nobody behind them.
Phantoms ==
  {s \in IF current = NoRoom THEN {} ELSE Members(heap[current]) :
     /\ heap[current].participants[s].status # "disconnected"
     /\ \A c \in Conn : ~StandsFor(c, s)}

\* A connection of s joins as another session, over which the server forgets s.
Deserted(s) == \E c \in Conn : sid[c] = s /\ sid'[c] \notin {s, ""}

\* Only a session that a connection of its own deserts becomes a phantom:
\* however the clean-up of a connection, its last events, its leaving, the
\* session's other tabs and the garbage collector interleave, nothing else
\* leaves a participant on the table as active with nobody behind it.
OnlyTheDesertedHaunt == [][\A s \in Phantoms' \ Phantoms : Deserted(s)]_vars

\* The messages under way to clients, prepared or buffered.
Mail ==
  UNION {{buf[c][k] : k \in DOMAIN buf[c]} \cup
         {job[c].todo[k] : k \in DOMAIN job[c].todo} : c \in Conn}

\* The cards of the ballot in progress are secret: handlers prepare messages
\* under the room's lock and send them later, but what is under way with
\* cards in it either belongs to an earlier ballot of its room or that ballot
\* is revealed.
VotesStaySecret ==
  \A i \in RoomId : heap[i].phase = "voting" =>
    \A m \in Mail : Carried(m) # {} /\ m.ballot[1] = i => m.ballot[2] < round[i]

-----------------------------------------------------------------------------
(* Action and temporal properties.                                         *)

\* A room disappears from the map only when nobody is registered and its last
\* activity really is older than the expiry, although the collector decides
\* in one critical section and deletes in another.
GCSparesTheLiving ==
  [][current # NoRoom /\ current' = NoRoom =>
       /\ clients = {}
       /\ now - heap[current].lastActivity > RoomExpiry]_vars

\* Every room of the hub is a room of module Room: what the handlers of
\* several connections do to it, in whatever order they get the lock, is one
\* Room operation at a time, refused calls and the clean-up included, even
\* after the collector took it off the map.  (Making a room is clearing it.)
RoomAt(i) == INSTANCE Room WITH room <- heap[i]
HubImplementsRoom ==
  /\ \A i \in RoomId : RoomAt(i)!Init
  /\ [][\A i \in RoomId : [RoomAt(i)!Next]_(RoomAt(i)!vars)]_vars

\* A handler, once called, returns: no lock is left locked by an early
\* return, and nobody waits on a client that does not read.
HandlersFinish ==
  \A c \in Conn :
    pc[c] \notin {"new", "read", "gone"} ~> pc[c] \in {"read", "gone"}

\* A client whose buffer overflowed is closed, unregistered and gone in the
\* end, whatever the others do (client.go, Send: "Closing triggers reconnect").
SlowClientIsDropped == \A c \in Conn : done[c] ~> pc[c] = "gone"

\* No handler is under way: whatever was announced is in the buffers.
Quiet == \A c \in Conn : pc[c] \in {"new", "read", "gone"}

-----------------------------------------------------------------------------
(* What the documents say and the code does not do.                        *)

\* "Rooms with active connections are never GC'd, regardless of age"
\* (docs/planning/03-backend-plan.md): a client that joined and did not leave
\* is in the room the map holds.
RoomOfConnectedClientSurvives ==
  \A c \in Conn : pc[c] = "read" /\ c \in clients => current # NoRoom

\* Disconnected means "WebSocket connection lost"
\* (docs/planning/03-backend-plan.md): a session with an open, registered
\* connection is not shown as disconnected.
ConnectedIsShown ==
  \A c \in Conn :
    /\ pc[c] = "read" /\ c \in clients /\ current # NoRoom
    /\ sid[c] \in Members(heap[current])
    => heap[current].participants[sid[c]].status # "disconnected"
=============================================================================

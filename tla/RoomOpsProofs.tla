--------------------------- MODULE RoomOpsProofs ---------------------------
(***************************************************************************)
(* What the operations of RoomOps do to a room, for the proofs about Room  *)
(* and Hub: every one turns a room into a room, and changes of it what it  *)
(* says.                                                                   *)
(***************************************************************************)
EXTENDS RoomOps, TLAPS

(***************************************************************************)
(* Every operation turns a well-formed room into a well-formed room.       *)
(***************************************************************************)
LEMMA NewRoomOK ==
  ASSUME NEW t \in Nat
  PROVE  IsRoom(NewRoom(t))
  BY RoomAssumption DEF IsRoom, NewRoom, Members, Timer, IdleTimer, Durations, TimerStates,
         ZeroTime, Phases, Participant

\* Any change of the participants that keeps them a map from sessions to
\* participants, with whatever happens to the phase, the timer and the
\* activity, gives a room again.
LEMMA ParticipantsOK ==
  ASSUME NEW r, IsRoom(r), NEW ps, NEW S \in SUBSET Session,
         ps \in [S -> Participant], NEW t \in Nat
  PROVE  IsRoom(Touch([r EXCEPT !.participants = ps], t))
  BY DEF IsRoom, Members, Touch

\* A participant is put into the room.
LEMMA PutOK ==
  ASSUME NEW r, IsRoom(r), NEW s \in Session, NEW p \in Participant, NEW t \in Nat
  PROVE  IsRoom(Touch([r EXCEPT !.participants = Put(@, s, p)], t))
PROOF
  <1> DEFINE ps == Put(r.participants, s, p)
  <1>1. Members(r) \cup {s} \in SUBSET Session
    BY DEF IsRoom
  <1>2. ps \in [Members(r) \cup {s} -> Participant]
    BY DEF IsRoom, Members, Put
  <1> HIDE DEF ps
  <1>3. IsRoom(Touch([r EXCEPT !.participants = ps], t))
    BY <1>1, <1>2, ParticipantsOK
  <1>4. [r EXCEPT !.participants = ps] = [r EXCEPT !.participants = Put(@, s, p)]
    BY DEF ps
  <1> QED BY <1>3, <1>4

\* Every operation leaves a room a room.
LEMMA JoinOK ==
  ASSUME NEW r, IsRoom(r), NEW s \in Session, NEW raw \in RawName, NEW role,
         NEW t \in Nat, CanJoin(r, s, raw, role)
  PROVE  IsRoom(AfterJoin(r, s, raw, role, t))
PROOF
  <1> DEFINE p == IF s \in Members(r)
                  THEN Rejoined(r.participants[s], displayName[raw], JoinRole(role))
                  ELSE Newcomer(displayName[raw], JoinRole(role), t)
  <1>1. displayName[raw] \in Name /\ JoinRole(role) \in Roles
    BY RoomAssumption DEF CanJoin
  <1>2. p \in Participant
    <2>1. CASE s \in Members(r)
      <3>1. r.participants[s] \in Participant
        BY <2>1 DEF IsRoom
      <3> QED BY <1>1, <2>1, <3>1
               DEF Rejoined, CardKept, Participant, ValidVotes, Statuses
    <2>2. CASE s \notin Members(r)
      BY <1>1, <2>2 DEF Newcomer, Participant, ValidVotes, Statuses
    <2> QED BY <2>1, <2>2
  <1> HIDE DEF p
  <1>3. IsRoom(Touch([r EXCEPT !.participants = Put(@, s, p)], t))
    BY <1>2, PutOK
  <1> QED BY <1>3 DEF AfterJoin, p

LEMMA LeaveOK ==
  ASSUME NEW r, IsRoom(r), NEW s \in Session, NEW t \in Nat
  PROVE  IsRoom(AfterLeave(r, s, t))
PROOF
  <1> DEFINE ps == Restrict(r.participants, Members(r) \ {s})
  <1>1. Members(r) \ {s} \in SUBSET Session
    BY DEF IsRoom
  <1>2. ps \in [Members(r) \ {s} -> Participant]
    BY DEF IsRoom, Members, Restrict
  <1> HIDE DEF ps
  <1>3. IsRoom(Touch([r EXCEPT !.participants = ps], t))
    BY <1>1, <1>2, ParticipantsOK
  <1> QED BY <1>3 DEF AfterLeave, Members, ps

\* One participant is replaced by another value of the type.
LEMMA UpdateOK ==
  ASSUME NEW r, IsRoom(r), NEW s \in Members(r), NEW p \in Participant,
         NEW t \in Nat
  PROVE  IsRoom(Touch([r EXCEPT !.participants[s] = p], t))
PROOF
  <1> DEFINE ps == [r.participants EXCEPT ![s] = p]
  <1>1. ps \in [Members(r) -> Participant]
    BY DEF IsRoom, Members
  <1> HIDE DEF ps
  <1>2. IsRoom(Touch([r EXCEPT !.participants = ps], t))
    BY <1>1, ParticipantsOK DEF IsRoom
  <1> QED BY <1>2 DEF ps

\* An entry of the room.
LEMMA MemberOK ==
  ASSUME NEW r, IsRoom(r), NEW s \in Members(r)
  PROVE  r.participants[s] \in Participant
  BY DEF IsRoom

LEMMA UpdateNameOK ==
  ASSUME NEW r, IsRoom(r), NEW s \in Session, NEW raw \in RawName,
         NEW t \in Nat, CanUpdateName(r, s, raw)
  PROVE  IsRoom(AfterUpdateName(r, s, raw, t))
PROOF
  <1> DEFINE p == [r.participants[s] EXCEPT !.name = displayName[raw]]
  <1>1. p \in Participant
    BY MemberOK, RoomAssumption DEF CanUpdateName, Participant
  <1> HIDE DEF p
  <1>2. IsRoom(Touch([r EXCEPT !.participants[s] = p], t))
    BY <1>1, UpdateOK DEF CanUpdateName
  <1> QED BY <1>2 DEF AfterUpdateName, p

LEMMA UpdatePresenceOK ==
  ASSUME NEW r, IsRoom(r), NEW s \in Session, NEW status, NEW t \in Nat,
         CanUpdatePresence(r, s, status)
  PROVE  IsRoom(AfterUpdatePresence(r, s, status, t))
PROOF
  <1> DEFINE p == [r.participants[s] EXCEPT !.status = status]
  <1>1. p \in Participant
    BY MemberOK DEF CanUpdatePresence, Participant, Statuses
  <1> HIDE DEF p
  <1>2. IsRoom(Touch([r EXCEPT !.participants[s] = p], t))
    BY <1>1, UpdateOK DEF CanUpdatePresence
  <1> QED BY <1>2 DEF AfterUpdatePresence, p

LEMMA UpdateRoleOK ==
  ASSUME NEW r, IsRoom(r), NEW s \in Session, NEW role, NEW t \in Nat,
         CanUpdateRole(r, s, role)
  PROVE  IsRoom(AfterUpdateRole(r, s, role, t))
PROOF
  <1> DEFINE p == [r.participants[s] EXCEPT
                     !.role = role, !.vote = CardKept(role, @)]
  <1>1. p \in Participant
    BY MemberOK DEF CanUpdateRole, CardKept, Participant, ValidVotes
  <1> HIDE DEF p
  <1>2. IsRoom(Touch([r EXCEPT !.participants[s] = p], t))
    BY <1>1, UpdateOK DEF CanUpdateRole
  <1> QED BY <1>2 DEF AfterUpdateRole, p

LEMMA CastVoteOK ==
  ASSUME NEW r, IsRoom(r), NEW s \in Session, NEW value, NEW t \in Nat,
         CanCastVote(r, s, value)
  PROVE  IsRoom(AfterCastVote(r, s, value, t))
PROOF
  <1> DEFINE p == [r.participants[s] EXCEPT !.vote = value]
  <1>1. p \in Participant
    BY MemberOK DEF CanCastVote, Participant
  <1> HIDE DEF p
  <1>2. IsRoom(Touch([r EXCEPT !.participants[s] = p], t))
    BY <1>1, UpdateOK DEF CanCastVote
  <1> QED BY <1>2 DEF AfterCastVote, p

LEMMA DisconnectOK ==
  ASSUME NEW r, IsRoom(r), NEW s \in Session
  PROVE  IsRoom(AfterDisconnect(r, s))
  BY DEF IsRoom, Members, AfterDisconnect, Participant, Statuses

LEMMA NewRoundOK ==
  ASSUME NEW r, IsRoom(r), NEW t \in Nat
  PROVE  IsRoom(AfterNewRound(r, t))
PROOF
  <1>1. WithoutVotes(r.participants) \in [Members(r) -> Participant]
    <2>1. \A s \in Members(r) :
            [r.participants[s] EXCEPT !.vote = ""] \in Participant
      BY MemberOK DEF Participant, ValidVotes
    <2> QED BY <2>1 DEF WithoutVotes, Members
  <1>2. IdleTimer(r.timer.duration) \in Timer
    BY DEF IdleTimer, Timer, TimerStates, ZeroTime, IsRoom
  <1> QED BY <1>1, <1>2 DEF AfterNewRound, IsRoom, Members, Touch, Phases

LEMMA TimerOK ==
  ASSUME NEW r, IsRoom(r), NEW t \in Nat
  PROVE  /\ IsRoom(AfterReveal(r, t))
         /\ \A d : CanSetTimerDuration(r, d) => IsRoom(AfterSetTimerDuration(r, d, t))
         /\ IsRoom(AfterStartTimer(r, t))
         /\ IsRoom(AfterResetTimer(r, t))
         /\ IsRoom(AfterTimerInfo(r, t))
PROOF
  <1> USE DEF IsRoom, Members, Touch, Timer, TimerStates
  <1>1. IsRoom(AfterReveal(r, t))
    BY DEF AfterReveal, Phases
  <1>2. \A d : CanSetTimerDuration(r, d) => IsRoom(AfterSetTimerDuration(r, d, t))
    BY DEF CanSetTimerDuration, AfterSetTimerDuration
  <1>3. IsRoom(AfterStartTimer(r, t))
    BY DEF AfterStartTimer
  <1>4. IsRoom(AfterResetTimer(r, t))
    BY DEF AfterResetTimer, IdleTimer, ZeroTime
  <1>5. IsRoom(AfterTimerInfo(r, t))
    BY DEF AfterTimerInfo
  <1> QED BY <1>1, <1>2, <1>3, <1>4, <1>5

(***************************************************************************)
(* What an operation does to the phase, the timer, and the cards and roles *)
(* of the participants.                                                    *)
(***************************************************************************)
LEMMA JoinEffect ==
  ASSUME NEW r, IsRoom(r), NEW s, NEW raw, NEW role, NEW t,
         NEW q, q = AfterJoin(r, s, raw, role, t)
  PROVE  /\ q.phase = r.phase /\ q.timer = r.timer
         /\ Members(q) = Members(r) \cup {s}
         /\ \A m \in Members(r) \ {s} : q.participants[m] = r.participants[m]
         /\ q.participants[s].role = JoinRole(role)
         /\ q.participants[s].vote = CardKept(JoinRole(role), VoteOf(r, s))
PROOF
  <1> DEFINE p == IF s \in Members(r)
                  THEN Rejoined(r.participants[s], displayName[raw], JoinRole(role))
                  ELSE Newcomer(displayName[raw], JoinRole(role), t)
  <1>1. q = Touch([r EXCEPT !.participants = Put(@, s, p)], t)
    BY DEF AfterJoin
  <1>2. /\ p.role = JoinRole(role)
        /\ p.vote = CardKept(JoinRole(role), VoteOf(r, s))
    <2>1. CASE s \in Members(r)
      BY <2>1, MemberOK DEF Rejoined, Participant, VoteOf
    <2>2. CASE s \notin Members(r)
      BY <2>2 DEF Newcomer, VoteOf, CardKept
    <2> QED BY <2>1, <2>2
  <1> HIDE DEF p
  <1>3. q.phase = r.phase /\ q.timer = r.timer
        /\ q.participants = Put(r.participants, s, p)
    BY <1>1 DEF Touch, IsRoom
  <1>4. Members(q) = Members(r) \cup {s} /\ q.participants[s] = p
        /\ \A m \in Members(r) \ {s} : q.participants[m] = r.participants[m]
    BY <1>3 DEF Put, Members
  <1> QED BY <1>2, <1>3, <1>4

\* What an operation changes and what it leaves alone.
LEMMA LeaveEffect ==
  ASSUME NEW r, IsRoom(r), NEW s, NEW t, NEW q, q = AfterLeave(r, s, t)
  PROVE  /\ q.phase = r.phase /\ q.timer = r.timer
         /\ Members(q) = Members(r) \ {s}
         /\ \A m \in Members(q) : q.participants[m] = r.participants[m]
PROOF
  <1>1. q.phase = r.phase /\ q.timer = r.timer
        /\ q.participants = Restrict(r.participants, Members(r) \ {s})
    BY DEF AfterLeave, Touch, IsRoom, Members
  <1> QED BY <1>1 DEF Members, Restrict

\* The operations that change one participant only.
LEMMA UpdateNameEffect ==
  ASSUME NEW r, IsRoom(r), NEW s \in Members(r), NEW raw, NEW t, NEW q,
         q = AfterUpdateName(r, s, raw, t)
  PROVE  /\ q.phase = r.phase /\ q.timer = r.timer
         /\ Members(q) = Members(r)
         /\ \A m \in Members(r) :
              /\ q.participants[m].vote = r.participants[m].vote
              /\ q.participants[m].role = r.participants[m].role
PROOF
  <1>1. q.phase = r.phase /\ q.timer = r.timer
    BY DEF AfterUpdateName, Touch, IsRoom
  <1>2. Members(q) = Members(r)
    BY DEF AfterUpdateName, Touch, IsRoom, Members
  <1>3. \A m \in Members(r) \ {s} : q.participants[m] = r.participants[m]
    BY DEF AfterUpdateName, Touch, IsRoom, Members
  <1>4. /\ q.participants[s].vote = r.participants[s].vote
        /\ q.participants[s].role = r.participants[s].role
    BY MemberOK DEF AfterUpdateName, Touch, IsRoom, Members, Participant
  <1> QED BY <1>1, <1>2, <1>3, <1>4

LEMMA UpdatePresenceEffect ==
  ASSUME NEW r, IsRoom(r), NEW s \in Members(r), NEW status, NEW t, NEW q,
         q = AfterUpdatePresence(r, s, status, t)
  PROVE  /\ q.phase = r.phase /\ q.timer = r.timer
         /\ Members(q) = Members(r)
         /\ \A m \in Members(r) :
              /\ q.participants[m].vote = r.participants[m].vote
              /\ q.participants[m].role = r.participants[m].role
PROOF
  <1>1. q.phase = r.phase /\ q.timer = r.timer
    BY DEF AfterUpdatePresence, Touch, IsRoom
  <1>2. Members(q) = Members(r)
    BY DEF AfterUpdatePresence, Touch, IsRoom, Members
  <1>3. \A m \in Members(r) \ {s} : q.participants[m] = r.participants[m]
    BY DEF AfterUpdatePresence, Touch, IsRoom, Members
  <1>4. /\ q.participants[s].vote = r.participants[s].vote
        /\ q.participants[s].role = r.participants[s].role
    BY MemberOK DEF AfterUpdatePresence, Touch, IsRoom, Members, Participant
  <1> QED BY <1>1, <1>2, <1>3, <1>4

LEMMA DisconnectEffect ==
  ASSUME NEW r, IsRoom(r), NEW s \in Members(r), NEW q,
         q = AfterDisconnect(r, s)
  PROVE  /\ q.phase = r.phase /\ q.timer = r.timer
         /\ Members(q) = Members(r)
         /\ \A m \in Members(r) :
              /\ q.participants[m].vote = r.participants[m].vote
              /\ q.participants[m].role = r.participants[m].role
PROOF
  <1>1. q.phase = r.phase /\ q.timer = r.timer
    BY DEF AfterDisconnect, IsRoom
  <1>2. Members(q) = Members(r)
    BY DEF AfterDisconnect, IsRoom, Members
  <1>3. \A m \in Members(r) \ {s} : q.participants[m] = r.participants[m]
    BY DEF AfterDisconnect, IsRoom, Members
  <1>4. /\ q.participants[s].vote = r.participants[s].vote
        /\ q.participants[s].role = r.participants[s].role
    BY MemberOK DEF AfterDisconnect, IsRoom, Members, Participant
  <1> QED BY <1>1, <1>2, <1>3, <1>4

LEMMA CastVoteEffect ==
  ASSUME NEW r, IsRoom(r), NEW s \in Members(r), NEW value, NEW t, NEW q,
         q = AfterCastVote(r, s, value, t)
  PROVE  /\ q.phase = r.phase /\ q.timer = r.timer
         /\ Members(q) = Members(r)
         /\ \A m \in Members(r) \ {s} : q.participants[m] = r.participants[m]
         /\ q.participants[s].vote = value
         /\ q.participants[s].role = r.participants[s].role
PROOF
  <1>1. q.phase = r.phase /\ q.timer = r.timer
    BY DEF AfterCastVote, Touch, IsRoom
  <1>2. Members(q) = Members(r)
    BY DEF AfterCastVote, Touch, IsRoom, Members
  <1>3. \A m \in Members(r) \ {s} : q.participants[m] = r.participants[m]
    BY DEF AfterCastVote, Touch, IsRoom, Members
  <1>4. /\ q.participants[s].vote = value
        /\ q.participants[s].role = r.participants[s].role
    BY MemberOK DEF AfterCastVote, Touch, IsRoom, Members, Participant
  <1> QED BY <1>1, <1>2, <1>3, <1>4

LEMMA UpdateRoleEffect ==
  ASSUME NEW r, IsRoom(r), NEW s \in Members(r), NEW role, NEW t, NEW q,
         q = AfterUpdateRole(r, s, role, t)
  PROVE  /\ q.phase = r.phase /\ q.timer = r.timer
         /\ Members(q) = Members(r)
         /\ \A m \in Members(r) \ {s} : q.participants[m] = r.participants[m]
         /\ q.participants[s].role = role
         /\ q.participants[s].vote = CardKept(role, r.participants[s].vote)
PROOF
  <1>1. q.phase = r.phase /\ q.timer = r.timer
    BY DEF AfterUpdateRole, Touch, IsRoom
  <1>2. Members(q) = Members(r)
    BY DEF AfterUpdateRole, Touch, IsRoom, Members
  <1>3. \A m \in Members(r) \ {s} : q.participants[m] = r.participants[m]
    BY DEF AfterUpdateRole, Touch, IsRoom, Members
  <1>4. /\ q.participants[s].role = role
        /\ q.participants[s].vote = CardKept(role, r.participants[s].vote)
    BY MemberOK DEF AfterUpdateRole, Touch, IsRoom, Members, Participant
  <1> QED BY <1>1, <1>2, <1>3, <1>4

\* The operations that leave the participants alone.
LEMMA RevealEffect ==
  ASSUME NEW r, IsRoom(r), NEW t, NEW q, q = AfterReveal(r, t)
  PROVE  /\ q.phase = "reveal" /\ q.timer = r.timer
         /\ q.participants = r.participants
  BY DEF AfterReveal, Touch, IsRoom

LEMMA SetTimerDurationEffect ==
  ASSUME NEW r, IsRoom(r), NEW d, NEW t, NEW q, q = AfterSetTimerDuration(r, d, t)
  PROVE  /\ q.phase = r.phase /\ q.participants = r.participants
         /\ q.timer.state = r.timer.state
         /\ q.timer.startedAt = r.timer.startedAt
  BY DEF AfterSetTimerDuration, Touch, IsRoom, Timer

LEMMA StartTimerEffect ==
  ASSUME NEW r, IsRoom(r), NEW t, NEW q, q = AfterStartTimer(r, t)
  PROVE  /\ q.phase = r.phase /\ q.participants = r.participants
         /\ q.timer.state = "running" /\ q.timer.startedAt = t
  BY DEF AfterStartTimer, Touch, IsRoom, Timer

LEMMA ResetTimerEffect ==
  ASSUME NEW r, IsRoom(r), NEW t, NEW q, q = AfterResetTimer(r, t)
  PROVE  /\ q.phase = r.phase /\ q.participants = r.participants
         /\ q.timer = IdleTimer(r.timer.duration)
  BY DEF AfterResetTimer, Touch, IsRoom

LEMMA TimerInfoEffect ==
  ASSUME NEW r, IsRoom(r), NEW t, TimeIsUp(r, t), NEW q, q = AfterTimerInfo(r, t)
  PROVE  /\ q.phase = r.phase /\ q.participants = r.participants
         /\ q.timer.state = "expired"
         /\ q.timer.startedAt = r.timer.startedAt
         /\ q.timer.duration = r.timer.duration
  BY DEF AfterTimerInfo, IsRoom, Timer

LEMMA NewRoundEffect ==
  ASSUME NEW r, IsRoom(r), NEW t, NEW q, q = AfterNewRound(r, t)
  PROVE  /\ q.phase = "voting"
         /\ q.timer = IdleTimer(r.timer.duration)
         /\ Members(q) = Members(r)
         /\ \A m \in Members(r) : q.participants[m].vote = ""
PROOF
  <1>1. /\ q.phase = "voting"
        /\ q.timer = IdleTimer(r.timer.duration)
        /\ q.participants = WithoutVotes(r.participants)
    BY DEF AfterNewRound, Touch, IsRoom
  <1>2. \A m \in Members(r) :
          q.participants[m] = [r.participants[m] EXCEPT !.vote = ""]
    BY <1>1 DEF WithoutVotes, Members
  <1>3. \A m \in Members(r) : q.participants[m].vote = ""
    BY <1>2, MemberOK DEF Participant
  <1>4. Members(q) = Members(r)
    BY <1>1 DEF WithoutVotes, Members
  <1> QED BY <1>1, <1>3, <1>4

LEMMA ClearRoomEffect ==
  ASSUME NEW r, NEW t, NEW q, q = AfterClearRoom(r, t)
  PROVE  /\ q.phase = "voting"
         /\ q.timer = IdleTimer(DefaultTimerDuration)
         /\ Members(q) = {}
  BY DEF AfterClearRoom, NewRoom, Members

(***************************************************************************)
(* Who is in the room and not shown as disconnected, after an operation.   *)
(***************************************************************************)
Present(r) == {s \in Members(r) : r.participants[s].status # "disconnected"}

\* Joining makes present, whatever was.
LEMMA JoinPresent ==
  ASSUME NEW r, IsRoom(r), NEW s, NEW raw, NEW role, NEW t
  PROVE  Present(AfterJoin(r, s, raw, role, t)) = Present(r) \cup {s}
PROOF
  <1> DEFINE p == IF s \in Members(r)
                  THEN Rejoined(r.participants[s], displayName[raw], JoinRole(role))
                  ELSE Newcomer(displayName[raw], JoinRole(role), t)
             q == AfterJoin(r, s, raw, role, t)
  <1>1. q.participants = Put(r.participants, s, p)
    BY DEF AfterJoin, Touch, IsRoom
  <1>2. p.status = "active"
    BY MemberOK DEF Rejoined, Newcomer, Participant
  <1> HIDE DEF p, q
  <1>3. /\ Members(q) = Members(r) \cup {s} /\ q.participants[s] = p
        /\ \A m \in Members(r) \ {s} : q.participants[m] = r.participants[m]
    BY <1>1 DEF Put, Members
  <1>4. Present(q) = Present(r) \cup {s}
    BY <1>2, <1>3 DEF Present
  <1> QED BY <1>4 DEF q

\* Leaving takes the session away and nobody else.
LEMMA LeavePresent ==
  ASSUME NEW r, IsRoom(r), NEW s, NEW t
  PROVE  Present(AfterLeave(r, s, t)) = Present(r) \ {s}
  BY LeaveEffect DEF Present

LEMMA UpdateNamePresent ==
  ASSUME NEW r, IsRoom(r), NEW s \in Members(r), NEW raw, NEW t
  PROVE  Present(AfterUpdateName(r, s, raw, t)) = Present(r)
PROOF
  <1> DEFINE q == AfterUpdateName(r, s, raw, t)
  <1>1. Members(q) = Members(r)
    BY DEF AfterUpdateName, Touch, IsRoom, Members
  <1>2. \A m \in Members(r) \ {s} : q.participants[m] = r.participants[m]
    BY DEF AfterUpdateName, Touch, IsRoom, Members
  <1>3. q.participants[s].status = r.participants[s].status
    BY MemberOK DEF AfterUpdateName, Touch, IsRoom, Members, Participant
  <1> HIDE DEF q
  <1>4. Present(q) = Present(r)
    BY <1>1, <1>2, <1>3 DEF Present
  <1> QED BY <1>4 DEF q

\* A presence event may bring its session back.
LEMMA UpdatePresencePresent ==
  ASSUME NEW r, IsRoom(r), NEW s, NEW status, NEW t,
         CanUpdatePresence(r, s, status)
  PROVE  Present(AfterUpdatePresence(r, s, status, t)) = Present(r) \cup {s}
PROOF
  <1> DEFINE q == AfterUpdatePresence(r, s, status, t)
  <1>0. s \in Members(r) /\ status # "disconnected"
    BY DEF CanUpdatePresence
  <1>1. Members(q) = Members(r)
    BY <1>0 DEF AfterUpdatePresence, Touch, IsRoom, Members
  <1>2. \A m \in Members(r) \ {s} : q.participants[m] = r.participants[m]
    BY <1>0 DEF AfterUpdatePresence, Touch, IsRoom, Members
  <1>3. q.participants[s].status = status
    BY <1>0, MemberOK DEF AfterUpdatePresence, Touch, IsRoom, Members, Participant
  <1> HIDE DEF q
  <1>4. Present(q) = Present(r) \cup {s}
    BY <1>0, <1>1, <1>2, <1>3 DEF Present
  <1> QED BY <1>4 DEF q

\* For whoever it is called, in the room or not.
LEMMA DisconnectPresent ==
  ASSUME NEW r, IsRoom(r), NEW s
  PROVE  Present(AfterDisconnect(r, s)) = Present(r) \ {s}
PROOF
  <1>1. CASE s \notin Members(r)
    BY <1>1 DEF AfterDisconnect, Present
  <1>2. CASE s \in Members(r)
    <2> DEFINE q == AfterDisconnect(r, s)
    <2>1. Members(q) = Members(r)
      BY <1>2 DEF AfterDisconnect, IsRoom, Members
    <2>2. \A m \in Members(r) \ {s} : q.participants[m] = r.participants[m]
      BY <1>2 DEF AfterDisconnect, IsRoom, Members
    <2>3. q.participants[s].status = "disconnected"
      BY <1>2, MemberOK DEF AfterDisconnect, IsRoom, Members, Participant
    <2> HIDE DEF q
    <2>4. Present(q) = Present(r) \ {s}
      BY <1>2, <2>1, <2>2, <2>3 DEF Present
    <2> QED BY <2>4 DEF q
  <1> QED BY <1>1, <1>2

LEMMA CastVotePresent ==
  ASSUME NEW r, IsRoom(r), NEW s \in Members(r), NEW value, NEW t
  PROVE  Present(AfterCastVote(r, s, value, t)) = Present(r)
PROOF
  <1> DEFINE q == AfterCastVote(r, s, value, t)
  <1>1. /\ Members(q) = Members(r)
        /\ \A m \in Members(r) \ {s} : q.participants[m] = r.participants[m]
    BY CastVoteEffect
  <1>2. q.participants[s].status = r.participants[s].status
    BY MemberOK DEF AfterCastVote, Touch, IsRoom, Members, Participant
  <1> HIDE DEF q
  <1>3. Present(q) = Present(r)
    BY <1>1, <1>2 DEF Present
  <1> QED BY <1>3 DEF q

LEMMA UpdateRolePresent ==
  ASSUME NEW r, IsRoom(r), NEW s \in Members(r), NEW role, NEW t
  PROVE  Present(AfterUpdateRole(r, s, role, t)) = Present(r)
PROOF
  <1> DEFINE q == AfterUpdateRole(r, s, role, t)
  <1>1. /\ Members(q) = Members(r)
        /\ \A m \in Members(r) \ {s} : q.participants[m] = r.participants[m]
    BY UpdateRoleEffect
  <1>2. q.participants[s].status = r.participants[s].status
    BY MemberOK DEF AfterUpdateRole, Touch, IsRoom, Members, Participant
  <1> HIDE DEF q
  <1>3. Present(q) = Present(r)
    BY <1>1, <1>2 DEF Present
  <1> QED BY <1>3 DEF q

LEMMA NewRoundPresent ==
  ASSUME NEW r, IsRoom(r), NEW t
  PROVE  Present(AfterNewRound(r, t)) = Present(r)
PROOF
  <1> DEFINE q == AfterNewRound(r, t)
  <1>1. q.participants = WithoutVotes(r.participants)
    BY DEF AfterNewRound, Touch, IsRoom
  <1>2. Members(q) = Members(r)
    BY <1>1 DEF WithoutVotes, Members
  <1>3. \A m \in Members(r) :
          q.participants[m] = [r.participants[m] EXCEPT !.vote = ""]
    BY <1>1 DEF WithoutVotes, Members
  <1>4. \A m \in Members(r) :
          q.participants[m].status = r.participants[m].status
    <2> TAKE m \in Members(r)
    <2>1. r.participants[m] \in Participant
      BY MemberOK
    <2>2. q.participants[m] = [r.participants[m] EXCEPT !.vote = ""]
      BY <1>3
    <2> HIDE DEF q
    <2> QED BY <2>1, <2>2 DEF Participant
  <1> HIDE DEF q
  <1>5. Present(q) = Present(r)
    BY <1>2, <1>4 DEF Present
  <1> QED BY <1>5 DEF q

\* In a new room there is nobody.
LEMMA NewRoomPresent ==
  ASSUME NEW t
  PROVE  Present(NewRoom(t)) = {} /\ NewRoom(t).phase = "voting"
  BY DEF Present, NewRoom, Members

\* The operations on the phase and the timer leave everybody where they are.
LEMMA TimerPresent ==
  ASSUME NEW r, IsRoom(r), NEW t
  PROVE  /\ Present(AfterReveal(r, t)) = Present(r)
         /\ \A d : Present(AfterSetTimerDuration(r, d, t)) = Present(r)
         /\ Present(AfterStartTimer(r, t)) = Present(r)
         /\ Present(AfterResetTimer(r, t)) = Present(r)
         /\ Present(AfterTimerInfo(r, t)) = Present(r)
PROOF
  <1>1. ASSUME NEW q, q.participants = r.participants
        PROVE  Present(q) = Present(r)
    BY <1>1 DEF Present, Members
  <1>2. AfterReveal(r, t).participants = r.participants
    BY RevealEffect
  <1>3. \A d : AfterSetTimerDuration(r, d, t).participants = r.participants
    BY SetTimerDurationEffect
  <1>4. AfterStartTimer(r, t).participants = r.participants
    BY StartTimerEffect
  <1>5. AfterResetTimer(r, t).participants = r.participants
    BY ResetTimerEffect
  <1>6. AfterTimerInfo(r, t).participants = r.participants
    BY DEF AfterTimerInfo, IsRoom
  <1> QED BY <1>1, <1>2, <1>3, <1>4, <1>5, <1>6
=============================================================================

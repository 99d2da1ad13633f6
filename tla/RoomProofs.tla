----------------------------- MODULE RoomProofs -----------------------------
(***************************************************************************)
(* Theorems about Room, for every set of sessions, every capacity, every   *)
(* bound of the timer and whatever the calls pass.                         *)
(***************************************************************************)
EXTENDS Room, RoomOpsProofs, FiniteSetTheorems, TLAPS

(***************************************************************************)
(* The type invariant.                                                     *)
(***************************************************************************)

\* Every reachable room is well formed, whatever names, roles, cards, statuses
\* and durations the clients send: the validation in the methods of room.go is
\* enough.
THEOREM TypeCorrect == Spec => []TypeOK
PROOF
  <1>1. Init => TypeOK
    <2> SUFFICES ASSUME Init PROVE TypeOK
      OBVIOUS
    <2>1. IsRoom(NewRoom(1))
      BY NewRoomOK
    <2> QED BY <2>1 DEF Init, TypeOK
  <1>2. TypeOK /\ [Next]_vars => TypeOK'
    <2> SUFFICES ASSUME TypeOK, [Next]_vars PROVE TypeOK'
      OBVIOUS
    <2> USE DEF TypeOK
    <2>1. ASSUME NEW s \in Session, NEW raw \in RawName, NEW role \in RoleInput,
                 Join(s, raw, role)
          PROVE  TypeOK'
      BY <2>1, JoinOK DEF Join
    <2>2. ASSUME NEW s \in Session, Leave(s) PROVE TypeOK'
      BY <2>2, LeaveOK DEF Leave
    <2>3. ASSUME NEW s \in Session, NEW role \in RoleInput, UpdateRole(s, role)
          PROVE  TypeOK'
      BY <2>3, UpdateRoleOK DEF UpdateRole
    <2>4. ASSUME NEW s \in Session, NEW value \in VoteInput, CastVote(s, value)
          PROVE  TypeOK'
      BY <2>4, CastVoteOK DEF CastVote
    <2>5. CASE Reveal
      BY <2>5, TimerOK DEF Reveal
    <2>6. CASE NewRound
      BY <2>6, NewRoundOK DEF NewRound
    <2>7. CASE ClearRoom
      BY <2>7, NewRoomOK DEF ClearRoom, AfterClearRoom
    <2>8. ASSUME NEW s \in Session, NEW raw \in RawName, UpdateName(s, raw)
          PROVE  TypeOK'
      BY <2>8, UpdateNameOK DEF UpdateName
    <2>9. ASSUME NEW s \in Session, NEW status \in StatusInput,
                 UpdatePresence(s, status)
          PROVE  TypeOK'
      BY <2>9, UpdatePresenceOK DEF UpdatePresence
    <2>10. ASSUME NEW s \in Session, Disconnect(s) PROVE TypeOK'
      BY <2>10, DisconnectOK DEF Disconnect
    <2>11. ASSUME NEW d \in DurationInput, SetTimerDuration(d) PROVE TypeOK'
      BY <2>11, TimerOK DEF SetTimerDuration
    <2>12. CASE StartTimer
      BY <2>12, TimerOK DEF StartTimer
    <2>13. CASE ResetTimer
      BY <2>13, TimerOK DEF ResetTimer
    <2>14. CASE ReadTimer
      BY <2>14, TimerOK DEF ReadTimer
    <2>15. CASE Tick
      <3>1. now' \in Nat \ {0}
        BY <2>15 DEF Tick
      <3>2. room' = room
        BY <2>15 DEF Tick
      <3>3. IsRoom(room)'
        BY <3>2 DEF IsRoom, Members
      <3> QED BY <3>1, <3>3
    <2>16. CASE UNCHANGED vars
      BY <2>16 DEF vars
    <2> QED BY <2>1, <2>2, <2>3, <2>4, <2>5, <2>6, <2>7, <2>8, <2>9, <2>10,
               <2>11, <2>12, <2>13, <2>14, <2>15, <2>16 DEF Next
  <1> QED BY <1>1, <1>2, PTL DEF Spec

(***************************************************************************)
(* Observers.                                                              *)
(***************************************************************************)

\* An observer never holds a card, for any number of sessions and any order of
\* casts, role switches, rejoins and rounds.  With TypeOK the property is
\* inductive: a cast asks for a voter, and both ways to become an observer
\* take the card away.
THEOREM ObserversHoldNoCard == Spec => []ObserverHasNoVote
PROOF
  <1>1. Init => ObserverHasNoVote
    <2> SUFFICES ASSUME Init PROVE ObserverHasNoVote
      OBVIOUS
    <2>1. room.participants = [s \in {} |-> {}]
      BY DEF Init, NewRoom
    <2> QED BY <2>1 DEF Members, ObserverHasNoVote
  <1>2. TypeOK /\ ObserverHasNoVote /\ [Next]_vars => ObserverHasNoVote'
    <2> SUFFICES ASSUME TypeOK, ObserverHasNoVote, [Next]_vars
                 PROVE  ObserverHasNoVote'
      OBVIOUS
    <2>0. IsRoom(room)
      BY DEF TypeOK
    <2>1. ASSUME NEW s \in Session, NEW raw \in RawName, NEW role \in RoleInput,
                 Join(s, raw, role)
          PROVE  ObserverHasNoVote'
      <3>1. room' = AfterJoin(room, s, raw, role, now)
        BY <2>1 DEF Join
      <3>2. Members(room') = Members(room) \cup {s}
        BY <2>0, <3>1, JoinEffect
      <3>3. \A m \in Members(room) \ {s} :
              room'.participants[m] = room.participants[m]
        BY <2>0, <3>1, JoinEffect
      <3>4. room'.participants[s].role = JoinRole(role)
        BY <2>0, <3>1, JoinEffect
      <3>5. room'.participants[s].vote = CardKept(JoinRole(role), VoteOf(room, s))
        BY <2>0, <3>1, JoinEffect
      <3> QED BY <3>2, <3>3, <3>4, <3>5 DEF ObserverHasNoVote, CardKept
    <2>2. ASSUME NEW s \in Session, Leave(s) PROVE ObserverHasNoVote'
      <3>1. room' = AfterLeave(room, s, now)
        BY <2>2 DEF Leave
      <3>2. Members(room') = Members(room) \ {s}
        BY <2>0, <3>1, LeaveEffect
      <3>3. \A m \in Members(room') : room'.participants[m] = room.participants[m]
        BY <2>0, <3>1, LeaveEffect
      <3> QED BY <3>2, <3>3 DEF ObserverHasNoVote
    <2>3. ASSUME NEW s \in Session, NEW role \in RoleInput, UpdateRole(s, role)
          PROVE  ObserverHasNoVote'
      <3>1. room' = AfterUpdateRole(room, s, role, now) /\ s \in Members(room)
        BY <2>3 DEF UpdateRole, CanUpdateRole
      <3>2. Members(room') = Members(room)
        BY <2>0, <3>1, UpdateRoleEffect
      <3>3. \A m \in Members(room) \ {s} :
              room'.participants[m] = room.participants[m]
        BY <2>0, <3>1, UpdateRoleEffect
      <3>4. room'.participants[s].role = role
        BY <2>0, <3>1, UpdateRoleEffect
      <3>5. room'.participants[s].vote = CardKept(role, room.participants[s].vote)
        BY <2>0, <3>1, UpdateRoleEffect
      <3> QED BY <3>2, <3>3, <3>4, <3>5 DEF ObserverHasNoVote, CardKept
    <2>4. ASSUME NEW s \in Session, NEW value \in VoteInput, CastVote(s, value)
          PROVE  ObserverHasNoVote'
      <3>1. room' = AfterCastVote(room, s, value, now) /\ s \in Members(room)
            /\ room.participants[s].role # "observer"
        BY <2>4 DEF CastVote, CanCastVote
      <3>2. /\ Members(room') = Members(room)
            /\ room'.participants[s].role # "observer"
            /\ \A m \in Members(room) \ {s} :
                 room'.participants[m] = room.participants[m]
        BY <2>0, <3>1, CastVoteEffect
      <3> QED BY <3>2 DEF ObserverHasNoVote
    <2>5. CASE NewRound
      <3>1. room' = AfterNewRound(room, now)
        BY <2>5 DEF NewRound
      <3>2. /\ Members(room') = Members(room)
            /\ \A m \in Members(room) :
                 room'.participants[m].vote = ""
        BY <2>0, <3>1, NewRoundEffect
      <3> QED BY <3>2 DEF ObserverHasNoVote
    <2>6. CASE ClearRoom
      <3>1. Members(room') = {}
        BY <2>6, ClearRoomEffect DEF ClearRoom
      <3> QED BY <3>1 DEF ObserverHasNoVote
    <2>7. ASSUME Members(room') = Members(room),
                 \A m \in Members(room) :
                   /\ room'.participants[m].vote = room.participants[m].vote
                   /\ room'.participants[m].role = room.participants[m].role
          PROVE  ObserverHasNoVote'
      BY <2>7 DEF ObserverHasNoVote
    <2>8. ASSUME room'.participants = room.participants PROVE ObserverHasNoVote'
      BY <2>7, <2>8 DEF Members
    <2>9. CASE Reveal
      BY <2>0, <2>8, <2>9, RevealEffect DEF Reveal
    <2>10. ASSUME NEW d \in DurationInput, SetTimerDuration(d)
           PROVE  ObserverHasNoVote'
      <3>1. room' = AfterSetTimerDuration(room, d, now)
        BY <2>10 DEF SetTimerDuration
      <3>2. room'.participants = room.participants
        BY <2>0, <3>1, SetTimerDurationEffect
      <3> QED BY <2>8, <3>2
    <2>11. CASE StartTimer
      BY <2>0, <2>8, <2>11, StartTimerEffect DEF StartTimer
    <2>12. CASE ResetTimer
      BY <2>0, <2>8, <2>12, ResetTimerEffect DEF ResetTimer
    <2>13. CASE ReadTimer
      BY <2>0, <2>8, <2>13, TimerInfoEffect DEF ReadTimer
    <2>14. CASE Tick
      BY <2>8, <2>14 DEF Tick
    <2>18. CASE UNCHANGED vars
      BY <2>8, <2>18 DEF vars
    <2>15. ASSUME NEW s \in Session, NEW raw \in RawName, UpdateName(s, raw)
           PROVE  ObserverHasNoVote'
      <3>1. room' = AfterUpdateName(room, s, raw, now)
        BY <2>15 DEF UpdateName
      <3>2. s \in Members(room)
        BY <2>15 DEF UpdateName, CanUpdateName
      <3> QED BY <2>0, <2>7, <3>1, <3>2, UpdateNameEffect
    <2>16. ASSUME NEW s \in Session, NEW status \in StatusInput,
                  UpdatePresence(s, status)
           PROVE  ObserverHasNoVote'
      <3>1. room' = AfterUpdatePresence(room, s, status, now)
        BY <2>16 DEF UpdatePresence
      <3>2. s \in Members(room)
        BY <2>16 DEF UpdatePresence, CanUpdatePresence
      <3> QED BY <2>0, <2>7, <3>1, <3>2, UpdatePresenceEffect
    <2>17. ASSUME NEW s \in Session, Disconnect(s) PROVE ObserverHasNoVote'
      BY <2>0, <2>7, <2>17, DisconnectEffect DEF Disconnect
    <2> QED BY <2>1, <2>2, <2>3, <2>4, <2>5, <2>6, <2>9, <2>10, <2>11,
               <2>12, <2>13, <2>14, <2>15, <2>16, <2>17, <2>18 DEF Next
  <1> QED BY <1>1, <1>2, TypeCorrect, PTL DEF Spec

(***************************************************************************)
(* The round: Room implements VotingRound, and cards do not change while   *)
(* they are revealed.                                                      *)
(***************************************************************************)
LEMMA BallotNext ==
  Ballot' = [m \in Session |-> VoteOf(room', m)]
  BY DEF Ballot, VoteOf, Members

\* A step that leaves the phase alone and only takes cards off the table.
LEMMA WithdrawStep ==
  ASSUME room'.phase = room.phase,
         \A m \in Session : VoteOf(room', m) = VoteOf(room, m) \/ VoteOf(room', m) = ""
  PROVE  Round!Next
PROOF
  <1> DEFINE S == {m \in Session : VoteOf(room', m) = ""}
  <1>1. Ballot' = [m \in Session |-> IF m \in S THEN "" ELSE Ballot[m]]
    BY BallotNext DEF Ballot
  <1>2. Round!Withdraw(S)
    BY <1>1 DEF Round!Withdraw
  <1> QED BY <1>2 DEF Round!Next

LEMMA RoundStep == TypeOK /\ [Next]_vars => [Round!Next]_(Round!vars)
PROOF
  <1> SUFFICES ASSUME TypeOK, [Next]_vars PROVE [Round!Next]_(Round!vars)
    OBVIOUS
  <1>0. IsRoom(room)
    BY DEF TypeOK
  <1>1. ASSUME NEW s \in Session, NEW raw \in RawName, NEW role \in RoleInput,
               Join(s, raw, role)
        PROVE  Round!Next
    <2>1. room' = AfterJoin(room, s, raw, role, now)
      BY <1>1 DEF Join
    <2>2. room'.phase = room.phase
      BY <1>0, <2>1, JoinEffect
    <2>3. Members(room') = Members(room) \cup {s}
      BY <1>0, <2>1, JoinEffect
    <2>4. room'.participants[s].vote = CardKept(JoinRole(role), VoteOf(room, s))
      BY <1>0, <2>1, JoinEffect
    <2>5. \A m \in Members(room) \ {s} : room'.participants[m] = room.participants[m]
      BY <1>0, <2>1, JoinEffect
    <2>6. VoteOf(room', s) = VoteOf(room, s) \/ VoteOf(room', s) = ""
      BY <2>3, <2>4 DEF VoteOf, CardKept
    <2>7. \A m \in Session \ {s} : VoteOf(room', m) = VoteOf(room, m)
      BY <2>3, <2>5 DEF VoteOf
    <2> QED BY <2>2, <2>6, <2>7, WithdrawStep
  <1>2. ASSUME NEW s \in Session, Leave(s) PROVE Round!Next
    <2>1. room' = AfterLeave(room, s, now)
      BY <1>2 DEF Leave
    <2>2. /\ room'.phase = room.phase
          /\ Members(room') = Members(room) \ {s}
          /\ \A m \in Members(room') : room'.participants[m] = room.participants[m]
      BY <1>0, <2>1, LeaveEffect
    <2>3. \A m \in Session : VoteOf(room', m) = VoteOf(room, m) \/ VoteOf(room', m) = ""
      BY <2>2 DEF VoteOf
    <2> QED BY <2>2, <2>3, WithdrawStep
  <1>3. ASSUME NEW s \in Session, NEW role \in RoleInput, UpdateRole(s, role)
        PROVE  Round!Next
    <2>1. room' = AfterUpdateRole(room, s, role, now)
      BY <1>3 DEF UpdateRole
    <2>2. s \in Members(room)
      BY <1>3 DEF UpdateRole, CanUpdateRole
    <2>3. /\ room'.phase = room.phase
          /\ Members(room') = Members(room)
          /\ \A m \in Members(room) \ {s} : room'.participants[m] = room.participants[m]
          /\ room'.participants[s].vote = CardKept(role, room.participants[s].vote)
      BY <1>0, <2>1, <2>2, UpdateRoleEffect
    <2>4. VoteOf(room', s) = VoteOf(room, s) \/ VoteOf(room', s) = ""
      BY <2>2, <2>3 DEF VoteOf, CardKept
    <2>5. \A m \in Session \ {s} : VoteOf(room', m) = VoteOf(room, m)
      BY <2>3 DEF VoteOf
    <2> QED BY <2>3, <2>4, <2>5, WithdrawStep
  <1>4. ASSUME NEW s \in Session, NEW value \in VoteInput, CastVote(s, value)
        PROVE  Round!Next
    <2>1. room' = AfterCastVote(room, s, value, now)
      BY <1>4 DEF CastVote
    <2>2. s \in Members(room) /\ room.phase = "voting" /\ value \in ValidVotes
      BY <1>4 DEF CastVote, CanCastVote
    <2>3. /\ room'.phase = room.phase
          /\ Members(room') = Members(room)
          /\ \A m \in Members(room) \ {s} : room'.participants[m] = room.participants[m]
          /\ room'.participants[s].vote = value
      BY <1>0, <2>1, <2>2, CastVoteEffect
    <2>4. \A m \in Session \ {s} : VoteOf(room', m) = VoteOf(room, m)
      BY <2>3 DEF VoteOf
    <2>5. VoteOf(room', s) = value
      BY <2>2, <2>3 DEF VoteOf
    <2>6. CASE value = ""
      BY <2>3, <2>4, <2>5, <2>6, WithdrawStep
    <2>7. CASE value # ""
      <3>1. Ballot' = [Ballot EXCEPT ![s] = value]
        BY <2>4, <2>5, BallotNext DEF Ballot
      <3>2. Round!Lay(s, value)
        BY <2>2, <2>3, <3>1 DEF Round!Lay
      <3> QED BY <2>2, <2>7, <3>2 DEF Round!Next
    <2> QED BY <2>6, <2>7
  <1>5. ASSUME Reveal PROVE Round!Next
    <2>1. room' = AfterReveal(room, now) /\ room.phase = "voting"
      BY <1>0, <1>5 DEF Reveal, CanReveal, IsRoom, Phases
    <2>2. room'.phase = "reveal" /\ room'.participants = room.participants
      BY <1>0, <2>1, RevealEffect
    <2>3. Ballot' = Ballot
      BY <2>2, BallotNext DEF Ballot, VoteOf, Members
    <2>4. Round!Reveal
      BY <2>1, <2>2, <2>3 DEF Round!Reveal
    <2> QED BY <2>4 DEF Round!Next
  <1>6. ASSUME room'.phase = "voting",
               \A m \in Session : VoteOf(room', m) = ""
        PROVE  Round!Next
    <2>1. CASE room.phase = "voting"
      BY <1>6, <2>1, WithdrawStep
    <2>2. CASE room.phase = "reveal"
      <3>1. Ballot' = Round!Empty
        BY <1>6, BallotNext DEF Round!Empty
      <3>2. Round!NewRound
        BY <1>6, <2>2, <3>1 DEF Round!NewRound
      <3> QED BY <3>2 DEF Round!Next
    <2> QED BY <1>0, <2>1, <2>2 DEF IsRoom, Phases
  <1>7. ASSUME NewRound PROVE Round!Next
    <2>1. room' = AfterNewRound(room, now)
      BY <1>7 DEF NewRound
    <2>2. /\ room'.phase = "voting"
          /\ Members(room') = Members(room)
          /\ \A m \in Members(room) : room'.participants[m].vote = ""
      BY <1>0, <2>1, NewRoundEffect
    <2>3. \A m \in Session : VoteOf(room', m) = ""
      BY <2>2 DEF VoteOf
    <2> QED BY <1>6, <2>2, <2>3
  <1>8. ASSUME ClearRoom PROVE Round!Next
    <2>1. room'.phase = "voting" /\ Members(room') = {}
      BY <1>8, ClearRoomEffect DEF ClearRoom
    <2>2. \A m \in Session : VoteOf(room', m) = ""
      BY <2>1 DEF VoteOf
    <2> QED BY <1>6, <2>1, <2>2
  <1>9. ASSUME room'.phase = room.phase, Members(room') = Members(room),
               \A m \in Members(room) :
                 room'.participants[m].vote = room.participants[m].vote
        PROVE  Round!Next
    <2>1. \A m \in Session : VoteOf(room', m) = VoteOf(room, m)
      BY <1>9 DEF VoteOf
    <2> QED BY <1>9, <2>1, WithdrawStep
  <1>10. ASSUME NEW s \in Session, NEW raw \in RawName, UpdateName(s, raw)
         PROVE  Round!Next
    <2>1. room' = AfterUpdateName(room, s, raw, now)
      BY <1>10 DEF UpdateName
    <2>2. s \in Members(room)
      BY <1>10 DEF UpdateName, CanUpdateName
    <2> QED BY <1>0, <1>9, <2>1, <2>2, UpdateNameEffect
  <1>11. ASSUME NEW s \in Session, NEW status \in StatusInput,
                UpdatePresence(s, status)
         PROVE  Round!Next
    <2>1. room' = AfterUpdatePresence(room, s, status, now)
      BY <1>11 DEF UpdatePresence
    <2>2. s \in Members(room)
      BY <1>11 DEF UpdatePresence, CanUpdatePresence
    <2> QED BY <1>0, <1>9, <2>1, <2>2, UpdatePresenceEffect
  <1>12. ASSUME NEW s \in Session, Disconnect(s) PROVE Round!Next
    BY <1>0, <1>9, <1>12, DisconnectEffect DEF Disconnect
  <1>13. ASSUME room'.phase = room.phase, room'.participants = room.participants
         PROVE  Round!Next
    BY <1>9, <1>13 DEF Members
  <1>14. ASSUME NEW d \in DurationInput, SetTimerDuration(d) PROVE Round!Next
    <2>1. room' = AfterSetTimerDuration(room, d, now)
      BY <1>14 DEF SetTimerDuration
    <2> QED BY <1>0, <1>13, <2>1, SetTimerDurationEffect
  <1>15. ASSUME StartTimer PROVE Round!Next
    <2>1. room' = AfterStartTimer(room, now)
      BY <1>15 DEF StartTimer
    <2>2. room'.phase = room.phase
      BY <1>0, <2>1, StartTimerEffect
    <2>3. room'.participants = room.participants
      BY <1>0, <2>1, StartTimerEffect
    <2> QED BY <1>13, <2>2, <2>3
  <1>16. ASSUME ResetTimer PROVE Round!Next
    BY <1>0, <1>13, <1>16, ResetTimerEffect DEF ResetTimer
  <1>17. ASSUME ReadTimer PROVE Round!Next
    <2>1. room' = AfterTimerInfo(room, now) /\ TimeIsUp(room, now)
      BY <1>17 DEF ReadTimer
    <2>2. room'.phase = room.phase
      BY <1>0, <2>1, TimerInfoEffect
    <2>3. room'.participants = room.participants
      BY <1>0, <2>1, TimerInfoEffect
    <2> QED BY <1>13, <2>2, <2>3
  <1>18. ASSUME Tick PROVE Round!Next
    BY <1>13, <1>18 DEF Tick
  <1>19. ASSUME UNCHANGED vars PROVE Round!Next
    BY <1>13, <1>19 DEF vars
  <1> QED BY <1>1, <1>2, <1>3, <1>4, <1>5, <1>7, <1>8, <1>10, <1>11, <1>12,
             <1>14, <1>15, <1>16, <1>17, <1>18, <1>19 DEF Next

\* The room implements the abstract voting round, for any set of sessions: the
\* phase and the cards of the members, with no card for everybody else, move
\* only as VotingRound allows.
THEOREM RoomImplementsVotingRound == Spec => ImplementsVotingRound
PROOF
  <1>1. Init => Round!Init
    <2> SUFFICES ASSUME Init PROVE Round!Init
      OBVIOUS
    <2>1. room.phase = "voting" /\ Members(room) = {}
      BY DEF Init, NewRoom, Members
    <2>2. Ballot = Round!Empty
      BY <2>1 DEF Ballot, VoteOf, Round!Empty
    <2> QED BY <2>1, <2>2 DEF Round!Init
  <1> QED BY <1>1, RoundStep, TypeCorrect, PTL
          DEF Spec, ImplementsVotingRound, Round!Spec

\* Cards everybody has seen never change: between a reveal and the next round
\* they can only leave the table.  It follows from the abstract round.
THEOREM RevealedCardsAreFrozen == Spec => VotesFrozenInReveal
PROOF
  <1> DEFINE Frozen ==
        room.phase = "reveal" /\ room'.phase = "reveal" =>
          \A s \in Session : VoteOf(room', s) \in {VoteOf(room, s), ""}
  <1>1. TypeOK /\ [Next]_vars => Frozen
    <2> SUFFICES ASSUME TypeOK, [Next]_vars,
                        room.phase = "reveal", room'.phase = "reveal",
                        NEW s \in Session
                 PROVE  VoteOf(room', s) \in {VoteOf(room, s), ""}
      OBVIOUS
    <2>1. Ballot[s] = VoteOf(room, s) /\ Ballot'[s] = VoteOf(room', s)
      BY BallotNext DEF Ballot
    <2>2. ASSUME NEW S \in SUBSET Session, Round!Withdraw(S)
          PROVE  Ballot'[s] \in {Ballot[s], ""}
      BY <2>2 DEF Round!Withdraw
    <2>3. ASSUME Ballot' = Ballot PROVE Ballot'[s] \in {Ballot[s], ""}
      BY <2>3
    <2>4. [Round!Next]_(Round!vars)
      BY RoundStep
    <2>5. Ballot'[s] \in {Ballot[s], ""}
      BY <2>2, <2>3, <2>4
      DEF Round!Next, Round!vars, Round!Lay, Round!Reveal, Round!NewRound
    <2> QED BY <2>1, <2>5
  <1> QED BY <1>1, TypeCorrect, PTL DEF Spec, VotesFrozenInReveal

(***************************************************************************)
(* The timer.                                                              *)
(***************************************************************************)

\* The timer's state, its start and the clock agree in every reachable room,
\* for any range of durations: in particular "expired" is never told early.
\* SetTimerDuration asking for an idle timer is what makes it inductive.
THEOREM TimerTellsTheTime == Spec => []TimerConsistent
PROOF
  <1>1. Init => TimerConsistent
    BY DEF Init, NewRoom, IdleTimer, TimerConsistent, ZeroTime
  <1>2. TypeOK /\ TimerConsistent /\ [Next]_vars => TimerConsistent'
    <2> SUFFICES ASSUME TypeOK, TimerConsistent, [Next]_vars
                 PROVE  TimerConsistent'
      OBVIOUS
    <2>0. IsRoom(room) /\ now \in Nat \ {0}
      BY DEF TypeOK
    <2>1. room.timer.duration \in Int /\ room.timer.startedAt \in Nat
      BY <2>0 DEF IsRoom, Timer, Durations
    <2>2. ASSUME room'.timer = room.timer, now' = now PROVE TimerConsistent'
      BY <2>2 DEF TimerConsistent
    <2>3. ASSUME NEW d, room'.timer = IdleTimer(d), now' = now
          PROVE  TimerConsistent'
      BY <2>0, <2>3 DEF TimerConsistent, IdleTimer, ZeroTime
    <2>4. ASSUME NewRound PROVE TimerConsistent'
      <3>1. room' = AfterNewRound(room, now) /\ now' = now
        BY <2>4 DEF NewRound
      <3>2. room'.timer = IdleTimer(room.timer.duration)
        BY <2>0, <3>1, NewRoundEffect
      <3> QED BY <2>3, <3>1, <3>2
    <2>5. ASSUME ClearRoom PROVE TimerConsistent'
      <3>1. room' = AfterClearRoom(room, now) /\ now' = now
        BY <2>5 DEF ClearRoom
      <3>2. room'.timer = IdleTimer(DefaultTimerDuration)
        BY <3>1, ClearRoomEffect
      <3> QED BY <2>3, <3>1, <3>2
    <2>6. ASSUME ResetTimer PROVE TimerConsistent'
      <3>1. room' = AfterResetTimer(room, now) /\ now' = now
        BY <2>6 DEF ResetTimer
      <3>2. room'.timer = IdleTimer(room.timer.duration)
        BY <2>0, <3>1, ResetTimerEffect
      <3> QED BY <2>3, <3>1, <3>2
    <2>7. ASSUME NEW d \in DurationInput, SetTimerDuration(d)
          PROVE  TimerConsistent'
      <3>1. room' = AfterSetTimerDuration(room, d, now) /\ now' = now
        BY <2>7 DEF SetTimerDuration
      <3>2. room.timer.state = "idle"
        BY <2>7 DEF SetTimerDuration, CanSetTimerDuration
      <3>3. room'.timer.state = room.timer.state
        BY <2>0, <3>1, SetTimerDurationEffect
      <3>4. room'.timer.startedAt = room.timer.startedAt
        BY <2>0, <3>1, SetTimerDurationEffect
      <3> QED BY <3>1, <3>2, <3>3, <3>4 DEF TimerConsistent
    <2>8. ASSUME StartTimer PROVE TimerConsistent'
      <3>1. room' = AfterStartTimer(room, now) /\ now' = now
        BY <2>8 DEF StartTimer
      <3>2. room'.timer.state = "running"
        BY <2>0, <3>1, StartTimerEffect
      <3>3. room'.timer.startedAt = now
        BY <2>0, <3>1, StartTimerEffect
      <3> QED BY <2>0, <3>1, <3>2, <3>3 DEF TimerConsistent, ZeroTime
    <2>9. ASSUME ReadTimer PROVE TimerConsistent'
      <3>1. room' = AfterTimerInfo(room, now) /\ TimeIsUp(room, now) /\ now' = now
        BY <2>9 DEF ReadTimer
      <3>2. /\ room'.timer.state = "expired"
            /\ room'.timer.startedAt = room.timer.startedAt
            /\ room'.timer.duration = room.timer.duration
        BY <2>0, <3>1, TimerInfoEffect
      <3> QED BY <2>0, <3>1, <3>2 DEF TimerConsistent, TimeIsUp
    <2>10. ASSUME Tick PROVE TimerConsistent'
      <3>1. room' = room /\ now' = now + 1
        BY <2>10 DEF Tick
      <3> QED BY <2>0, <2>1, <3>1 DEF TimerConsistent
    <2>11. ASSUME UNCHANGED vars PROVE TimerConsistent'
      BY <2>2, <2>11 DEF vars
    <2>12. ASSUME NEW s \in Session, NEW raw \in RawName, NEW role \in RoleInput,
                  Join(s, raw, role)
           PROVE  TimerConsistent'
      <3>1. room' = AfterJoin(room, s, raw, role, now) /\ now' = now
        BY <2>12 DEF Join
      <3>2. room'.timer = room.timer
        BY <2>0, <3>1, JoinEffect
      <3> QED BY <2>2, <3>1, <3>2
    <2>13. ASSUME NEW s \in Session, Leave(s) PROVE TimerConsistent'
      <3>1. room' = AfterLeave(room, s, now) /\ now' = now
        BY <2>13 DEF Leave
      <3>2. room'.timer = room.timer
        BY <2>0, <3>1, LeaveEffect
      <3> QED BY <2>2, <3>1, <3>2
    <2>14. ASSUME NEW s \in Session, NEW role \in RoleInput, UpdateRole(s, role)
           PROVE  TimerConsistent'
      <3>1. room' = AfterUpdateRole(room, s, role, now) /\ now' = now
        BY <2>14 DEF UpdateRole
      <3>2. s \in Members(room)
        BY <2>14 DEF UpdateRole, CanUpdateRole
      <3>3. room'.timer = room.timer
        BY <2>0, <3>1, <3>2, UpdateRoleEffect
      <3> QED BY <2>2, <3>1, <3>3
    <2>15. ASSUME NEW s \in Session, NEW value \in VoteInput, CastVote(s, value)
           PROVE  TimerConsistent'
      <3>1. room' = AfterCastVote(room, s, value, now) /\ now' = now
        BY <2>15 DEF CastVote
      <3>2. s \in Members(room)
        BY <2>15 DEF CastVote, CanCastVote
      <3>3. room'.timer = room.timer
        BY <2>0, <3>1, <3>2, CastVoteEffect
      <3> QED BY <2>2, <3>1, <3>3
    <2>16. ASSUME NEW s \in Session, NEW raw \in RawName, UpdateName(s, raw)
           PROVE  TimerConsistent'
      <3>1. room' = AfterUpdateName(room, s, raw, now) /\ now' = now
        BY <2>16 DEF UpdateName
      <3>2. s \in Members(room)
        BY <2>16 DEF UpdateName, CanUpdateName
      <3>3. room'.timer = room.timer
        BY <2>0, <3>1, <3>2, UpdateNameEffect
      <3> QED BY <2>2, <3>1, <3>3
    <2>17. ASSUME NEW s \in Session, NEW status \in StatusInput,
                  UpdatePresence(s, status)
           PROVE  TimerConsistent'
      <3>1. room' = AfterUpdatePresence(room, s, status, now) /\ now' = now
        BY <2>17 DEF UpdatePresence
      <3>2. s \in Members(room)
        BY <2>17 DEF UpdatePresence, CanUpdatePresence
      <3>3. room'.timer = room.timer
        BY <2>0, <3>1, <3>2, UpdatePresenceEffect
      <3> QED BY <2>2, <3>1, <3>3
    <2>18. ASSUME NEW s \in Session, Disconnect(s) PROVE TimerConsistent'
      <3>1. room' = AfterDisconnect(room, s) /\ s \in Members(room) /\ now' = now
        BY <2>18 DEF Disconnect
      <3>2. room'.timer = room.timer
        BY <2>0, <3>1, DisconnectEffect
      <3> QED BY <2>2, <3>1, <3>2
    <2>19. ASSUME Reveal PROVE TimerConsistent'
      <3>1. room' = AfterReveal(room, now) /\ now' = now
        BY <2>19 DEF Reveal
      <3>2. room'.timer = room.timer
        BY <2>0, <3>1, RevealEffect
      <3> QED BY <2>2, <3>1, <3>2
    <2> QED BY <2>4, <2>5, <2>6, <2>7, <2>8, <2>9, <2>10, <2>11, <2>12, <2>13,
               <2>14, <2>15, <2>16, <2>17, <2>18, <2>19 DEF Next
  <1> QED BY <1>1, <1>2, TypeCorrect, PTL DEF Spec

(***************************************************************************)
(* Capacity.                                                               *)
(***************************************************************************)

\* The strengthening that makes the capacity inductive: the participants are
\* finitely many, whatever the set of sessions.
CapacityInv == IsFiniteSet(Members(room)) /\ CapacityRespected

LEMMA CapacityType == MaxParticipants \in Nat \ {0}
  BY RoomAssumption

LEMMA SameMembers ==
  ASSUME CapacityInv, Members(room') = Members(room)
  PROVE  CapacityInv'
  BY DEF CapacityInv, CapacityRespected

\* The room never holds more than MaxParticipants, for any capacity and any
\* number of sessions: only Join adds a member, and only when the room is not
\* full or the session is there already.
THEOREM RoomNeverOverfull == Spec => []CapacityRespected
PROOF
  <1>1. Init => CapacityInv
    <2> SUFFICES ASSUME Init PROVE CapacityInv
      OBVIOUS
    <2>1. Members(room) = {}
      BY DEF Init, NewRoom, Members
    <2> QED BY <2>1, FS_EmptySet, CapacityType DEF CapacityInv, CapacityRespected
  <1>2. TypeOK /\ CapacityInv /\ [Next]_vars => CapacityInv'
    <2> SUFFICES ASSUME TypeOK, CapacityInv, [Next]_vars PROVE CapacityInv'
      OBVIOUS
    <2>0. IsRoom(room)
      BY DEF TypeOK
    <2>1. ASSUME NEW s \in Session, NEW raw \in RawName, NEW role \in RoleInput,
                 Join(s, raw, role)
          PROVE  CapacityInv'
      <3>1. room' = AfterJoin(room, s, raw, role, now)
        BY <2>1 DEF Join
      <3>2. Members(room') = Members(room) \cup {s}
        BY <2>0, <3>1, JoinEffect
      <3>3. s \in Members(room) \/ Cardinality(Members(room)) < MaxParticipants
        BY <2>1 DEF Join, CanJoin
      <3>4. CASE s \in Members(room)
        BY <3>2, <3>4, SameMembers
      <3>5. CASE s \notin Members(room)
        <4>1. IsFiniteSet(Members(room))
          BY DEF CapacityInv
        <4>2. /\ IsFiniteSet(Members(room'))
              /\ Cardinality(Members(room')) = Cardinality(Members(room)) + 1
          BY <3>2, <3>5, <4>1, FS_AddElement
        <4>3. Cardinality(Members(room)) \in Nat
          BY <4>1, FS_CardinalityType
        <4> QED BY <3>3, <3>5, <4>2, <4>3, CapacityType
                DEF CapacityInv, CapacityRespected
      <3> QED BY <3>4, <3>5
    <2>2. ASSUME NEW s \in Session, Leave(s) PROVE CapacityInv'
      <3>1. room' = AfterLeave(room, s, now) /\ s \in Members(room)
        BY <2>2 DEF Leave, CanLeave
      <3>2. Members(room') = Members(room) \ {s}
        BY <2>0, <3>1, LeaveEffect
      <3>3. IsFiniteSet(Members(room))
        BY DEF CapacityInv
      <3>4. /\ IsFiniteSet(Members(room'))
            /\ Cardinality(Members(room')) = Cardinality(Members(room)) - 1
        BY <3>1, <3>2, <3>3, FS_RemoveElement
      <3>5. Cardinality(Members(room)) \in Nat
        BY <3>3, FS_CardinalityType
      <3> QED BY <3>4, <3>5, CapacityType DEF CapacityInv, CapacityRespected
    <2>3. ASSUME ClearRoom PROVE CapacityInv'
      <3>1. Members(room') = {}
        BY <2>3, ClearRoomEffect DEF ClearRoom
      <3> QED BY <3>1, FS_EmptySet, CapacityType DEF CapacityInv, CapacityRespected
    <2>4. ASSUME NewRound PROVE CapacityInv'
      <3>1. room' = AfterNewRound(room, now)
        BY <2>4 DEF NewRound
      <3>2. Members(room') = Members(room)
        BY <2>0, <3>1, NewRoundEffect
      <3> QED BY <3>2, SameMembers
    <2>5. ASSUME NEW s \in Session, NEW role \in RoleInput, UpdateRole(s, role)
          PROVE  CapacityInv'
      <3>1. room' = AfterUpdateRole(room, s, role, now)
        BY <2>5 DEF UpdateRole
      <3>2. s \in Members(room)
        BY <2>5 DEF UpdateRole, CanUpdateRole
      <3>3. Members(room') = Members(room)
        BY <2>0, <3>1, <3>2, UpdateRoleEffect
      <3> QED BY <3>3, SameMembers
    <2>6. ASSUME NEW s \in Session, NEW value \in VoteInput, CastVote(s, value)
          PROVE  CapacityInv'
      <3>1. room' = AfterCastVote(room, s, value, now)
        BY <2>6 DEF CastVote
      <3>2. s \in Members(room)
        BY <2>6 DEF CastVote, CanCastVote
      <3>3. Members(room') = Members(room)
        BY <2>0, <3>1, <3>2, CastVoteEffect
      <3> QED BY <3>3, SameMembers
    <2>7. ASSUME NEW s \in Session, NEW raw \in RawName, UpdateName(s, raw)
          PROVE  CapacityInv'
      <3>1. room' = AfterUpdateName(room, s, raw, now)
        BY <2>7 DEF UpdateName
      <3>2. s \in Members(room)
        BY <2>7 DEF UpdateName, CanUpdateName
      <3>3. Members(room') = Members(room)
        BY <2>0, <3>1, <3>2, UpdateNameEffect
      <3> QED BY <3>3, SameMembers
    <2>8. ASSUME NEW s \in Session, NEW status \in StatusInput,
                 UpdatePresence(s, status)
          PROVE  CapacityInv'
      <3>1. room' = AfterUpdatePresence(room, s, status, now)
        BY <2>8 DEF UpdatePresence
      <3>2. s \in Members(room)
        BY <2>8 DEF UpdatePresence, CanUpdatePresence
      <3>3. Members(room') = Members(room)
        BY <2>0, <3>1, <3>2, UpdatePresenceEffect
      <3> QED BY <3>3, SameMembers
    <2>9. ASSUME NEW s \in Session, Disconnect(s) PROVE CapacityInv'
      <3>1. room' = AfterDisconnect(room, s) /\ s \in Members(room)
        BY <2>9 DEF Disconnect
      <3>2. Members(room') = Members(room)
        BY <2>0, <3>1, DisconnectEffect
      <3> QED BY <3>2, SameMembers
    <2>10. ASSUME room'.participants = room.participants PROVE CapacityInv'
      BY <2>10, SameMembers DEF Members
    <2>11. ASSUME Reveal PROVE CapacityInv'
      BY <2>0, <2>10, <2>11, RevealEffect DEF Reveal
    <2>12. ASSUME NEW d \in DurationInput, SetTimerDuration(d) PROVE CapacityInv'
      <3>1. room' = AfterSetTimerDuration(room, d, now)
        BY <2>12 DEF SetTimerDuration
      <3> QED BY <2>0, <2>10, <3>1, SetTimerDurationEffect
    <2>13. ASSUME StartTimer PROVE CapacityInv'
      <3>1. room' = AfterStartTimer(room, now)
        BY <2>13 DEF StartTimer
      <3> QED BY <2>0, <2>10, <3>1, StartTimerEffect
    <2>14. ASSUME ResetTimer PROVE CapacityInv'
      BY <2>0, <2>10, <2>14, ResetTimerEffect DEF ResetTimer
    <2>15. ASSUME ReadTimer PROVE CapacityInv'
      <3>1. room' = AfterTimerInfo(room, now) /\ TimeIsUp(room, now)
        BY <2>15 DEF ReadTimer
      <3> QED BY <2>0, <2>10, <3>1, TimerInfoEffect
    <2>16. ASSUME Tick PROVE CapacityInv'
      BY <2>10, <2>16 DEF Tick
    <2>17. ASSUME UNCHANGED vars PROVE CapacityInv'
      BY <2>10, <2>17 DEF vars
    <2> QED BY <2>1, <2>2, <2>3, <2>4, <2>5, <2>6, <2>7, <2>8, <2>9, <2>11,
               <2>12, <2>13, <2>14, <2>15, <2>16, <2>17 DEF Next
  <1>3. CapacityInv => CapacityRespected
    BY DEF CapacityInv
  <1> QED BY <1>1, <1>2, <1>3, TypeCorrect, PTL DEF Spec

(***************************************************************************)
(* What is told about the countdown, and its course.                       *)
(***************************************************************************)

\* Every duration is positive.
LEMMA DurationsPositive == \A d \in Durations : d \in Nat \ {0}
PROOF
  <1>1. MinTimerDuration \in Nat \ {0} /\ MaxTimerDuration \in Nat
    BY RoomAssumption
  <1> QED BY <1>1 DEF Durations

\* TimerInfo never tells a negative time, nor more than the duration, and
\* zero exactly when it tells expired; for any durations and however late it
\* is asked.  That a countdown does not start in the future is needed here,
\* and TimerConsistent has it.
THEOREM TheCountdownToldIsRight == Spec => []RemainingAgreesWithState
PROOF
  <1>1. TypeOK /\ TimerConsistent => RemainingAgreesWithState
    <2> SUFFICES ASSUME TypeOK, TimerConsistent
                 PROVE  RemainingAgreesWithState
      OBVIOUS
    <2> DEFINE t == room.timer
               u == AfterTimerInfo(room, now).timer
    <2>0. IsRoom(room) /\ now \in Nat
      BY DEF TypeOK
    <2>1. /\ t.duration \in Nat \ {0} /\ t.startedAt \in Nat
          /\ t.state \in TimerStates
      BY <2>0, DurationsPositive DEF IsRoom, Timer
    <2>2. t.startedAt <= now
      BY DEF TimerConsistent
    <2>3. CASE TimeIsUp(room, now)
      <3>1. u.state = "expired" /\ u.duration = t.duration
        BY <2>0, <2>3, TimerInfoEffect
      <3> HIDE DEF u
      <3> QED BY <2>1, <3>1 DEF RemainingAgreesWithState, TimerInfo, u
    <2>4. CASE ~TimeIsUp(room, now)
      <3>1. u = t
        BY <2>4 DEF AfterTimerInfo
      <3>2. TimerInfo(room, now) =
              [duration  |-> t.duration,
               state     |-> t.state,
               remaining |-> CASE t.state = "idle"    -> t.duration
                               [] t.state = "running" -> t.duration - (now - t.startedAt)
                               [] t.state = "expired" -> 0]
        BY <3>1 DEF TimerInfo
      <3>3. CASE t.state = "idle"
        BY <2>1, <3>2, <3>3 DEF RemainingAgreesWithState
      <3>4. CASE t.state = "running"
        BY <2>0, <2>1, <2>2, <2>4, <3>2, <3>4
        DEF RemainingAgreesWithState, TimeIsUp
      <3>5. CASE t.state = "expired"
        BY <2>1, <3>2, <3>5 DEF RemainingAgreesWithState
      <3> QED BY <2>1, <3>3, <3>4, <3>5 DEF TimerStates
    <2> QED BY <2>3, <2>4
  <1> QED BY <1>1, TypeCorrect, TimerTellsTheTime, PTL

\* What a step does to the timer: nothing, or it was idle, or it is idle
\* afterwards, or its expiry is noticed.
LEMMA TimerStep ==
  ASSUME TypeOK, [Next]_vars
  PROVE  \/ room'.timer = room.timer
         \/ room.timer.state = "idle"
         \/ room'.timer.state = "idle"
         \/ /\ room.timer.state = "running" /\ room'.timer.state = "expired"
            /\ room'.timer.startedAt = room.timer.startedAt
            /\ room'.timer.duration = room.timer.duration
PROOF
  <1> DEFINE Goal == \/ room'.timer = room.timer
                     \/ room.timer.state = "idle"
                     \/ room'.timer.state = "idle"
                     \/ /\ room.timer.state = "running"
                        /\ room'.timer.state = "expired"
                        /\ room'.timer.startedAt = room.timer.startedAt
                        /\ room'.timer.duration = room.timer.duration
  <1>0. IsRoom(room)
    BY DEF TypeOK
  <1>1. ASSUME NEW s \in Session, NEW raw \in RawName, NEW role \in RoleInput,
               Join(s, raw, role)
        PROVE  room'.timer = room.timer
    <2>1. room' = AfterJoin(room, s, raw, role, now)
      BY <1>1 DEF Join
    <2> QED BY <1>0, <2>1, JoinEffect
  <1>2. ASSUME NEW s \in Session, Leave(s) PROVE room'.timer = room.timer
    <2>1. room' = AfterLeave(room, s, now)
      BY <1>2 DEF Leave
    <2> QED BY <1>0, <2>1, LeaveEffect
  <1>3. ASSUME NEW s \in Session, NEW role \in RoleInput, UpdateRole(s, role)
        PROVE  room'.timer = room.timer
    <2>1. room' = AfterUpdateRole(room, s, role, now) /\ s \in Members(room)
      BY <1>3 DEF UpdateRole, CanUpdateRole
    <2> QED BY <1>0, <2>1, UpdateRoleEffect
  <1>4. ASSUME NEW s \in Session, NEW value \in VoteInput, CastVote(s, value)
        PROVE  room'.timer = room.timer
    <2>1. /\ room' = AfterCastVote(room, s, value, now) /\ s \in Members(room)
          /\ value \in ValidVotes
      BY <1>4 DEF CastVote, CanCastVote
    <2> QED BY <1>0, <2>1, CastVoteEffect
  <1>5. ASSUME Reveal PROVE room'.timer = room.timer
    <2>1. room' = AfterReveal(room, now)
      BY <1>5 DEF Reveal
    <2> QED BY <1>0, <2>1, RevealEffect
  <1>6. ASSUME NewRound PROVE room'.timer.state = "idle"
    <2>1. room' = AfterNewRound(room, now)
      BY <1>6 DEF NewRound
    <2>2. room'.timer = IdleTimer(room.timer.duration)
      BY <1>0, <2>1, NewRoundEffect
    <2> QED BY <2>2 DEF IdleTimer
  <1>7. ASSUME ClearRoom PROVE room'.timer.state = "idle"
    <2>1. room' = AfterClearRoom(room, now)
      BY <1>7 DEF ClearRoom
    <2>2. room'.timer = IdleTimer(DefaultTimerDuration)
      BY <2>1, ClearRoomEffect
    <2> QED BY <2>2 DEF IdleTimer
  <1>8. ASSUME NEW s \in Session, NEW raw \in RawName, UpdateName(s, raw)
        PROVE  room'.timer = room.timer
    <2>1. room' = AfterUpdateName(room, s, raw, now) /\ s \in Members(room)
      BY <1>8 DEF UpdateName, CanUpdateName
    <2> QED BY <1>0, <2>1, UpdateNameEffect
  <1>9. ASSUME NEW s \in Session, NEW status \in StatusInput,
               UpdatePresence(s, status)
        PROVE  room'.timer = room.timer
    <2>1. room' = AfterUpdatePresence(room, s, status, now) /\ s \in Members(room)
      BY <1>9 DEF UpdatePresence, CanUpdatePresence
    <2> QED BY <1>0, <2>1, UpdatePresenceEffect
  <1>10. ASSUME NEW s \in Session, Disconnect(s) PROVE room'.timer = room.timer
    BY <1>0, <1>10, DisconnectEffect DEF Disconnect
  <1>11. ASSUME NEW d \in DurationInput, SetTimerDuration(d)
         PROVE  room.timer.state = "idle"
    BY <1>11 DEF SetTimerDuration, CanSetTimerDuration
  <1>12. ASSUME StartTimer PROVE room.timer.state = "idle"
    BY <1>12 DEF StartTimer, CanStartTimer
  <1>13. ASSUME ResetTimer PROVE room'.timer.state = "idle"
    <2>1. room' = AfterResetTimer(room, now)
      BY <1>13 DEF ResetTimer
    <2>2. room'.timer = IdleTimer(room.timer.duration)
      BY <1>0, <2>1, ResetTimerEffect
    <2> QED BY <2>2 DEF IdleTimer
  <1>14. ASSUME ReadTimer PROVE Goal
    <2>1. room' = AfterTimerInfo(room, now) /\ TimeIsUp(room, now)
      BY <1>14 DEF ReadTimer
    <2>2. /\ room'.timer.state = "expired"
          /\ room'.timer.startedAt = room.timer.startedAt
          /\ room'.timer.duration = room.timer.duration
      BY <1>0, <2>1, TimerInfoEffect
    <2> QED BY <2>1, <2>2 DEF TimeIsUp
  <1>15. ASSUME Tick \/ UNCHANGED vars PROVE room'.timer = room.timer
    BY <1>15 DEF Tick, vars
  <1> QED BY <1>1, <1>2, <1>3, <1>4, <1>5, <1>6, <1>7, <1>8, <1>9, <1>10,
             <1>11, <1>12, <1>13, <1>14, <1>15 DEF Next

\* A countdown that was started keeps its start and its duration, and an
\* expired one stays expired, until it is reset.
THEOREM CountdownsRunTheirCourse == Spec => CountdownUninterrupted
PROOF
  <1>1. TypeOK /\ [Next]_vars =>
          (room.timer.state # "idle" /\ room'.timer.state # "idle" =>
             /\ room'.timer.startedAt = room.timer.startedAt
             /\ room'.timer.duration = room.timer.duration
             /\ room.timer.state = "expired" => room'.timer.state = "expired")
    BY TimerStep
  <1> QED BY <1>1, TypeCorrect, PTL DEF Spec, CountdownUninterrupted

(***************************************************************************)
(* The stamp of activity.                                                  *)
(***************************************************************************)

\* Touch stamps whatever was done to the room before.
LEMMA Touched ==
  ASSUME NEW r, "lastActivity" \in DOMAIN r, NEW t
  PROVE  Touch(r, t).lastActivity = t
  BY DEF Touch

\* Whatever the participants do is stamped with its time, so that the
\* collector can trust lastActivity: all methods end in TouchActivity, and
\* only the clean-up of a connection and TimerInfo write without it.
THEOREM ActivitiesAreStamped == Spec => ActivityIsStamped
PROOF
  <1>1. TypeOK /\ [Next]_vars =>
          (room' # room =>
             \/ room'.lastActivity = now
             \/ \E s \in Session : room' = AfterDisconnect(room, s)
             \/ room' = AfterTimerInfo(room, now))
    <2> SUFFICES ASSUME TypeOK, [Next]_vars, room' # room,
                        ~ \E s \in Session : room' = AfterDisconnect(room, s),
                        room' # AfterTimerInfo(room, now)
                 PROVE  room'.lastActivity = now
      OBVIOUS
    <2>0. "lastActivity" \in DOMAIN room
      BY DEF TypeOK, IsRoom
    <2>1. ASSUME NEW s \in Session, NEW raw \in RawName, NEW role \in RoleInput,
                 Join(s, raw, role)
          PROVE  room'.lastActivity = now
      BY <2>0, <2>1, Touched DEF Join, AfterJoin
    <2>2. ASSUME NEW s \in Session, Leave(s) PROVE room'.lastActivity = now
      BY <2>0, <2>2, Touched DEF Leave, AfterLeave
    <2>3. ASSUME NEW s \in Session, NEW role \in RoleInput, UpdateRole(s, role)
          PROVE  room'.lastActivity = now
      BY <2>0, <2>3, Touched DEF UpdateRole, AfterUpdateRole
    <2>4. ASSUME NEW s \in Session, NEW value \in VoteInput, CastVote(s, value)
          PROVE  room'.lastActivity = now
      BY <2>0, <2>4, Touched DEF CastVote, AfterCastVote
    <2>5. ASSUME Reveal PROVE room'.lastActivity = now
      BY <2>0, <2>5, Touched DEF Reveal, AfterReveal
    <2>6. ASSUME NewRound PROVE room'.lastActivity = now
      BY <2>0, <2>6, Touched DEF NewRound, AfterNewRound
    <2>7. ASSUME ClearRoom PROVE room'.lastActivity = now
      BY <2>7 DEF ClearRoom, AfterClearRoom, NewRoom
    <2>8. ASSUME NEW s \in Session, NEW raw \in RawName, UpdateName(s, raw)
          PROVE  room'.lastActivity = now
      BY <2>0, <2>8, Touched DEF UpdateName, AfterUpdateName
    <2>9. ASSUME NEW s \in Session, NEW status \in StatusInput,
                 UpdatePresence(s, status)
          PROVE  room'.lastActivity = now
      BY <2>0, <2>9, Touched DEF UpdatePresence, AfterUpdatePresence
    <2>10. ASSUME NEW d \in DurationInput, SetTimerDuration(d)
           PROVE  room'.lastActivity = now
      BY <2>0, <2>10, Touched DEF SetTimerDuration, AfterSetTimerDuration
    <2>11. ASSUME StartTimer PROVE room'.lastActivity = now
      BY <2>0, <2>11, Touched DEF StartTimer, AfterStartTimer
    <2>12. ASSUME ResetTimer PROVE room'.lastActivity = now
      BY <2>0, <2>12, Touched DEF ResetTimer, AfterResetTimer
    <2>13. ASSUME \/ \E s \in Session : Disconnect(s)
                  \/ ReadTimer \/ Tick \/ UNCHANGED vars
           PROVE  FALSE
      BY <2>13 DEF Disconnect, ReadTimer, Tick, vars
    <2> QED BY <2>1, <2>2, <2>3, <2>4, <2>5, <2>6, <2>7, <2>8, <2>9, <2>10,
               <2>11, <2>12, <2>13 DEF Next
  <1> QED BY <1>1, TypeCorrect, PTL DEF Spec, ActivityIsStamped

(***************************************************************************)
(* Who stays in the room: the place in the order of joining, and the card  *)
(* of who comes back.                                                      *)
(***************************************************************************)

\* What the entry q of a participant keeps of the entry p before a step.
Keeps(p, q) ==
  /\ q.joinedAt = p.joinedAt
  /\ q.vote = p.vote \/ q.role = "observer"

\* Changing one entry of the map leaves the others alone.
LEMMA OneEntry ==
  ASSUME NEW r, IsRoom(r), NEW s \in Members(r), NEW p \in Participant, NEW t,
         Keeps(r.participants[s], p), NEW q,
         \/ q = Touch([r EXCEPT !.participants[s] = p], t)
         \/ q = [r EXCEPT !.participants[s] = p]
         \/ q = Touch([r EXCEPT !.participants = Put(@, s, p)], t)
  PROVE  \A m \in Members(r) : Keeps(r.participants[m], q.participants[m])
PROOF
  <1>1. /\ q.participants[s] = p
        /\ \A m \in Members(r) \ {s} : q.participants[m] = r.participants[m]
    BY DEF Touch, IsRoom, Members, Put
  <1>2. \A m \in Members(r) \ {s} : Keeps(r.participants[m], q.participants[m])
    BY <1>1 DEF Keeps
  <1> QED BY <1>1, <1>2

\* Whoever stays in the room through a step keeps the place in the order of
\* joining, and a voter keeps the card, but for a vote and a new round.
LEMMA StayingStep ==
  ASSUME TypeOK, [Next]_vars, NEW m \in Members(room) \cap Members(room')
  PROVE  \/ Keeps(room.participants[m], room'.participants[m])
         \/ /\ room'.participants[m].joinedAt = room.participants[m].joinedAt
            /\ Lays(m) \/ Redealt
PROOF
  <1> DEFINE Goal == \/ Keeps(room.participants[m], room'.participants[m])
                     \/ /\ room'.participants[m].joinedAt
                              = room.participants[m].joinedAt
                        /\ Lays(m) \/ Redealt
  <1>0. IsRoom(room) /\ now \in Nat
    BY DEF TypeOK
  <1>a. ASSUME NEW s \in Members(room)
        PROVE  room.participants[s] \in Participant
    BY <1>0, MemberOK
  <1>b. ASSUME room'.participants = room.participants PROVE Goal
    BY <1>b DEF Keeps
  <1>1. ASSUME NEW s \in Session, NEW raw \in RawName, NEW role \in RoleInput,
               Join(s, raw, role)
        PROVE  Goal
    <2>1. CASE s \in Members(room)
      <3> DEFINE p == Rejoined(room.participants[s], displayName[raw], JoinRole(role))
      <3>1. room' = Touch([room EXCEPT !.participants = Put(@, s, p)], now)
        BY <1>1, <2>1 DEF Join, AfterJoin
      <3>2. displayName[raw] \in Name /\ JoinRole(role) \in Roles
        BY <1>1, RoomAssumption DEF Join, CanJoin
      <3>3. p \in Participant
        BY <1>a, <2>1, <3>2 DEF Rejoined, Participant, CardKept, ValidVotes, Statuses
      <3>4. Keeps(room.participants[s], p)
        BY <1>a, <2>1 DEF Keeps, Rejoined, CardKept, Participant
      <3> HIDE DEF p
      <3> QED BY <1>0, <2>1, <3>1, <3>3, <3>4, OneEntry
    <2>2. CASE s \notin Members(room)
      <3>1. room' = AfterJoin(room, s, raw, role, now)
        BY <1>1 DEF Join
      <3>2. room'.participants[m] = room.participants[m]
        BY <1>0, <2>2, <3>1, JoinEffect
      <3> QED BY <3>2 DEF Keeps
    <2> QED BY <2>1, <2>2
  <1>2. ASSUME NEW s \in Session, Leave(s) PROVE Goal
    <2>1. room' = AfterLeave(room, s, now)
      BY <1>2 DEF Leave
    <2>2. room'.participants[m] = room.participants[m]
      BY <1>0, <2>1, LeaveEffect
    <2> QED BY <2>2 DEF Keeps
  <1>3. ASSUME NEW s \in Session, NEW role \in RoleInput, UpdateRole(s, role)
        PROVE  Goal
    <2> DEFINE p == [room.participants[s] EXCEPT
                       !.role = role, !.vote = CardKept(role, @)]
    <2>1. /\ room' = Touch([room EXCEPT !.participants[s] = p], now)
          /\ s \in Members(room) /\ role \in Roles
      BY <1>3 DEF UpdateRole, CanUpdateRole, AfterUpdateRole
    <2>2. p \in Participant /\ Keeps(room.participants[s], p)
      BY <1>a, <2>1 DEF Keeps, CardKept, Participant, ValidVotes
    <2> HIDE DEF p
    <2> QED BY <1>0, <2>1, <2>2, OneEntry
  <1>4. ASSUME NEW s \in Session, NEW value \in VoteInput, CastVote(s, value)
        PROVE  Goal
    <2>1. /\ room' = AfterCastVote(room, s, value, now)
          /\ s \in Members(room) /\ value \in ValidVotes
      BY <1>4 DEF CastVote, CanCastVote
    <2>2. \A k \in Members(room) \ {s} : room'.participants[k] = room.participants[k]
      BY <1>0, <2>1, CastVoteEffect
    <2>3. room'.participants[s] = [room.participants[s] EXCEPT !.vote = value]
      BY <1>0, <2>1 DEF AfterCastVote, Touch, IsRoom, Members
    <2>4. room'.participants[s].joinedAt = room.participants[s].joinedAt
      BY <1>a, <2>1, <2>3 DEF Participant
    <2>5. Lays(s)
      BY <1>4 DEF Lays
    <2> QED BY <2>2, <2>4, <2>5 DEF Keeps
  <1>5. ASSUME Reveal PROVE Goal
    BY <1>0, <1>5, <1>b, RevealEffect DEF Reveal
  <1>6. ASSUME NewRound PROVE Goal
    <2>1. room'.participants = WithoutVotes(room.participants)
      BY <1>0, <1>6 DEF NewRound, AfterNewRound, Touch, IsRoom
    <2>2. room'.participants[m] = [room.participants[m] EXCEPT !.vote = ""]
      BY <2>1 DEF WithoutVotes, Members
    <2>3. room'.participants[m].joinedAt = room.participants[m].joinedAt
      BY <1>a, <2>2 DEF Participant
    <2>4. Redealt
      BY <1>0, <1>6 DEF Redealt, NewRound, CanNewRound, AfterNewRound, Touch, IsRoom,
                        Phases
    <2> QED BY <2>3, <2>4
  <1>7. ASSUME ClearRoom PROVE Goal
    BY <1>7, ClearRoomEffect DEF ClearRoom
  <1>8. ASSUME NEW s \in Session, NEW raw \in RawName, UpdateName(s, raw)
        PROVE  Goal
    <2>1. room' = AfterUpdateName(room, s, raw, now) /\ s \in Members(room)
      BY <1>8 DEF UpdateName, CanUpdateName
    <2>2. /\ \A k \in Members(room) \ {s} :
               room'.participants[k] = room.participants[k]
          /\ room'.participants[s] =
               [room.participants[s] EXCEPT !.name = displayName[raw]]
      BY <1>0, <2>1 DEF AfterUpdateName, Touch, IsRoom, Members
    <2>3. Keeps(room.participants[s], room'.participants[s])
      BY <1>a, <2>1, <2>2 DEF Keeps, Participant
    <2> QED BY <2>2, <2>3 DEF Keeps
  <1>9. ASSUME NEW s \in Session, NEW status \in StatusInput,
               UpdatePresence(s, status)
        PROVE  Goal
    <2>1. room' = AfterUpdatePresence(room, s, status, now) /\ s \in Members(room)
      BY <1>9 DEF UpdatePresence, CanUpdatePresence
    <2>2. /\ \A k \in Members(room) \ {s} :
               room'.participants[k] = room.participants[k]
          /\ room'.participants[s] = [room.participants[s] EXCEPT !.status = status]
      BY <1>0, <2>1 DEF AfterUpdatePresence, Touch, IsRoom, Members
    <2>3. Keeps(room.participants[s], room'.participants[s])
      BY <1>a, <2>1, <2>2 DEF Keeps, Participant
    <2> QED BY <2>2, <2>3 DEF Keeps
  <1>10. ASSUME NEW s \in Session, Disconnect(s) PROVE Goal
    <2>1. room' = [room EXCEPT !.participants[s].status = "disconnected"]
          /\ s \in Members(room)
      BY <1>10 DEF Disconnect, AfterDisconnect
    <2>2. /\ \A k \in Members(room) \ {s} :
               room'.participants[k] = room.participants[k]
          /\ room'.participants[s] =
               [room.participants[s] EXCEPT !.status = "disconnected"]
      BY <1>0, <2>1 DEF IsRoom, Members
    <2>3. Keeps(room.participants[s], room'.participants[s])
      BY <1>a, <2>1, <2>2 DEF Keeps, Participant
    <2> QED BY <2>2, <2>3 DEF Keeps
  <1>11. ASSUME NEW d \in DurationInput, SetTimerDuration(d) PROVE Goal
    BY <1>0, <1>11, <1>b, SetTimerDurationEffect DEF SetTimerDuration
  <1>12. ASSUME StartTimer PROVE Goal
    <2>1. room'.participants = room.participants
      BY <1>0, <1>12, StartTimerEffect DEF StartTimer
    <2> QED BY <1>b, <2>1
  <1>13. ASSUME ResetTimer PROVE Goal
    BY <1>0, <1>13, <1>b, ResetTimerEffect DEF ResetTimer
  <1>14. ASSUME ReadTimer PROVE Goal
    <2>1. room'.participants = room.participants
      BY <1>0, <1>14, TimerInfoEffect DEF ReadTimer
    <2> QED BY <1>b, <2>1
  <1>15. ASSUME Tick \/ UNCHANGED vars PROVE Goal
    BY <1>15, <1>b DEF Tick, vars
  <1> QED BY <1>1, <1>2, <1>3, <1>4, <1>5, <1>6, <1>7, <1>8, <1>9, <1>10,
             <1>11, <1>12, <1>13, <1>14, <1>15 DEF Next

\* While two participants both stay, no step swaps them in the list, which is
\* ordered by the time of joining.
THEOREM SeniorityIsStable == Spec => SeniorityStable
PROOF
  <1>1. TypeOK /\ [Next]_vars =>
          (\A s, t \in Members(room) \cap Members(room') :
             room.participants[s].joinedAt < room.participants[t].joinedAt
             => room'.participants[s].joinedAt < room'.participants[t].joinedAt)
    BY StayingStep DEF Keeps
  <1> QED BY <1>1, TypeCorrect, PTL DEF Spec, SeniorityStable

\* Through any step, of whomever, a voter who stays in the room keeps the card:
\* through the loss of the connection, the absence and the return, until the
\* owner lays another, becomes an observer or the round is over.
THEOREM CardsAwaitTheAbsent == Spec => CardsStay
PROOF
  <1>1. TypeOK /\ [Next]_vars =>
          (\A s \in Members(room) \cap Members(room') :
             \/ VoteOf(room', s) = VoteOf(room, s)
             \/ room'.participants[s].role = "observer"
             \/ Lays(s)
             \/ Redealt)
    BY StayingStep DEF Keeps, VoteOf
  <1> QED BY <1>1, TypeCorrect, PTL DEF Spec, CardsStay
=============================================================================

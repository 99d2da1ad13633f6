-------------------------------- MODULE Room --------------------------------
(***************************************************************************)
(* One room as a state machine: any session may call any method of         *)
(* internal/domain/room.go, with any of the inputs, in any order, while    *)
(* the clock ticks.  A call the method refuses changes nothing and is a    *)
(* stuttering step.  Module Hub drives the same operations from            *)
(* connections and goroutines.                                             *)
(***************************************************************************)
EXTENDS RoomOps

CONSTANTS
  VoteInput, RoleInput, StatusInput, DurationInput,  \* what the calls pass
  MaxTime                                            \* bound of the clock

ASSUME TimeAssumption == MaxTime \in Nat \ {0}

VARIABLES
  room,   \* the Room struct
  now     \* time.Now(), in seconds

vars == <<room, now>>

Init == now = 1 /\ room = NewRoom(1)

Join(s, raw, role) ==
  /\ CanJoin(room, s, raw, role)
  /\ room' = AfterJoin(room, s, raw, role, now)
  /\ UNCHANGED now

Leave(s) ==
  /\ CanLeave(room, s)
  /\ room' = AfterLeave(room, s, now)
  /\ UNCHANGED now

UpdateRole(s, role) ==
  /\ CanUpdateRole(room, s, role)
  /\ room' = AfterUpdateRole(room, s, role, now)
  /\ UNCHANGED now

CastVote(s, value) ==
  /\ CanCastVote(room, s, value)
  /\ room' = AfterCastVote(room, s, value, now)
  /\ UNCHANGED now

Reveal ==
  /\ CanReveal(room)
  /\ room' = AfterReveal(room, now)
  /\ UNCHANGED now

NewRound ==
  /\ CanNewRound(room)
  /\ room' = AfterNewRound(room, now)
  /\ UNCHANGED now

ClearRoom ==
  /\ room' = AfterClearRoom(room, now)
  /\ UNCHANGED now

UpdateName(s, raw) ==
  /\ CanUpdateName(room, s, raw)
  /\ room' = AfterUpdateName(room, s, raw, now)
  /\ UNCHANGED now

UpdatePresence(s, status) ==
  /\ CanUpdatePresence(room, s, status)
  /\ room' = AfterUpdatePresence(room, s, status, now)
  /\ UNCHANGED now

\* The cleanup of a connection that is gone.
Disconnect(s) ==
  /\ s \in Members(room)
  /\ room' = AfterDisconnect(room, s)
  /\ UNCHANGED now

SetTimerDuration(d) ==
  /\ CanSetTimerDuration(room, d)
  /\ room' = AfterSetTimerDuration(room, d, now)
  /\ UNCHANGED now

StartTimer ==
  /\ CanStartTimer(room)
  /\ room' = AfterStartTimer(room, now)
  /\ UNCHANGED now

ResetTimer ==
  /\ CanResetTimer(room)
  /\ room' = AfterResetTimer(room, now)
  /\ UNCHANGED now

ReadTimer ==
  /\ TimeIsUp(room, now)
  /\ room' = AfterTimerInfo(room, now)
  /\ UNCHANGED now

Tick ==
  /\ now < MaxTime
  /\ now' = now + 1
  /\ UNCHANGED room

Next ==
  \/ \E s \in Session, raw \in RawName, role \in RoleInput : Join(s, raw, role)
  \/ \E s \in Session : Leave(s)
  \/ \E s \in Session, role \in RoleInput : UpdateRole(s, role)
  \/ \E s \in Session, value \in VoteInput : CastVote(s, value)
  \/ Reveal
  \/ NewRound
  \/ ClearRoom
  \/ \E s \in Session, raw \in RawName : UpdateName(s, raw)
  \/ \E s \in Session, status \in StatusInput : UpdatePresence(s, status)
  \/ \E s \in Session : Disconnect(s)
  \/ \E d \in DurationInput : SetTimerDuration(d)
  \/ StartTimer
  \/ ResetTimer
  \/ ReadTimer
  \/ Tick

Spec == Init /\ [][Next]_vars

-----------------------------------------------------------------------------
(* Invariants.                                                             *)

\* The room is well formed: every participant has a display name that is not
\* empty, a card of the deck or none, a known role and status, and the timer
\* a duration in range (the types and validations of room.go).
TypeOK == IsRoom(room) /\ now \in Nat \ {0}

\* Whatever the order of casts, role switches and rejoins, an observer never
\* holds a card: UpdateRole and the rejoin path of Join must both take it
\* away, and CastVote must refuse it.
ObserverHasNoVote ==
  \A s \in Members(room) :
    room.participants[s].role = "observer" => room.participants[s].vote = ""

\* The timer's state and start time agree with the clock: a start time is
\* there exactly when the timer is not idle, lies in the past, and an expired
\* countdown really has used up its duration, which nobody may have changed
\* in between.
TimerConsistent ==
  /\ room.timer.state = "idle" <=> room.timer.startedAt = ZeroTime
  /\ room.timer.startedAt <= now
  /\ room.timer.state = "expired" =>
       now - room.timer.startedAt >= room.timer.duration

\* The countdown a client is told (TimerInfo) never exceeds the duration, never
\* goes below zero however late the room is looked at, and reaches zero
\* exactly when the state told with it is expired.
RemainingAgreesWithState ==
  LET info == TimerInfo(room, now)
  IN  /\ info.remaining \in 0 .. info.duration
      /\ info.remaining = 0 <=> info.state = "expired"

\* Rejoining needs no free place and joining does, in whatever order sessions
\* come, go and come back: the room never holds more than MaxParticipants.
CapacityRespected == Cardinality(Members(room)) <= MaxParticipants

-----------------------------------------------------------------------------
(* Action properties.                                                      *)

\* Between a reveal and the next round a card may vanish from the table (its
\* owner leaves, or turns observer) but no step, a rejoin included, lays a
\* new one or changes one that everybody has seen.
VotesFrozenInReveal ==
  [][room.phase = "reveal" /\ room'.phase = "reveal" =>
       \A s \in Session : VoteOf(room', s) \in {VoteOf(room, s), ""}]_vars

\* A card belongs to its owner and to its round.
Lays(s) == \E value \in VoteInput : CastVote(s, value)
Redealt == room.phase = "reveal" /\ room'.phase = "voting"

\* Nothing but the owner's own vote, the owner's becoming an observer and a new
\* round changes the card of somebody who stays: not the loss of the connection,
\* nor anything the others do meanwhile, nor the return under whatever name.  So
\* a lost voter finds the card of the round where it was
\* (docs/planning/03-backend-plan.md, section 3.4).
CardsStay ==
  [][\A s \in Members(room) \cap Members(room') :
       \/ VoteOf(room', s) = VoteOf(room, s)
       \/ room'.participants[s].role = "observer"
       \/ Lays(s)
       \/ Redealt]_vars

\* The list of participants is ordered by JoinedAt: while two participants
\* both stay in the room, no step, a reconnection included, swaps them.
SeniorityStable ==
  [][\A s, t \in Members(room) \cap Members(room') :
       room.participants[s].joinedAt < room.participants[t].joinedAt
       => room'.participants[s].joinedAt < room'.participants[t].joinedAt]_vars

\* The garbage collector trusts lastActivity: every step that changes what
\* the participants did stamps it with the current time.  Only the clock,
\* the loss of a connection and the expiry of a countdown leave it alone
\* (docs/planning/03-backend-plan.md, section 3.4).
ActivityIsStamped ==
  [][room' # room =>
       \/ room'.lastActivity = now
       \/ \E s \in Session : room' = AfterDisconnect(room, s)
       \/ room' = AfterTimerInfo(room, now)]_vars

\* A countdown that was started runs with the duration and the start it was
\* given until it is reset: a second start, a late change of the duration or
\* a look at the timer cannot stretch or revive it.
CountdownUninterrupted ==
  [][room.timer.state # "idle" /\ room'.timer.state # "idle" =>
       /\ room'.timer.startedAt = room.timer.startedAt
       /\ room'.timer.duration = room.timer.duration
       /\ room.timer.state = "expired" => room'.timer.state = "expired"]_vars

\* A room keeps the promise of module VotingRound.
Ballot == [s \in Session |-> VoteOf(room, s)]

Round == INSTANCE VotingRound WITH
  Card <- ValidVotes \ {""}, NoCard <- "", phase <- room.phase, ballot <- Ballot

\* Every room operation is a step of the abstract voting round or invisible to
\* it: joins, names, presence and the timer never touch the ballot, and
\* clearing the room is either the start of a round or everybody's withdrawal.
ImplementsVotingRound == Round!Spec

=============================================================================

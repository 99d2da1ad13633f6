------------------------------- MODULE RoomOps -------------------------------
(***************************************************************************)
(* The operations of one poker room, internal/domain/room.go, as operators *)
(* on a room value.  Every exported method of Room is a guard CanOp, true  *)
(* when the Go method returns no error (or true), and a result AfterOp, the*)
(* room it then leaves behind; a method that fails leaves the room alone.  *)
(* The room is guarded by Room.mu, so each method is one atomic step of    *)
(* whoever holds the lock; modules Room and Hub take those steps.          *)
(*                                                                         *)
(* Abstracted: the room's id, name, creator and creation time, which never *)
(* change, and Participant.LastPing, which is written and never read.      *)
(***************************************************************************)
EXTENDS Integers, FiniteSets, Functions

CONSTANTS
  Session,               \* session identifiers, chosen by the clients
  RawName,               \* names as a client may send them
  Name,                  \* display names, what is left of a raw name
  displayName,           \* sanitizeName followed by the truncation
  MaxParticipants,       \* 50 in the code
  MinTimerDuration,      \* 30 s
  MaxTimerDuration,      \* 600 s
  DefaultTimerDuration   \* 30 s

ASSUME RoomAssumption ==
  /\ "" \notin Name
  /\ displayName \in [RawName -> Name \cup {""}]
  /\ MaxParticipants \in Nat \ {0}
  /\ {MinTimerDuration, MaxTimerDuration, DefaultTimerDuration} \subseteq Nat \ {0}
  /\ DefaultTimerDuration \in MinTimerDuration .. MaxTimerDuration

Phases == {"voting", "reveal"}
TimerStates == {"idle", "running", "expired"}
Statuses == {"active", "idle", "disconnected"}
Roles == {"voter", "observer"}

\* The deck, and "" for a card taken back.
ValidVotes ==
  {"", "?", "0", "0.5", "1", "2", "3", "5", "8", "13", "20", "40", "100"}

\* Go's zero time.Time; the clock of a specification never shows it.
ZeroTime == 0

Durations == MinTimerDuration .. MaxTimerDuration

Participant ==
  [name : Name, vote : ValidVotes, status : Statuses, role : Roles,
   joinedAt : Nat]

Timer == [duration : Durations, state : TimerStates, startedAt : Nat]

IdleTimer(duration) ==
  [duration |-> duration, state |-> "idle", startedAt |-> ZeroTime]

NewRoom(now) ==
  [phase        |-> "voting",
   participants |-> [s \in {} |-> {}],
   timer        |-> IdleTimer(DefaultTimerDuration),
   lastActivity |-> now]

Members(r) == DOMAIN r.participants

\* The card of s, "" also for who is not in the room.
VoteOf(r, s) == IF s \in Members(r) THEN r.participants[s].vote ELSE ""

\* r is a Room: Participants is a map, a function on the sessions it holds.
IsRoom(r) ==
  /\ r \in [phase : Phases, participants : {r.participants},
            timer : Timer, lastActivity : Nat]
  /\ Members(r) \subseteq Session
  /\ r.participants \in [Members(r) -> Participant]


\* participants[s] = p, which adds s when it is new.  (TLC's :> and @@ say the
\* same, but the provers know nothing of them.)
Put(ps, s, p) == [q \in DOMAIN ps \cup {s} |-> IF q = s THEN p ELSE ps[q]]

Touch(r, now) == [r EXCEPT !.lastActivity = now]

-----------------------------------------------------------------------------
(* Membership: Join, Leave, ClearRoom, UpdateName.                         *)

\* The role a join asks for; an absent one means voter.
JoinRole(role) == IF role = "" THEN "voter" ELSE role

\* Mutant: one participant too many.
CanJoinOneMore(r, s, raw, role) ==
  /\ displayName[raw] # ""
  /\ JoinRole(role) \in Roles
  /\ s \in Members(r) \/ Cardinality(Members(r)) <= MaxParticipants

\* A returning session needs no free place, a new one does.
CanJoin(r, s, raw, role) ==
  /\ displayName[raw] # ""
  /\ JoinRole(role) \in Roles
  /\ s \in Members(r) \/ Cardinality(Members(r)) < MaxParticipants

\* Mutant: the card stays whatever the role.
CardAlwaysKept(role, vote) == vote

\* A participant's card once the role is set: an observer holds none.
CardKept(role, vote) == IF role = "observer" THEN "" ELSE vote

\* Mutant: who comes back starts with an empty hand.
RejoinedWithoutCard(p, name, role) ==
  [p EXCEPT !.name = name, !.role = role, !.status = "active", !.vote = ""]

\* What a rejoin makes of the participant: the vote survives unless the role
\* is now observer, and the place in the join order is kept.
Rejoined(p, name, role) ==
  [p EXCEPT !.name = name, !.role = role, !.status = "active",
            !.vote = CardKept(role, @)]

Newcomer(name, role, now) ==
  [name |-> name, vote |-> "", status |-> "active", role |-> role,
   joinedAt |-> now]

\* Mutant: a rejoin makes a new participant that only keeps the card.
AfterJoinAnew(r, s, raw, role, now) ==
  LET p == Newcomer(displayName[raw], JoinRole(role), now)
      q == IF s \in Members(r)
           THEN [p EXCEPT !.vote = CardKept(p.role, r.participants[s].vote)]
           ELSE p
  IN  Touch([r EXCEPT !.participants = Put(@, s, q)], now)

AfterJoin(r, s, raw, role, now) ==
  LET p == IF s \in Members(r)
           THEN Rejoined(r.participants[s], displayName[raw], JoinRole(role))
           ELSE Newcomer(displayName[raw], JoinRole(role), now)
  IN  Touch([r EXCEPT !.participants = Put(@, s, p)], now)

CanLeave(r, s) == s \in Members(r)

AfterLeave(r, s, now) ==
  Touch([r EXCEPT !.participants = Restrict(@, DOMAIN @ \ {s})], now)

AfterClearRoom(r, now) == NewRoom(now)

\* Mutant: a name that sanitizes to nothing is accepted.
CanUpdateAnyName(r, s, raw) == s \in Members(r)

CanUpdateName(r, s, raw) == displayName[raw] # "" /\ s \in Members(r)

AfterUpdateName(r, s, raw, now) ==
  Touch([r EXCEPT !.participants[s].name = displayName[raw]], now)

-----------------------------------------------------------------------------
(* Presence and role.                                                      *)

CanUpdatePresence(r, s, status) ==
  status \in {"active", "idle"} /\ s \in Members(r)

\* Mutant: a change of presence is not counted as activity.
AfterUpdatePresenceUntouched(r, s, status, now) ==
  [r EXCEPT !.participants[s].status = status]

AfterUpdatePresence(r, s, status, now) ==
  Touch([r EXCEPT !.participants[s].status = status], now)

\* Mutant: the card of a lost connection is taken off the table.
AfterDisconnectWithoutCard(r, s) ==
  IF s \in Members(r)
  THEN [r EXCEPT !.participants[s] = [@ EXCEPT !.status = "disconnected",
                                               !.vote = ""]] ELSE r

\* The cleanup of a lost connection writes the status directly: it is not a
\* method of Room and does not count as activity.
AfterDisconnect(r, s) ==
  IF s \in Members(r)
  THEN [r EXCEPT !.participants[s].status = "disconnected"] ELSE r

CanUpdateRole(r, s, role) == role \in Roles /\ s \in Members(r)

AfterUpdateRole(r, s, role, now) ==
  LET p == [r.participants[s] EXCEPT
              !.role = role, !.vote = CardKept(role, @)]
  IN  Touch([r EXCEPT !.participants[s] = p], now)

-----------------------------------------------------------------------------
(* The round: CastVote, Reveal, NewRound.                                  *)

\* Mutant: the phase is not consulted.
CanCastVoteAnytime(r, s, value) ==
  /\ value \in ValidVotes
  /\ s \in Members(r)
  /\ r.participants[s].role # "observer"

CanCastVote(r, s, value) ==
  /\ r.phase = "voting"
  /\ value \in ValidVotes
  /\ s \in Members(r)
  /\ r.participants[s].role # "observer"

AfterCastVote(r, s, value, now) ==
  Touch([r EXCEPT !.participants[s].vote = value], now)

CanReveal(r) == r.phase # "reveal"

AfterReveal(r, now) == Touch([r EXCEPT !.phase = "reveal"], now)

\* The votes CalculateResult reports, the part of a round's result that the
\* statistics are computed from.
ResultVotes(r) ==
  {<<s, r.participants[s].vote>> :
     s \in {m \in Members(r) : /\ r.participants[m].role # "observer"
                               /\ r.participants[m].vote # ""}}

CanNewRound(r) == r.phase # "voting"

\* Mutant: the cards of those who are away stay on the table.
WithoutPresentVotes(ps) ==
  [s \in DOMAIN ps |-> IF ps[s].status = "disconnected" THEN ps[s]
                       ELSE [ps[s] EXCEPT !.vote = ""]]

WithoutVotes(ps) == [s \in DOMAIN ps |-> [ps[s] EXCEPT !.vote = ""]]

AfterNewRound(r, now) ==
  Touch([r EXCEPT !.participants = WithoutVotes(@),
                  !.phase = "voting",
                  !.timer = IdleTimer(@.duration)], now)

-----------------------------------------------------------------------------
(* The countdown: SetTimerDuration, StartTimer, ResetTimer, TimerInfo.     *)

\* Mutant: the duration may change once the countdown is over.
CanSetTimerDurationLate(r, d) == r.timer.state # "running" /\ d \in Durations

CanSetTimerDuration(r, d) == r.timer.state = "idle" /\ d \in Durations

AfterSetTimerDuration(r, d, now) ==
  Touch([r EXCEPT !.timer.duration = d], now)

\* Mutant: only a running countdown cannot be started.
CanStartTimerAgain(r) == r.timer.state # "running"

CanStartTimer(r) == r.timer.state = "idle"

AfterStartTimer(r, now) ==
  Touch([r EXCEPT !.timer.state = "running", !.timer.startedAt = now], now)

CanResetTimer(r) == r.timer.state # "idle"

AfterResetTimer(r, now) ==
  Touch([r EXCEPT !.timer = IdleTimer(@.duration)], now)

\* Mutant: one second late.
TimeIsLongUp(r, now) ==
  r.timer.state = "running" /\ now - r.timer.startedAt > r.timer.duration

TimeIsUp(r, now) ==
  r.timer.state = "running" /\ now - r.timer.startedAt >= r.timer.duration

\* TimerInfo looks at the timer and, on the way, moves a countdown that is
\* over to expired.  Nothing else does: expiry is noticed, not scheduled.
AfterTimerInfo(r, now) ==
  IF TimeIsUp(r, now) THEN [r EXCEPT !.timer.state = "expired"] ELSE r

\* What TimerInfo returns: the timer after the look, and the seconds left.
TimerInfo(r, now) ==
  LET t == AfterTimerInfo(r, now).timer
  IN  [duration  |-> t.duration,
       state     |-> t.state,
       remaining |-> CASE t.state = "idle"    -> t.duration
                       [] t.state = "running" -> t.duration - (now - t.startedAt)
                       [] t.state = "expired" -> 0]
=============================================================================

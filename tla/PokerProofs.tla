------------------------------ MODULE PokerProofs ------------------------------
(***************************************************************************)
(* What the clients show is what the server holds: the proofs of Poker's   *)
(* LittleIsUntold and ViewsConverge.                                       *)
(*                                                                         *)
(* First, operation by operation, what changes about a participant and     *)
(* whether the handler is about to tell it.  Then what the reducer makes of*)
(* the messages: the announcement of an operation turns a true view of the *)
(* room before it into a true view of the room after it (the lemmas named  *)
(* ...Follows).  Last the invariant PokerInv: what a client holds in its   *)
(* queue, followed by what the handler at work still sends to it, will show*)
(* the room.                                                               *)
(***************************************************************************)
EXTENDS Poker, HubTypeProofs

(***************************************************************************)
(* The names, roles and cards after an operation, as far as the lemmas on  *)
(* phases and cards do not say it.                                         *)
(***************************************************************************)
\* Only a join and a rename touch a name.
LEMMA NamesKept ==
  ASSUME NEW r, IsRoom(r), NEW s \in Members(r), NEW m \in Members(r),
         NEW value, NEW role, NEW status, NEW t
  PROVE  /\ AfterCastVote(r, s, value, t).participants[m].name
              = r.participants[m].name
         /\ AfterUpdatePresence(r, s, status, t).participants[m].name
              = r.participants[m].name
         /\ AfterUpdateRole(r, s, role, t).participants[m].name
              = r.participants[m].name
         /\ AfterDisconnect(r, s).participants[m].name = r.participants[m].name
PROOF
  <1>1. r.participants[m] \in Participant /\ r.participants[s] \in Participant
    BY MemberOK
  <1>2. ASSUME NEW p, p.name = r.participants[s].name
        PROVE  [r.participants EXCEPT ![s] = p][m].name = r.participants[m].name
    BY <1>2 DEF IsRoom, Members
  <1>3. AfterCastVote(r, s, value, t).participants
          = [r.participants EXCEPT ![s] = [r.participants[s] EXCEPT !.vote = value]]
    BY DEF AfterCastVote, Touch, IsRoom
  <1>4. AfterUpdatePresence(r, s, status, t).participants
          = [r.participants EXCEPT ![s] = [r.participants[s] EXCEPT !.status = status]]
    BY DEF AfterUpdatePresence, Touch, IsRoom
  <1>5. AfterUpdateRole(r, s, role, t).participants
          = [r.participants EXCEPT ![s] =
               [r.participants[s] EXCEPT !.role = role, !.vote = CardKept(role, @)]]
    BY DEF AfterUpdateRole, Touch, IsRoom
  <1>6. AfterDisconnect(r, s).participants
          = [r.participants EXCEPT ![s] =
               [r.participants[s] EXCEPT !.status = "disconnected"]]
    BY DEF AfterDisconnect, IsRoom
  <1>7. /\ [r.participants[s] EXCEPT !.vote = value].name = r.participants[s].name
        /\ [r.participants[s] EXCEPT !.status = status].name
             = r.participants[s].name
        /\ [r.participants[s] EXCEPT !.role = role, !.vote = CardKept(role, @)].name
             = r.participants[s].name
        /\ [r.participants[s] EXCEPT !.status = "disconnected"].name
             = r.participants[s].name
    BY <1>1 DEF Participant
  <1> QED BY <1>2, <1>3, <1>4, <1>5, <1>6, <1>7

\* A rename touches the one it renames.
LEMMA OthersKeepNames ==
  ASSUME NEW r, IsRoom(r), NEW s \in Members(r), NEW raw, NEW t,
         NEW m \in Members(r) \ {s}
  PROVE  AfterUpdateName(r, s, raw, t).participants[m] = r.participants[m]
  BY DEF AfterUpdateName, Touch, IsRoom, Members

\* A new round takes the cards and nothing else.
LEMMA NewRoundKeepsSeats ==
  ASSUME NEW r, IsRoom(r), NEW t, NEW m \in Members(r)
  PROVE  /\ AfterNewRound(r, t).participants[m].name = r.participants[m].name
         /\ AfterNewRound(r, t).participants[m].role = r.participants[m].role
PROOF
  <1>1. AfterNewRound(r, t).participants[m] = [r.participants[m] EXCEPT !.vote = ""]
    BY DEF AfterNewRound, Touch, IsRoom, WithoutVotes, Members
  <1>2. r.participants[m] \in Participant
    BY MemberOK
  <1> QED BY <1>1, <1>2 DEF Participant

(***************************************************************************)
(* Changes.                                                                *)
(***************************************************************************)
\* The entries p and q of a participant differ in the fact.
Differ(p, q, fact) ==
  \/ fact = "name" /\ p.name # q.name
  \/ fact = "role" /\ p.role # q.role
  \/ fact = "hasVoted" /\ ~(p.vote = "" <=> q.vote = "")

\* What Changed says of a fact.
LEMMA ChangedFacts ==
  ASSUME NEW r, NEW q, NEW s, NEW fact, <<s, fact>> \in Changed(r, q)
  PROVE  /\ s \in Members(r) \cap Members(q)
         /\ Differ(r.participants[s], q.participants[s], fact)
BY DEF Changed, Facts, Differ

\* Nothing differs from itself.
LEMMA NothingChanged ==
  ASSUME NEW r, NEW e
  PROVE  e \notin Changed(r, r)
PROOF
  <1>1. \A p, fact : ~Differ(p, p, fact)
    BY DEF Differ
  <1>2. ASSUME e \in Changed(r, r) PROVE FALSE
    <2>1. e \in (Members(r) \cap Members(r)) \X Facts
      BY <1>2 DEF Changed
    <2>2. <<e[1], e[2]>> \in Changed(r, r)
      BY <1>2, <2>1
    <2>3. Differ(r.participants[e[1]], r.participants[e[1]], e[2])
      BY <2>2, ChangedFacts
    <2> QED BY <1>1, <2>3
  <1> QED BY <1>2

\* The same participants, in the same seats.
LEMMA SameParticipants ==
  ASSUME NEW r, NEW q, q.participants = r.participants, NEW e
  PROVE  e \notin Changed(r, q)
PROOF
  <1>1. Changed(r, q) = Changed(r, r)
    BY DEF Changed, Members
  <1> QED BY <1>1, NothingChanged

\* Where nobody is, nobody changes.
LEMMA NobodyChanged ==
  ASSUME NEW r, NEW q, Members(q) = {}, NEW e
  PROVE  e \notin Changed(r, q)
  BY DEF Changed

\* If all the others stay, it is the one.
LEMMA OneChanged ==
  ASSUME NEW r, NEW q, NEW s, NEW fact, <<s, fact>> \in Changed(r, q),
         NEW me, \A m \in Members(r) \ {me} : q.participants[m] = r.participants[m]
  PROVE  s = me
PROOF
  <1>1. s \in Members(r)
    BY ChangedFacts
  <1>2. Differ(r.participants[s], q.participants[s], fact)
    BY ChangedFacts
  <1>3. q.participants[s] # r.participants[s]
    BY <1>2 DEF Differ
  <1> QED BY <1>1, <1>3

(***************************************************************************)
(* The handlers tell.                                                      *)
(***************************************************************************)
\* The handler of c is about to tell of the fact.
Tell(c, s, fact) ==
  \E n \in DOMAIN job'[c].todo : Tells(job'[c].todo[n], s, fact)

\* What is not told, as LittleIsUntold has it.
LeftUntold(c, e) ==
  \/ pc[c] = "join" /\ pc'[c] = "register" /\ sid'[c] = e[1]
  \/ /\ pc[c] = "handle" /\ job[c].event.kind = "update_role"
     /\ e = <<sid[c], "hasVoted">>
     /\ heap'[1].participants[e[1]].role = "observer"

\* A handler that announces msgs has them to tell.
LEMMA Announcing ==
  ASSUME TypeInv, NEW c \in Conn, NEW r, NEW msgs, Commit(c, r, msgs)
  PROVE  job'[c].todo = msgs
PROOF
  <1>1. job[c] \in Job /\ job \in [Conn -> Job]
    BY DEF TypeInv, ConnsOK
  <1>2. job'[c] = [job[c] EXCEPT !.todo = msgs, !.skip = {}, !.next = "read"]
    BY <1>1 DEF Commit, Broadcast
  <1> QED BY <1>1, <1>2 DEF Job

\* The handler of c has the first room, and changes something there.
LEMMA Changing ==
  ASSUME TypeInv, NEW c \in Conn, job[c].room = 1, NEW kind, Locked(c, kind),
         NEW e \in Changed(heap[1], heap'[1])
  PROVE  /\ IsRoom(heap[1]) /\ RoomOf(c) = heap[1] /\ heap'[1] # heap[1]
         /\ \A r : Becomes(c, r) => heap'[1] = r
         /\ e = <<e[1], e[2]>>
PROOF
  <1>1. pc[c] = "handle"
    BY DEF Locked
  <1>2. 1 \in RoomId /\ IsRoom(heap[1]) /\ RoomOf(c) = heap[1]
    BY <1>1, HasRoom DEF RoomOf
  <1>3. DOMAIN heap = RoomId
    BY DEF TypeInv, RoomsOK
  <1>4. e = <<e[1], e[2]>>
    <2>1. e \in (Members(heap[1]) \cap Members(heap'[1])) \X Facts
      BY DEF Changed
    <2> QED BY <2>1
  <1>5. heap'[1] # heap[1]
    BY NothingChanged
  <1>6. ASSUME NEW r, Becomes(c, r) PROVE heap'[1] = r
    BY <1>2, <1>3, <1>6 DEF Becomes
  <1> QED BY <1>2, <1>4, <1>5, <1>6

\* What a handler changes of the first room in its critical section is told,
\* but for an observer's card.
LEMMA VoteTells ==
  ASSUME TypeInv, NEW c \in Conn, job[c].room = 1, HandleVote(c),
         NEW s, NEW fact, <<s, fact>> \in Changed(heap[1], heap'[1])
  PROVE  Tell(c, s, fact)
PROOF
  <1> DEFINE me == sid[c]
             value == job[c].event.value
  <1>1. Locked(c, "vote")
    BY DEF HandleVote
  <1>2. /\ IsRoom(heap[1]) /\ RoomOf(c) = heap[1] /\ heap' # heap
        /\ \A r : Becomes(c, r) => heap'[1] = r
    BY <1>1, Changing
  <1>3. PICK q : q = AfterCastVote(heap[1], me, value, now)
    OBVIOUS
  <1>4. /\ CanCastVote(heap[1], me, value) /\ Becomes(c, q)
        /\ \/ value = "" /\ ~(heap[1].participants[me].vote # "")
           \/ \E type \in {"vote_cast", "vote_retracted"} :
                Commit(c, q, <<About(type, me)>>)
    BY <1>2, <1>3 DEF HandleVote, Commit, Refuse
  <1>5. heap'[1] = q /\ me \in Members(heap[1])
    BY <1>2, <1>4 DEF CanCastVote
  <1>6. /\ \A m \in Members(heap[1]) \ {me} :
             q.participants[m] = heap[1].participants[m]
        /\ q.participants[me].vote = value
        /\ q.participants[me].role = heap[1].participants[me].role
    BY <1>2, <1>3, <1>5, CastVoteEffect
  <1>7. q.participants[me].name = heap[1].participants[me].name
    BY <1>2, <1>3, <1>5, NamesKept
  <1>8. s = me
    BY <1>5, <1>6, OneChanged
  <1>9. fact = "hasVoted" /\ ~(heap[1].participants[me].vote = "" <=> value = "")
    <2>1. Differ(heap[1].participants[s], q.participants[s], fact)
      BY <1>5, ChangedFacts
    <2> QED BY <1>6, <1>7, <1>8, <2>1 DEF Differ
  <1>10. PICK type \in {"vote_cast", "vote_retracted"} :
           Commit(c, q, <<About(type, me)>>)
    BY <1>4, <1>9
  <1>11. Tells(About(type, me), s, fact)
    BY <1>8, <1>9 DEF Tells, About
  <1> QED BY <1>10, <1>11, Announcing DEF Tell

\* round_reset tells that all the cards are gone.
LEMMA NewRoundTells ==
  ASSUME TypeInv, NEW c \in Conn, job[c].room = 1, HandleNewRound(c),
         NEW s, NEW fact, <<s, fact>> \in Changed(heap[1], heap'[1])
  PROVE  Tell(c, s, fact)
PROOF
  <1>1. Locked(c, "new_round")
    BY DEF HandleNewRound
  <1>2. /\ IsRoom(heap[1]) /\ RoomOf(c) = heap[1] /\ heap' # heap
        /\ \A r : Becomes(c, r) => heap'[1] = r
    BY <1>1, Changing
  <1>3. AfterTimerInfo(heap[1], now).participants = heap[1].participants
    BY <1>2 DEF AfterTimerInfo, IsRoom
  <1>4. ~Becomes(c, AfterTimerInfo(heap[1], now))
    BY <1>2, <1>3, SameParticipants
  <1>5. PICK q : q = AfterNewRound(heap[1], now)
    OBVIOUS
  <1>6. Commit(c, q, <<Plain("round_reset"), TimerUpdated(q, now)>>)
    BY <1>2, <1>4, <1>5 DEF HandleNewRound
  <1>7. heap'[1] = q
    BY <1>2, <1>6 DEF Commit
  <1>8. s \in Members(heap[1]) /\ Differ(heap[1].participants[s], q.participants[s], fact)
    BY <1>7, ChangedFacts
  <1>9. /\ q.participants[s].name = heap[1].participants[s].name
        /\ q.participants[s].role = heap[1].participants[s].role
    BY <1>2, <1>5, <1>8, NewRoundKeepsSeats
  <1>10. fact = "hasVoted"
    BY <1>8, <1>9 DEF Differ
  <1>11. Tells(Plain("round_reset"), s, fact)
    BY <1>10 DEF Tells, Plain
  <1> QED BY <1>6, <1>11, Announcing DEF Tell

\* A rename (ws.go:392) changes one name and goes on to announce it.
LEMMA UpdateNameTells ==
  ASSUME TypeInv, NEW c \in Conn, job[c].room = 1, HandleUpdateName(c),
         NEW s, NEW fact, <<s, fact>> \in Changed(heap[1], heap'[1])
  PROVE  Tell(c, s, fact)
PROOF
  <1> DEFINE me == sid[c]
             raw == job[c].event.name
             m == NameUpdated(me, displayName[raw])
  <1>1. Locked(c, "update_name")
    BY DEF HandleUpdateName
  <1>2. /\ IsRoom(heap[1]) /\ RoomOf(c) = heap[1] /\ heap' # heap
        /\ \A r : Becomes(c, r) => heap'[1] = r
    BY <1>1, Changing
  <1>3. PICK q : q = AfterUpdateName(heap[1], me, raw, now)
    OBVIOUS
  <1>4. CanUpdateName(heap[1], me, raw) /\ Commit(c, q, <<m>>)
    BY <1>2, <1>3 DEF HandleUpdateName, Refuse
  <1>5. heap'[1] = q /\ me \in Members(heap[1])
    BY <1>2, <1>4 DEF Commit, CanUpdateName
  <1>6. \A k \in Members(heap[1]) \ {me} : q.participants[k] = heap[1].participants[k]
    BY <1>2, <1>3, <1>5, OthersKeepNames
  <1>7. /\ q.participants[me].vote = heap[1].participants[me].vote
        /\ q.participants[me].role = heap[1].participants[me].role
    BY <1>2, <1>3, <1>5, UpdateNameEffect
  <1>8. s = me /\ Differ(heap[1].participants[s], q.participants[s], fact)
    BY <1>5, <1>6, OneChanged, ChangedFacts
  <1>9. fact = "name"
    BY <1>7, <1>8 DEF Differ
  <1>10. Tells(m, s, fact)
    BY <1>8, <1>9 DEF Tells, NameUpdated
  <1> QED BY <1>4, <1>10, Announcing DEF Tell

\* The card an observer gives up is the one thing that is not told.
LEMMA UpdateRoleTells ==
  ASSUME TypeInv, NEW c \in Conn, job[c].room = 1, HandleUpdateRole(c),
         NEW s, NEW fact, <<s, fact>> \in Changed(heap[1], heap'[1])
  PROVE  Tell(c, s, fact) \/ LeftUntold(c, <<s, fact>>)
PROOF
  <1> DEFINE me == sid[c]
             role == job[c].event.role
             m == RoleUpdated(me, role)
  <1>1. Locked(c, "update_role")
    BY DEF HandleUpdateRole
  <1>2. /\ IsRoom(heap[1]) /\ RoomOf(c) = heap[1] /\ heap' # heap
        /\ \A r : Becomes(c, r) => heap'[1] = r
    BY <1>1, Changing
  <1>3. PICK q : q = AfterUpdateRole(heap[1], me, role, now)
    OBVIOUS
  <1>4. CanUpdateRole(heap[1], me, role) /\ Commit(c, q, <<m>>)
    BY <1>2, <1>3 DEF HandleUpdateRole, Refuse
  <1>5. heap'[1] = q /\ me \in Members(heap[1])
    BY <1>2, <1>4 DEF Commit, CanUpdateRole
  <1>6. /\ \A k \in Members(heap[1]) \ {me} :
             q.participants[k] = heap[1].participants[k]
        /\ q.participants[me].role = role
        /\ q.participants[me].vote = CardKept(role, heap[1].participants[me].vote)
    BY <1>2, <1>3, <1>5, UpdateRoleEffect
  <1>7. q.participants[me].name = heap[1].participants[me].name
    BY <1>2, <1>3, <1>5, NamesKept
  <1>8. s = me /\ Differ(heap[1].participants[s], q.participants[s], fact)
    BY <1>5, <1>6, OneChanged, ChangedFacts
  <1>9. fact = "role" \/ (fact = "hasVoted" /\ role = "observer")
    BY <1>6, <1>7, <1>8 DEF Differ, CardKept
  <1>10. CASE fact = "role"
    <2>1. Tells(m, s, fact)
      BY <1>8, <1>10 DEF Tells, RoleUpdated
    <2> QED BY <1>4, <2>1, Announcing DEF Tell
  <1>11. CASE fact = "hasVoted" /\ role = "observer"
    BY <1>1, <1>5, <1>6, <1>8, <1>11 DEF LeftUntold, Locked
  <1> QED BY <1>9, <1>10, <1>11

\* Presence is no fact of those.
LEMMA PresenceTells ==
  ASSUME TypeInv, NEW c \in Conn, job[c].room = 1, HandlePresence(c)
  PROVE  Changed(heap[1], heap'[1]) = {}
PROOF
  <1> SUFFICES ASSUME NEW e \in Changed(heap[1], heap'[1]) PROVE FALSE
    OBVIOUS
  <1> DEFINE me == sid[c]
             status == job[c].event.status
  <1>1. Locked(c, "presence")
    BY DEF HandlePresence
  <1>2. /\ IsRoom(heap[1]) /\ RoomOf(c) = heap[1] /\ heap' # heap
        /\ \A r : Becomes(c, r) => heap'[1] = r
        /\ e = <<e[1], e[2]>>
    BY <1>1, Changing
  <1>3. PICK q : q = AfterUpdatePresence(heap[1], me, status, now)
    OBVIOUS
  <1>4. CanUpdatePresence(heap[1], me, status) /\ Becomes(c, q)
    BY <1>2, <1>3 DEF HandlePresence, Refuse, Commit
  <1>5. heap'[1] = q /\ me \in Members(heap[1])
    BY <1>2, <1>4 DEF CanUpdatePresence
  <1>6. \A k \in Members(heap[1]) :
          /\ q.participants[k].vote = heap[1].participants[k].vote
          /\ q.participants[k].role = heap[1].participants[k].role
    BY <1>2, <1>3, <1>5, UpdatePresenceEffect
  <1>7. \A k \in Members(heap[1]) :
          q.participants[k].name = heap[1].participants[k].name
    BY <1>2, <1>3, <1>5, NamesKept
  <1>8. /\ e[1] \in Members(heap[1])
        /\ Differ(heap[1].participants[e[1]], q.participants[e[1]], e[2])
    <2>1. <<e[1], e[2]>> \in Changed(heap[1], q)
      BY <1>2, <1>5
    <2> QED BY <2>1, ChangedFacts
  <1> QED BY <1>6, <1>7, <1>8 DEF Differ

\* The others change nobody who stays.
LEMMA OthersTell ==
  ASSUME TypeInv, NEW c \in Conn, job[c].room = 1,
         \/ HandleReveal(c) \/ HandleClearRoom(c) \/ HandleTimerSetDuration(c)
         \/ HandleTimerStart(c) \/ HandleTimerReset(c) \/ HandleLeave(c)
  PROVE  Changed(heap[1], heap'[1]) = {}
PROOF
  <1> SUFFICES ASSUME NEW e \in Changed(heap[1], heap'[1]) PROVE FALSE
    OBVIOUS
  <1>1. ASSUME NEW kind, Locked(c, kind)
        PROVE  /\ IsRoom(heap[1]) /\ RoomOf(c) = heap[1] /\ heap' # heap
               /\ \A r : Becomes(c, r) => heap'[1] = r
    BY <1>1, Changing
  <1>2. ASSUME NEW q, heap'[1] = q, q.participants = heap[1].participants
        PROVE  FALSE
    BY <1>2, SameParticipants
  <1>3. CASE HandleReveal(c)
    <2>1. Locked(c, "reveal")
      BY <1>3 DEF HandleReveal
    <2>2. heap'[1] = AfterReveal(heap[1], now)
      BY <1>1, <1>3, <2>1 DEF HandleReveal, Commit, Refuse
    <2> QED BY <1>1, <1>2, <2>1, <2>2, RevealEffect
  <1>4. CASE HandleClearRoom(c)
    <2>1. Locked(c, "clear_room")
      BY <1>4 DEF HandleClearRoom
    <2>2. heap'[1] = AfterClearRoom(heap[1], now)
      BY <1>1, <1>4, <2>1 DEF HandleClearRoom
    <2>3. Members(heap'[1]) = {}
      BY <2>2, ClearRoomEffect
    <2> QED BY <2>3, NobodyChanged
  <1>5. CASE HandleTimerSetDuration(c)
    <2>1. Locked(c, "timer_set_duration")
      BY <1>5 DEF HandleTimerSetDuration
    <2>2. heap'[1] = AfterSetTimerDuration(heap[1], job[c].event.duration, now)
      BY <1>1, <1>5, <2>1 DEF HandleTimerSetDuration, Commit, Refuse
    <2> QED BY <1>1, <1>2, <2>1, <2>2, SetTimerDurationEffect
  <1>6. CASE HandleTimerStart(c)
    <2>1. Locked(c, "timer_start")
      BY <1>6 DEF HandleTimerStart
    <2>2. heap'[1] = AfterStartTimer(heap[1], now)
      BY <1>1, <1>6, <2>1 DEF HandleTimerStart, Commit, Ignore
    <2> QED BY <1>1, <1>2, <2>1, <2>2, StartTimerEffect
  <1>7. CASE HandleTimerReset(c)
    <2>1. Locked(c, "timer_reset")
      BY <1>7 DEF HandleTimerReset
    <2>2. heap'[1] = AfterResetTimer(heap[1], now)
      BY <1>1, <1>7, <2>1 DEF HandleTimerReset, Commit, Ignore
    <2> QED BY <1>1, <1>2, <2>1, <2>2, ResetTimerEffect
  <1>8. CASE HandleLeave(c)
    <2>1. Locked(c, "leave")
      BY <1>8 DEF HandleLeave
    <2>2. PICK q : q = AfterLeave(heap[1], sid[c], now)
      OBVIOUS
    <2>3. heap'[1] = q
      BY <1>1, <1>8, <2>1, <2>2 DEF HandleLeave
    <2>4. e = <<e[1], e[2]>>
      BY <2>1, Changing
    <2>5. /\ e[1] \in Members(q)
          /\ Differ(heap[1].participants[e[1]], q.participants[e[1]], e[2])
      <3>1. <<e[1], e[2]>> \in Changed(heap[1], q)
        BY <2>3, <2>4
      <3> QED BY <3>1, ChangedFacts
    <2>6. q.participants[e[1]] = heap[1].participants[e[1]]
      BY <1>1, <2>1, <2>2, <2>5, LeaveEffect
    <2> QED BY <2>5, <2>6 DEF Differ
  <1> QED BY <1>3, <1>4, <1>5, <1>6, <1>7, <1>8

(***************************************************************************)
(* All steps of the server.                                                *)
(***************************************************************************)
\* The one room of an instance is the first that is made.
LEMMA TheRoom ==
  ASSUME TypeInv
  PROVE  1 \in RoomId /\ DOMAIN heap = RoomId /\ IsRoom(heap[1])
PROOF
  <1>1. 1 \in RoomId
    BY RoomIds DEF RoomId
  <1> QED BY <1>1 DEF TypeInv, RoomsOK

\* Whoever joins anew or again may be another: that is not told.
LEMMA JoinTells ==
  ASSUME TypeInv, NEW c \in Conn, Join(c),
         NEW s, NEW fact, <<s, fact>> \in Changed(heap[1], heap'[1])
  PROVE  LeftUntold(c, <<s, fact>>)
PROOF
  <1> DEFINE ev == job[c].event
             me == ev.session
  <1>1. pc[c] = "join"
    BY DEF Join
  <1>2. /\ DOMAIN heap = RoomId /\ 1 \in RoomId /\ pc \in [Conn -> Places]
        /\ sid \in [Conn -> Session \cup {""}]
    BY TheRoom DEF TypeInv, ConnsOK
  <1>3. heap'[1] # heap[1]
    BY NothingChanged
  <1>4. PICK q : q = AfterJoin(RoomOf(c), me, ev.name, ev.role, now)
    OBVIOUS
  <1>5. /\ heap' = [heap EXCEPT ![job[c].room] = q]
        /\ sid' = [sid EXCEPT ![c] = me] /\ Goto(c, "register")
    BY <1>3, <1>4 DEF Join, RoomOf
  <1>6. job[c].room = 1 /\ IsRoom(heap[1])
    BY <1>3, <1>5, TheRoom
  <1>7. heap'[1] = q /\ q = AfterJoin(heap[1], me, ev.name, ev.role, now)
    BY <1>2, <1>4, <1>5, <1>6 DEF RoomOf
  <1>8. \A m \in Members(heap[1]) \ {me} : q.participants[m] = heap[1].participants[m]
    BY <1>6, <1>7, JoinEffect
  <1>9. s = me
    BY <1>7, <1>8, OneChanged
  <1>10. pc'[c] = "register" /\ sid'[c] = me
    BY <1>2, <1>5 DEF Goto
  <1> QED BY <1>1, <1>9, <1>10 DEF LeftUntold

\* All other steps tell everything, because they change nothing of the kind.
LEMMA TheRestTells ==
  ASSUME TypeInv, NEW c \in Conn,
         \/ Connect(c) \/ ReceiveGarbage(c)
         \/ \E q \in Request : ReceiveJoin(c, q) \/ Receive(c, q)
         \/ GetOrCreateRoom(c) \/ RegisterClient(c) \/ BuildRoomState(c)
         \/ Welcome(c) \/ Forget(c) \/ Snapshot(c)
         \/ \E d \in Conn : SendOne(c, d)
         \/ MarkDisconnected(c) \/ Bye(c)
         \/ ReadFails(c) \/ RateLimited(c) \/ PumpStops(c)
  PROVE  Changed(heap[1], heap'[1]) = {}
PROOF
  <1> SUFFICES ASSUME NEW e \in Changed(heap[1], heap'[1]) PROVE FALSE
    OBVIOUS
  <1>1. heap'[1] # heap[1]
    BY NothingChanged
  <1>2. CASE GetOrCreateRoom(c)
    <2>1. \E i : heap' = [heap EXCEPT ![i] = NewRoom(now)]
      BY <1>1, <1>2 DEF GetOrCreateRoom
    <2>2. PICK i : heap' = [heap EXCEPT ![i] = NewRoom(now)]
      BY <2>1
    <2>3. heap'[1] = NewRoom(now)
      BY <1>1, <2>2, TheRoom
    <2>4. Members(heap'[1]) = {}
      BY <2>3 DEF Members, NewRoom
    <2> QED BY <2>4, NobodyChanged
  <1>3. CASE BuildRoomState(c)
    <2>1. heap' = [heap EXCEPT ![job[c].room] = AfterTimerInfo(heap[job[c].room], now)]
      BY <1>3 DEF BuildRoomState
    <2>2. heap'[1] = AfterTimerInfo(heap[1], now)
      BY <1>1, <2>1, TheRoom
    <2>3. heap'[1].participants = heap[1].participants
      BY <2>2, TheRoom DEF AfterTimerInfo, IsRoom
    <2> QED BY <2>3, SameParticipants
  <1>4. CASE MarkDisconnected(c)
    <2>1. heap' = [heap EXCEPT ![job[c].room] =
                     AfterDisconnect(heap[job[c].room], sid[c])]
      BY <1>4 DEF MarkDisconnected, Becomes, RoomOf
    <2>2. PICK q : q = AfterDisconnect(heap[1], sid[c])
      OBVIOUS
    <2>3. heap'[1] = q
      BY <1>1, <2>1, <2>2, TheRoom
    <2>4. sid[c] \in Members(heap[1])
      BY <1>1, <2>2, <2>3 DEF AfterDisconnect
    <2>5. \A k \in Members(heap[1]) :
            /\ q.participants[k].vote = heap[1].participants[k].vote
            /\ q.participants[k].role = heap[1].participants[k].role
      BY <2>2, <2>4, TheRoom, DisconnectEffect
    <2>6. \A k \in Members(heap[1]) :
            q.participants[k].name = heap[1].participants[k].name
      BY <2>2, <2>4, TheRoom, NamesKept
    <2>7. e = <<e[1], e[2]>>
      <3>1. e \in (Members(heap[1]) \cap Members(heap'[1])) \X Facts
        BY DEF Changed
      <3> QED BY <3>1
    <2>8. /\ e[1] \in Members(heap[1])
          /\ Differ(heap[1].participants[e[1]], q.participants[e[1]], e[2])
      <3>1. <<e[1], e[2]>> \in Changed(heap[1], q)
        BY <2>3, <2>7
      <3> QED BY <3>1, ChangedFacts
    <2> QED BY <2>5, <2>6, <2>8 DEF Differ
  <1>5. CASE \/ Connect(c) \/ ReceiveGarbage(c)
             \/ \E q \in Request : ReceiveJoin(c, q) \/ Receive(c, q)
             \/ RegisterClient(c) \/ Welcome(c) \/ Forget(c) \/ Snapshot(c)
             \/ \E d \in Conn : SendOne(c, d)
    BY <1>1, <1>5 DEF Connect, ReceiveGarbage, ReceiveJoin, Receive, Read,
       RegisterClient, Welcome, Forget, Snapshot, SendOne
  <1>6. CASE Bye(c) \/ ReadFails(c) \/ RateLimited(c) \/ PumpStops(c)
    BY <1>1, <1>6 DEF Bye, ReadFails, RateLimited, CleanUp, PumpStops
  <1> QED BY <1>2, <1>3, <1>4, <1>5, <1>6

\* What becomes untold in a step of the server is one of the two exceptions.
LEMMA WorkTells ==
  ASSUME TypeInv, Work, NEW e \in untold' \ untold
  PROVE  \E c \in Conn : LeftUntold(c, e)
PROOF
  <1>1. /\ e \in Changed(heap[1], heap'[1])
        /\ \A c \in Conn : ~Tell(c, e[1], e[2])
    BY DEF Work, Tell
  <1>2. e = <<e[1], e[2]>>
    <2>1. e \in (Members(heap[1]) \cap Members(heap'[1])) \X Facts
      BY <1>1 DEF Changed
    <2> QED BY <2>1
  <1>3. PICK s, fact : e = <<s, fact>> /\ s = e[1] /\ fact = e[2]
    BY <1>2
  <1>4. heap'[1] # heap[1]
    BY <1>1, NothingChanged
  <1>5. PICK c \in Conn :
          \/ Connect(c) \/ ReceiveGarbage(c)
          \/ \E q \in Request : ReceiveJoin(c, q) \/ Receive(c, q)
          \/ Handle(c)
          \/ ReadFails(c) \/ RateLimited(c) \/ PumpStops(c)
    BY <1>4 DEF Work, Serve, CollectCandidates, DeleteCandidates, Tick
  <1>6. CASE Join(c)
    BY <1>1, <1>3, <1>6, JoinTells
  <1>7. CASE \/ HandleVote(c) \/ HandleReveal(c) \/ HandleNewRound(c)
             \/ HandleClearRoom(c) \/ HandleUpdateName(c)
             \/ HandlePresence(c) \/ HandleUpdateRole(c)
             \/ HandleTimerSetDuration(c) \/ HandleTimerStart(c)
             \/ HandleTimerReset(c) \/ HandleLeave(c)
    <2>1. HandlerStep(c)
      BY <1>7, VoteHandled, RevealHandled, NewRoundHandled, ClearRoomHandled,
         UpdateNameHandled, PresenceHandled, UpdateRoleHandled, TimerHandled,
         LeaveHandled
    <2>2. job[c].room = 1
      BY <1>4, <2>1, TheRoom DEF HandlerStep
    <2>3. Tell(c, s, fact) \/ LeftUntold(c, <<s, fact>>)
      BY <1>1, <1>3, <1>7, <2>2, VoteTells, NewRoundTells, UpdateNameTells,
         UpdateRoleTells, PresenceTells, OthersTell
    <2> QED BY <1>1, <1>3, <2>3
  <1>8. CASE ~(Join(c) \/ HandleVote(c) \/ HandleReveal(c) \/ HandleNewRound(c)
               \/ HandleClearRoom(c) \/ HandleUpdateName(c)
               \/ HandlePresence(c) \/ HandleUpdateRole(c)
               \/ HandleTimerSetDuration(c) \/ HandleTimerStart(c)
               \/ HandleTimerReset(c) \/ HandleLeave(c))
    BY <1>1, <1>5, <1>8, TheRestTells DEF Handle
  <1> QED BY <1>6, <1>7, <1>8

\* Whatever the instance, however handlers overlap and connections come and
\* go, a change of name, role or hand is announced by the handler that makes
\* it, but for a session that joins again and the card an observer gives up
\* (ws.go:263, ws.go:495).
THEOREM WhatIsUntold == PokerSpec => LittleIsUntold
PROOF
  <1>1. PokerInit => TypeInv
    BY InitOK DEF PokerInit
  <1>2. [PokerNext]_pokerVars => [Next]_vars
    <2>1. Work => Next
      BY DEF Work, Next
    <2>2. ASSUME NEW c \in Conn, Hear(c) PROVE Next
      BY <2>2 DEF Hear, Next
    <2>3. UNCHANGED pokerVars => UNCHANGED vars
      BY DEF pokerVars
    <2> QED BY <2>1, <2>2, <2>3 DEF PokerNext
  <1>3. TypeInv /\ [PokerNext]_pokerVars => TypeInv'
    BY <1>2, TypeStep
  <1>4. ASSUME TypeInv, [PokerNext]_pokerVars, NEW e \in untold' \ untold
        PROVE  \E c \in Conn : LeftUntold(c, e)
    <2>1. Work
      BY <1>4 DEF PokerNext, Hear, pokerVars
    <2> QED BY <1>4, <2>1, WorkTells
  <1>5. TypeInv /\ [PokerNext]_pokerVars =>
          [\A e \in untold' \ untold : \E c \in Conn :
             \/ pc[c] = "join" /\ pc'[c] = "register" /\ sid'[c] = e[1]
             \/ /\ pc[c] = "handle" /\ job[c].event.kind = "update_role"
                /\ e = <<sid[c], "hasVoted">>
                /\ heap'[1].participants[e[1]].role = "observer"]_pokerVars
    BY <1>4 DEF LeftUntold
  <1> QED BY <1>1, <1>3, <1>5, PTL DEF PokerSpec, LittleIsUntold

(***************************************************************************)
(* What a tab shows of a room.                                             *)
(***************************************************************************)
\* A view with a room in it, of the participants S.
Sight(S) == [known : {TRUE}, phase : Phases, votes : Cards,
             participants : [S -> Seat], timer : Countdown]

\* The seat a of a view is right about the participant b in one fact.
Right(a, b, fact) ==
  /\ fact = "name" => a.name = b.name
  /\ fact = "role" => a.role = b.role
  /\ fact = "hasVoted" => (a.hasVoted <=> b.vote # "")

\* The phase and the cards on the table of v are those of the room r.
SameTable(v, r) ==
  /\ v.phase = r.phase
  /\ r.phase = "voting" => v.votes = {}
  /\ r.phase = "reveal" => ResultVotes(r) \subseteq v.votes

\* The countdown told is that of the room.
SameClock(a, b) ==
  a.duration = b.duration /\ (a.state = "idle" <=> b.state = "idle")

\* v shows the room r, but for the facts in U: what Agrees says, with the
\* facts as a parameter.
Shows(v, r, U) ==
  /\ v \in Sight(Members(r))
  /\ SameTable(v, r)
  /\ SameClock(v.timer, r.timer)
  /\ \A s \in Members(r) : v.participants[s].status = r.participants[s].status
  /\ \A s \in Members(r), fact \in Facts :
       Right(v.participants[s], r.participants[s], fact) \/ <<s, fact>> \in U

\* A view that shows the room but for what is untold agrees with it.
LEMMA ShowsAgrees ==
  ASSUME NEW v, NEW r, IsRoom(r), Shows(v, r, untold)
  PROVE  Agrees(v, r)
PROOF
  <1>1. v \in Sight(Members(r))
    BY DEF Shows
  <1>2. v.known /\ DOMAIN v.participants = Members(r)
        /\ \A s \in Members(r) : v.participants[s] \in Seat
    BY <1>1 DEF Sight
  <1>3. ASSUME NEW s \in Members(r)
        PROVE  LET a == v.participants[s]
                   b == r.participants[s]
               IN  /\ a.status = b.status
                   /\ a.name = b.name \/ <<s, "name">> \in untold
                   /\ a.role = b.role \/ <<s, "role">> \in untold
                   /\ a.hasVoted = (b.vote # "") \/ <<s, "hasVoted">> \in untold
    <2>1. v.participants[s].hasVoted \in BOOLEAN
      BY <1>2 DEF Seat
    <2>2. \A fact \in Facts :
            Right(v.participants[s], r.participants[s], fact) \/ <<s, fact>> \in untold
      BY DEF Shows
    <2>3. "name" \in Facts /\ "role" \in Facts /\ "hasVoted" \in Facts
      BY DEF Facts
    <2> QED BY <2>1, <2>2, <2>3 DEF Right, Shows
  <1> QED BY <1>2, <1>3 DEF Agrees, Shows, SameTable, SameClock

\* Other facts excused do no harm.
LEMMA ShowsMore ==
  ASSUME NEW v, NEW r, NEW U, NEW W, U \subseteq W, Shows(v, r, U)
  PROVE  Shows(v, r, W)
  BY DEF Shows

(***************************************************************************)
(* How a view is reduced.                                                  *)
(***************************************************************************)
LEMMA SilentReduced ==
  ASSUME NEW v, NEW m, m.type \in {"error", "room_cleared"}
  PROVE  Reduced(v, m) = v
  BY DEF Reduced, Announced

\* One field of a seat replaced: the others stay, and it is a seat still.
LEMMA SeatFields ==
  ASSUME NEW a \in Seat
  PROVE  /\ \A x \in Name : /\ [a EXCEPT !["name"] = x] \in Seat
                            /\ [a EXCEPT !["name"] = x].name = x
                            /\ [a EXCEPT !["name"] = x].role = a.role
                            /\ [a EXCEPT !["name"] = x].status = a.status
                            /\ [a EXCEPT !["name"] = x].hasVoted = a.hasVoted
         /\ \A x \in Roles : /\ [a EXCEPT !["role"] = x] \in Seat
                            /\ [a EXCEPT !["role"] = x].name = a.name
                            /\ [a EXCEPT !["role"] = x].role = x
                            /\ [a EXCEPT !["role"] = x].status = a.status
                            /\ [a EXCEPT !["role"] = x].hasVoted = a.hasVoted
         /\ \A x \in Statuses : /\ [a EXCEPT !["status"] = x] \in Seat
                            /\ [a EXCEPT !["status"] = x].name = a.name
                            /\ [a EXCEPT !["status"] = x].role = a.role
                            /\ [a EXCEPT !["status"] = x].status = x
                            /\ [a EXCEPT !["status"] = x].hasVoted = a.hasVoted
         /\ \A x \in BOOLEAN : /\ [a EXCEPT !["hasVoted"] = x] \in Seat
                            /\ [a EXCEPT !["hasVoted"] = x].name = a.name
                            /\ [a EXCEPT !["hasVoted"] = x].role = a.role
                            /\ [a EXCEPT !["hasVoted"] = x].status = a.status
                            /\ [a EXCEPT !["hasVoted"] = x].hasVoted = x
  BY DEF Seat

\* An announcement about one participant, in one field of its seat.
LEMMA FieldReduced ==
  ASSUME NEW S, NEW v \in Sight(S), NEW s
  PROVE  /\ Reduced(v, About("vote_cast", s)) = Update(v, s, "hasVoted", TRUE)
         /\ Reduced(v, About("vote_retracted", s)) = Update(v, s, "hasVoted", FALSE)
         /\ \A x : Reduced(v, NameUpdated(s, x)) = Update(v, s, "name", x)
         /\ \A x : Reduced(v, RoleUpdated(s, x)) = Update(v, s, "role", x)
         /\ \A x : Reduced(v, Presence(s, x)) = Update(v, s, "status", x)
PROOF
  <1>1. v.known
    BY DEF Sight
  <1>3. Reduced(v, About("vote_cast", s)) = Update(v, s, "hasVoted", TRUE)
    BY <1>1 DEF Reduced, Announced, About
  <1>4. Reduced(v, About("vote_retracted", s)) = Update(v, s, "hasVoted", FALSE)
    BY <1>1 DEF Reduced, Announced, About
  <1>5. \A x : Reduced(v, NameUpdated(s, x)) = Update(v, s, "name", x)
    BY <1>1 DEF Reduced, Announced, NameUpdated
  <1>6. \A x : Reduced(v, RoleUpdated(s, x)) = Update(v, s, "role", x)
    BY <1>1 DEF Reduced, Announced, RoleUpdated
  <1>7. \A x : Reduced(v, Presence(s, x)) = Update(v, s, "status", x)
    BY <1>1 DEF Reduced, Announced, Presence
  <1> QED BY <1>3, <1>4, <1>5, <1>6, <1>7

\* What the announcement of a newcomer makes of a view that has no seat for it.
LEMMA JoinedReduced ==
  ASSUME NEW S, NEW v \in Sight(S), NEW s, s \notin S, NEW p \in Participant,
         NEW w, w = Reduced(v, Joined(s, p))
  PROVE  /\ w \in Sight(S \cup {s})
         /\ w.phase = v.phase /\ w.votes = v.votes /\ w.timer = v.timer
         /\ \A q \in S : w.participants[q] = v.participants[q]
         /\ w.participants[s] = [name |-> p.name, status |-> "active",
                                 role |-> p.role, hasVoted |-> FALSE]
PROOF
  <1> DEFINE a == [name |-> p.name, status |-> "active", role |-> p.role,
                   hasVoted |-> FALSE]
             ps == Put(v.participants, s, a)
  <1>1. v.known /\ DOMAIN v.participants = S /\ \A q \in S : v.participants[q] \in Seat
    BY DEF Sight
  <1>2. w = [v EXCEPT !.participants = ps]
    BY <1>1 DEF Reduced, Announced, Joined
  <1>3. a \in Seat
    BY DEF Seat, Participant, Statuses
  <1> HIDE DEF a
  <1>4. /\ ps \in [S \cup {s} -> Seat]
        /\ \A q \in S : ps[q] = v.participants[q]
        /\ ps[s] = a
    BY <1>1, <1>3 DEF Put
  <1> HIDE DEF ps
  <1>5. /\ w \in Sight(S \cup {s}) /\ w.participants = ps
        /\ w.phase = v.phase /\ w.votes = v.votes /\ w.timer = v.timer
    BY <1>2, <1>4 DEF Sight
  <1> QED BY <1>4, <1>5 DEF a

\* participant_left takes one participant out of the view.
LEMMA LeftReduced ==
  ASSUME NEW S, NEW v \in Sight(S), NEW s, NEW w,
         w = Reduced(v, About("participant_left", s))
  PROVE  /\ w \in Sight(S \ {s})
         /\ w.phase = v.phase /\ w.votes = v.votes /\ w.timer = v.timer
         /\ \A q \in S \ {s} : w.participants[q] = v.participants[q]
PROOF
  <1> DEFINE ps == Restrict(v.participants, DOMAIN v.participants \ {s})
  <1>1. v.known /\ DOMAIN v.participants = S /\ \A q \in S : v.participants[q] \in Seat
    BY DEF Sight
  <1>2. w = [v EXCEPT !.participants = ps]
    BY <1>1 DEF Reduced, Announced, About
  <1>3. ps \in [S \ {s} -> Seat] /\ \A q \in S \ {s} : ps[q] = v.participants[q]
    BY <1>1 DEF Restrict
  <1> HIDE DEF ps
  <1> QED BY <1>2, <1>3 DEF Sight

\* votes_revealed turns the cards over, and touches no participant.
LEMMA RevealedReduced ==
  ASSUME NEW S, NEW v \in Sight(S), NEW r, IsRoom(r), NEW ballot, NEW w,
         w = Reduced(v, VotesRevealed(r, ballot))
  PROVE  /\ w \in Sight(S)
         /\ w.phase = "reveal" /\ w.votes = ResultVotes(r)
         /\ w.timer = v.timer /\ w.participants = v.participants
PROOF
  <1>1. v.known
    BY DEF Sight
  <1>2. w = [v EXCEPT !.phase = "reveal", !.votes = ResultVotes(r)]
    BY <1>1 DEF Reduced, Announced, VotesRevealed
  <1>3. ResultVotes(r) \in Cards
    BY CardsOK
  <1> QED BY <1>2, <1>3 DEF Sight, Phases

\* round_reset empties the table and all hands.
LEMMA ResetReduced ==
  ASSUME NEW S, NEW v \in Sight(S), NEW w, w = Reduced(v, Plain("round_reset"))
  PROVE  /\ w \in Sight(S)
         /\ w.phase = "voting" /\ w.votes = {} /\ w.timer = v.timer
         /\ \A q \in S :
              w.participants[q] = [v.participants[q] EXCEPT !["hasVoted"] = FALSE]
PROOF
  <1> DEFINE ps == [q \in DOMAIN v.participants |->
                      [v.participants[q] EXCEPT !["hasVoted"] = FALSE]]
  <1>1. v.known /\ DOMAIN v.participants = S /\ \A q \in S : v.participants[q] \in Seat
    BY DEF Sight
  <1>2. w = [v EXCEPT !.phase = "voting", !.votes = {}, !.participants = ps]
    BY <1>1 DEF Reduced, Announced, Plain
  <1>3. \A q \in S : ps[q] \in Seat
    BY <1>1, SeatFields
  <1>4. /\ ps \in [S -> Seat]
        /\ \A q \in S : ps[q] = [v.participants[q] EXCEPT !["hasVoted"] = FALSE]
    BY <1>1, <1>3
  <1> HIDE DEF ps
  <1>5. {} \in Cards
    BY DEF Cards
  <1>6. w \in Sight(S) /\ w.participants = ps
        /\ w.phase = "voting" /\ w.votes = {} /\ w.timer = v.timer
    BY <1>2, <1>4, <1>5 DEF Sight, Phases
  <1> QED BY <1>4, <1>6

\* timer_updated replaces the timer and nothing else.
LEMMA TimerReduced ==
  ASSUME NEW S, NEW v \in Sight(S), NEW r, IsRoom(r), NEW t \in Nat, NEW w,
         w = Reduced(v, TimerUpdated(r, t))
  PROVE  /\ w \in Sight(S)
         /\ w.phase = v.phase /\ w.votes = v.votes
         /\ w.timer = TimerInfo(r, t) /\ w.participants = v.participants
PROOF
  <1>1. w = [v EXCEPT !.timer = TimerInfo(r, t)]
    BY DEF Reduced, TimerUpdated
  <1>2. TimerInfo(r, t) \in Countdown
    BY CountdownOK
  <1> QED BY <1>1, <1>2 DEF Sight

\* The countdown that is told, now or later.
LEMMA ClockTold ==
  ASSUME NEW r, IsRoom(r), NEW t \in Nat
  PROVE  SameClock(TimerInfo(r, t), r.timer)
         /\ SameClock(TimerInfo(r, t), AfterTimerInfo(r, t).timer)
PROOF
  <1>1. /\ TimerInfo(r, t).duration = AfterTimerInfo(r, t).timer.duration
        /\ TimerInfo(r, t).state = AfterTimerInfo(r, t).timer.state
    BY DEF TimerInfo
  <1>2. r.timer \in Timer
    BY DEF IsRoom
  <1>3. /\ AfterTimerInfo(r, t).timer.duration = r.timer.duration
        /\ AfterTimerInfo(r, t).timer.state = "idle" <=> r.timer.state = "idle"
    <2>1. CASE TimeIsUp(r, t)
      BY <2>1, TimerInfoEffect DEF TimeIsUp
    <2>2. CASE ~TimeIsUp(r, t)
      BY <2>2 DEF AfterTimerInfo
    <2> QED BY <2>1, <2>2
  <1> QED BY <1>1, <1>3 DEF SameClock

\* A room_state shows the room as it is, whatever the tab showed before.
LEMMA RoomStateReduced ==
  ASSUME NEW v, NEW r, IsRoom(r), NEW t \in Nat, NEW ballot, NEW U
  PROVE  Shows(Reduced(v, RoomState(r, t, ballot)), AfterTimerInfo(r, t), U)
PROOF
  <1> DEFINE q == AfterTimerInfo(r, t)
             seats == [s \in Members(r) |->
                        [name     |-> r.participants[s].name,
                         status   |-> r.participants[s].status,
                         role     |-> r.participants[s].role,
                         hasVoted |-> r.participants[s].vote # ""]]
             votes == IF r.phase = "reveal" THEN ResultVotes(r) ELSE {}
             w == Reduced(v, RoomState(r, t, ballot))
  <1>1. w = [known |-> TRUE, phase |-> r.phase, votes |-> votes,
             participants |-> seats, timer |-> TimerInfo(r, t)]
    BY DEF Reduced, RoomState
  <1>2. /\ seats \in [Members(r) -> Seat]
        /\ \A s \in Members(r) :
             /\ seats[s].status = r.participants[s].status
             /\ \A fact \in Facts : Right(seats[s], r.participants[s], fact)
    BY MemberOK DEF Participant, Seat, Right
  <1>3. votes \in Cards /\ r.phase \in Phases /\ TimerInfo(r, t) \in Countdown
    BY CardsOK, CountdownOK DEF Cards, IsRoom
  <1>4. q.phase = r.phase /\ q.participants = r.participants
    BY DEF AfterTimerInfo, IsRoom
  <1>5. Members(q) = Members(r) /\ ResultVotes(q) = ResultVotes(r)
    BY <1>4 DEF Members, ResultVotes
  <1>6. SameClock(TimerInfo(r, t), q.timer)
    BY ClockTold
  <1>7. r.phase = "voting" => votes = {}
    OBVIOUS
  <1>8. r.phase = "reveal" => votes = ResultVotes(r)
    OBVIOUS
  <1> HIDE DEF q, seats, votes, w
  <1>9. w \in Sight(Members(q))
    BY <1>1, <1>2, <1>3, <1>5 DEF Sight
  <1>10. SameTable(w, q)
    BY <1>1, <1>4, <1>5, <1>7, <1>8 DEF SameTable
  <1>11. Shows(w, q, U)
    BY <1>1, <1>2, <1>4, <1>5, <1>6, <1>9, <1>10 DEF Shows
  <1> QED BY <1>11 DEF q, w

(***************************************************************************)
(* Operations, what is said of them, and what a view makes of that.        *)
(***************************************************************************)
LEMMA DifferChanged ==
  ASSUME NEW r, NEW q, NEW s \in Members(r) \cap Members(q), NEW fact \in Facts,
         Differ(r.participants[s], q.participants[s], fact)
  PROVE  <<s, fact>> \in Changed(r, q)
  BY DEF Changed, Facts, Differ

\* What is untold once msgs are told of the change from r to q.
StillUntold(U, r, q, msgs) ==
  {e \in U \cup Changed(r, q) :
     /\ e[1] \in Members(q)
     /\ \A n \in DOMAIN msgs : ~Tells(msgs[n], e[1], e[2])}

\* A view that has heard msgs, of which there are at most two.
Heard(v, msgs) ==
  CASE Len(msgs) = 0 -> v
    [] Len(msgs) = 1 -> Reduced(v, msgs[1])
    [] Len(msgs) = 2 -> Reduced(Reduced(v, msgs[1]), msgs[2])

\* Who showed r and hears msgs shows q.
Follows(r, q, msgs) ==
  \A v, U : Shows(v, r, U) => Shows(Heard(v, msgs), q, StillUntold(U, r, q, msgs))

\* What a view becomes by none, one or two messages.
LEMMA HeardFew ==
  ASSUME NEW v
  PROVE  /\ Heard(v, <<>>) = v
         /\ \A m : Heard(v, <<m>>) = Reduced(v, m)
         /\ \A m, k : Heard(v, <<m, k>>) = Reduced(Reduced(v, m), k)
PROOF
  <1>1. Len(<<>>) = 0 /\ Heard(v, <<>>) = v
    BY DEF Heard
  <1>2. ASSUME NEW m PROVE Heard(v, <<m>>) = Reduced(v, m)
    <2>1. Len(<<m>>) = 1 /\ <<m>>[1] = m
      OBVIOUS
    <2> QED BY <2>1 DEF Heard
  <1>3. ASSUME NEW m, NEW k PROVE Heard(v, <<m, k>>) = Reduced(Reduced(v, m), k)
    <2>1. Len(<<m, k>>) = 2 /\ <<m, k>>[1] = m /\ <<m, k>>[2] = k
      OBVIOUS
    <2> QED BY <2>1 DEF Heard
  <1> QED BY <1>1, <1>2, <1>3

\* A fact in a view is right, or it was not, or it has become untold.
LEMMA FactFollows ==
  ASSUME NEW v, NEW w, NEW r, NEW q, NEW U, NEW msgs, Shows(v, r, U),
         NEW s \in Members(q), NEW fact \in Facts,
         \/ Right(w.participants[s], q.participants[s], fact)
         \/ /\ s \in Members(r)
            /\ \A n \in DOMAIN msgs : ~Tells(msgs[n], s, fact)
            /\ Right(v.participants[s], r.participants[s], fact)
                 /\ ~Differ(r.participants[s], q.participants[s], fact)
                 => Right(w.participants[s], q.participants[s], fact)
  PROVE  \/ Right(w.participants[s], q.participants[s], fact)
         \/ <<s, fact>> \in StillUntold(U, r, q, msgs)
PROOF
  <1> SUFFICES ASSUME ~Right(w.participants[s], q.participants[s], fact)
               PROVE  <<s, fact>> \in StillUntold(U, r, q, msgs)
    OBVIOUS
  <1>1. s \in Members(r) /\ \A n \in DOMAIN msgs : ~Tells(msgs[n], s, fact)
    OBVIOUS
  <1>2. Right(v.participants[s], r.participants[s], fact) \/ <<s, fact>> \in U
    BY <1>1 DEF Shows
  <1>3. CASE Right(v.participants[s], r.participants[s], fact)
    <2>1. Differ(r.participants[s], q.participants[s], fact)
      BY <1>3
    <2>2. <<s, fact>> \in Changed(r, q)
      BY <1>1, <2>1, DifferChanged
    <2> QED BY <1>1, <2>2 DEF StillUntold
  <1>4. CASE <<s, fact>> \in U
    BY <1>1, <1>4 DEF StillUntold
  <1> QED BY <1>2, <1>3, <1>4

\* Cards only leave the table if the others stay and one is laid down.
LEMMA FewerCards ==
  ASSUME NEW r, NEW q, NEW me, Members(q) \ {me} \subseteq Members(r),
         \A m \in Members(q) \ {me} : q.participants[m] = r.participants[m],
         \/ me \notin Members(q)
         \/ q.participants[me].role = "observer" \/ q.participants[me].vote = ""
         \/ /\ me \in Members(r) /\ r.participants[me].role # "observer"
            /\ q.participants[me].vote = r.participants[me].vote
  PROVE  ResultVotes(q) \subseteq ResultVotes(r)
PROOF
  <1>1. ASSUME NEW m \in Members(q), q.participants[m].role # "observer",
               q.participants[m].vote # ""
        PROVE  /\ m \in Members(r) /\ r.participants[m].role # "observer"
               /\ r.participants[m].vote = q.participants[m].vote
    BY <1>1
  <1>2. ASSUME NEW e \in ResultVotes(q) PROVE e \in ResultVotes(r)
    <2>1. PICK m \in Members(q) : /\ q.participants[m].role # "observer"
                                  /\ q.participants[m].vote # ""
                                  /\ e = <<m, q.participants[m].vote>>
      BY <1>2 DEF ResultVotes
    <2>2. /\ m \in Members(r) /\ r.participants[m].role # "observer"
          /\ r.participants[m].vote # "" /\ e = <<m, r.participants[m].vote>>
      BY <1>1, <2>1
    <2> QED BY <2>2 DEF ResultVotes
  <1> QED BY <1>2

\* A sequence of one message tells what that message tells.
LEMMA OneTells ==
  ASSUME NEW m, NEW s, NEW fact
  PROVE  /\ \A n \in DOMAIN <<m>> : Tells(<<m>>[n], s, fact) => Tells(m, s, fact)
         /\ \A n \in DOMAIN <<>> : ~Tells(<<>>[n], s, fact)
PROOF
  <1>1. DOMAIN <<m>> = {1} /\ <<m>>[1] = m
    OBVIOUS
  <1>2. DOMAIN <<>> = {}
    OBVIOUS
  <1> QED BY <1>1, <1>2

\* From r to q only the seat of me changes.
OneSeat(r, q, me) ==
  /\ Members(q) = Members(r) /\ q.phase = r.phase /\ q.timer = r.timer
  /\ \A m \in Members(r) \ {me} : q.participants[m] = r.participants[m]

\* From the view v of the participants S to w only the seat of me changes.
OneSeatSeen(v, w, S, me) ==
  /\ w \in Sight(S) /\ w.phase = v.phase /\ w.votes = v.votes /\ w.timer = v.timer
  /\ \A m \in S \ {me} : w.participants[m] = v.participants[m]

\* The messages tell of nobody but me, and of nothing but the facts.
TellOnly(msgs, me, facts) ==
  \A n \in DOMAIN msgs : \A s, fact : Tells(msgs[n], s, fact) => s = me /\ fact \in facts

\* No card is laid on the table after the reveal.
NoNewCards(r, q) == r.phase = "reveal" => ResultVotes(q) \subseteq ResultVotes(r)

\* The views v of r and w of q, of the seat of me: its status, the facts, and
\* the others, if they were right and have not changed.
SeatRight(v, w, r, q, me, facts) ==
  /\ w.participants[me].status = q.participants[me].status
  /\ \A fact \in facts : Right(w.participants[me], q.participants[me], fact)
  /\ \A fact \in Facts \ facts :
       Right(v.participants[me], r.participants[me], fact)
         /\ ~Differ(r.participants[me], q.participants[me], fact)
         => Right(w.participants[me], q.participants[me], fact)

\* The views of an operation on one participant.
LEMMA OneSeatFollows ==
  ASSUME NEW v, NEW w, NEW r, NEW q, NEW U, NEW msgs, Shows(v, r, U),
         NEW me \in Members(r), OneSeat(r, q, me), NoNewCards(r, q),
         OneSeatSeen(v, w, Members(r), me),
         NEW facts, TellOnly(msgs, me, facts), SeatRight(v, w, r, q, me, facts)
  PROVE  Shows(w, q, StillUntold(U, r, q, msgs))
PROOF
  <1>1. w \in Sight(Members(q))
    BY DEF OneSeat, OneSeatSeen
  <1>2. SameTable(w, q) /\ SameClock(w.timer, q.timer)
    BY DEF Shows, SameTable, OneSeat, OneSeatSeen, NoNewCards
  <1>3. ASSUME NEW s \in Members(q)
        PROVE  w.participants[s].status = q.participants[s].status
    BY <1>3 DEF Shows, OneSeat, OneSeatSeen, SeatRight
  <1>4. ASSUME NEW s \in Members(q), NEW fact \in Facts
        PROVE  \/ Right(w.participants[s], q.participants[s], fact)
               \/ <<s, fact>> \in StillUntold(U, r, q, msgs)
    <2>0. s \in Members(r)
      BY <1>4 DEF OneSeat
    <2>1. CASE s = me /\ fact \in facts
      BY <2>1 DEF SeatRight
    <2>2. CASE s = me /\ fact \notin facts
      <3>1. \A n \in DOMAIN msgs : ~Tells(msgs[n], s, fact)
        BY <2>2 DEF TellOnly
      <3>2. Right(v.participants[s], r.participants[s], fact)
              /\ ~Differ(r.participants[s], q.participants[s], fact)
              => Right(w.participants[s], q.participants[s], fact)
        BY <1>4, <2>2 DEF SeatRight
      <3> QED BY <1>4, <2>0, <3>1, <3>2, FactFollows
    <2>3. CASE s # me
      <3>1. w.participants[s] = v.participants[s] /\ q.participants[s] = r.participants[s]
        BY <2>0, <2>3 DEF OneSeat, OneSeatSeen
      <3>2. \A n \in DOMAIN msgs : ~Tells(msgs[n], s, fact)
        BY <2>3 DEF TellOnly
      <3>3. Right(v.participants[s], r.participants[s], fact)
              => Right(w.participants[s], q.participants[s], fact)
        BY <3>1
      <3> HIDE <3>1
      <3> QED BY <1>4, <2>0, <3>2, <3>3, FactFollows
    <2> QED BY <2>1, <2>2, <2>3
  <1> QED BY <1>1, <1>2, <1>3, <1>4 DEF Shows

\* A vote changes one participant's card (room.go:285).
LEMMA VoteSeat ==
  ASSUME NEW r, IsRoom(r), NEW s \in Members(r), NEW value, NEW t, NEW q,
         q = AfterCastVote(r, s, value, t)
  PROVE  /\ OneSeat(r, q, s)
         /\ q.participants[s].name = r.participants[s].name
         /\ q.participants[s].role = r.participants[s].role
         /\ q.participants[s].status = r.participants[s].status
         /\ q.participants[s].vote = value
PROOF
  <1>1. PICK p : p = [r.participants[s] EXCEPT !.vote = value]
    OBVIOUS
  <1>2. /\ q.participants = [r.participants EXCEPT ![s] = p]
        /\ q.phase = r.phase /\ q.timer = r.timer
    BY <1>1 DEF AfterCastVote, Touch, IsRoom
  <1>3. OneSeat(r, q, s) /\ q.participants[s] = p
    BY <1>2 DEF OneSeat, Members, IsRoom
  <1>4. /\ p.name = r.participants[s].name /\ p.role = r.participants[s].role
        /\ p.status = r.participants[s].status /\ p.vote = value
    BY <1>1, MemberOK DEF Participant
  <1> QED BY <1>3, <1>4

\* A rename changes one participant's name (room.go:343).
LEMMA NameSeat ==
  ASSUME NEW r, IsRoom(r), NEW s \in Members(r), NEW raw, NEW t, NEW q,
         q = AfterUpdateName(r, s, raw, t)
  PROVE  /\ OneSeat(r, q, s)
         /\ q.participants[s].name = displayName[raw]
         /\ q.participants[s].role = r.participants[s].role
         /\ q.participants[s].status = r.participants[s].status
         /\ q.participants[s].vote = r.participants[s].vote
PROOF
  <1>1. PICK p : p = [r.participants[s] EXCEPT !.name = displayName[raw]]
    OBVIOUS
  <1>2. /\ q.participants = [r.participants EXCEPT ![s] = p]
        /\ q.phase = r.phase /\ q.timer = r.timer
    BY <1>1 DEF AfterUpdateName, Touch, IsRoom
  <1>3. OneSeat(r, q, s) /\ q.participants[s] = p
    BY <1>2 DEF OneSeat, Members, IsRoom
  <1>4. /\ p.name = displayName[raw] /\ p.role = r.participants[s].role
        /\ p.status = r.participants[s].status /\ p.vote = r.participants[s].vote
    BY <1>1, MemberOK DEF Participant
  <1> QED BY <1>3, <1>4

\* A presence or a disconnect changes one status (room.go:362).
LEMMA StatusSeat ==
  ASSUME NEW r, IsRoom(r), NEW s \in Members(r), NEW status, NEW t, NEW q,
         \/ q = AfterUpdatePresence(r, s, status, t)
         \/ q = AfterDisconnect(r, s) /\ status = "disconnected"
  PROVE  /\ OneSeat(r, q, s)
         /\ q.participants[s].name = r.participants[s].name
         /\ q.participants[s].role = r.participants[s].role
         /\ q.participants[s].status = status
         /\ q.participants[s].vote = r.participants[s].vote
PROOF
  <1>1. PICK p : p = [r.participants[s] EXCEPT !.status = status]
    OBVIOUS
  <1>2. /\ q.participants = [r.participants EXCEPT ![s] = p]
        /\ q.phase = r.phase /\ q.timer = r.timer
    <2>1. CASE q = AfterUpdatePresence(r, s, status, t)
      BY <1>1, <2>1 DEF AfterUpdatePresence, Touch, IsRoom
    <2>2. CASE q = AfterDisconnect(r, s) /\ status = "disconnected"
      BY <1>1, <2>2 DEF AfterDisconnect, IsRoom
    <2> QED BY <2>1, <2>2
  <1>3. OneSeat(r, q, s) /\ q.participants[s] = p
    BY <1>2 DEF OneSeat, Members, IsRoom
  <1>4. /\ p.name = r.participants[s].name /\ p.role = r.participants[s].role
        /\ p.status = status /\ p.vote = r.participants[s].vote
    BY <1>1, MemberOK DEF Participant
  <1> QED BY <1>3, <1>4

\* A role change may take the card with it (room.go:266).
LEMMA RoleSeat ==
  ASSUME NEW r, IsRoom(r), NEW s \in Members(r), NEW role, NEW t, NEW q,
         q = AfterUpdateRole(r, s, role, t)
  PROVE  /\ OneSeat(r, q, s)
         /\ q.participants[s].name = r.participants[s].name
         /\ q.participants[s].role = role
         /\ q.participants[s].status = r.participants[s].status
         /\ q.participants[s].vote = CardKept(role, r.participants[s].vote)
PROOF
  <1>1. PICK p : p = [r.participants[s] EXCEPT !.role = role,
                                               !.vote = CardKept(role, @)]
    OBVIOUS
  <1>2. /\ q.participants = [r.participants EXCEPT ![s] = p]
        /\ q.phase = r.phase /\ q.timer = r.timer
    BY <1>1 DEF AfterUpdateRole, Touch, IsRoom
  <1>3. OneSeat(r, q, s) /\ q.participants[s] = p
    BY <1>2 DEF OneSeat, Members, IsRoom
  <1>4. /\ p.name = r.participants[s].name /\ p.role = role
        /\ p.status = r.participants[s].status
        /\ p.vote = CardKept(role, r.participants[s].vote)
    BY <1>1, MemberOK DEF Participant
  <1> QED BY <1>3, <1>4

\* A single message to follow.
LEMMA FollowsOne ==
  ASSUME NEW r, NEW q, NEW m,
         \A v, U : Shows(v, r, U) =>
           Shows(Reduced(v, m), q, StillUntold(U, r, q, <<m>>))
  PROVE  Follows(r, q, <<m>>)
PROOF
  <1> DEFINE msgs == <<m>>
  <1>1. \A v : Heard(v, msgs) = Reduced(v, m)
    BY HeardFew
  <1>2. \A v, U : Shows(v, r, U) => Shows(Reduced(v, m), q, StillUntold(U, r, q, msgs))
    OBVIOUS
  <1> HIDE DEF msgs
  <1>3. Follows(r, q, msgs)
    BY <1>1, <1>2 DEF Follows
  <1> QED BY <1>3 DEF msgs

\* None.
LEMMA FollowsNone ==
  ASSUME NEW r, NEW q,
         \A v, U : Shows(v, r, U) => Shows(v, q, StillUntold(U, r, q, <<>>))
  PROVE  Follows(r, q, <<>>)
  BY HeardFew DEF Follows

\* An announcement that sets one field of a seat.
LEMMA FieldSeen ==
  ASSUME NEW S, NEW v \in Sight(S), NEW s \in S, NEW field, NEW x, NEW w,
         w = Update(v, s, field, x),
         \/ field = "name" /\ x \in Name
         \/ field = "role" /\ x \in Roles
         \/ field = "status" /\ x \in Statuses
         \/ field = "hasVoted" /\ x \in BOOLEAN
  PROVE  /\ OneSeatSeen(v, w, S, s)
         /\ w.participants[s].name = IF field = "name" THEN x ELSE v.participants[s].name
         /\ w.participants[s].role = IF field = "role" THEN x ELSE v.participants[s].role
         /\ w.participants[s].status
              = IF field = "status" THEN x ELSE v.participants[s].status
         /\ w.participants[s].hasVoted
              = IF field = "hasVoted" THEN x ELSE v.participants[s].hasVoted
PROOF
  <1>1. \A a \in Seat :
          /\ [a EXCEPT ![field] = x] \in Seat
          /\ [a EXCEPT ![field] = x].name = IF field = "name" THEN x ELSE a.name
          /\ [a EXCEPT ![field] = x].role = IF field = "role" THEN x ELSE a.role
          /\ [a EXCEPT ![field] = x].status = IF field = "status" THEN x ELSE a.status
          /\ [a EXCEPT ![field] = x].hasVoted
               = IF field = "hasVoted" THEN x ELSE a.hasVoted
    <2>1. CASE field = "name" /\ x \in Name
      BY <2>1, SeatFields
    <2>2. CASE field = "role" /\ x \in Roles
      BY <2>2, SeatFields
    <2>3. CASE field = "status" /\ x \in Statuses
      BY <2>3, SeatFields
    <2>4. CASE field = "hasVoted" /\ x \in BOOLEAN
      BY <2>4, SeatFields
    <2> QED BY <2>1, <2>2, <2>3, <2>4
  <1>2. \A a \in Seat : [a EXCEPT ![field] = x] \in Seat
    BY <1>1
  <1> DEFINE ps == [q \in DOMAIN v.participants |->
                      IF q = s THEN [v.participants[q] EXCEPT ![field] = x]
                      ELSE v.participants[q]]
  <1>3. w = [v EXCEPT !.participants = ps]
    BY DEF Update
  <1>4. DOMAIN v.participants = S /\ \A q \in S : v.participants[q] \in Seat
    BY DEF Sight
  <1>5. /\ ps \in [S -> Seat]
        /\ \A q \in S \ {s} : ps[q] = v.participants[q]
        /\ ps[s] = [v.participants[s] EXCEPT ![field] = x]
    BY <1>2, <1>4
  <1> HIDE DEF ps
  <1>6. w \in Sight(S) /\ w.participants = ps
        /\ w.phase = v.phase /\ w.votes = v.votes /\ w.timer = v.timer
    BY <1>3, <1>5 DEF Sight
  <1>7. OneSeatSeen(v, w, S, s)
    BY <1>5, <1>6 DEF OneSeatSeen
  <1>8. w.participants[s] = [v.participants[s] EXCEPT ![field] = x]
    BY <1>5, <1>6
  <1> QED BY <1>1, <1>4, <1>7, <1>8

\* What the announcements of one fact tell.
LEMMA TellsOne ==
  ASSUME NEW s
  PROVE  /\ TellOnly(<<>>, s, {})
         /\ \A type \in {"vote_cast", "vote_retracted"} :
              TellOnly(<<About(type, s)>>, s, {"hasVoted"})
         /\ \A x : TellOnly(<<NameUpdated(s, x)>>, s, {"name"})
         /\ \A x : TellOnly(<<RoleUpdated(s, x)>>, s, {"role"})
         /\ \A x : TellOnly(<<Presence(s, x)>>, s, {})
PROOF
  <1>1. ASSUME NEW m, NEW facts, \A k, fact : Tells(m, k, fact) => k = s /\ fact \in facts
        PROVE  TellOnly(<<m>>, s, facts)
    BY <1>1, OneTells DEF TellOnly
  <1>2. TellOnly(<<>>, s, {})
    BY OneTells DEF TellOnly
  <1>3. ASSUME NEW type \in {"vote_cast", "vote_retracted"}
        PROVE  TellOnly(<<About(type, s)>>, s, {"hasVoted"})
    BY <1>1 DEF Tells, About
  <1>4. ASSUME NEW x PROVE TellOnly(<<NameUpdated(s, x)>>, s, {"name"})
    BY <1>1 DEF Tells, NameUpdated
  <1>5. ASSUME NEW x PROVE TellOnly(<<RoleUpdated(s, x)>>, s, {"role"})
    BY <1>1 DEF Tells, RoleUpdated
  <1>6. ASSUME NEW x PROVE TellOnly(<<Presence(s, x)>>, s, {})
    BY <1>1 DEF Tells, Presence
  <1> QED BY <1>2, <1>3, <1>4, <1>5, <1>6

\* Observers of the room hold no card.
NoCards(r) ==
  \A s \in Members(r) : r.participants[s].role = "observer" => r.participants[s].vote = ""

\* What is seen of a participant in a view that shows the room.
LEMMA SeatShown ==
  ASSUME NEW v, NEW r, NEW U, Shows(v, r, U), NEW s \in Members(r)
  PROVE  /\ v \in Sight(Members(r)) /\ v.participants[s] \in Seat
         /\ v.participants[s].status = r.participants[s].status
  BY DEF Shows, Sight

\* The one change is of a card, and it is told (room.go:285, ws.go:274).
LEMMA VoteFollows ==
  ASSUME NEW r, IsRoom(r), NEW me \in Members(r), NEW value, NEW t, NEW q,
         q = AfterCastVote(r, me, value, t), r.phase = "voting"
  PROVE  /\ value = "" /\ r.participants[me].vote = "" => Follows(r, q, <<>>)
         /\ Follows(r, q, <<About(IF value = "" THEN "vote_retracted"
                                  ELSE "vote_cast", me)>>)
PROOF
  <1>1. /\ OneSeat(r, q, me)
        /\ q.participants[me].name = r.participants[me].name
        /\ q.participants[me].role = r.participants[me].role
        /\ q.participants[me].status = r.participants[me].status
        /\ q.participants[me].vote = value
    BY VoteSeat
  <1>2. NoNewCards(r, q)
    BY DEF NoNewCards
  <1>3. ASSUME NEW v, NEW U, Shows(v, r, U), value = "", r.participants[me].vote = ""
        PROVE  Shows(v, q, StillUntold(U, r, q, <<>>))
    <2>1. SeatRight(v, v, r, q, me, {})
      BY <1>1, <1>3, SeatShown DEF Right, SeatRight
    <2>2. OneSeatSeen(v, v, Members(r), me)
      BY <1>3 DEF OneSeatSeen, Shows
    <2>3. TellOnly(<<>>, me, {})
      BY TellsOne
    <2> QED BY <1>1, <1>2, <1>3, <2>1, <2>2, <2>3, OneSeatFollows
  <1>4. PICK m : m = About(IF value = "" THEN "vote_retracted" ELSE "vote_cast", me)
    OBVIOUS
  <1>5. ASSUME NEW v, NEW U, Shows(v, r, U)
        PROVE  Shows(Reduced(v, m), q, StillUntold(U, r, q, <<m>>))
    <2>1. PICK w : w = Reduced(v, m)
      OBVIOUS
    <2>2. PICK x : x = (value # "")
      OBVIOUS
    <2>3. v \in Sight(Members(r))
      BY <1>5 DEF Shows
    <2>4. x \in BOOLEAN /\ w = Update(v, me, "hasVoted", x)
      <3>1. CASE value = ""
        BY <1>4, <2>1, <2>2, <2>3, <3>1, FieldReduced
      <3>2. CASE value # ""
        BY <1>4, <2>1, <2>2, <2>3, <3>2, FieldReduced
      <3> QED BY <3>1, <3>2
    <2>5. /\ OneSeatSeen(v, w, Members(r), me)
          /\ w.participants[me].name = v.participants[me].name
          /\ w.participants[me].role = v.participants[me].role
          /\ w.participants[me].status = v.participants[me].status
          /\ w.participants[me].hasVoted = x
      BY <2>3, <2>4, FieldSeen
    <2>6. SeatRight(v, w, r, q, me, {"hasVoted"})
      BY <1>1, <1>5, <2>2, <2>5, SeatShown DEF Right, SeatRight
    <2>7. TellOnly(<<m>>, me, {"hasVoted"})
      BY <1>4, TellsOne
    <2> QED BY <1>1, <1>2, <1>5, <2>1, <2>5, <2>6, <2>7, OneSeatFollows
  <1>6. Follows(r, q, <<m>>)
    BY <1>5, FollowsOne
  <1>7. value = "" /\ r.participants[me].vote = "" => Follows(r, q, <<>>)
    BY <1>3, FollowsNone
  <1> QED BY <1>4, <1>6, <1>7

\* Another name.
LEMMA NameFollows ==
  ASSUME NEW r, IsRoom(r), NEW me \in Members(r), NEW raw, NEW t, NEW q,
         q = AfterUpdateName(r, me, raw, t), displayName[raw] \in Name
  PROVE  Follows(r, q, <<NameUpdated(me, displayName[raw])>>)
PROOF
  <1>0. PICK x : x = displayName[raw]
    OBVIOUS
  <1>1. /\ OneSeat(r, q, me)
        /\ q.participants[me].name = x
        /\ q.participants[me].role = r.participants[me].role
        /\ q.participants[me].status = r.participants[me].status
        /\ q.participants[me].vote = r.participants[me].vote
    BY <1>0, NameSeat
  <1>2. NoNewCards(r, q)
    <2>1. \A m \in Members(r) :
            /\ q.participants[m].role = r.participants[m].role
            /\ q.participants[m].vote = r.participants[m].vote
      BY <1>1 DEF OneSeat
    <2> QED BY <1>1, <2>1 DEF NoNewCards, OneSeat, ResultVotes
  <1>3. PICK m : m = NameUpdated(me, x)
    OBVIOUS
  <1>4. ASSUME NEW v, NEW U, Shows(v, r, U)
        PROVE  Shows(Reduced(v, m), q, StillUntold(U, r, q, <<m>>))
    <2>1. PICK w : w = Reduced(v, m)
      OBVIOUS
    <2>2. v \in Sight(Members(r))
      BY <1>4 DEF Shows
    <2>3. x \in Name /\ w = Update(v, me, "name", x)
      BY <1>0, <1>3, <2>1, <2>2, FieldReduced
    <2>4. /\ OneSeatSeen(v, w, Members(r), me)
          /\ w.participants[me].name = x
          /\ w.participants[me].role = v.participants[me].role
          /\ w.participants[me].status = v.participants[me].status
          /\ w.participants[me].hasVoted = v.participants[me].hasVoted
      BY <2>2, <2>3, FieldSeen
    <2>5. SeatRight(v, w, r, q, me, {"name"})
      BY <1>1, <1>4, <2>4, SeatShown DEF Right, SeatRight
    <2>6. TellOnly(<<m>>, me, {"name"})
      BY <1>3, TellsOne
    <2> QED BY <1>1, <1>2, <1>4, <2>1, <2>4, <2>5, <2>6, OneSeatFollows
  <1> QED BY <1>0, <1>3, <1>4, FollowsOne

\* Presence, set by the client or by the end of its connection.
LEMMA StatusFollows ==
  ASSUME NEW r, IsRoom(r), NEW me \in Members(r), NEW x \in Statuses, NEW t, NEW q,
         \/ q = AfterUpdatePresence(r, me, x, t)
         \/ q = AfterDisconnect(r, me) /\ x = "disconnected"
  PROVE  Follows(r, q, <<Presence(me, x)>>)
PROOF
  <1>1. /\ OneSeat(r, q, me)
        /\ q.participants[me].name = r.participants[me].name
        /\ q.participants[me].role = r.participants[me].role
        /\ q.participants[me].status = x
        /\ q.participants[me].vote = r.participants[me].vote
    BY StatusSeat
  <1>2. NoNewCards(r, q)
    <2>1. \A m \in Members(r) :
            /\ q.participants[m].role = r.participants[m].role
            /\ q.participants[m].vote = r.participants[m].vote
      BY <1>1 DEF OneSeat
    <2> QED BY <1>1, <2>1 DEF NoNewCards, OneSeat, ResultVotes
  <1>3. PICK m : m = Presence(me, x)
    OBVIOUS
  <1>4. ASSUME NEW v, NEW U, Shows(v, r, U)
        PROVE  Shows(Reduced(v, m), q, StillUntold(U, r, q, <<m>>))
    <2>1. PICK w : w = Reduced(v, m)
      OBVIOUS
    <2>2. v \in Sight(Members(r))
      BY <1>4 DEF Shows
    <2>3. w = Update(v, me, "status", x)
      BY <1>3, <2>1, <2>2, FieldReduced
    <2>4. /\ OneSeatSeen(v, w, Members(r), me)
          /\ w.participants[me].name = v.participants[me].name
          /\ w.participants[me].role = v.participants[me].role
          /\ w.participants[me].status = x
          /\ w.participants[me].hasVoted = v.participants[me].hasVoted
      BY <2>2, <2>3, FieldSeen
    <2>5. SeatRight(v, w, r, q, me, {})
      BY <1>1, <2>4 DEF Right, SeatRight
    <2>6. TellOnly(<<m>>, me, {})
      BY <1>3, TellsOne
    <2> QED BY <1>1, <1>2, <1>4, <2>1, <2>4, <2>5, <2>6, OneSeatFollows
  <1> QED BY <1>3, <1>4, FollowsOne

\* Another role: that an observer's card goes is not told (ws.go:495).
LEMMA RoleFollows ==
  ASSUME NEW r, IsRoom(r), NoCards(r), NEW me \in Members(r), NEW x \in Roles, NEW t,
         NEW q, q = AfterUpdateRole(r, me, x, t)
  PROVE  Follows(r, q, <<RoleUpdated(me, x)>>)
PROOF
  <1>1. /\ OneSeat(r, q, me)
        /\ q.participants[me].name = r.participants[me].name
        /\ q.participants[me].role = x
        /\ q.participants[me].status = r.participants[me].status
        /\ q.participants[me].vote = CardKept(x, r.participants[me].vote)
    BY RoleSeat
  <1>2. NoNewCards(r, q)
    <2>1. \/ q.participants[me].role = "observer" \/ q.participants[me].vote = ""
          \/ /\ me \in Members(r) /\ r.participants[me].role # "observer"
             /\ q.participants[me].vote = r.participants[me].vote
      BY <1>1 DEF NoCards, CardKept
    <2>2. /\ Members(q) \ {me} \subseteq Members(r)
          /\ \A m \in Members(q) \ {me} : q.participants[m] = r.participants[m]
      BY <1>1 DEF OneSeat
    <2> QED BY <2>1, <2>2, FewerCards DEF NoNewCards
  <1>3. PICK m : m = RoleUpdated(me, x)
    OBVIOUS
  <1>4. ASSUME NEW v, NEW U, Shows(v, r, U)
        PROVE  Shows(Reduced(v, m), q, StillUntold(U, r, q, <<m>>))
    <2>1. PICK w : w = Reduced(v, m)
      OBVIOUS
    <2>2. v \in Sight(Members(r))
      BY <1>4 DEF Shows
    <2>3. w = Update(v, me, "role", x)
      BY <1>3, <2>1, <2>2, FieldReduced
    <2>4. /\ OneSeatSeen(v, w, Members(r), me)
          /\ w.participants[me].name = v.participants[me].name
          /\ w.participants[me].role = x
          /\ w.participants[me].status = v.participants[me].status
          /\ w.participants[me].hasVoted = v.participants[me].hasVoted
      BY <2>2, <2>3, FieldSeen
    <2>5. SeatRight(v, w, r, q, me, {"role"})
      <3>1. w.participants[me].status = q.participants[me].status
        BY <1>1, <1>4, <2>4, SeatShown
      <3>2. Right(w.participants[me], q.participants[me], "role")
        BY <1>1, <2>4 DEF Right
      <3>3. ASSUME NEW fact \in Facts \ {"role"},
                   Right(v.participants[me], r.participants[me], fact),
                   ~Differ(r.participants[me], q.participants[me], fact)
            PROVE  Right(w.participants[me], q.participants[me], fact)
        <4>1. CASE fact = "name"
          BY <1>1, <2>4, <3>3, <4>1 DEF Right
        <4>2. CASE fact = "hasVoted"
          BY <2>4, <3>3, <4>2 DEF Right, Differ
        <4> QED BY <3>3, <4>1, <4>2 DEF Facts
      <3> QED BY <3>1, <3>2, <3>3 DEF SeatRight
    <2>6. TellOnly(<<m>>, me, {"role"})
      BY <1>3, TellsOne
    <2> QED BY <1>1, <1>2, <1>4, <2>1, <2>4, <2>5, <2>6, OneSeatFollows
  <1> QED BY <1>3, <1>4, FollowsOne

\* The messages announce no fact about a participant.
TellNothing(msgs) == \A n \in DOMAIN msgs : \A s, fact : ~Tells(msgs[n], s, fact)

\* The messages that carry no name, role or card of a participant.
LEMMA TellNone ==
  /\ TellNothing(<<>>)
  /\ \A m : m.type \in {"error", "room_cleared", "participant_left", "presence_changed",
                        "timer_updated", "votes_revealed", "room_state"}
              => TellNothing(<<m>>)
PROOF
  <1>1. TellNothing(<<>>)
    BY OneTells DEF TellNothing
  <1>2. ASSUME NEW m,
               m.type \in {"error", "room_cleared", "participant_left", "presence_changed",
                           "timer_updated", "votes_revealed", "room_state"}
        PROVE  TellNothing(<<m>>)
    <2>1. \A s, fact : ~Tells(m, s, fact)
      BY <1>2 DEF Tells
    <2> QED BY <2>1, OneTells DEF TellNothing
  <1> QED BY <1>1, <1>2

\* The views of an operation that leaves all seats alone, or gives some up.
LEMMA SameSeatsFollow ==
  ASSUME NEW v, NEW w, NEW r, NEW q, NEW U, NEW msgs, Shows(v, r, U),
         Members(q) \subseteq Members(r),
         \A s \in Members(q) : q.participants[s] = r.participants[s],
         w \in Sight(Members(q)),
         \A s \in Members(q) : w.participants[s] = v.participants[s],
         SameTable(w, q), SameClock(w.timer, q.timer), TellNothing(msgs)
  PROVE  Shows(w, q, StillUntold(U, r, q, msgs))
PROOF
  <1>1. ASSUME NEW s \in Members(q)
        PROVE  w.participants[s].status = q.participants[s].status
    BY DEF Shows
  <1>2. ASSUME NEW s \in Members(q), NEW fact \in Facts
        PROVE  \/ Right(w.participants[s], q.participants[s], fact)
               \/ <<s, fact>> \in StillUntold(U, r, q, msgs)
    <2>1. Right(v.participants[s], r.participants[s], fact)
            => Right(w.participants[s], q.participants[s], fact)
      OBVIOUS
    <2>2. s \in Members(r) /\ \A n \in DOMAIN msgs : ~Tells(msgs[n], s, fact)
      BY DEF TellNothing
    <2> QED BY <2>1, <2>2, FactFollows
  <1> QED BY <1>1, <1>2 DEF Shows

\* Time passes, perhaps the countdown's (room.go:429).
LEMMA ExpiryFollows ==
  ASSUME NEW r, IsRoom(r), NEW t \in Nat, NEW q, q = AfterTimerInfo(r, t)
  PROVE  Follows(r, q, <<>>)
PROOF
  <1>1. q.phase = r.phase /\ q.participants = r.participants
    BY DEF AfterTimerInfo, IsRoom
  <1>2. SameClock(q.timer, r.timer)
    <2>1. CASE TimeIsUp(r, t)
      BY <2>1, TimerInfoEffect DEF TimeIsUp, SameClock
    <2>2. CASE ~TimeIsUp(r, t)
      BY <2>2 DEF AfterTimerInfo, SameClock
    <2> QED BY <2>1, <2>2
  <1>3. Members(q) = Members(r) /\ ResultVotes(q) = ResultVotes(r)
    BY <1>1 DEF Members, ResultVotes
  <1>4. ASSUME NEW v, NEW U, Shows(v, r, U)
        PROVE  Shows(v, q, StillUntold(U, r, q, <<>>))
    <2>1. SameTable(v, q)
      BY <1>1, <1>3, <1>4 DEF SameTable, Shows
    <2>2. SameClock(v.timer, q.timer)
      BY <1>2, <1>4 DEF SameClock, Shows
    <2>3. v \in Sight(Members(q))
      BY <1>3, <1>4 DEF Shows
    <2> QED BY <1>1, <1>3, <1>4, <2>1, <2>2, <2>3, SameSeatsFollow, TellNone
  <1> QED BY <1>4, FollowsNone

\* The same room again, and nothing said of it.
LEMMA SameFollows ==
  ASSUME NEW r, IsRoom(r)
  PROVE  Follows(r, r, <<>>)
PROOF
  <1>1. ASSUME NEW v, NEW U, Shows(v, r, U)
        PROVE  Shows(v, r, StillUntold(U, r, r, <<>>))
    <2>1. v \in Sight(Members(r)) /\ SameTable(v, r) /\ SameClock(v.timer, r.timer)
      BY <1>1 DEF Shows
    <2> QED BY <1>1, <2>1, SameSeatsFollow, TellNone
  <1> QED BY <1>1, FollowsNone

\* The end of a connection whose participant has left the room before.
LEMMA AbsentFollows ==
  ASSUME NEW r, IsRoom(r), NEW s, s \notin Members(r), NEW x
  PROVE  Follows(r, r, <<Presence(s, x)>>)
PROOF
  <1>1. PICK m : m = Presence(s, x)
    OBVIOUS
  <1>2. ASSUME NEW v, NEW U, Shows(v, r, U)
        PROVE  Shows(Reduced(v, m), r, StillUntold(U, r, r, <<m>>))
    <2>1. v \in Sight(Members(r)) /\ SameTable(v, r) /\ SameClock(v.timer, r.timer)
      BY <1>2 DEF Shows
    <2>2. Reduced(v, m) = Update(v, s, "status", x)
      BY <1>1, <2>1, FieldReduced
    <2>3. DOMAIN v.participants = Members(r)
          /\ v.participants \in [Members(r) -> Seat] /\ v = [v EXCEPT !.participants = @]
      BY <2>1 DEF Sight
    <2>4. PICK ps : ps = [q \in DOMAIN v.participants |->
                      IF q = s THEN [v.participants[q] EXCEPT !["status"] = x]
                      ELSE v.participants[q]]
      OBVIOUS
    <2>5. ps = v.participants
      BY <2>3, <2>4
    <2>6. Update(v, s, "status", x) = [v EXCEPT !.participants = ps]
      BY <2>4 DEF Update
    <2>7. Update(v, s, "status", x) = v
      BY <2>3, <2>5, <2>6
    <2>8. TellNothing(<<m>>)
      BY <1>1, TellNone DEF Presence
    <2> QED BY <1>2, <2>1, <2>2, <2>7, <2>8, SameSeatsFollow
  <1> QED BY <1>1, <1>2, FollowsOne

\* A participant leaves (room.go:255), or had left before: the message is the same.
LEMMA LeaveFollows ==
  ASSUME NEW r, IsRoom(r), NEW s, NEW t, NEW q,
         \/ q = AfterLeave(r, s, t)
         \/ q = r /\ s \notin Members(r)
  PROVE  Follows(r, q, <<About("participant_left", s)>>)
PROOF
  <1>1. /\ q.phase = r.phase /\ q.timer = r.timer
        /\ Members(q) = Members(r) \ {s}
        /\ \A m \in Members(q) : q.participants[m] = r.participants[m]
    BY LeaveEffect
  <1>2. ResultVotes(q) \subseteq ResultVotes(r)
    <2>1. s \notin Members(q) /\ Members(q) \ {s} \subseteq Members(r)
          /\ \A m \in Members(q) \ {s} : q.participants[m] = r.participants[m]
      BY <1>1
    <2> QED BY <2>1, FewerCards
  <1>3. PICK m : m = About("participant_left", s)
    OBVIOUS
  <1>4. ASSUME NEW v, NEW U, Shows(v, r, U)
        PROVE  Shows(Reduced(v, m), q, StillUntold(U, r, q, <<m>>))
    <2>1. PICK w : w = Reduced(v, m)
      OBVIOUS
    <2>2. v \in Sight(Members(r)) /\ SameTable(v, r) /\ SameClock(v.timer, r.timer)
      BY <1>4 DEF Shows
    <2>3. /\ w \in Sight(Members(r) \ {s})
          /\ w.phase = v.phase /\ w.votes = v.votes /\ w.timer = v.timer
          /\ \A k \in Members(r) \ {s} : w.participants[k] = v.participants[k]
      BY <1>3, <2>1, <2>2, LeftReduced
    <2>4. w \in Sight(Members(q)) /\ \A k \in Members(q) : w.participants[k] = v.participants[k]
      BY <1>1, <2>3
    <2>5. SameTable(w, q) /\ SameClock(w.timer, q.timer)
      BY <1>1, <1>2, <2>2, <2>3 DEF SameTable
    <2>6. TellNothing(<<m>>)
      BY <1>3, TellNone DEF About
    <2>7. Members(q) \subseteq Members(r)
      BY <1>1
    <2> QED BY <1>1, <1>4, <2>1, <2>4, <2>5, <2>6, <2>7, SameSeatsFollow
  <1> QED BY <1>3, <1>4, FollowsOne

\* The reveal lays the cards of those who vote on the table (room.go:306).
LEMMA RevealFollows ==
  ASSUME NEW r, IsRoom(r), NEW t, NEW q, q = AfterReveal(r, t), IsRoom(q), NEW ballot
  PROVE  Follows(r, q, <<VotesRevealed(q, ballot)>>)
PROOF
  <1>1. q.phase = "reveal" /\ q.timer = r.timer /\ q.participants = r.participants
    BY RevealEffect
  <1>2. Members(q) = Members(r)
    BY <1>1 DEF Members
  <1>3. PICK m : m = VotesRevealed(q, ballot)
    OBVIOUS
  <1>4. ASSUME NEW v, NEW U, Shows(v, r, U)
        PROVE  Shows(Reduced(v, m), q, StillUntold(U, r, q, <<m>>))
    <2>1. PICK w : w = Reduced(v, m)
      OBVIOUS
    <2>2. v \in Sight(Members(r)) /\ SameClock(v.timer, r.timer)
      BY <1>4 DEF Shows
    <2>3. /\ w \in Sight(Members(r))
          /\ w.phase = "reveal" /\ w.votes = ResultVotes(q)
          /\ w.timer = v.timer /\ w.participants = v.participants
      BY <1>3, <2>1, <2>2, RevealedReduced
    <2>4. SameTable(w, q) /\ SameClock(w.timer, q.timer)
      BY <1>1, <2>2, <2>3 DEF SameTable
    <2>5. TellNothing(<<m>>)
      BY <1>3, TellNone DEF VotesRevealed
    <2> QED BY <1>1, <1>2, <1>4, <2>1, <2>3, <2>4, <2>5, SameSeatsFollow
  <1> QED BY <1>3, <1>4, FollowsOne

\* The countdown is set, started or reset (room.go:388 on).
LEMMA TimerFollows ==
  ASSUME NEW r, IsRoom(r), NEW q, IsRoom(q), NEW t \in Nat,
         q.phase = r.phase, q.participants = r.participants
  PROVE  Follows(r, q, <<TimerUpdated(q, t)>>)
PROOF
  <1>1. Members(q) = Members(r) /\ ResultVotes(q) = ResultVotes(r)
    BY DEF Members, ResultVotes
  <1>2. SameClock(TimerInfo(q, t), q.timer)
    BY ClockTold
  <1>3. PICK m : m = TimerUpdated(q, t)
    OBVIOUS
  <1>4. ASSUME NEW v, NEW U, Shows(v, r, U)
        PROVE  Shows(Reduced(v, m), q, StillUntold(U, r, q, <<m>>))
    <2>1. PICK w : w = Reduced(v, m)
      OBVIOUS
    <2>2. v \in Sight(Members(r)) /\ SameTable(v, r)
      BY <1>4 DEF Shows
    <2>3. /\ w \in Sight(Members(r))
          /\ w.phase = v.phase /\ w.votes = v.votes
          /\ w.timer = TimerInfo(q, t) /\ w.participants = v.participants
      BY <1>3, <2>1, <2>2, TimerReduced
    <2>4. SameTable(w, q) /\ SameClock(w.timer, q.timer)
      BY <1>1, <1>2, <2>2, <2>3 DEF SameTable
    <2>5. TellNothing(<<m>>)
      BY <1>3, TellNone DEF TimerUpdated
    <2> QED BY <1>1, <1>4, <2>1, <2>3, <2>4, <2>5, SameSeatsFollow
  <1> QED BY <1>3, <1>4, FollowsOne

\* The participants of r are those of q, with nothing in their hands.
HandsEmptied(r, q) ==
  \A m \in Members(r) :
    LET a == r.participants[m]
        b == q.participants[m]
    IN  b.name = a.name /\ b.role = a.role /\ b.status = a.status /\ b.vote = ""

\* A new round takes the cards and nothing else.
LEMMA NewRoundSeats ==
  ASSUME NEW r, IsRoom(r), NEW t \in Nat, NEW q, q = AfterNewRound(r, t)
  PROVE  HandsEmptied(r, q)
PROOF
  <1> SUFFICES ASSUME NEW m \in Members(r)
               PROVE  /\ q.participants[m].name = r.participants[m].name
                      /\ q.participants[m].role = r.participants[m].role
                      /\ q.participants[m].status = r.participants[m].status
                      /\ q.participants[m].vote = ""
    BY DEF HandsEmptied
  <1>1. q.participants[m] = [r.participants[m] EXCEPT !.vote = ""]
    BY DEF AfterNewRound, Touch, IsRoom, WithoutVotes, Members
  <1>2. r.participants[m] \in Participant
    BY MemberOK
  <1> QED BY <1>1, <1>2 DEF Participant

\* A new round (room.go:318): all hands are empty, and so is the table.
LEMMA NewRoundFollows ==
  ASSUME NEW r, IsRoom(r), NEW t \in Nat, NEW q, q = AfterNewRound(r, t), IsRoom(q)
  PROVE  Follows(r, q, <<Plain("round_reset"), TimerUpdated(q, t)>>)
PROOF
  <1>1. q.phase = "voting" /\ Members(q) = Members(r)
    BY NewRoundEffect
  <1>2. SameClock(TimerInfo(q, t), q.timer)
    BY ClockTold
  <1>9. HandsEmptied(r, q)
    BY NewRoundSeats
  <1>3. PICK m : m = Plain("round_reset")
    OBVIOUS
  <1>4. PICK k : k = TimerUpdated(q, t)
    OBVIOUS
  <1>5. PICK msgs : msgs = <<m, k>>
    OBVIOUS
  <1>6. \A n \in DOMAIN msgs : \A s, fact : Tells(msgs[n], s, fact) => fact = "hasVoted"
    <2>1. DOMAIN msgs = {1, 2} /\ msgs[1] = m /\ msgs[2] = k
      BY <1>5
    <2>2. \A s, fact : Tells(m, s, fact) => fact = "hasVoted"
      BY <1>3 DEF Plain, Tells
    <2>3. \A s, fact : ~Tells(k, s, fact)
      BY <1>4 DEF TimerUpdated, Tells
    <2> QED BY <2>1, <2>2, <2>3
  <1>7. ASSUME NEW v, NEW U, Shows(v, r, U)
        PROVE  Shows(Heard(v, msgs), q, StillUntold(U, r, q, msgs))
    <2>1. PICK x : x = Reduced(v, m)
      OBVIOUS
    <2>2. PICK w : w = Reduced(x, k)
      OBVIOUS
    <2>3. v \in Sight(Members(r)) /\ SameTable(v, r)
      BY <1>7 DEF Shows
    <2>4. /\ x \in Sight(Members(r))
          /\ x.phase = "voting" /\ x.votes = {}
          /\ \A s \in Members(r) :
               x.participants[s] = [v.participants[s] EXCEPT !["hasVoted"] = FALSE]
      BY <1>3, <2>1, <2>3, ResetReduced
    <2>5. /\ w \in Sight(Members(r))
          /\ w.phase = "voting" /\ w.votes = {}
          /\ w.timer = TimerInfo(q, t) /\ w.participants = x.participants
      BY <1>4, <2>2, <2>4, TimerReduced
    <2>6. ASSUME NEW s \in Members(r)
          PROVE  /\ w.participants[s].name = v.participants[s].name
                 /\ w.participants[s].role = v.participants[s].role
                 /\ w.participants[s].status = v.participants[s].status
                 /\ w.participants[s].hasVoted = FALSE
      <3>1. v.participants[s] \in Seat
        BY <1>7, SeatShown
      <3>2. w.participants[s] = [v.participants[s] EXCEPT !["hasVoted"] = FALSE]
        BY <2>4, <2>5
      <3> QED BY <3>1, <3>2 DEF Seat
    <2>7. ASSUME NEW s \in Members(r)
          PROVE  /\ q.participants[s].name = r.participants[s].name
                 /\ q.participants[s].role = r.participants[s].role
                 /\ q.participants[s].status = r.participants[s].status
                 /\ q.participants[s].vote = ""
      BY <1>9 DEF HandsEmptied
    <2>8. ASSUME NEW s \in Members(q)
          PROVE  w.participants[s].status = q.participants[s].status
      <3>1. s \in Members(r)
        BY <1>1
      <3>2. v.participants[s].status = r.participants[s].status
        BY <1>7, <3>1, SeatShown
      <3> QED BY <2>6, <2>7, <3>1, <3>2
    <2>12. ASSUME NEW s \in Members(q), NEW fact \in Facts
          PROVE  \/ Right(w.participants[s], q.participants[s], fact)
                 \/ <<s, fact>> \in StillUntold(U, r, q, msgs)
      <3>0. s \in Members(r)
        BY <1>1
      <3>1. CASE fact = "hasVoted"
        BY <2>6, <2>7, <3>0, <3>1 DEF Right
      <3>2. CASE fact # "hasVoted"
        <4>1. Right(v.participants[s], r.participants[s], fact)
                => Right(w.participants[s], q.participants[s], fact)
          BY <2>6, <2>7, <3>0, <3>2 DEF Right
        <4>2. \A n \in DOMAIN msgs : ~Tells(msgs[n], s, fact)
          BY <1>6, <3>2
        <4> QED BY <1>7, <2>12, <3>0, <4>1, <4>2, FactFollows
      <3> QED BY <3>1, <3>2
    <2>9. SameTable(w, q) /\ SameClock(w.timer, q.timer) /\ w \in Sight(Members(q))
      BY <1>1, <1>2, <2>5 DEF SameTable
    <2>10. Shows(w, q, StillUntold(U, r, q, msgs))
      BY <2>8, <2>9, <2>12 DEF Shows
    <2>11. Heard(v, msgs) = w
      <3>1. Heard(v, <<m, k>>) = Reduced(Reduced(v, m), k)
        BY HeardFew
      <3> QED BY <1>5, <2>1, <2>2, <3>1
    <2> QED BY <2>10, <2>11
  <1>8. Follows(r, q, msgs)
    BY <1>7 DEF Follows
  <1> QED BY <1>3, <1>4, <1>5, <1>8

\* What a join makes of the seat of a session.
LEMMA JoinSeat ==
  ASSUME NEW r, IsRoom(r), NEW s, NEW raw, NEW role, NEW t,
         NEW q, q = AfterJoin(r, s, raw, role, t)
  PROVE  /\ s \in Members(r) => OneSeat(r, q, s)
         /\ q.participants[s].status = "active"
         /\ s \notin Members(r) => q.participants[s].vote = ""
PROOF
  <1> DEFINE p == IF s \in Members(r)
                  THEN Rejoined(r.participants[s], displayName[raw], JoinRole(role))
                  ELSE Newcomer(displayName[raw], JoinRole(role), t)
  <1>1. q = Touch([r EXCEPT !.participants = Put(@, s, p)], t)
    BY DEF AfterJoin
  <1>2. p.status = "active" /\ (s \notin Members(r) => p.vote = "")
    <2>1. CASE s \in Members(r)
      BY <2>1, MemberOK DEF Rejoined, Participant
    <2>2. CASE s \notin Members(r)
      BY <2>2 DEF Newcomer
    <2> QED BY <2>1, <2>2
  <1> HIDE DEF p
  <1>3. q.participants = Put(r.participants, s, p)
    BY <1>1 DEF Touch, IsRoom
  <1>4. q.participants[s] = p
    BY <1>3 DEF Put
  <1>5. s \in Members(r) => OneSeat(r, q, s)
    <2>1. s \in Members(r) => Members(r) \cup {s} = Members(r)
      OBVIOUS
    <2> QED BY <2>1, JoinEffect DEF OneSeat
  <1> QED BY <1>2, <1>4, <1>5

\* A session that comes back is shown as active again; whether it has another
\* name, role or card is not told (ws.go:263).
LEMMA RejoinFollows ==
  ASSUME NEW r, IsRoom(r), NoCards(r), NEW s \in Members(r), NEW raw, NEW role, NEW t,
         NEW q, q = AfterJoin(r, s, raw, role, t)
  PROVE  Follows(r, q, <<Presence(s, "active")>>)
PROOF
  <1>1. /\ OneSeat(r, q, s) /\ q.participants[s].status = "active"
        /\ q.participants[s].role = JoinRole(role)
        /\ q.participants[s].vote = CardKept(JoinRole(role), r.participants[s].vote)
    <2>1. OneSeat(r, q, s) /\ q.participants[s].status = "active"
      BY JoinSeat
    <2>2. /\ q.participants[s].role = JoinRole(role)
          /\ q.participants[s].vote = CardKept(JoinRole(role), VoteOf(r, s))
      BY JoinEffect
    <2> QED BY <2>1, <2>2 DEF VoteOf
  <1>2. NoNewCards(r, q)
    <2>1. \/ q.participants[s].role = "observer" \/ q.participants[s].vote = ""
          \/ /\ s \in Members(r) /\ r.participants[s].role # "observer"
             /\ q.participants[s].vote = r.participants[s].vote
      BY <1>1 DEF NoCards, CardKept
    <2>2. /\ Members(q) \ {s} \subseteq Members(r)
          /\ \A k \in Members(q) \ {s} : q.participants[k] = r.participants[k]
      BY <1>1 DEF OneSeat
    <2> QED BY <2>1, <2>2, FewerCards DEF NoNewCards
  <1>3. PICK m : m = Presence(s, "active")
    OBVIOUS
  <1>4. ASSUME NEW v, NEW U, Shows(v, r, U)
        PROVE  Shows(Reduced(v, m), q, StillUntold(U, r, q, <<m>>))
    <2>1. PICK w : w = Reduced(v, m)
      OBVIOUS
    <2>2. v \in Sight(Members(r)) /\ "active" \in Statuses
      BY <1>4 DEF Shows, Statuses
    <2>3. w = Update(v, s, "status", "active")
      BY <1>3, <2>1, <2>2, FieldReduced
    <2>4. /\ OneSeatSeen(v, w, Members(r), s)
          /\ w.participants[s].name = v.participants[s].name
          /\ w.participants[s].role = v.participants[s].role
          /\ w.participants[s].status = "active"
          /\ w.participants[s].hasVoted = v.participants[s].hasVoted
      BY <2>2, <2>3, FieldSeen
    <2>5. SeatRight(v, w, r, q, s, {})
      <3>1. w.participants[s].status = q.participants[s].status
        BY <1>1, <2>4
      <3>2. ASSUME NEW fact \in Facts,
                   Right(v.participants[s], r.participants[s], fact),
                   ~Differ(r.participants[s], q.participants[s], fact)
            PROVE  Right(w.participants[s], q.participants[s], fact)
        <4>1. CASE fact = "name"
          BY <2>4, <3>2, <4>1 DEF Right, Differ
        <4>2. CASE fact = "role"
          BY <2>4, <3>2, <4>2 DEF Right, Differ
        <4>3. CASE fact = "hasVoted"
          BY <2>4, <3>2, <4>3 DEF Right, Differ
        <4> QED BY <3>2, <4>1, <4>2, <4>3 DEF Facts
      <3> QED BY <3>1, <3>2 DEF SeatRight
    <2>6. TellOnly(<<m>>, s, {})
      BY <1>3, TellsOne
    <2> QED BY <1>1, <1>2, <1>4, <2>1, <2>4, <2>5, <2>6, OneSeatFollows
  <1> QED BY <1>3, <1>4, FollowsOne

\* A session that is new in the room is announced with its name and role.
LEMMA JoinFollows ==
  ASSUME NEW r, IsRoom(r), NEW s, s \notin Members(r), NEW raw, NEW role, NEW t,
         NEW q, q = AfterJoin(r, s, raw, role, t), IsRoom(q)
  PROVE  Follows(r, q, <<Joined(s, q.participants[s])>>)
PROOF
  <1>1. /\ q.phase = r.phase /\ q.timer = r.timer
        /\ Members(q) = Members(r) \cup {s}
        /\ \A k \in Members(r) : q.participants[k] = r.participants[k]
        /\ q.participants[s].status = "active" /\ q.participants[s].vote = ""
        /\ q.participants[s] \in Participant
    <2>1. q.participants[s].status = "active" /\ q.participants[s].vote = ""
      BY JoinSeat
    <2>2. /\ q.phase = r.phase /\ q.timer = r.timer
          /\ Members(q) = Members(r) \cup {s}
          /\ \A k \in Members(r) \ {s} : q.participants[k] = r.participants[k]
      BY JoinEffect
    <2>3. q.participants[s] \in Participant
      BY <2>2, MemberOK
    <2> QED BY <2>1, <2>2, <2>3
  <1>2. ResultVotes(q) \subseteq ResultVotes(r)
    <2>1. /\ Members(q) \ {s} \subseteq Members(r)
          /\ \A k \in Members(q) \ {s} : q.participants[k] = r.participants[k]
      BY <1>1
    <2> QED BY <1>1, <2>1, FewerCards
  <1>0. PICK p : p = q.participants[s]
    OBVIOUS
  <1>3. PICK m : m = Joined(s, p)
    OBVIOUS
  <1>4. \A k, fact : Tells(m, k, fact) => k = s
    BY <1>3 DEF Tells, Joined
  <1>5. ASSUME NEW v, NEW U, Shows(v, r, U)
        PROVE  Shows(Reduced(v, m), q, StillUntold(U, r, q, <<m>>))
    <2>1. PICK w : w = Reduced(v, m)
      OBVIOUS
    <2>2. v \in Sight(Members(r)) /\ SameTable(v, r) /\ SameClock(v.timer, r.timer)
      BY <1>5 DEF Shows
    <2>3. /\ w \in Sight(Members(r) \cup {s})
          /\ w.phase = v.phase /\ w.votes = v.votes /\ w.timer = v.timer
          /\ \A k \in Members(r) : w.participants[k] = v.participants[k]
          /\ w.participants[s] = [name |-> p.name, status |-> "active",
                                  role |-> p.role, hasVoted |-> FALSE]
      <3>1. p \in Participant
        BY <1>0, <1>1
      <3> QED BY <1>3, <2>1, <2>2, <3>1, JoinedReduced
    <2>4. SameTable(w, q) /\ SameClock(w.timer, q.timer) /\ w \in Sight(Members(q))
      BY <1>1, <1>2, <2>2, <2>3 DEF SameTable
    <2>7. /\ w.participants[s].name = p.name /\ w.participants[s].role = p.role
          /\ w.participants[s].status = "active" /\ w.participants[s].hasVoted = FALSE
      BY <2>3
    <2>8. /\ q.participants[s].name = p.name /\ q.participants[s].role = p.role
          /\ q.participants[s].status = "active" /\ q.participants[s].vote = ""
      BY <1>0, <1>1
    <2>5. ASSUME NEW k \in Members(q)
          PROVE  w.participants[k].status = q.participants[k].status
      <3>1. CASE k = s
        BY <2>7, <2>8, <3>1
      <3>2. CASE k # s
        <4>1. k \in Members(r)
          BY <1>1, <3>2
        <4>2. v.participants[k].status = r.participants[k].status
          BY <1>5, <4>1, SeatShown
        <4>3. w.participants[k] = v.participants[k]
          BY <2>3, <4>1
        <4>4. q.participants[k] = r.participants[k]
          BY <1>1, <4>1
        <4> QED BY <4>2, <4>3, <4>4
      <3> QED BY <3>1, <3>2
    <2>6. ASSUME NEW k \in Members(q), NEW fact \in Facts
          PROVE  \/ Right(w.participants[k], q.participants[k], fact)
                 \/ <<k, fact>> \in StillUntold(U, r, q, <<m>>)
      <3>1. CASE k = s
        BY <2>7, <2>8, <3>1 DEF Right
      <3>2. CASE k # s
        <4>1. k \in Members(r) /\ w.participants[k] = v.participants[k]
              /\ q.participants[k] = r.participants[k]
          BY <1>1, <2>3, <3>2
        <4>2. Right(v.participants[k], r.participants[k], fact)
                => Right(w.participants[k], q.participants[k], fact)
          BY <4>1
        <4>3. \A n \in DOMAIN <<m>> : ~Tells(<<m>>[n], k, fact)
          BY <1>4, <3>2, OneTells
        <4>4. k \in Members(r)
          BY <4>1
        <4> QED BY <1>5, <2>6, <4>2, <4>3, <4>4, FactFollows
      <3> QED BY <3>1, <3>2
    <2> QED BY <2>1, <2>4, <2>5, <2>6 DEF Shows
  <1> QED BY <1>0, <1>3, <1>5, FollowsOne

\* w is what the view v has become once msgs are handled, one by one: p[k] is
\* the view after k of them.
Reads(v, msgs, w) ==
  \E p : /\ p[0] = v
         /\ \A k \in 1 .. Len(msgs) : p[k] = Reduced(p[k - 1], msgs[k])
         /\ w = p[Len(msgs)]

\* Without a message the view stays what it was.
LEMMA ReadsNothing ==
  ASSUME NEW v
  PROVE  Reads(v, <<>>, v)
PROOF
  <1>1. PICK p : p = [k \in {0} |-> v]
    OBVIOUS
  <1>2. p[0] = v /\ Len(<<>>) = 0 /\ 1 .. 0 = {}
    BY <1>1
  <1> QED BY <1>2 DEF Reads

\* A message more in the buffer is a message more to handle.
LEMMA ReadsSent ==
  ASSUME NEW v, NEW msgs \in Seq(Message), NEW m \in Message, NEW w,
         Reads(v, Append(msgs, m), w)
  PROVE  \E u : Reads(v, msgs, u) /\ w = Reduced(u, m)
PROOF
  <1> DEFINE n == Len(msgs)
             more == Append(msgs, m)
  <1>1. n \in Nat /\ Len(more) = n + 1 /\ more[n + 1] = m
        /\ \A k \in 1 .. n : more[k] = msgs[k]
    OBVIOUS
  <1>2. PICK p : /\ p[0] = v
                 /\ \A k \in 1 .. Len(more) : p[k] = Reduced(p[k - 1], more[k])
                 /\ w = p[Len(more)]
    BY DEF Reads
  <1>3. \A k \in 1 .. n : p[k] = Reduced(p[k - 1], msgs[k])
    <2> SUFFICES ASSUME NEW k \in 1 .. n PROVE p[k] = Reduced(p[k - 1], msgs[k])
      OBVIOUS
    <2>1. k \in 1 .. Len(more)
      BY <1>1
    <2> QED BY <1>1, <1>2, <2>1
  <1>4. Reads(v, msgs, p[n])
    BY <1>2, <1>3 DEF Reads
  <1>5. n + 1 \in 1 .. Len(more) /\ (n + 1) - 1 = n
    BY <1>1
  <1>6. w = Reduced(p[n], m)
    BY <1>1, <1>2, <1>5
  <1> QED BY <1>4, <1>6

\* The first message of the buffer is the first to be handled.
LEMMA ReadsHeard ==
  ASSUME NEW v, NEW msgs \in Seq(Message), msgs # <<>>, NEW w,
         Reads(Reduced(v, Head(msgs)), Tail(msgs), w)
  PROVE  Reads(v, msgs, w)
PROOF
  <1> DEFINE n == Len(msgs)
             rest == Tail(msgs)
  <1>1. n \in Nat \ {0} /\ Len(rest) = n - 1 /\ Head(msgs) = msgs[1]
        /\ \A k \in 1 .. (n - 1) : rest[k] = msgs[k + 1]
    OBVIOUS
  <1>2. PICK p : /\ p[0] = Reduced(v, Head(msgs))
                 /\ \A k \in 1 .. Len(rest) : p[k] = Reduced(p[k - 1], rest[k])
                 /\ w = p[Len(rest)]
    BY DEF Reads
  <1> HIDE DEF rest
  <1>3. PICK q : q = [k \in Nat |-> IF k = 0 THEN v ELSE p[k - 1]]
    OBVIOUS
  <1>4. q[0] = v /\ \A k \in Nat \ {0} : q[k] = p[k - 1]
    BY <1>3
  <1>5. ASSUME NEW k \in 1 .. n PROVE q[k] = Reduced(q[k - 1], msgs[k])
    <2>1. k \in Nat \ {0} /\ q[k] = p[k - 1]
      BY <1>1, <1>4
    <2>2. CASE k = 1
      <3>1. q[0] = v /\ p[0] = Reduced(v, msgs[1]) /\ k - 1 = 0
        BY <1>1, <1>2, <1>4, <2>2
      <3> QED BY <2>1, <2>2, <3>1
    <2>3. CASE k # 1
      <3>1. PICK i : i = k - 1
        OBVIOUS
      <3>2. i \in 1 .. Len(rest) /\ i \in 1 .. (n - 1) /\ i \in Nat \ {0} /\ i + 1 = k
        BY <1>1, <2>1, <2>3, <3>1
      <3>3. p[i] = Reduced(p[i - 1], rest[i])
        BY <1>2, <3>2
      <3>4. q[i] = p[i - 1] /\ rest[i] = msgs[k]
        BY <1>1, <1>4, <3>2
      <3> QED BY <2>1, <3>1, <3>3, <3>4
    <2> QED BY <2>2, <2>3
  <1>6. w = q[n]
    BY <1>1, <1>2, <1>4
  <1> QED BY <1>4, <1>5, <1>6 DEF Reads

\* Whoever has the view v and the messages msgs in its buffer, and will be
\* sent those of coming, will show the room r.
WillShow(v, msgs, coming, r, U) ==
  \A w : Reads(v, msgs, w) => Shows(Heard(w, coming), r, U)

\* Where nothing is queued or coming, what will be shown is shown.
LEMMA WillShowNow ==
  ASSUME NEW v, NEW r, NEW U, WillShow(v, <<>>, <<>>, r, U)
  PROVE  Shows(v, r, U)
  BY ReadsNothing, HeardFew DEF WillShow

\* The more is untold, the less a view has to show.
LEMMA WillShowMore ==
  ASSUME NEW v, NEW msgs, NEW coming, NEW r, NEW U, NEW W, U \subseteq W,
         WillShow(v, msgs, coming, r, U)
  PROVE  WillShow(v, msgs, coming, r, W)
  BY ShowsMore DEF WillShow

\* The room changes, and that will be told.
LEMMA WillShowAfter ==
  ASSUME NEW v, NEW msgs, NEW coming, NEW r, NEW q, NEW U, Follows(r, q, coming),
         WillShow(v, msgs, <<>>, r, U)
  PROVE  WillShow(v, msgs, coming, q, StillUntold(U, r, q, coming))
  BY HeardFew DEF WillShow, Follows

\* A message that is sent is coming no more.
LEMMA WillShowSent ==
  ASSUME NEW v, NEW msgs \in Seq(Message), NEW coming \in Seq(Message),
         Len(coming) \in {1, 2}, NEW r, NEW U, WillShow(v, msgs, coming, r, U)
  PROVE  WillShow(v, Append(msgs, Head(coming)), Tail(coming), r, U)
PROOF
  <1>1. Head(coming) \in Message
    OBVIOUS
  <1>2. ASSUME NEW w
        PROVE  Heard(Reduced(w, Head(coming)), Tail(coming)) = Heard(w, coming)
    <2>1. Head(coming) = coming[1] /\ Len(Tail(coming)) = Len(coming) - 1
          /\ (Len(coming) = 2 => Tail(coming)[1] = coming[2])
      OBVIOUS
    <2>2. CASE Len(coming) = 1
      <3>1. Len(Tail(coming)) = 0
        BY <2>1, <2>2
      <3>2. \A v1, rest : Len(rest) = 0 => Heard(v1, rest) = v1
        BY DEF Heard
      <3>3. Heard(w, coming) = Reduced(w, coming[1])
        BY <2>2 DEF Heard
      <3> QED BY <2>1, <3>1, <3>2, <3>3
    <2>3. CASE Len(coming) = 2
      <3>1. Len(Tail(coming)) = 1
        BY <2>1, <2>3
      <3>2. Heard(Reduced(w, coming[1]), Tail(coming))
              = Reduced(Reduced(w, coming[1]), Tail(coming)[1])
        BY <3>1 DEF Heard
      <3>3. Heard(w, coming) = Reduced(Reduced(w, coming[1]), coming[2])
        BY <2>3 DEF Heard
      <3> QED BY <2>1, <2>3, <3>2, <3>3
    <2> QED BY <2>2, <2>3
  <1>3. ASSUME NEW w, Reads(v, Append(msgs, Head(coming)), w)
        PROVE  Shows(Heard(w, Tail(coming)), r, U)
    <2>1. PICK u : Reads(v, msgs, u) /\ w = Reduced(u, Head(coming))
      BY <1>1, <1>3, ReadsSent
    <2>2. Shows(Heard(u, coming), r, U)
      BY <2>1 DEF WillShow
    <2> QED BY <1>2, <2>1, <2>2
  <1> QED BY <1>3 DEF WillShow

\* An error changes no view.
LEMMA WillShowError ==
  ASSUME NEW v, NEW msgs \in Seq(Message), NEW coming, NEW r, NEW U,
         WillShow(v, msgs, coming, r, U)
  PROVE  WillShow(v, Append(msgs, Plain("error")), coming, r, U)
PROOF
  <1>1. Plain("error") \in Message
    BY PlainOK
  <1>2. \A u : Reduced(u, Plain("error")) = u
    BY SilentReduced DEF Plain
  <1>3. ASSUME NEW w, Reads(v, Append(msgs, Plain("error")), w)
        PROVE  Shows(Heard(w, coming), r, U)
    <2>1. PICK u : Reads(v, msgs, u) /\ w = Reduced(u, Plain("error"))
      BY <1>1, <1>3, ReadsSent
    <2> QED BY <1>2, <2>1 DEF WillShow
  <1> QED BY <1>3 DEF WillShow

\* A message taken from the queue leaves what will be shown as it was.
LEMMA WillShowHeard ==
  ASSUME NEW v, NEW msgs \in Seq(Message), msgs # <<>>, NEW coming, NEW r, NEW U,
         WillShow(v, msgs, coming, r, U)
  PROVE  WillShow(Reduced(v, Head(msgs)), Tail(msgs), coming, r, U)
  BY ReadsHeard DEF WillShow

\* The countdown may expire whatever is coming.
LEMMA WillShowExpiry ==
  ASSUME NEW v, NEW msgs, NEW coming, NEW r, IsRoom(r), NEW t \in Nat, NEW U,
         NEW q, q = AfterTimerInfo(r, t), WillShow(v, msgs, coming, r, U)
  PROVE  WillShow(v, msgs, coming, q, U)
PROOF
  <1>1. Follows(r, q, <<>>)
    BY ExpiryFollows
  <1>2. q.participants = r.participants
    BY DEF AfterTimerInfo, IsRoom
  <1>3. StillUntold(U, r, q, <<>>) \subseteq U
    BY <1>2, SameParticipants DEF StillUntold
  <1>4. ASSUME NEW w, Shows(w, r, U) PROVE Shows(w, q, U)
    <2>1. Shows(w, q, StillUntold(U, r, q, <<>>))
      BY <1>1, <1>4, HeardFew DEF Follows
    <2> QED BY <1>3, <2>1, ShowsMore
  <1> QED BY <1>4 DEF WillShow

\* Whoever will be sent the room_state needs nothing else.
LEMMA WillShowState ==
  ASSUME NEW v, NEW msgs, NEW r, IsRoom(r), NEW t \in Nat, NEW ballot, NEW U
  PROVE  WillShow(v, msgs, <<RoomState(r, t, ballot)>>, AfterTimerInfo(r, t), U)
PROOF
  <1>1. PICK m : m = RoomState(r, t, ballot)
    OBVIOUS
  <1>2. \A w : Heard(w, <<m>>) = Reduced(w, m)
    BY HeardFew
  <1>3. \A w : Shows(Reduced(w, m), AfterTimerInfo(r, t), U)
    BY <1>1, RoomStateReduced
  <1>4. WillShow(v, msgs, <<m>>, AfterTimerInfo(r, t), U)
    BY <1>2, <1>3 DEF WillShow
  <1> QED BY <1>1, <1>4

(***************************************************************************)
(* The invariant.                                                          *)
(***************************************************************************)
\* Where a connection is in no handler, and where a handler has nothing to
\* tell the clients, yet or any more.
Resting == {"new", "read", "gone"}
Silent == Resting \cup {"create", "join", "handle", "forget", "mark", "bye"}

\* Nobody but perhaps h is in a handler: no two handlers overlap.
Only(h) == \A c \in Conn \ {h} : pc[c] \in Resting
\* Of all connections at most one is in a handler.
OneAtATime == \E h \in Conn : Only(h)

\* What the handler of h, which is at p with the locals j, will send to d.
ComingFor(p, j, r, h, d) ==
  IF p \in {"register", "state"} /\ d # h THEN <<Reread(r, j.todo[1])>>
  ELSE IF p = "welcome"
       THEN IF d = h THEN <<j.todo[1]>> ELSE <<Reread(r, j.todo[2])>>
  ELSE IF p = "snapshot" /\ d \notin j.skip THEN j.todo
  ELSE IF p = "send" /\ d \notin j.skip
       THEN IF d \in j.rest THEN j.todo ELSE Tail(j.todo)
  ELSE <<>>

\* The same, of the state.
Coming(h, d) == ComingFor(pc[h], job[h], heap[1], h, d)

\* d still gets what is sent to it.
Live(d) == pump[d] /\ ~done[d]

\* d has been told that the room was cleared, and has not joined it again.
Warned(d) ==
  mustJoin[d] \/ \E k \in DOMAIN buf[d] : buf[d][k].type = "room_cleared"

\* Who joins will be sent the room_state, and who leaves needs no view.
Excusing(p, j) ==
  \/ p \in {"create", "join", "register", "state", "forget"}
  \/ p \in {"snapshot", "send"} /\ j.next = "forget"

\* d needs no true view yet.
Excused(d) == Warned(d) \/ Excusing(pc[d], job[d])

\* The room is about to be cleared.
Clearing(p, j) ==
  \/ p \in {"snapshot", "send"} /\ j.next = "handle"
  \/ p = "handle" /\ j.event.kind = "clear_room"

\* With what it holds and what h will send to it, d will show the room.
Served(d, h) ==
  /\ Excused(d) \/ WillShow(view[d], buf[d], Coming(h, d), heap[1], untold)
  /\ Clearing(pc[h], job[h]) => Warned(d) \/ Coming(h, d) # <<>>

\* Every registered client whose connection works will see the room as it is
\* once it has read its queue and what the one handler at work still sends.
ViewsTrue ==
  \A h \in Conn : Only(h) => \A d \in clients : Live(d) => Served(d, h)

\* What the locals of the handler of c are good for.
JobShape(p, j, c) ==
  /\ p = "create" => j.todo = <<>>
  /\ p \in {"register", "state", "welcome"} => j.skip = {c}
  /\ p \in {"snapshot", "send"} => Len(j.todo) <= 2
  /\ p = "send" => j.rest \cap j.skip = {}
  /\ p \in {"snapshot", "send"} /\ j.next = "handle" =>
       j.skip = {} /\ j.todo = <<Plain("room_cleared")>>

\* So are the locals of all handlers.
JobsInv == \A c \in Conn : JobShape(pc[c], job[c], c)

\* There is at most the one room, and nobody is registered without it.
OneRoom == made <= 1 /\ \A c \in clients : pc[c] # "new" /\ made = 1

\* There is a tab for each connection.
TabsOK == DOMAIN view = Conn /\ mustJoin \in [Conn -> BOOLEAN]

\* What is untold is a fact of the room, and nobody is about to tell it.
UntoldInv ==
  \A e \in untold :
    /\ e[1] \in Members(heap[1])
    /\ \A c \in Conn : \A n \in DOMAIN job[c].todo : ~Tells(job[c].todo[n], e[1], e[2])

\* The inductive invariant.
PokerInv ==
  /\ TypeInv /\ TabsOK /\ OneRoom /\ JobsInv /\ NoCards(heap[1]) /\ UntoldInv
  /\ ViewsTrue

(***************************************************************************)
(* What is coming.                                                         *)
(***************************************************************************)
LEMMA NothingComing ==
  ASSUME NEW p, NEW j, NEW r, NEW h, NEW d,
         \/ p \in Silent
         \/ p \in {"snapshot", "send"} /\ d \in j.skip
         \/ p \in {"register", "state"} /\ d = h
  PROVE  ComingFor(p, j, r, h, d) = <<>>
  BY DEF ComingFor, Silent, Resting

\* Before the first send, all of the announcement is coming.
LEMMA AllComing ==
  ASSUME NEW j, NEW r, NEW h, NEW d, d \notin j.skip
  PROVE  ComingFor("snapshot", j, r, h, d) = j.todo
  BY DEF ComingFor

\* Where handlers rest, nothing is prepared.
LEMMA RestingJob ==
  ASSUME TypeInv, NEW c \in Conn, pc[c] \in Resting
  PROVE  job[c] = NoJob /\ job[c].todo = <<>>
PROOF
  <1>1. job[c] = NoJob
    BY OfConn DEF PlaceOK, Resting
  <1>2. NoJob.todo = <<>>
    BY DEF NoJob
  <1> QED BY <1>1, <1>2

\* How a step of c moves the connections.
LEMMA MovesOne ==
  ASSUME TypeInv, NEW c \in Conn, NEW p, NEW j, NEW s, Moves(c, p, j, s)
  PROVE  /\ pc'[c] = p /\ job'[c] = j
         /\ \A d \in Conn \ {c} : pc'[d] = pc[d] /\ job'[d] = job[d]
         /\ Only(c) => Only(c)'
  BY DEF TypeInv, ConnsOK, Moves, Only

\* If it is true of one handler that may be at work, it is of all.
LEMMA ViewsFromOne ==
  ASSUME NEW c \in Conn, Only(c)', \A d \in clients' : Live(d)' => Served(d, c)'
  PROVE  ViewsTrue'
PROOF
  <1> SUFFICES ASSUME NEW h \in Conn, Only(h)', NEW d \in clients', Live(d)'
               PROVE  Served(d, h)'
    BY DEF ViewsTrue
  <1>1. CASE h = c
    BY <1>1
  <1>2. CASE h # c
    <2>1. pc'[h] \in Resting /\ pc'[c] \in Resting
      BY <1>2 DEF Only
    <2>2. Coming(h, d)' = <<>> /\ Coming(c, d)' = <<>>
      BY <2>1, NothingComing DEF Coming, Silent
    <2>3. ~Clearing(pc'[h], job'[h])
      BY <2>1 DEF Clearing, Resting
    <2>4. Served(d, c)'
      OBVIOUS
    <2> QED BY <2>2, <2>3, <2>4 DEF Served
  <1> QED BY <1>1, <1>2

(***************************************************************************)
(* What is kept.                                                           *)
(***************************************************************************)
\* Messages only join the buffer of d.
Grows(d) ==
  buf'[d] = buf[d] \/ \E m \in Message : buf'[d] = Append(buf[d], m)

\* A message that is in the buffer remains there.
LEMMA StillThere ==
  ASSUME TypeInv, NEW d \in Conn, Grows(d), NEW k \in DOMAIN buf[d]
  PROVE  k \in DOMAIN buf'[d] /\ buf'[d][k] = buf[d][k]
PROOF
  <1>1. buf[d] \in Seq(Message)
    BY DEF TypeInv, BuffersOK
  <1>2. CASE buf'[d] = buf[d]
    BY <1>2
  <1>3. ASSUME NEW m \in Message, buf'[d] = Append(buf[d], m)
        PROVE  k \in DOMAIN buf'[d] /\ buf'[d][k] = buf[d][k]
    BY <1>1, <1>3
  <1> QED BY <1>2, <1>3 DEF Grows

\* Who has been warned remains so until it joins again.
LEMMA WarnedKept ==
  ASSUME TypeInv, TabsOK, Work, NEW d \in Conn, current # NoRoom, Warned(d), Grows(d),
         ~(pc[d] = "read" /\ pc'[d] = "create")
  PROVE  Warned(d)'
PROOF
  <1>1. CASE mustJoin[d]
    <2>1. ASSUME NEW q \in Request, ReceiveJoin(d, q) PROVE FALSE
      <3>1. pc[d] = "read" /\ Goto(d, "create")
        BY <2>1 DEF ReceiveJoin, Read
      <3>2. pc'[d] = "create"
        BY <3>1 DEF Goto, TypeInv, ConnsOK
      <3> QED BY <3>1, <3>2
    <2>2. mustJoin'[d] = (mustJoin[d] /\ ~(\E q \in Request : ReceiveJoin(d, q)))
      BY DEF Work
    <2> QED BY <1>1, <2>1, <2>2 DEF Warned
  <1>2. CASE \E k \in DOMAIN buf[d] : buf[d][k].type = "room_cleared"
    BY <1>2, StillThere DEF Warned
  <1> QED BY <1>1, <1>2 DEF Warned

\* What is untold after a step of c, while nobody else is in a handler.
LEMMA UntoldAfter ==
  ASSUME TypeInv, Work, NEW c \in Conn, NEW p, NEW j, NEW s, Moves(c, p, j, s), Only(c)
  PROVE  untold' = StillUntold(untold, heap[1], heap'[1], j.todo)
PROOF
  <1>1. job'[c] = j /\ \A d \in Conn \ {c} : job'[d] = job[d]
    BY MovesOne
  <1>2. ASSUME NEW d \in Conn \ {c} PROVE job'[d].todo = <<>>
    BY <1>1, RestingJob DEF Only
  <1>3. DOMAIN <<>> = {}
    OBVIOUS
  <1>4. ASSUME NEW e
        PROVE  (\A d \in Conn : \A n \in DOMAIN job'[d].todo :
                  ~Tells(job'[d].todo[n], e[1], e[2]))
               <=> (\A n \in DOMAIN j.todo : ~Tells(j.todo[n], e[1], e[2]))
    BY <1>1, <1>2, <1>3
  <1>5. untold' = {e \in untold \cup Changed(heap[1], heap'[1]) :
          /\ e[1] \in Members(heap'[1])
          /\ \A d \in Conn : \A n \in DOMAIN job'[d].todo :
               ~Tells(job'[d].todo[n], e[1], e[2])}
    BY DEF Work
  <1> QED BY <1>4, <1>5 DEF StillUntold

\* Nothing is told anew where the participants are the same and c has no more
\* to tell than before.
LEMMA UntoldKept ==
  ASSUME TypeInv, Work, UntoldInv, heap'[1].participants = heap[1].participants,
         NEW c \in Conn, NEW p, NEW j, NEW s, Moves(c, p, j, s),
         \A k \in DOMAIN j.todo : \A a, fact :
           Tells(j.todo[k], a, fact) =>
             \E n \in DOMAIN job[c].todo : Tells(job[c].todo[n], a, fact)
  PROVE  untold \subseteq untold'
PROOF
  <1> SUFFICES ASSUME NEW e \in untold PROVE e \in untold'
    OBVIOUS
  <1>1. job'[c] = j /\ \A d \in Conn \ {c} : job'[d] = job[d]
    BY MovesOne
  <1>2. e[1] \in Members(heap'[1])
    BY DEF UntoldInv, Members
  <1>3. ASSUME NEW d \in Conn, NEW n \in DOMAIN job'[d].todo
        PROVE  ~Tells(job'[d].todo[n], e[1], e[2])
    <2>1. CASE d = c
      BY <1>1, <2>1 DEF UntoldInv
    <2>2. CASE d # c
      BY <1>1, <2>2 DEF UntoldInv
    <2> QED BY <2>1, <2>2
  <1> QED BY <1>2, <1>3 DEF Work

\* c goes to p with the locals j, from where it had nothing to tell to where
\* it has told or will tell everybody what has changed.
Speaks(c, p, j) ==
  /\ pc[c] \in Silent
  /\ Follows(heap[1], heap'[1], j.todo)
  /\ \/ /\ p \in Silent /\ j.todo = <<>> /\ ~Clearing(p, j)
        /\ c \in clients' /\ Excusing(pc[c], job[c]) => Excusing(p, j)
     \/ /\ p = "snapshot" /\ j.skip = {} /\ j.todo # <<>>
        /\ ~Excusing(pc[c], job[c])
     \/ p = "snapshot" /\ j.skip = {c} /\ j.next = "forget"
     \/ /\ p = "register" /\ j.skip = {c}
        /\ j.todo = <<Reread(heap'[1], j.todo[1])>>

\* Clients may be lost and may be sent errors.
Hears(d) ==
  /\ d \in clients /\ Live(d)
  /\ buf'[d] \in {buf[d], Append(buf[d], Plain("error"))}

\* A connection that no broadcast reaches is sent nothing, or an error.
LEMMA HearsGrows ==
  ASSUME NEW d, Hears(d)
  PROVE  Grows(d)
  BY PlainOK DEF Hears, Grows

\* What is coming when c has spoken.
LEMMA SpokenComing ==
  ASSUME NEW c, NEW p, NEW j, Speaks(c, p, j), NEW d
  PROVE  /\ \/ ComingFor(p, j, heap'[1], c, d) = j.todo
            \/ d = c /\ Excusing(p, j)
         /\ Clearing(p, j) => ComingFor(p, j, heap'[1], c, d) # <<>>
PROOF
  <1>1. CASE p \in Silent /\ j.todo = <<>> /\ ~Clearing(p, j)
    BY <1>1, NothingComing
  <1>2. CASE p = "snapshot" /\ j.skip = {} /\ j.todo # <<>>
    BY <1>2, AllComing
  <1>3. CASE p = "snapshot" /\ j.skip = {c} /\ j.next = "forget"
    <2>1. ~Clearing(p, j) /\ Excusing(p, j)
      BY <1>3 DEF Clearing, Excusing
    <2>2. d # c => ComingFor(p, j, heap'[1], c, d) = j.todo
      BY <1>3, AllComing
    <2> QED BY <2>1, <2>2
  <1>4. CASE /\ p = "register" /\ j.skip = {c}
             /\ j.todo = <<Reread(heap'[1], j.todo[1])>>
    <2>1. ~Clearing(p, j) /\ Excusing(p, j)
      BY <1>4 DEF Clearing, Excusing
    <2>2. d # c => ComingFor(p, j, heap'[1], c, d) = <<Reread(heap'[1], j.todo[1])>>
      BY <1>4 DEF ComingFor
    <2> QED BY <1>4, <2>1, <2>2
  <1> QED BY <1>1, <1>2, <1>3, <1>4 DEF Speaks

\* Whoever was excused still is.
LEMMA SpokenExcuses ==
  ASSUME PokerInv, Work, current # NoRoom,
         NEW c \in Conn, NEW p, NEW j, NEW s, Moves(c, p, j, s), Only(c),
         Speaks(c, p, j), NEW d \in Conn, d \in clients', Hears(d), Excused(d)
  PROVE  Excused(d)'
PROOF
  <1>1. /\ pc'[c] = p /\ job'[c] = j
        /\ \A e \in Conn \ {c} : pc'[e] = pc[e] /\ job'[e] = job[e]
    BY MovesOne DEF PokerInv
  <1>2. CASE Warned(d)
    <2>1. CASE pc[d] = "read" /\ pc'[d] = "create"
      BY <2>1 DEF Excused, Excusing
    <2>2. CASE ~(pc[d] = "read" /\ pc'[d] = "create")
      BY <1>2, <2>2, WarnedKept, HearsGrows DEF Excused, PokerInv
    <2> QED BY <2>1, <2>2
  <1>3. CASE Excusing(pc[d], job[d])
    <2>1. CASE d = c
      <3>1. Excusing(p, j)
        <4>1. p = "snapshot" /\ j.next = "forget" => Excusing(p, j)
          BY DEF Excusing
        <4>2. p = "register" => Excusing(p, j)
          BY DEF Excusing
        <4> QED BY <1>3, <2>1, <4>1, <4>2 DEF Speaks
      <3> QED BY <1>1, <2>1, <3>1 DEF Excused
    <2>2. CASE d # c
      BY <1>3, <2>2 DEF Only, Excusing, Resting
    <2> QED BY <2>1, <2>2
  <1> QED BY <1>2, <1>3 DEF Excused

\* After a step of this kind the views of those who are left are true.
LEMMA SpokenServes ==
  ASSUME PokerInv, Work, current # NoRoom,
         NEW c \in Conn, NEW p, NEW j, NEW s, Moves(c, p, j, s), Only(c),
         Speaks(c, p, j), clients' \subseteq Conn,
         \A d \in clients' : Live(d)' => Hears(d)
  PROVE  ViewsTrue'
PROOF
  <1>1. pc'[c] = p /\ job'[c] = j /\ Only(c)'
    BY MovesOne DEF PokerInv
  <1>2. untold' = StillUntold(untold, heap[1], heap'[1], j.todo)
    BY UntoldAfter DEF PokerInv
  <1>3. view' = view
    BY DEF Work
  <1>4. ASSUME NEW d \in clients', Live(d)' PROVE Served(d, c)'
    <2>1. Hears(d) /\ d \in Conn
      BY <1>4
    <2>2. Served(d, c)
      BY <2>1 DEF PokerInv, ViewsTrue, Hears
    <2>3. Coming(c, d) = <<>>
      BY NothingComing DEF Speaks, Coming
    <2>4. Coming(c, d)' = ComingFor(p, j, heap'[1], c, d)
      BY <1>1 DEF Coming
    <2>5. Clearing(pc'[c], job'[c]) => Coming(c, d)' # <<>>
      BY <1>1, <2>4, SpokenComing
    <2>6. CASE Excused(d)
      BY <1>4, <2>1, <2>5, <2>6, SpokenExcuses DEF Served
    <2>7. CASE d = c /\ Excusing(p, j)
      BY <1>1, <2>5, <2>7 DEF Served, Excused
    <2>8. CASE ~Excused(d) /\ ~(d = c /\ Excusing(p, j))
      <3>1. WillShow(view[d], buf[d], <<>>, heap[1], untold)
        BY <2>2, <2>3, <2>8 DEF Served
      <3>2. buf[d] \in Seq(Message)
        BY <2>1 DEF PokerInv, TypeInv, BuffersOK
      <3>3. WillShow(view[d], Append(buf[d], Plain("error")), <<>>, heap[1], untold)
        BY <3>1, <3>2, WillShowError
      <3>4. WillShow(view[d], buf'[d], <<>>, heap[1], untold)
        BY <2>1, <3>1, <3>3 DEF Hears
      <3>5. Follows(heap[1], heap'[1], j.todo)
        BY DEF Speaks
      <3>6. WillShow(view[d], buf'[d], j.todo, heap'[1], untold')
        BY <1>2, <3>4, <3>5, WillShowAfter
      <3>7. Coming(c, d)' = j.todo
        BY <2>4, <2>8, SpokenComing
      <3>8. WillShow(view'[d], buf'[d], Coming(c, d)', heap'[1], untold')
        BY <1>3, <3>6, <3>7
      <3> QED BY <2>5, <3>8 DEF Served
    <2> QED BY <2>6, <2>7, <2>8
  <1> QED BY <1>1, <1>4, ViewsFromOne

\* Where there are no clients, or all of them are warned, views do not matter.
LEMMA WarnedServes ==
  ASSUME TypeInv, NEW c \in Conn, NEW p, NEW j, NEW s, Moves(c, p, j, s), Only(c),
         \A d \in clients' : Live(d)' => Warned(d)'
  PROVE  ViewsTrue'
PROOF
  <1>1. Only(c)'
    BY MovesOne
  <1>2. ASSUME NEW d \in clients', Live(d)' PROVE Served(d, c)'
    BY <1>2 DEF Served, Excused
  <1> QED BY <1>1, <1>2, ViewsFromOne

(***************************************************************************)
(* Messages on their way.                                                  *)
(***************************************************************************)
\* d is sent nothing now, and what is coming does not change.
LEMMA StaysServed ==
  ASSUME PokerInv, Work, current # NoRoom,
         NEW c \in Conn, NEW p, NEW j, NEW s, Moves(c, p, j, s),
         heap'[1] = heap[1], untold \subseteq untold',
         NEW d \in Conn, Served(d, c), buf'[d] = buf[d],
         ~(pc[d] = "read" /\ pc'[d] = "create"),
         d # c \/ (Excusing(pc[c], job[c]) => Excusing(p, j)),
         Clearing(p, j) => Clearing(pc[c], job[c]),
         ComingFor(p, j, heap[1], c, d) = Coming(c, d)
  PROVE  Served(d, c)'
PROOF
  <1>1. /\ pc'[c] = p /\ job'[c] = j
        /\ \A e \in Conn \ {c} : pc'[e] = pc[e] /\ job'[e] = job[e]
    BY MovesOne DEF PokerInv
  <1>2. Coming(c, d)' = Coming(c, d)
    BY <1>1 DEF Coming
  <1>3. Warned(d) => Warned(d)'
    BY WarnedKept DEF Grows, PokerInv
  <1>4. Excused(d) => Excused(d)'
    <2>1. Excusing(pc[d], job[d]) => Excusing(pc'[d], job'[d])
      BY <1>1
    <2> QED BY <1>3, <2>1 DEF Excused
  <1>5. WillShow(view[d], buf[d], Coming(c, d), heap[1], untold) =>
          WillShow(view'[d], buf'[d], Coming(c, d)', heap'[1], untold')
    <2>1. view' = view
      BY DEF Work
    <2> QED BY <1>2, <2>1, WillShowMore
  <1>6. Clearing(pc'[c], job'[c]) => Warned(d)' \/ Coming(c, d)' # <<>>
    BY <1>1, <1>2, <1>3 DEF Served
  <1> QED BY <1>4, <1>5, <1>6 DEF Served

\* d is sent the first message of what is coming.
LEMMA SentServed ==
  ASSUME PokerInv, Work, current # NoRoom,
         NEW c \in Conn, NEW p, NEW j, NEW s, Moves(c, p, j, s),
         heap'[1] = heap[1], untold \subseteq untold',
         NEW d \in Conn, Served(d, c),
         NEW coming \in Seq(Message), coming = Coming(c, d), Len(coming) \in {1, 2},
         buf'[d] = Append(buf[d], Head(coming)),
         ~(pc[d] = "read" /\ pc'[d] = "create"),
         d # c \/ (Excusing(pc[c], job[c]) => Excusing(p, j)),
         Clearing(p, j) => Head(coming).type = "room_cleared",
         ComingFor(p, j, heap[1], c, d) = Tail(coming)
  PROVE  Served(d, c)'
PROOF
  <1>1. /\ pc'[c] = p /\ job'[c] = j
        /\ \A e \in Conn \ {c} : pc'[e] = pc[e] /\ job'[e] = job[e]
    BY MovesOne DEF PokerInv
  <1>2. Coming(c, d)' = Tail(coming)
    BY <1>1 DEF Coming
  <1>0. buf[d] \in Seq(Message) /\ Head(coming) \in Message
    BY DEF PokerInv, TypeInv, BuffersOK
  <1>3. Warned(d) => Warned(d)'
    <2>1. Grows(d)
      BY <1>0 DEF Grows
    <2> QED BY <2>1, WarnedKept DEF PokerInv
  <1>4. Excused(d) => Excused(d)'
    <2>1. Excusing(pc[d], job[d]) => Excusing(pc'[d], job'[d])
      BY <1>1
    <2> QED BY <1>3, <2>1 DEF Excused
  <1>5. WillShow(view[d], buf[d], coming, heap[1], untold) =>
          WillShow(view'[d], buf'[d], Coming(c, d)', heap'[1], untold')
    <2>1. view' = view
      BY DEF Work
    <2>2. ASSUME WillShow(view[d], buf[d], coming, heap[1], untold)
          PROVE  WillShow(view[d], Append(buf[d], Head(coming)), Tail(coming),
                          heap[1], untold)
      BY <1>0, <2>2, WillShowSent
    <2> QED BY <1>2, <2>1, <2>2, WillShowMore
  <1>6. Clearing(pc'[c], job'[c]) => Warned(d)'
    <2>1. Head(coming).type = "room_cleared" => Warned(d)'
      <3>1. PICK m \in Message : m = Head(coming)
        BY <1>0
      <3>2. Len(buf[d]) + 1 \in DOMAIN buf'[d] /\ buf'[d][Len(buf[d]) + 1] = m
        BY <1>0, <3>1
      <3> QED BY <3>1, <3>2 DEF Warned
    <2> QED BY <1>1, <2>1
  <1> QED BY <1>4, <1>5, <1>6 DEF Served

(***************************************************************************)
(* A broadcast.                                                            *)
(***************************************************************************)
\* What d will be sent of a broadcast whose first message those in rest still
\* have to get.
ToSend(j, rest, d) ==
  IF d \in j.skip THEN <<>> ELSE IF d \in rest THEN j.todo ELSE Tail(j.todo)

\* The broadcast of c goes on at p with the locals j.
Proceeded(c, p, j, rest) ==
  /\ Moves(c, p, j, sid[c])
  /\ p \notin {"new", "create"}
  /\ JobShape(p, j, c)
  /\ \A k \in DOMAIN j.todo :
       \E n \in DOMAIN job[c].todo : j.todo[k] = job[c].todo[n]
  /\ Excusing(pc[c], job[c]) => Excusing(p, j)
  /\ Clearing(p, j) => Clearing(pc[c], job[c])
  /\ \A r, d : ComingFor(p, j, r, c, d) = ToSend(job[c], rest, d)

\* A list of length zero is empty.
LEMMA NoMessages ==
  ASSUME NEW msgs \in Seq(Message), Len(msgs) = 0
  PROVE  msgs = <<>>
  OBVIOUS

\* An announcement has one message or two.
LEMMA FewMessages ==
  ASSUME NEW msgs \in Seq(Message), msgs # <<>>, Len(msgs) <= 2
  PROVE  Len(msgs) \in {1, 2}
PROOF
  <1>1. Len(msgs) \in Nat /\ Len(msgs) # 0
    BY NoMessages
  <1>2. \A n \in Nat : n # 0 /\ n <= 2 => n \in {1, 2}
    OBVIOUS
  <1> QED BY <1>1, <1>2, Zenon

\* A single message leaves none after it.
LEMMA TailOfOne ==
  ASSUME NEW msgs \in Seq(Message), Len(msgs) = 1
  PROVE  Tail(msgs) = <<>>
PROOF
  <1>1. Tail(msgs) \in Seq(Message) /\ Len(Tail(msgs)) = 0
    OBVIOUS
  <1>2. PICK rest \in Seq(Message) : rest = Tail(msgs)
    BY <1>1
  <1>3. Len(rest) = 0
    BY <1>1, <1>2
  <1>4. rest = <<>>
    BY <1>3, NoMessages
  <1> QED BY <1>2, <1>4

\* Where the handler goes when some of the clients are served.
LEMMA ProceedComing ==
  ASSUME PokerInv, NEW c \in Conn, pc[c] \in {"snapshot", "send"}, UNCHANGED sid,
         NEW rest \in SUBSET Conn, rest \cap job[c].skip = {}, Proceed(c, rest)
  PROVE  \E p, j : Proceeded(c, p, j, rest)
PROOF
  <1>1. job[c] \in Job /\ job[c].todo \in Seq(Message) /\ job[c].todo # <<>>
    BY OfConn DEF PokerInv, PlaceOK, Job
  <1>2. JobShape(pc[c], job[c], c)
    BY DEF PokerInv, JobsInv
  <1>3. Len(job[c].todo) \in {1, 2}
    <2>1. Len(job[c].todo) <= 2
      BY <1>2 DEF JobShape
    <2> QED BY <1>1, <2>1, FewMessages
  <1>4. TypeInv
    BY DEF PokerInv
  <1>5. CASE /\ rest # {} /\ Goto(c, "send")
             /\ job' = [job EXCEPT ![c] = [@ EXCEPT !.rest = rest]]
    <2>1. PICK j : j = [job[c] EXCEPT !.rest = rest]
      OBVIOUS
    <2>2. j.rest = rest /\ j.todo = job[c].todo /\ j.skip = job[c].skip
          /\ j.next = job[c].next
      BY <1>1, <2>1 DEF Job
    <2>3. job' = [job EXCEPT ![c] = j]
      BY <1>5, <2>1
    <2>4. Moves(c, "send", j, sid[c])
      BY <1>4, <1>5, <2>3, Moving
    <2>5. JobShape("send", j, c)
      BY <1>2, <2>2 DEF JobShape
    <2>6. \A r, d : ComingFor("send", j, r, c, d) = ToSend(job[c], rest, d)
      BY <2>2 DEF ComingFor, ToSend
    <2>7. /\ Excusing(pc[c], job[c]) => Excusing("send", j)
          /\ Clearing("send", j) => Clearing(pc[c], job[c])
      BY <2>2 DEF Excusing, Clearing
    <2>8. Proceeded(c, "send", j, rest)
      BY <2>2, <2>4, <2>5, <2>6, <2>7 DEF Proceeded
    <2> QED BY <2>8
  <1>6. CASE /\ rest = {} /\ Len(job[c].todo) > 1 /\ Goto(c, "snapshot")
             /\ job' = [job EXCEPT ![c] =
                          [@ EXCEPT !.rest = {}, !.todo = Tail(job[c].todo)]]
    <2>0. PICK more : more = Tail(job[c].todo)
      OBVIOUS
    <2>1. PICK j : j = [job[c] EXCEPT !.rest = {}, !.todo = more]
      OBVIOUS
    <2>2. j.rest = {} /\ j.todo = more /\ j.skip = job[c].skip
          /\ j.next = job[c].next
      BY <1>1, <2>1 DEF Job
    <2>3. job' = [job EXCEPT ![c] = j]
      BY <1>6, <2>0, <2>1
    <2>4. Moves(c, "snapshot", j, sid[c])
      BY <1>4, <1>6, <2>3, Moving
    <2>5. JobShape("snapshot", j, c)
      <3>1. Len(more) = Len(job[c].todo) - 1
        BY <1>1, <2>0
      <3>2. PICK n \in {1, 2} : n = Len(job[c].todo)
        BY <1>3
      <3>3. Len(more) <= 2
        <4>1. n - 1 <= 2
          <5>1. 1 - 1 <= 2 /\ 2 - 1 <= 2
            OBVIOUS
          <5> QED BY <3>2, <5>1, Zenon
        <4> QED BY <3>1, <3>2, <4>1, Zenon
      <3>4. job[c].next # "handle"
        <4>1. \A m : Len(<<m>>) = 1
          OBVIOUS
        <4>2. n # 1
          <5>1. n > 1
            BY <1>6, <3>2, Zenon
          <5> QED BY <3>2, <5>1
        <4> QED BY <1>2, <3>2, <4>1, <4>2 DEF JobShape
      <3> QED BY <2>2, <3>3, <3>4 DEF JobShape
    <2>6. \A r, d : ComingFor("snapshot", j, r, c, d) = ToSend(job[c], rest, d)
      BY <1>6, <2>0, <2>2 DEF ComingFor, ToSend
    <2>7. /\ Excusing(pc[c], job[c]) => Excusing("snapshot", j)
          /\ Clearing("snapshot", j) => Clearing(pc[c], job[c])
      BY <2>2 DEF Excusing, Clearing
    <2>8. \A k \in DOMAIN more :
            \E n \in DOMAIN job[c].todo : more[k] = job[c].todo[n]
      BY <1>1, <1>6, <2>0, SeqFacts
    <2>9. Proceeded(c, "snapshot", j, rest)
      BY <2>2, <2>4, <2>5, <2>6, <2>7, <2>8 DEF Proceeded
    <2> QED BY <2>9
  <1>7. CASE /\ rest = {} /\ Len(job[c].todo) = 1 /\ job[c].next = "read" /\ Return(c)
    <2>1. Moves(c, "read", NoJob, sid[c])
      BY <1>4, <1>7, Moving DEF Return
    <2>2. JobShape("read", NoJob, c)
      BY DEF JobShape
    <2>3. \A r, d : ComingFor("read", NoJob, r, c, d) = <<>>
      BY NothingComing DEF Silent, Resting
    <2>4. \A d : ToSend(job[c], rest, d) = <<>>
      BY <1>1, <1>7, TailOfOne DEF ToSend
    <2>5. /\ Excusing(pc[c], job[c]) => Excusing("read", NoJob)
          /\ Clearing("read", NoJob) => Clearing(pc[c], job[c])
      BY <1>7 DEF Excusing, Clearing
    <2>6. NoJob.todo = <<>> /\ DOMAIN <<>> = {}
      BY DEF NoJob
    <2>7. Proceeded(c, "read", NoJob, rest)
      BY <2>1, <2>2, <2>3, <2>4, <2>5, <2>6 DEF Proceeded
    <2> QED BY <2>7
  <1>8. CASE /\ rest = {} /\ Len(job[c].todo) = 1 /\ job[c].next # "read"
             /\ Goto(c, job[c].next)
             /\ job' = [job EXCEPT ![c] = [@ EXCEPT !.rest = {}, !.todo = <<>>]]
    <2>0. PICK p : p = job[c].next
      OBVIOUS
    <2>1. PICK j : j = [job[c] EXCEPT !.rest = {}, !.todo = <<>>]
      OBVIOUS
    <2>2. j.todo = <<>> /\ j.next = job[c].next /\ j.event = job[c].event
      BY <1>1, <2>1 DEF Job
    <2>3. job' = [job EXCEPT ![c] = j] /\ Goto(c, p)
      BY <1>8, <2>0, <2>1
    <2>4. Moves(c, p, j, sid[c])
      BY <1>4, <2>3, Moving
    <2>5. p \in {"handle", "forget", "bye"}
      BY <1>1, <1>8, <2>0 DEF Job
    <2>6. JobShape(p, j, c)
      BY <2>5 DEF JobShape
    <2>7. \A r, d : ComingFor(p, j, r, c, d) = <<>>
      BY <2>5, NothingComing DEF Silent
    <2>8. \A d : ToSend(job[c], rest, d) = <<>>
      BY <1>1, <1>8, TailOfOne DEF ToSend
    <2>9. /\ Excusing(pc[c], job[c]) => Excusing(p, j)
          /\ Clearing(p, j) => Clearing(pc[c], job[c])
      BY <2>0, <2>5 DEF Excusing, Clearing
    <2>10. DOMAIN <<>> = {}
      OBVIOUS
    <2>11. Proceeded(c, p, j, rest)
      BY <2>2, <2>4, <2>5, <2>6, <2>7, <2>8, <2>9, <2>10 DEF Proceeded
    <2> QED BY <2>11
  <1> QED BY <1>5, <1>6, <1>7, <1>8 DEF Proceed

\* What a broadcast still has to tell, it had to tell before.
LEMMA ProceedUntold ==
  ASSUME PokerInv, Work, NEW c \in Conn, NEW p, NEW j, NEW rest,
         Proceeded(c, p, j, rest), UNCHANGED heap
  PROVE  untold \subseteq untold'
PROOF
  <1>1. Moves(c, p, j, sid[c])
    BY DEF Proceeded
  <1>2. \A k \in DOMAIN j.todo : \A a, fact :
          Tells(j.todo[k], a, fact) =>
            \E n \in DOMAIN job[c].todo : Tells(job[c].todo[n], a, fact)
    BY DEF Proceeded
  <1> QED BY <1>1, <1>2, UntoldKept DEF PokerInv

\* The clients to send to are noted: they will be sent what was coming.
LEMMA SnapshotServes ==
  ASSUME PokerInv, Work, current # NoRoom, NEW c \in Conn, Only(c), Snapshot(c)
  PROVE  JobShape(pc'[c], job'[c], c) /\ ViewsTrue'
PROOF
  <1>1. pc[c] = "snapshot" /\ Proceed(c, clients \ job[c].skip)
        /\ UNCHANGED <<heap, clients, sid, buf, done, pump>>
    BY DEF Snapshot, manager
  <1>2. clients \subseteq Conn
    BY DEF PokerInv, TypeInv, RestOK
  <1>3. PICK rest : rest = clients \ job[c].skip
    OBVIOUS
  <1>4. PICK p, j : Proceeded(c, p, j, rest)
    BY <1>1, <1>2, <1>3, ProceedComing
  <1>5. Moves(c, p, j, sid[c])
    BY <1>4 DEF Proceeded
  <1>6. pc'[c] = p /\ job'[c] = j /\ Only(c)'
        /\ \A e \in Conn \ {c} : pc'[e] = pc[e]
    BY <1>5, MovesOne DEF PokerInv
  <1>7. untold \subseteq untold'
    BY <1>1, <1>4, ProceedUntold
  <1>8. ASSUME NEW d \in clients', Live(d)' PROVE Served(d, c)'
    <2>1. d \in clients /\ Live(d) /\ d \in Conn
      BY <1>1, <1>2, <1>8 DEF Live
    <2>2. Served(d, c)
      BY <2>1 DEF PokerInv, ViewsTrue
    <2>3. ComingFor(p, j, heap[1], c, d) = Coming(c, d)
      <3>1. ComingFor(p, j, heap[1], c, d) = ToSend(job[c], rest, d)
        BY <1>4 DEF Proceeded
      <3>2. d \in job[c].skip \/ d \in rest
        BY <1>3, <2>1
      <3>3. Coming(c, d) = IF d \in job[c].skip THEN <<>> ELSE job[c].todo
        BY <1>1, AllComing, NothingComing DEF Coming
      <3> QED BY <3>1, <3>2, <3>3 DEF ToSend
    <2>4. ~(pc[d] = "read" /\ pc'[d] = "create")
      BY <1>4, <1>6, <2>1 DEF Proceeded
    <2>5. d # c \/ (Excusing(pc[c], job[c]) => Excusing(p, j))
      BY <1>4 DEF Proceeded
    <2>6. Clearing(p, j) => Clearing(pc[c], job[c])
      BY <1>4 DEF Proceeded
    <2>7. buf'[d] = buf[d] /\ heap'[1] = heap[1]
      BY <1>1
    <2> QED BY <1>5, <1>7, <2>1, <2>2, <2>3, <2>4, <2>5, <2>6, <2>7, StaysServed
  <1>9. ViewsTrue'
    BY <1>6, <1>8, ViewsFromOne
  <1> QED BY <1>4, <1>6, <1>9 DEF Proceeded

\* Sending adds the message to the buffer, or closes the client.
LEMMA SendDoes ==
  ASSUME TypeInv, NEW d \in Conn, NEW m, Send(d, m)
  PROVE  /\ \A e \in Conn \ {d} : buf'[e] = buf[e] /\ done'[e] = done[e]
         /\ \/ buf'[d] = Append(buf[d], m) /\ done'[d] = done[d]
            \/ buf'[d] = buf[d] /\ done'[d]
PROOF
  <1>1. buf \in [Conn -> Seq(Message)] /\ done \in [Conn -> BOOLEAN]
    BY DEF TypeInv, BuffersOK
  <1>2. CASE Len(buf[d]) < SendBufferSize
    <2>1. buf' = [buf EXCEPT ![d] = Append(buf[d], m)] /\ done' = done
      BY <1>2 DEF Send
    <2> QED BY <1>1, <2>1
  <1>3. CASE ~(Len(buf[d]) < SendBufferSize)
    <2>1. done' = [done EXCEPT ![d] = TRUE] /\ buf' = buf
      BY <1>3 DEF Send
    <2> QED BY <1>1, <2>1
  <1> QED BY <1>2, <1>3

\* One client is sent the message it was waiting for.
LEMMA SendOneServes ==
  ASSUME PokerInv, Work, current # NoRoom, NEW c \in Conn, Only(c),
         NEW d \in Conn, SendOne(c, d)
  PROVE  JobShape(pc'[c], job'[c], c) /\ ViewsTrue'
PROOF
  <1>1. pc[c] = "send" /\ d \in job[c].rest /\ Send(d, Head(job[c].todo))
        /\ Proceed(c, job[c].rest \ {d}) /\ UNCHANGED <<heap, clients, sid, pump>>
    BY DEF SendOne, manager
  <1>2. job[c] \in Job /\ TypeInv /\ clients \subseteq Conn
    BY OfConn DEF PokerInv, TypeInv, RestOK
  <1>3. JobShape(pc[c], job[c], c)
    BY DEF PokerInv, JobsInv
  <1>4. job[c].rest \subseteq Conn /\ job[c].rest \cap job[c].skip = {}
    BY <1>1, <1>2, <1>3 DEF JobShape, Job
  <1>5. PICK rest : rest = job[c].rest \ {d}
    OBVIOUS
  <1>6. PICK p, j : Proceeded(c, p, j, rest)
    BY <1>1, <1>4, <1>5, ProceedComing
  <1>7. Moves(c, p, j, sid[c])
    BY <1>6 DEF Proceeded
  <1>8. pc'[c] = p /\ job'[c] = j /\ Only(c)'
        /\ \A e \in Conn \ {c} : pc'[e] = pc[e]
    BY <1>2, <1>7, MovesOne
  <1>9. untold \subseteq untold'
    BY <1>1, <1>6, ProceedUntold
  <1>10. PICK coming : coming = job[c].todo
    OBVIOUS
  <1>11. coming \in Seq(Message) /\ Len(coming) \in {1, 2}
    <2>1. coming \in Seq(Message) /\ coming # <<>>
      BY <1>1, <1>2, <1>10, OfConn DEF PlaceOK, Job
    <2>2. Len(coming) <= 2
      BY <1>1, <1>3, <1>10 DEF JobShape
    <2> QED BY <2>1, <2>2, FewMessages
  <1>12. ASSUME NEW e \in clients', Live(e)' PROVE Served(e, c)'
    <2>1. e \in clients /\ e \in Conn /\ pump[e] /\ ~done'[e]
      BY <1>1, <1>2, <1>12 DEF Live
    <2>2. Live(e)
      BY <1>1, <1>2, <2>1, SendDoes DEF Live
    <2>3. Served(e, c)
      BY <2>1, <2>2 DEF PokerInv, ViewsTrue
    <2>4. ~(pc[e] = "read" /\ pc'[e] = "create")
      BY <1>6, <1>8, <2>1 DEF Proceeded
    <2>5. e # c \/ (Excusing(pc[c], job[c]) => Excusing(p, j))
      BY <1>6 DEF Proceeded
    <2>6. Clearing(p, j) => Clearing(pc[c], job[c])
      BY <1>6 DEF Proceeded
    <2>7. ComingFor(p, j, heap[1], c, e) = ToSend(job[c], rest, e)
      BY <1>6 DEF Proceeded
    <2>8. Coming(c, e) = ToSend(job[c], job[c].rest, e)
      BY <1>1 DEF Coming, ComingFor, ToSend
    <2>9. CASE e = d
      <3>1. d \notin job[c].skip /\ d \notin rest
        BY <1>1, <1>4, <1>5
      <3>2. coming = Coming(c, e) /\ ComingFor(p, j, heap[1], c, e) = Tail(coming)
        BY <1>1, <1>10, <2>7, <2>8, <2>9, <3>1 DEF ToSend
      <3>3. buf'[e] = Append(buf[e], Head(coming))
        BY <1>1, <1>2, <1>10, <2>1, <2>9, SendDoes
      <3>4. Clearing(p, j) => Head(coming).type = "room_cleared"
        <4>1. Clearing(p, j) => coming = <<Plain("room_cleared")>>
          BY <1>1, <1>3, <1>10, <2>6 DEF Clearing, JobShape
        <4>2. Plain("room_cleared").type = "room_cleared"
          BY DEF Plain
        <4>3. PICK m : m = Plain("room_cleared")
          OBVIOUS
        <4>4. Head(<<m>>) = m
          OBVIOUS
        <4> QED BY <4>1, <4>2, <4>3, <4>4
      <3> QED BY <1>1, <1>7, <1>9, <1>11, <2>1, <2>3, <2>4, <2>5, <3>2, <3>3, <3>4,
                 SentServed
    <2>10. CASE e # d
      <3>1. ComingFor(p, j, heap[1], c, e) = Coming(c, e)
        BY <1>5, <2>7, <2>8, <2>10 DEF ToSend
      <3>2. buf'[e] = buf[e] /\ heap'[1] = heap[1]
        BY <1>1, <1>2, <2>1, <2>10, SendDoes
      <3> QED BY <1>7, <1>9, <2>1, <2>3, <2>4, <2>5, <2>6, <3>1, <3>2, StaysServed
    <2> QED BY <2>9, <2>10
  <1>13. ViewsTrue'
    BY <1>8, <1>12, ViewsFromOne
  <1> QED BY <1>6, <1>8, <1>13 DEF Proceeded

(***************************************************************************)
(* A join, after the room has admitted the session.                        *)
(***************************************************************************)
\* A handler with a room has the one room.
LEMMA TheOneRoom ==
  ASSUME PokerInv, NEW c \in Conn,
         pc[c] \notin {"new", "read", "create", "bye", "gone"}
  PROVE  job[c].room = 1 /\ RoomOf(c) = heap[1] /\ made = 1
PROOF
  <1>1. job[c].room \in RoomId /\ job[c].room <= made
    BY HasRoom DEF PokerInv
  <1>2. made \in Nat /\ made <= 1 /\ MaxRooms \in Nat
    BY CurrentOK, RoomIds DEF PokerInv, OneRoom
  <1>3. job[c].room = 1 /\ made = 1
    <2>1. \A i \in RoomId : i \in Nat /\ i >= 1
      BY <1>2 DEF RoomId
    <2>2. PICK i \in Nat : i = job[c].room /\ i >= 1 /\ i <= made
      BY <1>1, <2>1
    <2>3. i = 1 /\ made = 1
      BY <1>2, <2>2
    <2> QED BY <2>2, <2>3
  <1> QED BY <1>3 DEF RoomOf

\* An announcement that is read again tells the same.
LEMMA RereadTells ==
  ASSUME NEW r, NEW m, NEW a, NEW fact
  PROVE  Tells(Reread(r, m), a, fact) => Tells(m, a, fact)
  BY DEF Tells, Reread, Joined

\* Where nobody but the participants counts.
LEMMA RereadSame ==
  ASSUME NEW r, NEW q, q.participants = r.participants, NEW m
  PROVE  Reread(q, m) = Reread(r, m)
  BY DEF Reread, Members

\* The client is registered: it will be sent the room_state.
LEMMA RegisterServes ==
  ASSUME PokerInv, Work, current # NoRoom, NEW c \in Conn, Only(c), RegisterClient(c)
  PROVE  JobShape(pc'[c], job'[c], c) /\ ViewsTrue'
PROOF
  <1>1. pc[c] = "register" /\ Steps(c, "state", job[c], sid[c])
    BY RegisterClientSteps DEF PokerInv
  <1>2. Moves(c, "state", job[c], sid[c])
    BY <1>1 DEF Steps
  <1>3. pc'[c] = "state" /\ job'[c] = job[c] /\ Only(c)'
        /\ \A e \in Conn \ {c} : pc'[e] = pc[e]
    BY <1>2, MovesOne DEF PokerInv
  <1>4. clients' = clients \cup {c} /\ clients \subseteq Conn
        /\ UNCHANGED <<heap, buf, done, pump>>
    BY DEF RegisterClient, PokerInv, TypeInv, RestOK
  <1>5. JobShape("state", job[c], c)
    <2>1. JobShape(pc[c], job[c], c)
      BY DEF PokerInv, JobsInv
    <2> QED BY <1>1, <2>1 DEF JobShape
  <1>6. untold \subseteq untold'
    BY <1>2, <1>4, UntoldKept DEF PokerInv
  <1>7. ~Clearing("state", job[c])
    BY DEF Clearing
  <1>8. ASSUME NEW d \in clients', Live(d)' PROVE Served(d, c)'
    <2>1. CASE d = c
      <3>1. Excusing(pc'[c], job'[c])
        BY <1>3 DEF Excusing
      <3> QED BY <1>3, <1>7, <2>1, <3>1 DEF Served, Excused
    <2>2. CASE d # c
      <3>1. d \in clients /\ d \in Conn /\ Live(d)
        BY <1>4, <1>8, <2>2 DEF Live
      <3>2. Served(d, c)
        BY <3>1 DEF PokerInv, ViewsTrue
      <3>3. ComingFor("state", job[c], heap[1], c, d) = Coming(c, d)
        BY <1>1, <2>2 DEF Coming, ComingFor
      <3>4. ~(pc[d] = "read" /\ pc'[d] = "create")
        BY <1>3, <2>2, <3>1
      <3>5. buf'[d] = buf[d] /\ heap'[1] = heap[1]
        BY <1>4
      <3> QED BY <1>2, <1>6, <1>7, <2>2, <3>1, <3>2, <3>3, <3>4, <3>5, StaysServed
    <2> QED BY <2>1, <2>2
  <1>9. ViewsTrue'
    BY <1>3, <1>8, ViewsFromOne
  <1> QED BY <1>3, <1>5, <1>9

\* The locals of a join in which the room_state is prepared, and after it is sent.
LEMMA WelcomeJob ==
  ASSUME PokerInv, NEW c \in Conn, Welcome(c)
  PROVE  \E j : /\ Moves(c, "snapshot", j, sid[c])
                /\ j.todo = <<Reread(heap[1], job[c].todo[2])>>
                /\ j.skip = {c} /\ j.next = "read"
PROOF
  <1>1. pc[c] = "welcome"
    BY DEF Welcome
  <1>2. PICK msgs : msgs = <<Reread(heap[1], job[c].todo[2])>>
    OBVIOUS
  <1>3. PICK j : j = [job[c] EXCEPT !.todo = msgs]
    OBVIOUS
  <1>4. job[c] \in Job /\ job[c].next = "read"
    BY <1>1, OfConn DEF PokerInv, PlaceOK
  <1>5. job[c].skip = {c}
    <2>1. JobShape(pc[c], job[c], c)
      BY DEF PokerInv, JobsInv
    <2> QED BY <1>1, <2>1 DEF JobShape
  <1>6. j.todo = msgs /\ j.skip = {c} /\ j.next = "read"
    BY <1>3, <1>4, <1>5 DEF Job
  <1>7. job' = [job EXCEPT ![c] = j] /\ Goto(c, "snapshot") /\ UNCHANGED sid
    <2>1. RoomOf(c) = heap[1]
      BY <1>1, TheOneRoom
    <2>2. job' = [job EXCEPT ![c] =
                    [job[c] EXCEPT !.todo = <<Reread(RoomOf(c), job[c].todo[2])>>]]
      BY Zenon DEF Welcome
    <2>3. Goto(c, "snapshot") /\ UNCHANGED sid
      BY DEF Welcome
    <2> QED BY <1>2, <1>3, <2>1, <2>2, <2>3
  <1>8. Moves(c, "snapshot", j, sid[c])
    BY <1>7, Moving DEF PokerInv
  <1> QED BY <1>2, <1>6, <1>8

\* The room_state is sent to the one who joins.
LEMMA WelcomeServes ==
  ASSUME PokerInv, Work, current # NoRoom, NEW c \in Conn, Only(c), Welcome(c)
  PROVE  JobShape(pc'[c], job'[c], c) /\ ViewsTrue'
PROOF
  <1>1. /\ pc[c] = "welcome" /\ DOMAIN job[c].todo = {1, 2}
        /\ job[c].todo[1] \in Message /\ Send(c, job[c].todo[1])
    BY WelcomeSteps DEF PokerInv
  <1>2. PICK j : /\ Moves(c, "snapshot", j, sid[c])
                 /\ j.todo = <<Reread(heap[1], job[c].todo[2])>>
                 /\ j.skip = {c} /\ j.next = "read"
    BY WelcomeJob
  <1>3. pc'[c] = "snapshot" /\ job'[c] = j /\ Only(c)'
        /\ \A e \in Conn \ {c} : pc'[e] = pc[e]
    BY <1>2, MovesOne DEF PokerInv
  <1>4. UNCHANGED <<heap, clients, pump>> /\ clients \subseteq Conn /\ TypeInv
    BY DEF Welcome, manager, PokerInv, TypeInv, RestOK
  <1>5. JobShape("snapshot", j, c)
    <2>1. \A m : Len(<<m>>) = 1
      OBVIOUS
    <2>2. Len(j.todo) = 1
      BY <1>2, <2>1
    <2>3. Len(j.todo) <= 2
      BY <2>2
    <2> QED BY <1>2, <2>3 DEF JobShape
  <1>6. untold \subseteq untold'
    <2>1. ASSUME NEW k \in DOMAIN j.todo, NEW a, NEW fact, Tells(j.todo[k], a, fact)
          PROVE  \E n \in DOMAIN job[c].todo : Tells(job[c].todo[n], a, fact)
      <3>1. PICK m : m = Reread(heap[1], job[c].todo[2])
        OBVIOUS
      <3>2. DOMAIN <<m>> = {1} /\ <<m>>[1] = m
        OBVIOUS
      <3>3. j.todo[k] = m
        BY <1>2, <2>1, <3>1, <3>2
      <3>4. Tells(job[c].todo[2], a, fact)
        BY <2>1, <3>1, <3>3, RereadTells
      <3> QED BY <1>1, <3>4
    <2> QED BY <1>2, <1>4, <2>1, UntoldKept DEF PokerInv
  <1>7. ~Clearing("snapshot", j) /\ ~Excusing(pc[c], job[c])
    BY <1>1, <1>2 DEF Clearing, Excusing
  <1>8. ASSUME NEW d \in clients', Live(d)' PROVE Served(d, c)'
    <2>1. d \in clients /\ d \in Conn /\ pump[d] /\ ~done'[d]
      BY <1>4, <1>8 DEF Live
    <2>2. Live(d)
      BY <1>1, <1>4, <2>1, SendDoes DEF Live
    <2>3. Served(d, c)
      BY <2>1, <2>2 DEF PokerInv, ViewsTrue
    <2>4. ~(pc[d] = "read" /\ pc'[d] = "create")
      BY <1>3, <2>1
    <2>5. CASE d = c
      <3>1. PICK m \in Message : m = job[c].todo[1]
        BY <1>1
      <3>0. <<m>> \in Seq(Message)
        BY OneMessage
      <3>2. PICK coming \in Seq(Message) : coming = <<m>>
        BY <3>0
      <3>3. Len(coming) \in {1, 2} /\ Head(coming) = m /\ Tail(coming) = <<>>
        BY <3>2
      <3>4. coming = Coming(c, d)
        BY <1>1, <2>5, <3>1, <3>2 DEF Coming, ComingFor
      <3>5. ComingFor("snapshot", j, heap[1], c, d) = Tail(coming)
        <4>1. d \in j.skip
          BY <1>2, <2>5
        <4>2. ComingFor("snapshot", j, heap[1], c, d) = <<>>
          BY <4>1, NothingComing
        <4> QED BY <3>3, <4>2
      <3>6. buf'[d] = Append(buf[d], Head(coming))
        BY <1>1, <1>4, <2>1, <2>5, <3>1, <3>3, SendDoes
      <3>7. heap'[1] = heap[1]
        BY <1>4
      <3> QED BY <1>2, <1>6, <1>7, <2>1, <2>3, <2>4, <3>3, <3>4, <3>5, <3>6, <3>7,
                 SentServed
    <2>6. CASE d # c
      <3>1. ComingFor("snapshot", j, heap[1], c, d) = Coming(c, d)
        BY <1>1, <1>2, <2>6 DEF Coming, ComingFor
      <3>2. buf'[d] = buf[d] /\ heap'[1] = heap[1]
        BY <1>1, <1>4, <2>1, <2>6, SendDoes
      <3> QED BY <1>2, <1>6, <1>7, <2>1, <2>3, <2>4, <2>6, <3>1, <3>2, StaysServed
    <2> QED BY <2>5, <2>6
  <1>9. ViewsTrue'
    BY <1>3, <1>8, ViewsFromOne
  <1> QED BY <1>3, <1>5, <1>9

\* A room_state tells of no change.
LEMMA StateTells ==
  ASSUME NEW r, NEW t, NEW ballot, NEW a, NEW fact
  PROVE  ~Tells(RoomState(r, t, ballot), a, fact)
  BY DEF Tells, RoomState

\* The locals of a join that has prepared the room_state.
LEMMA StateJob ==
  ASSUME PokerInv, NEW c \in Conn, BuildRoomState(c)
  PROVE  \E j, ballot :
           /\ Moves(c, "welcome", j, sid[c])
           /\ j.skip = {c} /\ DOMAIN j.todo = {1, 2}
           /\ j.todo[1] = RoomState(heap[1], now, ballot)
           /\ j.todo[2] = job[c].todo[1]
PROOF
  <1>1. pc[c] = "state" /\ job[c].room = 1
    BY TheOneRoom DEF BuildRoomState
  <1>2. job[c] \in Job /\ Len(job[c].todo) = 1 /\ job[c].todo \in Seq(Message)
    BY <1>1, OfConn DEF PokerInv, PlaceOK, Job
  <1>3. job[c].skip = {c}
    <2>1. JobShape(pc[c], job[c], c)
      BY DEF PokerInv, JobsInv
    <2> QED BY <1>1, <2>1 DEF JobShape
  <1>4. RoomState(heap[1], now, <<1, round[1]>>) \in Message
    BY <1>1, BuildRoomStateSteps DEF PokerInv
  <1>5. PICK m \in Message : m = RoomState(heap[1], now, <<1, round[1]>>)
    BY <1>4
  <1>6. PICK msgs : msgs = <<m>> \o job[c].todo
    OBVIOUS
  <1>7. msgs[1] = m /\ msgs[2] = job[c].todo[1] /\ DOMAIN msgs = {1, 2}
    BY <1>2, <1>6, TwoMessages
  <1>8. PICK j : j = [job[c] EXCEPT !.todo = msgs]
    OBVIOUS
  <1>9. j.todo = msgs /\ j.skip = {c}
    BY <1>2, <1>3, <1>8 DEF Job
  <1>10. job' = [job EXCEPT ![c] = j] /\ Goto(c, "welcome") /\ UNCHANGED sid
    BY <1>1, <1>5, <1>6, <1>8 DEF BuildRoomState
  <1>11. Moves(c, "welcome", j, sid[c])
    BY <1>10, Moving DEF PokerInv
  <1> QED BY <1>5, <1>7, <1>9, <1>11

\* The room_state is prepared; the countdown may have expired.
LEMMA StateServes ==
  ASSUME PokerInv, Work, current # NoRoom, NEW c \in Conn, Only(c), BuildRoomState(c)
  PROVE  JobShape(pc'[c], job'[c], c) /\ NoCards(heap'[1]) /\ ViewsTrue'
PROOF
  <1>1. pc[c] = "state" /\ job[c].room = 1 /\ UNCHANGED <<clients, buf, done, pump>>
    BY TheOneRoom DEF BuildRoomState, manager
  <1>2. PICK j, ballot :
          /\ Moves(c, "welcome", j, sid[c])
          /\ j.skip = {c} /\ DOMAIN j.todo = {1, 2}
          /\ j.todo[1] = RoomState(heap[1], now, ballot)
          /\ j.todo[2] = job[c].todo[1]
    BY StateJob
  <1>3. pc'[c] = "welcome" /\ job'[c] = j /\ Only(c)'
        /\ \A e \in Conn \ {c} : pc'[e] = pc[e] /\ job'[e] = job[e]
    BY <1>2, MovesOne DEF PokerInv
  <1>4. JobShape("welcome", j, c)
    BY <1>2 DEF JobShape
  <1>5. PICK q : q = AfterTimerInfo(heap[1], now)
    OBVIOUS
  <1>6. IsRoom(heap[1]) /\ now \in Nat /\ clients \subseteq Conn
    BY TheRoom, CurrentOK DEF PokerInv, TypeInv, RestOK
  <1>7. heap'[1] = q
    <2>1. heap' = [heap EXCEPT ![1] = AfterTimerInfo(heap[1], now)]
      BY <1>1 DEF BuildRoomState
    <2> QED BY <1>5, <2>1, TheRoom DEF PokerInv
  <1>8. q.participants = heap[1].participants
    BY <1>5, <1>6 DEF AfterTimerInfo, IsRoom
  <1>9. NoCards(q)
    BY <1>8 DEF PokerInv, NoCards, Members
  <1>10. untold \subseteq untold'
    <2>1. ASSUME NEW k \in DOMAIN j.todo, NEW a, NEW fact, Tells(j.todo[k], a, fact)
          PROVE  \E n \in DOMAIN job[c].todo : Tells(job[c].todo[n], a, fact)
      <3>1. k = 2
        BY <1>2, <2>1, StateTells
      <3>2. 1 \in DOMAIN job[c].todo
        <4>1. job[c].todo \in Seq(Message) /\ Len(job[c].todo) = 1
          BY <1>1, OfConn DEF PokerInv, PlaceOK, Job
        <4> QED BY <4>1
      <3> QED BY <1>2, <2>1, <3>1, <3>2
    <2> QED BY <1>2, <1>7, <1>8, <2>1, UntoldKept DEF PokerInv
  <1>11. ~Clearing("welcome", j)
    BY DEF Clearing
  <1>12. view' = view
    BY DEF Work
  <1>13. ASSUME NEW d \in clients', Live(d)' PROVE Served(d, c)'
    <2>1. d \in clients /\ d \in Conn /\ Live(d) /\ buf'[d] = buf[d]
      BY <1>1, <1>6, <1>13 DEF Live
    <2>2. Served(d, c)
      BY <2>1 DEF PokerInv, ViewsTrue
    <2>3. CASE d = c
      <3>1. PICK m : m = RoomState(heap[1], now, ballot)
        OBVIOUS
      <3>2. Coming(c, d)' = <<m>>
        BY <1>2, <1>3, <2>3, <3>1 DEF Coming, ComingFor
      <3>3. WillShow(view[d], buf[d], <<m>>, q, untold')
        BY <1>5, <1>6, <3>1, WillShowState
      <3>4. WillShow(view'[d], buf'[d], Coming(c, d)', heap'[1], untold')
        BY <1>7, <1>12, <2>1, <3>2, <3>3
      <3> QED BY <1>3, <1>11, <3>4 DEF Served
    <2>4. CASE d # c
      <3>1. Coming(c, d) = <<Reread(heap[1], job[c].todo[1])>>
        BY <1>1, <2>4 DEF Coming, ComingFor
      <3>2. Coming(c, d)' = <<Reread(q, j.todo[2])>>
        BY <1>3, <1>7, <2>4 DEF Coming, ComingFor
      <3>3. Reread(q, j.todo[2]) = Reread(heap[1], job[c].todo[1])
        BY <1>2, <1>8, RereadSame
      <3>4. Coming(c, d)' = Coming(c, d)
        BY <3>1, <3>2, <3>3
      <3>5. pc'[d] = pc[d] /\ job'[d] = job[d]
        BY <1>3, <2>1, <2>4
      <3>6. Warned(d) => Warned(d)'
        BY <2>1, <3>5, WarnedKept DEF Grows, PokerInv
      <3>7. Excused(d) => Excused(d)'
        BY <3>5, <3>6 DEF Excused
      <3>8. ASSUME WillShow(view[d], buf[d], Coming(c, d), heap[1], untold)
            PROVE  WillShow(view'[d], buf'[d], Coming(c, d)', heap'[1], untold')
        <4>1. WillShow(view[d], buf[d], Coming(c, d), q, untold)
          BY <1>5, <1>6, <3>8, WillShowExpiry
        <4>2. WillShow(view[d], buf[d], Coming(c, d), q, untold')
          BY <1>10, <4>1, WillShowMore
        <4> QED BY <1>7, <1>12, <2>1, <3>4, <4>2
      <3> QED BY <1>3, <1>11, <2>2, <3>7, <3>8 DEF Served
    <2> QED BY <2>3, <2>4
  <1>14. ViewsTrue'
    BY <1>3, <1>13, ViewsFromOne
  <1> QED BY <1>3, <1>4, <1>7, <1>9, <1>14

(***************************************************************************)
(* The handlers that lock the room for one step.                           *)
(***************************************************************************)
\* The step of c keeps the invariant, as far as it is about the room, the
\* locals of c and the views.
Good(c) == JobShape(pc'[c], job'[c], c) /\ NoCards(heap'[1]) /\ ViewsTrue'

\* Nothing or an error is sent.
LEMMA ErrorHears ==
  ASSUME TypeInv, NEW c \in Conn, SendError(c) \/ UNCHANGED <<buf, done>>,
         UNCHANGED pump, clients' \subseteq clients
  PROVE  \A d \in clients' : Live(d)' => Hears(d)
PROOF
  <1> SUFFICES ASSUME NEW d \in clients', Live(d)' PROVE Hears(d)
    OBVIOUS
  <1>1. d \in clients /\ d \in Conn /\ pump[d] /\ ~done'[d]
    BY DEF Live, TypeInv, RestOK
  <1>2. CASE UNCHANGED <<buf, done>>
    BY <1>1, <1>2 DEF Hears, Live
  <1>3. CASE SendError(c)
    <2>1. PICK m : m = Plain("error")
      OBVIOUS
    <2>2. Send(c, m)
      BY <1>3, <2>1 DEF SendError
    <2>3. ~done[d] /\ buf'[d] \in {buf[d], Append(buf[d], m)}
      BY <1>1, <2>2, SendDoes
    <2> QED BY <1>1, <2>1, <2>3 DEF Hears, Live
  <1> QED BY <1>2, <1>3

\* How the room that a handler has changed is the one room.
LEMMA BecomesTheRoom ==
  ASSUME PokerInv, NEW c \in Conn, pc[c] \in {"join", "handle", "mark"},
         NEW r, Becomes(c, r)
  PROVE  heap'[1] = r
  BY TheOneRoom, TheRoom DEF PokerInv, Becomes

\* A handler that commits tells.
LEMMA CommitServes ==
  ASSUME PokerInv, Work, current # NoRoom, NEW c \in Conn, Only(c),
         NEW kind, Locked(c, kind), NEW r, NEW msgs, Len(msgs) \in {1, 2},
         Commit(c, r, msgs), Follows(heap[1], r, msgs), NoCards(r)
  PROVE  Good(c)
PROOF
  <1>1. pc[c] = "handle" /\ UNCHANGED <<clients, sid, pump>>
    BY DEF Locked, manager
  <1>2. Becomes(c, r) /\ Broadcast(c, msgs, {}, "read") /\ UNCHANGED <<buf, done>>
    BY DEF Commit
  <1>3. job[c] \in Job /\ TypeInv /\ clients \subseteq Conn
    BY OfConn DEF PokerInv, TypeInv, RestOK
  <1>4. heap'[1] = r
    BY <1>1, <1>2, BecomesTheRoom
  <1>5. PICK j : j = [job[c] EXCEPT !.todo = msgs, !.skip = {}, !.next = "read"]
    OBVIOUS
  <1>6. j.todo = msgs /\ j.skip = {} /\ j.next = "read"
    BY <1>3, <1>5 DEF Job
  <1>7. job' = [job EXCEPT ![c] = j] /\ Goto(c, "snapshot")
    BY <1>2, <1>5 DEF Broadcast
  <1>8. Moves(c, "snapshot", j, sid[c])
    BY <1>1, <1>3, <1>7, Moving
  <1>9. pc'[c] = "snapshot" /\ job'[c] = j
    BY <1>3, <1>8, MovesOne
  <1>10. Len(msgs) <= 2
    <2>1. \A n \in {1, 2} : n <= 2
      OBVIOUS
    <2> QED BY <2>1
  <1>11. msgs # <<>>
    <2>1. Len(<<>>) = 0
      OBVIOUS
    <2> QED BY <2>1
  <1>12. JobShape("snapshot", j, c)
    BY <1>6, <1>10 DEF JobShape
  <1>13. Speaks(c, "snapshot", j)
    <2>1. ~Excusing(pc[c], job[c]) /\ pc[c] \in Silent
      BY <1>1 DEF Excusing, Silent
    <2> QED BY <1>4, <1>6, <1>11, <2>1 DEF Speaks
  <1>14. \A d \in clients' : Live(d)' => Hears(d)
    BY <1>1, <1>2, <1>3, ErrorHears
  <1>15. ViewsTrue'
    BY <1>1, <1>3, <1>8, <1>13, <1>14, SpokenServes
  <1> QED BY <1>4, <1>9, <1>12, <1>15 DEF Good

\* One that returns has nothing to tell.
LEMMA ReturnServes ==
  ASSUME PokerInv, Work, current # NoRoom, NEW c \in Conn, Only(c),
         NEW kind, Locked(c, kind), Return(c),
         SendError(c) \/ UNCHANGED <<buf, done>>,
         NEW r, (UNCHANGED heap /\ r = heap[1]) \/ Becomes(c, r),
         Follows(heap[1], r, <<>>), NoCards(r)
  PROVE  Good(c)
PROOF
  <1>1. pc[c] = "handle" /\ UNCHANGED <<clients, sid, pump>>
    BY DEF Locked, manager
  <1>2. TypeInv /\ clients \subseteq Conn
    BY DEF PokerInv, TypeInv, RestOK
  <1>3. heap'[1] = r
    BY <1>1, BecomesTheRoom
  <1>4. Moves(c, "read", NoJob, sid[c])
    BY <1>1, <1>2, Moving DEF Return
  <1>5. pc'[c] = "read" /\ job'[c] = NoJob
    BY <1>2, <1>4, MovesOne
  <1>6. JobShape("read", NoJob, c)
    BY DEF JobShape
  <1>7. Speaks(c, "read", NoJob)
    <2>1. ~Excusing(pc[c], job[c]) /\ pc[c] \in Silent /\ "read" \in Silent
          /\ ~Clearing("read", NoJob)
      BY <1>1 DEF Excusing, Silent, Resting, Clearing
    <2>2. NoJob.todo = <<>>
      BY DEF NoJob
    <2> QED BY <1>3, <2>1, <2>2 DEF Speaks
  <1>8. \A d \in clients' : Live(d)' => Hears(d)
    BY <1>1, <1>2, ErrorHears
  <1>9. ViewsTrue'
    BY <1>1, <1>2, <1>4, <1>7, <1>8, SpokenServes
  <1> QED BY <1>3, <1>5, <1>6, <1>9 DEF Good

\* A call that is refused or ignored.
LEMMA RefusedServes ==
  ASSUME PokerInv, Work, current # NoRoom, NEW c \in Conn, Only(c),
         NEW kind, Locked(c, kind), Refuse(c) \/ Ignore(c)
  PROVE  Good(c)
PROOF
  <1>1. IsRoom(heap[1]) /\ NoCards(heap[1])
    BY TheRoom DEF PokerInv
  <1>2. Follows(heap[1], heap[1], <<>>)
    BY <1>1, SameFollows
  <1>3. PICK r : r = heap[1]
    OBVIOUS
  <1>4. UNCHANGED heap /\ Return(c) /\ (SendError(c) \/ UNCHANGED <<buf, done>>)
    BY DEF Refuse, Ignore
  <1>5. Follows(heap[1], r, <<>>) /\ NoCards(r)
    BY <1>1, <1>2, <1>3
  <1> QED BY <1>3, <1>4, <1>5, ReturnServes

\* The room of a handler in its critical section.
LEMMA InHandler ==
  ASSUME PokerInv, NEW c \in Conn, NEW kind, Locked(c, kind)
  PROVE  /\ IsRoom(heap[1]) /\ NoCards(heap[1]) /\ RoomOf(c) = heap[1] /\ now \in Nat
         /\ job[c].event \in Request /\ job[c].event.kind = kind
         /\ TypeInv
PROOF
  <1>1. pc[c] = "handle" /\ job[c].event.kind = kind
    BY DEF Locked
  <1> QED BY <1>1, TheRoom, TheOneRoom, CurrentOK, OfConn DEF PokerInv, PlaceOK

\* A single message and two.
LEMMA Lengths ==
  /\ \A m : Len(<<m>>) \in {1, 2}
  /\ \A m, k : Len(<<m, k>>) \in {1, 2}
  OBVIOUS

(***************************************************************************)
(* Observers hold no card.                                                 *)
(***************************************************************************)
\* The same participants with the same cards and roles, or fewer.
LEMMA NoCardsSame ==
  ASSUME NEW r, NoCards(r), NEW q, Members(q) \subseteq Members(r),
         \A m \in Members(q) : /\ q.participants[m].vote = r.participants[m].vote
                               /\ q.participants[m].role = r.participants[m].role
  PROVE  NoCards(q)
  BY DEF NoCards

\* That observers hold no card depends on the participants alone.
LEMMA NoCardsSeats ==
  ASSUME NEW r, NoCards(r), NEW q, q.participants = r.participants
  PROVE  NoCards(q)
  BY DEF NoCards, Members

\* Only who is no observer gets a card (room.go:285).
LEMMA NoCardsVote ==
  ASSUME NEW r, IsRoom(r), NoCards(r), NEW me \in Members(r), NEW value, NEW t,
         r.participants[me].role # "observer", NEW q, q = AfterCastVote(r, me, value, t)
  PROVE  NoCards(q)
PROOF
  <1>1. /\ Members(q) = Members(r)
        /\ \A m \in Members(r) \ {me} : q.participants[m] = r.participants[m]
        /\ q.participants[me].role = r.participants[me].role
    BY CastVoteEffect
  <1> QED BY <1>1 DEF NoCards

\* Who becomes an observer loses the card (room.go:266).
LEMMA NoCardsRole ==
  ASSUME NEW r, IsRoom(r), NoCards(r), NEW me \in Members(r), NEW role, NEW t,
         NEW q, q = AfterUpdateRole(r, me, role, t)
  PROVE  NoCards(q)
PROOF
  <1>1. /\ Members(q) = Members(r)
        /\ \A m \in Members(r) \ {me} : q.participants[m] = r.participants[m]
        /\ q.participants[me].role = role
        /\ q.participants[me].vote = CardKept(role, r.participants[me].vote)
    BY UpdateRoleEffect
  <1> QED BY <1>1 DEF NoCards, CardKept

\* Nor does a join leave an observer a card (room.go:205).
LEMMA NoCardsJoin ==
  ASSUME NEW r, IsRoom(r), NoCards(r), NEW s, NEW raw, NEW role, NEW t,
         NEW q, q = AfterJoin(r, s, raw, role, t)
  PROVE  NoCards(q)
PROOF
  <1>1. /\ Members(q) = Members(r) \cup {s}
        /\ \A m \in Members(r) \ {s} : q.participants[m] = r.participants[m]
        /\ q.participants[s].role = JoinRole(role)
        /\ q.participants[s].vote = CardKept(JoinRole(role), VoteOf(r, s))
    BY JoinEffect
  <1> QED BY <1>1 DEF NoCards, CardKept

(***************************************************************************)
(* Each handler, one by one.                                               *)
(***************************************************************************)
LEMMA VoteServes ==
  ASSUME PokerInv, Work, current # NoRoom, NEW c \in Conn, Only(c), HandleVote(c)
  PROVE  Good(c)
PROOF
  <1>1. Locked(c, "vote")
    BY DEF HandleVote
  <1>2. IsRoom(heap[1]) /\ NoCards(heap[1]) /\ RoomOf(c) = heap[1]
    BY <1>1, InHandler
  <1>3. PICK me, value : me = sid[c] /\ value = job[c].event.value
    OBVIOUS
  <1>4. PICK q : q = AfterCastVote(heap[1], me, value, now)
    OBVIOUS
  <1>5. CASE ~CanCastVote(heap[1], me, value)
    BY <1>1, <1>2, <1>3, <1>5, RefusedServes DEF HandleVote
  <1>6. CASE CanCastVote(heap[1], me, value)
    <2>1. me \in Members(heap[1]) /\ heap[1].phase = "voting"
          /\ heap[1].participants[me].role # "observer"
      BY <1>6 DEF CanCastVote
    <2>2. PICK m : m = About(IF value = "" THEN "vote_retracted" ELSE "vote_cast", me)
      OBVIOUS
    <2>3. /\ value = "" /\ heap[1].participants[me].vote = "" =>
               Follows(heap[1], q, <<>>)
          /\ Follows(heap[1], q, <<m>>)
      BY <1>2, <1>4, <2>1, <2>2, VoteFollows
    <2>4. NoCards(q)
      BY <1>2, <1>4, <2>1, NoCardsVote
    <2>5. CASE value = "" /\ heap[1].participants[me].vote = ""
      <3>1. Becomes(c, q) /\ Return(c) /\ UNCHANGED <<buf, done>>
        BY <1>2, <1>3, <1>4, <1>6, <2>5 DEF HandleVote
      <3> QED BY <1>1, <2>3, <2>4, <2>5, <3>1, ReturnServes
    <2>6. CASE ~(value = "" /\ heap[1].participants[me].vote = "")
      <3>1. Commit(c, q, <<m>>)
        BY <1>2, <1>3, <1>4, <1>6, <2>2, <2>6 DEF HandleVote
      <3>2. PICK msgs : msgs = <<m>>
        OBVIOUS
      <3>3. Len(msgs) \in {1, 2} /\ Commit(c, q, msgs) /\ Follows(heap[1], q, msgs)
        BY <2>3, <3>1, <3>2, Lengths
      <3> QED BY <1>1, <2>4, <3>3, CommitServes
    <2> QED BY <2>5, <2>6
  <1> QED BY <1>5, <1>6

\* A handler that has one message to tell.
LEMMA TellServes ==
  ASSUME PokerInv, Work, current # NoRoom, NEW c \in Conn, Only(c),
         NEW kind, Locked(c, kind), NEW r, NEW m,
         Commit(c, r, <<m>>), Follows(heap[1], r, <<m>>), NoCards(r)
  PROVE  Good(c)
PROOF
  <1>1. PICK msgs : msgs = <<m>>
    OBVIOUS
  <1>2. Len(msgs) \in {1, 2} /\ Commit(c, r, msgs) /\ Follows(heap[1], r, msgs)
    BY <1>1, Lengths
  <1> QED BY <1>2, CommitServes

\* Another name changes no card, and a new round takes them all.
LEMMA NoCardsName ==
  ASSUME NEW r, IsRoom(r), NoCards(r), NEW s \in Members(r), NEW raw, NEW t,
         NEW q, q = AfterUpdateName(r, s, raw, t)
  PROVE  NoCards(q)
PROOF
  <1>1. /\ Members(q) = Members(r)
        /\ \A m \in Members(r) : /\ q.participants[m].vote = r.participants[m].vote
                                 /\ q.participants[m].role = r.participants[m].role
    BY UpdateNameEffect
  <1> QED BY <1>1 DEF NoCards

\* A new round takes all cards back (room.go:318).
LEMMA NoCardsNewRound ==
  ASSUME NEW r, IsRoom(r), NEW t, NEW q, q = AfterNewRound(r, t)
  PROVE  NoCards(q)
PROOF
  <1>1. Members(q) = Members(r) /\ \A m \in Members(r) : q.participants[m].vote = ""
    BY NewRoundEffect
  <1> QED BY <1>1 DEF NoCards

\* handleReveal.
LEMMA RevealServes ==
  ASSUME PokerInv, Work, current # NoRoom, NEW c \in Conn, Only(c), HandleReveal(c)
  PROVE  Good(c)
PROOF
  <1>1. Locked(c, "reveal")
    BY DEF HandleReveal
  <1>2. IsRoom(heap[1]) /\ NoCards(heap[1]) /\ RoomOf(c) = heap[1] /\ now \in Nat
    BY <1>1, InHandler
  <1>3. CASE ~CanReveal(heap[1])
    BY <1>1, <1>2, <1>3, RefusedServes DEF HandleReveal
  <1>4. CASE CanReveal(heap[1])
    <2>1. PICK q : q = AfterReveal(heap[1], now)
      OBVIOUS
    <2>2. IsRoom(q)
      BY <1>2, <2>1, TimerOK
    <2>3. q.participants = heap[1].participants
      BY <1>2, <2>1, RevealEffect
    <2>4. NoCards(q)
      BY <1>2, <2>3, NoCardsSeats
    <2>5. PICK ballot : ballot = <<job[c].room, round[job[c].room]>>
      OBVIOUS
    <2>6. PICK m : m = VotesRevealed(q, ballot)
      OBVIOUS
    <2>7. Follows(heap[1], q, <<m>>)
      BY <1>2, <2>1, <2>2, <2>6, RevealFollows
    <2>8. Commit(c, q, <<m>>)
      BY <1>2, <1>4, <2>1, <2>5, <2>6 DEF HandleReveal
    <2> QED BY <1>1, <2>4, <2>7, <2>8, TellServes
  <1> QED BY <1>3, <1>4

\* handleNewRound; where it is refused, the countdown may have expired.
LEMMA NewRoundServes ==
  ASSUME PokerInv, Work, current # NoRoom, NEW c \in Conn, Only(c), HandleNewRound(c)
  PROVE  Good(c)
PROOF
  <1>1. Locked(c, "new_round")
    BY DEF HandleNewRound
  <1>2. IsRoom(heap[1]) /\ NoCards(heap[1]) /\ RoomOf(c) = heap[1] /\ now \in Nat
    BY <1>1, InHandler
  <1>3. CASE ~CanNewRound(heap[1])
    <2>1. PICK q : q = AfterTimerInfo(heap[1], now)
      OBVIOUS
    <2>2. Becomes(c, q) /\ SendError(c) /\ Return(c)
      BY <1>2, <1>3, <2>1 DEF HandleNewRound
    <2>3. Follows(heap[1], q, <<>>)
      BY <1>2, <2>1, ExpiryFollows
    <2>4. q.participants = heap[1].participants
      <3>1. CASE TimeIsUp(heap[1], now)
        BY <1>2, <2>1, <3>1, TimerInfoEffect
      <3>2. CASE ~TimeIsUp(heap[1], now)
        BY <2>1, <3>2 DEF AfterTimerInfo
      <3> QED BY <3>1, <3>2
    <2>5. NoCards(q)
      BY <1>2, <2>4, NoCardsSeats
    <2> QED BY <1>1, <2>2, <2>3, <2>5, ReturnServes
  <1>4. CASE CanNewRound(heap[1])
    <2>1. PICK q : q = AfterNewRound(heap[1], now)
      OBVIOUS
    <2>2. IsRoom(q)
      BY <1>2, <2>1, NewRoundOK
    <2>4. NoCards(q)
      BY <1>2, <2>1, NoCardsNewRound
    <2>5. PICK msgs : msgs = <<Plain("round_reset"), TimerUpdated(q, now)>>
      OBVIOUS
    <2>6. Follows(heap[1], q, msgs)
      BY <1>2, <2>1, <2>2, <2>5, NewRoundFollows
    <2>7. Commit(c, q, msgs)
      BY <1>2, <1>4, <2>1, <2>5 DEF HandleNewRound
    <2>8. Len(msgs) \in {1, 2}
      BY <2>5, Lengths
    <2> QED BY <1>1, <2>4, <2>6, <2>7, <2>8, CommitServes
  <1> QED BY <1>3, <1>4

\* handleUpdateName.
LEMMA UpdateNameServes ==
  ASSUME PokerInv, Work, current # NoRoom, NEW c \in Conn, Only(c), HandleUpdateName(c)
  PROVE  Good(c)
PROOF
  <1>1. Locked(c, "update_name")
    BY DEF HandleUpdateName
  <1>2. IsRoom(heap[1]) /\ NoCards(heap[1]) /\ RoomOf(c) = heap[1] /\ now \in Nat
        /\ job[c].event \in Request /\ job[c].event.kind = "update_name"
    BY <1>1, InHandler
  <1>3. PICK me, raw : me = sid[c] /\ raw = job[c].event.name
    OBVIOUS
  <1>4. CASE ~CanUpdateName(heap[1], me, raw)
    BY <1>1, <1>2, <1>3, <1>4, RefusedServes DEF HandleUpdateName
  <1>5. CASE CanUpdateName(heap[1], me, raw)
    <2>1. PICK q : q = AfterUpdateName(heap[1], me, raw, now)
      OBVIOUS
    <2>2. me \in Members(heap[1]) /\ displayName[raw] # ""
      BY <1>5 DEF CanUpdateName
    <2>3. raw \in RawName
      BY <1>2, <1>3, RequestFields
    <2>4. displayName[raw] \in Name
      BY <2>2, <2>3, RoomAssumption
    <2>5. PICK m : m = NameUpdated(me, displayName[raw])
      OBVIOUS
    <2>6. Follows(heap[1], q, <<m>>)
      BY <1>2, <2>1, <2>2, <2>4, <2>5, NameFollows
    <2>8. NoCards(q)
      BY <1>2, <2>1, <2>2, NoCardsName
    <2>9. Commit(c, q, <<m>>)
      BY <1>2, <1>3, <1>5, <2>1, <2>5 DEF HandleUpdateName
    <2> QED BY <1>1, <2>6, <2>8, <2>9, TellServes
  <1> QED BY <1>4, <1>5

\* handlePresence.
LEMMA PresenceServes ==
  ASSUME PokerInv, Work, current # NoRoom, NEW c \in Conn, Only(c), HandlePresence(c)
  PROVE  Good(c)
PROOF
  <1>1. Locked(c, "presence")
    BY DEF HandlePresence
  <1>2. IsRoom(heap[1]) /\ NoCards(heap[1]) /\ RoomOf(c) = heap[1]
    BY <1>1, InHandler
  <1>3. PICK me, status : me = sid[c] /\ status = job[c].event.status
    OBVIOUS
  <1>4. CASE ~CanUpdatePresence(heap[1], me, status)
    BY <1>1, <1>2, <1>3, <1>4, RefusedServes DEF HandlePresence
  <1>5. CASE CanUpdatePresence(heap[1], me, status)
    <2>1. PICK q : q = AfterUpdatePresence(heap[1], me, status, now)
      OBVIOUS
    <2>2. me \in Members(heap[1]) /\ status \in Statuses
      BY <1>5 DEF CanUpdatePresence, Statuses
    <2>3. PICK m : m = Presence(me, status)
      OBVIOUS
    <2>4. Follows(heap[1], q, <<m>>)
      BY <1>2, <2>1, <2>2, <2>3, StatusFollows
    <2>5. /\ Members(q) = Members(heap[1])
          /\ \A s \in Members(heap[1]) :
               /\ q.participants[s].vote = heap[1].participants[s].vote
               /\ q.participants[s].role = heap[1].participants[s].role
      BY <1>2, <2>1, <2>2, UpdatePresenceEffect
    <2>6. NoCards(q)
      BY <1>2, <2>5, NoCardsSame
    <2>7. Commit(c, q, <<m>>)
      BY <1>2, <1>3, <1>5, <2>1, <2>3 DEF HandlePresence
    <2> QED BY <1>1, <2>4, <2>6, <2>7, TellServes
  <1> QED BY <1>4, <1>5

\* handleUpdateRole.
LEMMA UpdateRoleServes ==
  ASSUME PokerInv, Work, current # NoRoom, NEW c \in Conn, Only(c), HandleUpdateRole(c)
  PROVE  Good(c)
PROOF
  <1>1. Locked(c, "update_role")
    BY DEF HandleUpdateRole
  <1>2. IsRoom(heap[1]) /\ NoCards(heap[1]) /\ RoomOf(c) = heap[1]
    BY <1>1, InHandler
  <1>3. PICK me, role : me = sid[c] /\ role = job[c].event.role
    OBVIOUS
  <1>4. CASE ~CanUpdateRole(heap[1], me, role)
    BY <1>1, <1>2, <1>3, <1>4, RefusedServes DEF HandleUpdateRole
  <1>5. CASE CanUpdateRole(heap[1], me, role)
    <2>1. PICK q : q = AfterUpdateRole(heap[1], me, role, now)
      OBVIOUS
    <2>2. me \in Members(heap[1]) /\ role \in Roles
      BY <1>5 DEF CanUpdateRole
    <2>3. PICK m : m = RoleUpdated(me, role)
      OBVIOUS
    <2>4. Follows(heap[1], q, <<m>>)
      BY <1>2, <2>1, <2>2, <2>3, RoleFollows
    <2>5. NoCards(q)
      BY <1>2, <2>1, <2>2, NoCardsRole
    <2>6. Commit(c, q, <<m>>)
      BY <1>2, <1>3, <1>5, <2>1, <2>3 DEF HandleUpdateRole
    <2> QED BY <1>1, <2>4, <2>5, <2>6, TellServes
  <1> QED BY <1>4, <1>5

\* The handlers of the countdown.
LEMMA TimerServes ==
  ASSUME PokerInv, Work, current # NoRoom, NEW c \in Conn, Only(c),
         HandleTimerSetDuration(c) \/ HandleTimerStart(c) \/ HandleTimerReset(c)
  PROVE  Good(c)
PROOF
  <1>1. PICK kind : Locked(c, kind)
    BY DEF HandleTimerSetDuration, HandleTimerStart, HandleTimerReset
  <1>2. IsRoom(heap[1]) /\ NoCards(heap[1]) /\ RoomOf(c) = heap[1] /\ now \in Nat
    BY <1>1, InHandler
  <1>3. ASSUME NEW q, IsRoom(q), q.phase = heap[1].phase,
               q.participants = heap[1].participants,
               Commit(c, q, <<TimerUpdated(q, now)>>)
        PROVE  Good(c)
    <2>1. PICK m : m = TimerUpdated(q, now)
      OBVIOUS
    <2>2. Follows(heap[1], q, <<m>>)
      BY <1>2, <1>3, <2>1, TimerFollows
    <2>3. NoCards(q)
      BY <1>2, <1>3, NoCardsSeats
    <2>4. Commit(c, q, <<m>>)
      BY <1>3, <2>1
    <2> QED BY <1>1, <2>2, <2>3, <2>4, TellServes
  <1>4. CASE Refuse(c) \/ Ignore(c)
    BY <1>1, <1>4, RefusedServes
  <1>5. CASE HandleTimerSetDuration(c) /\ ~(Refuse(c) \/ Ignore(c))
    <2>1. PICK d : d = job[c].event.duration
      OBVIOUS
    <2>2. PICK q : q = AfterSetTimerDuration(heap[1], d, now)
      OBVIOUS
    <2>3. CanSetTimerDuration(heap[1], d) /\ Commit(c, q, <<TimerUpdated(q, now)>>)
      BY <1>2, <1>5, <2>1, <2>2 DEF HandleTimerSetDuration
    <2>4. IsRoom(q)
      BY <1>2, <2>2, <2>3, TimerOK
    <2>5. q.phase = heap[1].phase /\ q.participants = heap[1].participants
      BY <1>2, <2>2, SetTimerDurationEffect
    <2> QED BY <1>3, <2>3, <2>4, <2>5
  <1>6. CASE HandleTimerStart(c) /\ ~(Refuse(c) \/ Ignore(c))
    <2>1. PICK q : q = AfterStartTimer(heap[1], now)
      OBVIOUS
    <2>2. Commit(c, q, <<TimerUpdated(q, now)>>)
      BY <1>2, <1>6, <2>1 DEF HandleTimerStart
    <2>3. IsRoom(q)
      BY <1>2, <2>1, TimerOK
    <2>4. q.phase = heap[1].phase /\ q.participants = heap[1].participants
      BY <1>2, <2>1, StartTimerEffect
    <2> QED BY <1>3, <2>2, <2>3, <2>4
  <1>7. CASE HandleTimerReset(c) /\ ~(Refuse(c) \/ Ignore(c))
    <2>1. PICK q : q = AfterResetTimer(heap[1], now)
      OBVIOUS
    <2>2. Commit(c, q, <<TimerUpdated(q, now)>>)
      BY <1>2, <1>7, <2>1 DEF HandleTimerReset
    <2>3. IsRoom(q)
      BY <1>2, <2>1, TimerOK
    <2>4. q.phase = heap[1].phase /\ q.participants = heap[1].participants
      BY <1>2, <2>1, ResetTimerEffect
    <2> QED BY <1>3, <2>2, <2>3, <2>4
  <1> QED BY <1>4, <1>5, <1>6, <1>7

\* handleLeave: everybody but c is told, and c is unregistered afterwards.
LEMMA LeaveServes ==
  ASSUME PokerInv, Work, current # NoRoom, NEW c \in Conn, Only(c), HandleLeave(c)
  PROVE  Good(c)
PROOF
  <1>1. Locked(c, "leave")
    BY DEF HandleLeave
  <1>2. IsRoom(heap[1]) /\ NoCards(heap[1]) /\ RoomOf(c) = heap[1] /\ TypeInv
    BY <1>1, InHandler
  <1>3. PICK me : me = sid[c]
    OBVIOUS
  <1>4. pc[c] = "handle" /\ UNCHANGED <<clients, sid, pump, buf, done>>
    BY <1>1 DEF Locked, manager, HandleLeave
  <1>5. \E q : /\ heap'[1] = q /\ NoCards(q)
               /\ Follows(heap[1], q, <<About("participant_left", me)>>)
    <2>1. CASE CanLeave(heap[1], me)
      <3>1. PICK q : q = AfterLeave(heap[1], me, now)
        OBVIOUS
      <3>2. Becomes(c, q)
        BY <1>2, <1>3, <2>1, <3>1 DEF HandleLeave
      <3>3. heap'[1] = q
        BY <1>4, <3>2, BecomesTheRoom
      <3>4. Follows(heap[1], q, <<About("participant_left", me)>>)
        BY <1>2, <3>1, LeaveFollows
      <3>5. /\ Members(q) = Members(heap[1]) \ {me}
            /\ \A m \in Members(q) : q.participants[m] = heap[1].participants[m]
        BY <1>2, <3>1, LeaveEffect
      <3>6. NoCards(q)
        BY <1>2, <3>5, NoCardsSame
      <3> QED BY <3>3, <3>4, <3>6
    <2>2. CASE ~CanLeave(heap[1], me)
      <3>1. UNCHANGED heap
        BY <1>2, <1>3, <2>2 DEF HandleLeave
      <3>2. PICK q : q = heap[1]
        OBVIOUS
      <3>3. Follows(heap[1], q, <<About("participant_left", me)>>)
        BY <1>2, <2>2, <3>2, LeaveFollows DEF CanLeave
      <3> QED BY <1>2, <3>1, <3>2, <3>3
    <2> QED BY <2>1, <2>2
  <1>6. PICK msgs : msgs = <<About("participant_left", me)>>
    OBVIOUS
  <1>7. NoCards(heap'[1]) /\ Follows(heap[1], heap'[1], msgs)
    BY <1>5, <1>6
  <1>8. Broadcast(c, msgs, {c}, "forget")
    BY <1>3, <1>6 DEF HandleLeave
  <1>9. job[c] \in Job
    BY <1>2, OfConn
  <1>10. PICK j : j = [job[c] EXCEPT !.todo = msgs, !.skip = {c}, !.next = "forget"]
    OBVIOUS
  <1>11. j.todo = msgs /\ j.skip = {c} /\ j.next = "forget"
    BY <1>9, <1>10 DEF Job
  <1>12. job' = [job EXCEPT ![c] = j] /\ Goto(c, "snapshot")
    BY <1>8, <1>10 DEF Broadcast
  <1>13. Moves(c, "snapshot", j, sid[c])
    BY <1>2, <1>4, <1>12, Moving
  <1>14. pc'[c] = "snapshot" /\ job'[c] = j
    BY <1>2, <1>13, MovesOne
  <1>15. Len(msgs) <= 2
    <2>1. Len(msgs) \in {1, 2}
      BY <1>6, Lengths
    <2>2. \A n \in {1, 2} : n <= 2
      OBVIOUS
    <2> QED BY <2>1, <2>2
  <1>16. JobShape("snapshot", j, c)
    BY <1>11, <1>15 DEF JobShape
  <1>17. Speaks(c, "snapshot", j)
    BY <1>4, <1>7, <1>11 DEF Speaks, Silent
  <1>18. clients' \subseteq Conn /\ clients' \subseteq clients
    BY <1>2, <1>4 DEF TypeInv, RestOK
  <1>19. \A d \in clients' : Live(d)' => Hears(d)
    BY <1>2, <1>4, <1>18, ErrorHears
  <1>20. ViewsTrue'
    BY <1>13, <1>17, <1>18, <1>19, SpokenServes
  <1> QED BY <1>7, <1>14, <1>16, <1>20 DEF Good

\* handleClearRoom: room_cleared has been sent to everybody.
LEMMA ClearServes ==
  ASSUME PokerInv, Work, current # NoRoom, NEW c \in Conn, Only(c), HandleClearRoom(c)
  PROVE  Good(c)
PROOF
  <1>1. Locked(c, "clear_room")
    BY DEF HandleClearRoom
  <1>2. RoomOf(c) = heap[1] /\ TypeInv
    BY <1>1, InHandler
  <1>3. pc[c] = "handle" /\ job[c].event.kind = "clear_room"
        /\ UNCHANGED <<clients, sid, pump, buf, done>>
    BY <1>1 DEF Locked, manager, HandleClearRoom
  <1>4. PICK q : q = NewRoom(now)
    OBVIOUS
  <1>5. Becomes(c, q)
    BY <1>2, <1>4 DEF HandleClearRoom, AfterClearRoom
  <1>6. heap'[1] = q
    BY <1>3, <1>5, BecomesTheRoom
  <1>7. NoCards(q)
    BY <1>4 DEF NoCards, NewRoom, Members
  <1>8. Moves(c, "read", NoJob, sid[c])
    BY <1>2, <1>3, Moving DEF HandleClearRoom, Return
  <1>9. pc'[c] = "read" /\ job'[c] = NoJob /\ \A e \in Conn \ {c} : pc'[e] = pc[e]
    BY <1>2, <1>8, MovesOne
  <1>10. JobShape("read", NoJob, c)
    BY DEF JobShape
  <1>11. ASSUME NEW d \in clients', Live(d)' PROVE Warned(d)'
    <2>1. d \in clients /\ d \in Conn /\ Live(d)
      BY <1>2, <1>3, <1>11 DEF TypeInv, RestOK, Live
    <2>2. Served(d, c)
      BY <2>1 DEF PokerInv, ViewsTrue
    <2>3. Coming(c, d) = <<>>
      BY <1>3, NothingComing DEF Coming, Silent
    <2>4. Clearing(pc[c], job[c])
      BY <1>3 DEF Clearing
    <2>5. Warned(d)
      BY <2>2, <2>3, <2>4 DEF Served
    <2>6. Grows(d)
      BY <1>3 DEF Grows
    <2>7. ~(pc[d] = "read" /\ pc'[d] = "create")
      BY <1>3, <1>9, <2>1
    <2> QED BY <2>1, <2>5, <2>6, <2>7, WarnedKept DEF PokerInv
  <1>12. ViewsTrue'
    BY <1>2, <1>8, <1>11, WarnedServes
  <1> QED BY <1>6, <1>7, <1>9, <1>10, <1>12 DEF Good

(***************************************************************************)
(* The steps before and after the handlers.                                *)
(***************************************************************************)
\* Where there is no room, nobody is registered.
LEMMA NobodyThere ==
  ASSUME PokerInv, current = made, current = NoRoom
  PROVE  clients = {}
  BY DEF PokerInv, OneRoom, NoRoom

\* c goes on with nothing to tell.
LEMMA SilentServes ==
  ASSUME PokerInv, Work, current = made, NEW c \in Conn, Only(c),
         NEW p, NEW j, NEW s, Moves(c, p, j, s),
         pc[c] \in Silent, p \in Silent, j.todo = <<>>, ~Clearing(p, j),
         c \in clients' /\ Excusing(pc[c], job[c]) => Excusing(p, j),
         UNCHANGED heap, clients' \subseteq clients,
         \A d \in clients' : Live(d)' => Hears(d)
  PROVE  Good(c)
PROOF
  <1>1. TypeInv /\ clients \subseteq Conn /\ IsRoom(heap[1]) /\ NoCards(heap[1])
    BY TheRoom DEF PokerInv, TypeInv, RestOK
  <1>2. pc'[c] = p /\ job'[c] = j
    BY <1>1, MovesOne
  <1>3. JobShape(p, j, c)
    BY DEF JobShape, Silent, Resting
  <1>4. ViewsTrue'
    <2>1. CASE current = NoRoom
      BY <1>1, <2>1, NobodyThere, WarnedServes
    <2>2. CASE current # NoRoom
      <3>1. Follows(heap[1], heap'[1], <<>>)
        BY <1>1, SameFollows
      <3>2. Speaks(c, p, j)
        BY <3>1 DEF Speaks
      <3>3. clients' \subseteq Conn
        BY <1>1
      <3> QED BY <2>2, <3>2, <3>3, SpokenServes
    <2> QED BY <2>1, <2>2
  <1> QED BY <1>1, <1>2, <1>3, <1>4 DEF Good

\* Nobody is sent anything.
LEMMA NothingHears ==
  ASSUME TypeInv, UNCHANGED <<buf, done, pump>>, clients' \subseteq clients
  PROVE  \A d \in clients' : Live(d)' => Hears(d)
  BY DEF Hears, Live

\* handleJoin begins.
LEMMA ReceiveJoinServes ==
  ASSUME PokerInv, Work, current = made, NEW c \in Conn, Only(c),
         NEW q, ReceiveJoin(c, q), Goto(c, "create"),
         job' = [job EXCEPT ![c] = [@ EXCEPT !.event = q]], UNCHANGED <<buf, done>>
  PROVE  Good(c)
PROOF
  <1>1. pc[c] = "read" /\ UNCHANGED <<heap, clients, pump, sid>> /\ TypeInv
    BY DEF ReceiveJoin, Read, manager, PokerInv
  <1>2. job[c] = NoJob
    BY <1>1, RestingJob DEF Resting
  <1>3. PICK j : j = [NoJob EXCEPT !.event = q]
    OBVIOUS
  <1>4. j.todo = <<>>
    BY <1>3 DEF NoJob
  <1>5. Moves(c, "create", j, sid[c])
    <2>1. job' = [job EXCEPT ![c] = j]
      BY <1>2, <1>3
    <2> QED BY <1>1, <2>1, Moving
  <1>6. /\ "create" \in Silent /\ pc[c] \in Silent /\ ~Clearing("create", j)
        /\ Excusing("create", j)
    BY <1>1 DEF Silent, Resting, Clearing, Excusing
  <1>7. \A d \in clients' : Live(d)' => Hears(d)
    BY <1>1, NothingHears
  <1>8. clients' \subseteq clients
    BY <1>1
  <1> QED BY <1>1, <1>4, <1>5, <1>6, <1>7, <1>8, SilentServes

\* Who has been told that the room is cleared does not change its view.
LEMMA ClearedFollows ==
  ASSUME NEW r, IsRoom(r)
  PROVE  Follows(r, r, <<Plain("room_cleared")>>)
PROOF
  <1>1. PICK m : m = Plain("room_cleared")
    OBVIOUS
  <1>2. m.type = "room_cleared"
    BY <1>1 DEF Plain
  <1>3. ASSUME NEW v, NEW U, Shows(v, r, U)
        PROVE  Shows(Reduced(v, m), r, StillUntold(U, r, r, <<m>>))
    <2>1. v \in Sight(Members(r)) /\ SameTable(v, r) /\ SameClock(v.timer, r.timer)
      BY <1>3 DEF Shows
    <2>2. Reduced(v, m) = v
      BY <1>2, SilentReduced
    <2>3. TellNothing(<<m>>)
      BY <1>2, TellNone
    <2>4. Shows(v, r, StillUntold(U, r, r, <<m>>))
      BY <1>3, <2>1, <2>3, SameSeatsFollow
    <2> QED BY <2>2, <2>4
  <1>4. Follows(r, r, <<m>>)
    BY <1>3, FollowsOne
  <1> QED BY <1>1, <1>4

\* A handler is called; handleClearRoom tells everybody first.
LEMMA ReceiveServes ==
  ASSUME PokerInv, Work, current = made, NEW c \in Conn, Only(c),
         NEW q, Receive(c, q), ~UNCHANGED pc
  PROVE  Good(c)
PROOF
  <1>1. pc[c] = "read" /\ UNCHANGED <<heap, clients, pump, sid>> /\ TypeInv
    BY DEF Receive, Read, manager, PokerInv
  <1>2. current # NoRoom /\ UNCHANGED <<buf, done>>
    BY DEF Receive
  <1>3. \A d \in clients' : Live(d)' => Hears(d)
    BY <1>1, <1>2, NothingHears
  <1>4. clients' \subseteq clients /\ clients' \subseteq Conn
    BY <1>1 DEF TypeInv, RestOK
  <1>5. pc[c] \in Silent /\ ~Excusing(pc[c], job[c])
    BY <1>1 DEF Silent, Resting, Excusing
  <1>6. CASE q.kind # "clear_room"
    <2>1. PICK j : j = [NoJob EXCEPT !.event = q, !.room = current]
      OBVIOUS
    <2>2. j.todo = <<>> /\ j.event = q
      BY <2>1 DEF NoJob
    <2>3. Goto(c, "handle") /\ job' = [job EXCEPT ![c] = j]
      BY <1>6, <2>1 DEF Receive
    <2>4. Moves(c, "handle", j, sid[c])
      BY <1>1, <2>3, Moving
    <2>5. "handle" \in Silent /\ ~Clearing("handle", j)
      BY <1>6, <2>2 DEF Silent, Clearing
    <2> QED BY <1>1, <1>3, <1>4, <1>5, <2>2, <2>4, <2>5, SilentServes
  <1>7. CASE q.kind = "clear_room"
    <2>1. PICK msgs : msgs = <<Plain("room_cleared")>>
      OBVIOUS
    <2>2. PICK j : j = [NoJob EXCEPT !.event = q, !.room = current, !.todo = msgs,
                                     !.next = "handle"]
      OBVIOUS
    <2>3. j.todo = msgs /\ j.skip = {}
      BY <2>2 DEF NoJob
    <2>4. Goto(c, "snapshot") /\ job' = [job EXCEPT ![c] = j]
      BY <1>7, <2>1, <2>2 DEF Receive
    <2>5. Moves(c, "snapshot", j, sid[c])
      BY <1>1, <2>4, Moving
    <2>6. pc'[c] = "snapshot" /\ job'[c] = j
      BY <1>1, <2>5, MovesOne
    <2>7. Len(msgs) <= 2 /\ msgs # <<>>
      BY <2>1
    <2>8. JobShape("snapshot", j, c)
      BY <2>1, <2>3, <2>7 DEF JobShape
    <2>9. IsRoom(heap[1]) /\ NoCards(heap[1])
      BY TheRoom DEF PokerInv
    <2>10. Follows(heap[1], heap'[1], msgs)
      BY <1>1, <2>1, <2>9, ClearedFollows
    <2>11. Speaks(c, "snapshot", j)
      BY <1>5, <2>3, <2>7, <2>10 DEF Speaks
    <2>12. ViewsTrue'
      BY <1>2, <1>3, <1>4, <2>5, <2>11, SpokenServes
    <2> QED BY <1>1, <2>6, <2>8, <2>9, <2>12 DEF Good
  <1> QED BY <1>6, <1>7

\* GetOrCreateRoom; where there was no room there was nobody.
LEMMA GetOrCreateRoomServes ==
  ASSUME PokerInv, Work, current = made, NEW c \in Conn, Only(c), GetOrCreateRoom(c)
  PROVE  Good(c)
PROOF
  <1>1. pc[c] = "create" /\ UNCHANGED <<sid, buf, done, pump>> /\ TypeInv
    BY DEF GetOrCreateRoom, PokerInv
  <1>2. job[c] \in Job /\ job[c].todo = <<>>
    BY <1>1, OfConn DEF PokerInv, JobsInv, JobShape
  <1>3. PICK j : j = [job[c] EXCEPT !.room = current']
    OBVIOUS
  <1>4. j.todo = <<>>
    BY <1>2, <1>3 DEF Job
  <1>5. Moves(c, "join", j, sid[c])
    BY <1>1, <1>3, GetOrCreateRoomSteps DEF Steps
  <1>6. pc'[c] = "join" /\ job'[c] = j
    BY <1>1, <1>5, MovesOne
  <1>7. JobShape("join", j, c)
    BY DEF JobShape
  <1>8. CASE UNCHANGED <<heap, made, current, clients>>
    <2>1. \A d \in clients' : Live(d)' => Hears(d)
      BY <1>1, <1>8, NothingHears
    <2>2. /\ pc[c] \in Silent /\ "join" \in Silent /\ ~Clearing("join", j)
          /\ Excusing("join", j)
      BY <1>1 DEF Silent, Clearing, Excusing
    <2>3. clients' \subseteq clients
      BY <1>8
    <2> QED BY <1>4, <1>5, <1>8, <2>1, <2>2, <2>3, SilentServes
  <1>9. CASE /\ current = NoRoom /\ clients' = {} /\ made' = made + 1 /\ made' \in RoomId
             /\ heap' = [heap EXCEPT ![made'] = NewRoom(now)]
    <2>1. made' = 1
      <3>1. made = 0 /\ made' = made + 1
        BY <1>9 DEF NoRoom
      <3> QED BY <3>1
    <2>2. PICK r : r = NewRoom(now)
      OBVIOUS
    <2>3. heap'[1] = r
      BY <1>1, <1>9, <2>1, <2>2, TheRoom
    <2>4. NoCards(r)
      BY <2>2 DEF NoCards, NewRoom, Members
    <2>5. ViewsTrue'
      BY <1>1, <1>5, <1>9, WarnedServes
    <2> QED BY <1>6, <1>7, <2>3, <2>4, <2>5 DEF Good
  <1> QED BY <1>1, <1>8, <1>9, GetOrCreateRoomSteps

\* The session that is admitted to the room will be announced.
JoinNews(r, q, s) ==
  IF s \in Members(r) THEN Presence(s, "active") ELSE Joined(s, q.participants[s])

\* A join (room.go:205) and the announcement of it, as the other tabs hear it.
LEMMA AdmittedFollows ==
  ASSUME NEW r, IsRoom(r), NoCards(r), NEW s, NEW raw, NEW role, NEW t,
         NEW q, q = AfterJoin(r, s, raw, role, t), IsRoom(q)
  PROVE  Follows(r, q, <<JoinNews(r, q, s)>>)
PROOF
  <1>1. PICK m : m = JoinNews(r, q, s)
    OBVIOUS
  <1>2. CASE s \in Members(r)
    <2>1. m = Presence(s, "active")
      BY <1>1, <1>2 DEF JoinNews
    <2>2. Follows(r, q, <<m>>)
      BY <1>2, <2>1, RejoinFollows
    <2> QED BY <1>1, <2>2
  <1>3. CASE s \notin Members(r)
    <2>1. m = Joined(s, q.participants[s])
      BY <1>1, <1>3 DEF JoinNews
    <2>2. Follows(r, q, <<m>>)
      BY <1>3, <2>1, JoinFollows
    <2> QED BY <1>1, <2>2
  <1> QED BY <1>2, <1>3

\* Read again at once, the announcement is the same.
LEMMA NewsReread ==
  ASSUME NEW r, NEW q, NEW s
  PROVE  Reread(q, JoinNews(r, q, s)) = JoinNews(r, q, s)
PROOF
  <1>1. PICK p : p = q.participants[s]
    OBVIOUS
  <1>2. Reread(q, Presence(s, "active")) = Presence(s, "active")
    BY DEF Reread, Presence
  <1>3. Joined(s, p).session = s
    BY DEF Joined
  <1>4. Reread(q, Joined(s, p)) = Joined(s, p)
    BY <1>1, <1>3 DEF Reread
  <1> QED BY <1>1, <1>2, <1>4 DEF JoinNews

\* What the Join of c does, admitted or refused.
LEMMA JoinDoes ==
  ASSUME PokerInv, NEW c \in Conn, Join(c)
  PROVE  \/ \E q, s, raw, role, j :
              /\ s \in Session /\ raw \in RawName /\ CanJoin(heap[1], s, raw, role)
              /\ q = AfterJoin(heap[1], s, raw, role, now)
              /\ heap'[1] = q
              /\ Moves(c, "register", j, s)
              /\ j.skip = {c} /\ j.todo = <<JoinNews(heap[1], q, s)>>
              /\ UNCHANGED <<buf, done>>
         \/ /\ Moves(c, "read", NoJob, sid[c])
            /\ UNCHANGED heap /\ SendError(c)
PROOF
  <1>1. pc[c] = "join" /\ TypeInv
    BY DEF Join, PokerInv
  <1>2. job[c].room = 1 /\ RoomOf(c) = heap[1]
    BY <1>1, TheOneRoom
  <1>3. job[c] \in Job /\ job[c].event \in Request /\ job[c].event.kind = "join"
    BY <1>1, OfConn DEF PlaceOK
  <1>4. PICK s, raw, role : /\ s = job[c].event.session
                            /\ raw = job[c].event.name
                            /\ role = job[c].event.role
    OBVIOUS
  <1>5. s \in Session /\ raw \in RawName
    BY <1>3, <1>4, RequestFields
  <1>6. PICK q : q = AfterJoin(heap[1], s, raw, role, now)
    OBVIOUS
  <1>7. CASE CanJoin(heap[1], s, raw, role)
    <2>1. PICK msgs : msgs = <<JoinNews(heap[1], q, s)>>
      OBVIOUS
    <2>2. PICK j : j = [job[c] EXCEPT !.skip = {c}, !.todo = msgs]
      OBVIOUS
    <2>3. j.skip = {c} /\ j.todo = msgs
      BY <1>3, <2>2 DEF Job
    <2>4. /\ heap' = [heap EXCEPT ![1] = q] /\ Goto(c, "register")
          /\ sid' = [sid EXCEPT ![c] = s] /\ UNCHANGED <<buf, done>>
      BY <1>2, <1>4, <1>6, <1>7 DEF Join
    <2>5. msgs = <<IF s \in Members(heap[1]) THEN Presence(s, "active")
                   ELSE Joined(s, q.participants[s])>>
      BY <2>1 DEF JoinNews
    <2>6. job' = [job EXCEPT ![c] = j]
      BY <1>2, <1>4, <1>6, <1>7, <2>2, <2>5 DEF Join
    <2>7. Moves(c, "register", j, s)
      BY <2>4, <2>6 DEF Goto, Moves
    <2>8. heap'[1] = q
      BY <1>1, <2>4, TheRoom
    <2> QED BY <1>4, <1>5, <1>6, <1>7, <2>1, <2>3, <2>4, <2>7, <2>8
  <1>8. CASE ~CanJoin(heap[1], s, raw, role)
    <2>1. UNCHANGED <<heap, sid>> /\ SendError(c) /\ Return(c)
      BY <1>2, <1>4, <1>8 DEF Join
    <2>2. Moves(c, "read", NoJob, sid[c])
      BY <1>1, <2>1, Moving DEF Return
    <2> QED BY <2>1, <2>2
  <1> QED BY <1>7, <1>8

\* handleJoin: who is refused is not registered.
LEMMA JoinServes ==
  ASSUME PokerInv, Work, current = made, NEW c \in Conn, Only(c), Join(c),
         pc'[c] = "read" => c \notin clients
  PROVE  Good(c)
PROOF
  <1>1. pc[c] = "join" /\ TypeInv /\ UNCHANGED <<clients, pump>>
    BY DEF Join, manager, PokerInv
  <1>2. IsRoom(heap[1]) /\ NoCards(heap[1]) /\ now \in Nat
    BY <1>1, TheRoom, CurrentOK DEF PokerInv
  <1>3. current # NoRoom
    BY <1>1, TheOneRoom DEF NoRoom
  <1>4. clients' \subseteq clients /\ clients' \subseteq Conn
    BY <1>1 DEF TypeInv, RestOK
  <1>5. ASSUME NEW q, NEW s \in Session, NEW raw \in RawName, NEW role, NEW j,
               CanJoin(heap[1], s, raw, role),
               q = AfterJoin(heap[1], s, raw, role, now),
               heap'[1] = q,
               Moves(c, "register", j, s),
               j.skip = {c}, j.todo = <<JoinNews(heap[1], q, s)>>,
               UNCHANGED <<buf, done>>
        PROVE  Good(c)
    <2>3. IsRoom(q)
      BY <1>2, <1>5, JoinOK
    <2>4. Follows(heap[1], q, <<JoinNews(heap[1], q, s)>>)
      BY <1>2, <1>5, <2>3, AdmittedFollows
    <2>5. NoCards(q)
      BY <1>2, <1>5, NoCardsJoin
    <2>6. pc'[c] = "register" /\ job'[c] = j
      BY <1>1, <1>5, MovesOne
    <2>7. JobShape("register", j, c)
      BY <1>5 DEF JobShape
    <2>8. PICK m : m = JoinNews(heap[1], q, s)
      OBVIOUS
    <2>9. j.todo = <<m>> /\ j.todo[1] = m
      BY <1>5, <2>8
    <2>10. Reread(heap'[1], j.todo[1]) = m
      BY <1>5, <2>8, <2>9, NewsReread
    <2>11. Speaks(c, "register", j)
      <3>1. Follows(heap[1], heap'[1], j.todo)
        BY <1>5, <2>4
      <3>2. pc[c] \in Silent
        BY <1>1 DEF Silent
      <3>3. j.todo = <<Reread(heap'[1], j.todo[1])>>
        BY <2>9, <2>10
      <3> QED BY <1>5, <3>1, <3>2, <3>3 DEF Speaks
    <2>12. \A d \in clients' : Live(d)' => Hears(d)
      BY <1>1, <1>4, <1>5, NothingHears
    <2>13. ViewsTrue'
      BY <1>3, <1>4, <1>5, <2>11, <2>12, SpokenServes
    <2> QED BY <1>5, <2>5, <2>6, <2>7, <2>13 DEF Good
  <1>6. CASE Moves(c, "read", NoJob, sid[c]) /\ UNCHANGED heap /\ SendError(c)
    <2>1. NoJob.todo = <<>> /\ pc[c] \in Silent /\ "read" \in Silent
          /\ ~Clearing("read", NoJob)
      BY <1>1 DEF NoJob, Silent, Resting, Clearing
    <2>2. pc'[c] = "read"
      BY <1>1, <1>6, MovesOne
    <2>3. c \notin clients'
      BY <1>1, <2>2
    <2>4. \A d \in clients' : Live(d)' => Hears(d)
      BY <1>1, <1>4, <1>6, ErrorHears
    <2> QED BY <1>4, <1>6, <2>1, <2>3, <2>4, SilentServes
  <1> QED BY <1>5, <1>6, JoinDoes

\* The end of handleLeave.
LEMMA ForgetServes ==
  ASSUME PokerInv, Work, current = made, NEW c \in Conn, Only(c), Forget(c)
  PROVE  Good(c)
PROOF
  <1>1. /\ pc[c] = "forget" /\ clients' = clients \ {c} /\ TypeInv
        /\ UNCHANGED <<heap, buf, done, pump>>
    BY DEF Forget, PokerInv
  <1>2. Moves(c, "read", NoJob, "")
    BY DEF Forget, Return, Goto, Moves
  <1>3. NoJob.todo = <<>> /\ pc[c] \in Silent /\ "read" \in Silent
        /\ ~Clearing("read", NoJob)
    BY <1>1 DEF NoJob, Silent, Resting, Clearing
  <1>4. clients' \subseteq clients /\ c \notin clients'
    BY <1>1
  <1>5. \A d \in clients' : Live(d)' => Hears(d)
    BY <1>1, <1>4, NothingHears
  <1> QED BY <1>1, <1>2, <1>3, <1>4, <1>5, SilentServes

\* The end of a connection: its client is closed.
LEMMA CleanUpServes ==
  ASSUME PokerInv, Work, current = made, NEW c \in Conn, Only(c),
         ReadFails(c) \/ RateLimited(c)
  PROVE  Good(c)
PROOF
  <1>1. pc[c] = "read" /\ CleanUp(c) /\ TypeInv /\ clients \subseteq Conn
    BY DEF ReadFails, RateLimited, PokerInv, TypeInv, RestOK
  <1>2. /\ UNCHANGED <<heap, clients, pump, sid>>
        /\ done' = [done EXCEPT ![c] = TRUE]
    BY <1>1 DEF CleanUp, manager
  <1>3. \A d \in Conn \ {c} : buf'[d] = buf[d]
    BY <1>1 DEF ReadFails, RateLimited, TypeInv, BuffersOK
  <1>4. \A d \in clients' : Live(d)' => Hears(d)
    <2> SUFFICES ASSUME NEW d \in clients', Live(d)' PROVE Hears(d)
      OBVIOUS
    <2>1. d \in Conn /\ d \in clients
      BY <1>1, <1>2
    <2>2. done \in [Conn -> BOOLEAN]
      BY <1>1 DEF TypeInv, BuffersOK
    <2>3. d # c
      BY <1>2, <2>2 DEF Live
    <2>4. done'[d] = done[d]
      BY <1>2, <2>1, <2>2, <2>3
    <2> QED BY <1>2, <1>3, <2>1, <2>3, <2>4 DEF Hears, Live
  <1>5. PICK p, j : /\ p \in {"mark", "bye"} /\ Goto(c, p)
                    /\ job' = [job EXCEPT ![c] = j] /\ j.todo = <<>>
    <2>1. CASE sid[c] = "" \/ current = NoRoom
      <3>1. NoJob.todo = <<>>
        BY DEF NoJob
      <3> QED BY <1>1, <2>1, <3>1 DEF CleanUp
    <2>2. CASE ~(sid[c] = "" \/ current = NoRoom)
      <3>1. PICK j : j = [NoJob EXCEPT !.room = current]
        OBVIOUS
      <3>2. j.todo = <<>>
        BY <3>1 DEF NoJob
      <3>3. Goto(c, "mark") /\ job' = [job EXCEPT ![c] = j]
        BY <1>1, <2>2, <3>1 DEF CleanUp
      <3> QED BY <3>2, <3>3
    <2> QED BY <2>1, <2>2
  <1>6. Moves(c, p, j, sid[c])
    BY <1>1, <1>2, <1>5, Moving
  <1>7. pc[c] \in Silent /\ p \in Silent /\ ~Clearing(p, j) /\ ~Excusing(pc[c], job[c])
    BY <1>1, <1>5 DEF Silent, Resting, Clearing, Excusing
  <1>8. clients' \subseteq clients
    BY <1>2
  <1> QED BY <1>2, <1>4, <1>5, <1>6, <1>7, <1>8, SilentServes

\* The connection is gone.
LEMMA ByeServes ==
  ASSUME PokerInv, Work, current = made, NEW c \in Conn, Only(c), Bye(c)
  PROVE  Good(c)
PROOF
  <1>1. /\ pc[c] = "bye" /\ clients' = clients \ {c} /\ TypeInv /\ clients \subseteq Conn
        /\ UNCHANGED <<heap, sid, done>> /\ StopPump(c)
    BY DEF Bye, PokerInv, TypeInv, RestOK
  <1>2. Moves(c, "gone", NoJob, sid[c])
    BY <1>1, Moving DEF Bye
  <1>3. NoJob.todo = <<>> /\ pc[c] \in Silent /\ "gone" \in Silent
        /\ ~Clearing("gone", NoJob)
    BY <1>1 DEF NoJob, Silent, Resting, Clearing
  <1>4. clients' \subseteq clients /\ c \notin clients'
    BY <1>1
  <1>5. \A d \in clients' : Live(d)' => Hears(d)
    <2> SUFFICES ASSUME NEW d \in clients', Live(d)' PROVE Hears(d)
      OBVIOUS
    <2>1. d \in Conn /\ d \in clients /\ d # c
      BY <1>1
    <2>2. pump'[d] = pump[d] /\ buf'[d] = buf[d]
      BY <1>1, <2>1 DEF StopPump, TypeInv, RestOK, BuffersOK
    <2> QED BY <1>1, <2>1, <2>2 DEF Hears, Live
  <1> QED BY <1>1, <1>2, <1>3, <1>4, <1>5, SilentServes

\* The participant of a lost connection is shown as disconnected.
LEMMA MarkServes ==
  ASSUME PokerInv, Work, current = made, NEW c \in Conn, Only(c), MarkDisconnected(c)
  PROVE  Good(c)
PROOF
  <1>1. pc[c] = "mark" /\ UNCHANGED <<clients, sid, buf, done, pump>> /\ TypeInv
    BY DEF MarkDisconnected, manager, PokerInv
  <1>2. RoomOf(c) = heap[1] /\ made = 1 /\ job[c] \in Job
    BY <1>1, TheOneRoom, OfConn
  <1>3. IsRoom(heap[1]) /\ NoCards(heap[1])
    BY TheRoom DEF PokerInv
  <1>4. PICK me : me = sid[c]
    OBVIOUS
  <1>5. PICK q : q = AfterDisconnect(heap[1], me)
    OBVIOUS
  <1>6. heap'[1] = q
    <2>1. Becomes(c, q)
      BY <1>2, <1>4, <1>5 DEF MarkDisconnected
    <2> QED BY <1>1, <2>1, BecomesTheRoom
  <1>7. PICK msgs : msgs = <<Presence(me, "disconnected")>>
    OBVIOUS
  <1>8. NoCards(q) /\ Follows(heap[1], q, msgs)
    <2>1. CASE me \in Members(heap[1])
      <3>1. Follows(heap[1], q, <<Presence(me, "disconnected")>>)
        BY <1>3, <1>5, <2>1, StatusFollows DEF Statuses
      <3>2. /\ Members(q) = Members(heap[1])
            /\ \A s \in Members(heap[1]) :
                 /\ q.participants[s].vote = heap[1].participants[s].vote
                 /\ q.participants[s].role = heap[1].participants[s].role
        BY <1>3, <1>5, <2>1, DisconnectEffect
      <3>3. NoCards(q)
        BY <1>3, <3>2, NoCardsSame
      <3> QED BY <1>7, <3>1, <3>3
    <2>2. CASE me \notin Members(heap[1])
      <3>1. q = heap[1]
        BY <1>5, <2>2 DEF AfterDisconnect
      <3> QED BY <1>3, <1>7, <2>2, <3>1, AbsentFollows
    <2> QED BY <2>1, <2>2
  <1>9. Broadcast(c, msgs, {}, "bye")
    BY <1>4, <1>7 DEF MarkDisconnected
  <1>10. PICK j : j = [job[c] EXCEPT !.todo = msgs, !.skip = {}, !.next = "bye"]
    OBVIOUS
  <1>11. j.todo = msgs /\ j.skip = {} /\ j.next = "bye"
    BY <1>2, <1>10 DEF Job
  <1>12. job' = [job EXCEPT ![c] = j] /\ Goto(c, "snapshot")
    BY <1>9, <1>10 DEF Broadcast
  <1>13. Moves(c, "snapshot", j, sid[c])
    BY <1>1, <1>12, Moving
  <1>14. pc'[c] = "snapshot" /\ job'[c] = j
    BY <1>1, <1>13, MovesOne
  <1>15. Len(msgs) <= 2 /\ msgs # <<>>
    BY <1>7
  <1>16. JobShape("snapshot", j, c)
    BY <1>11, <1>15 DEF JobShape
  <1>17. Speaks(c, "snapshot", j)
    <2>1. ~Excusing(pc[c], job[c]) /\ pc[c] \in Silent
      BY <1>1 DEF Excusing, Silent
    <2> QED BY <1>6, <1>8, <1>11, <1>15, <2>1 DEF Speaks
  <1>18. clients' \subseteq Conn /\ clients' \subseteq clients
    BY <1>1 DEF TypeInv, RestOK
  <1>19. \A d \in clients' : Live(d)' => Hears(d)
    BY <1>1, <1>18, NothingHears
  <1>20. current # NoRoom
    BY <1>2 DEF NoRoom
  <1>21. ViewsTrue'
    BY <1>13, <1>17, <1>18, <1>19, <1>20, SpokenServes
  <1> QED BY <1>6, <1>8, <1>14, <1>16, <1>21 DEF Good

(***************************************************************************)
(* Steps outside the handlers.                                             *)
(***************************************************************************)
\* Nobody enters or leaves a handler.
Calm ==
  /\ \A d \in Conn : pc'[d] = pc[d] \/ (pc[d] \in Resting /\ pc'[d] = "read")
  /\ UNCHANGED <<heap, made, clients, job>>
  /\ \A d \in clients' : Live(d)' => Hears(d)

\* Such a step keeps a connection on its way to a true view.
LEMMA CalmServed ==
  ASSUME PokerInv, Work, current # NoRoom, Calm,
         NEW h \in Conn, NEW d \in clients, Hears(d), Served(d, h)
  PROVE  Served(d, h)'
PROOF
  <1>1. TypeInv /\ d \in Conn
    BY DEF PokerInv, TypeInv, RestOK
  <1>2. /\ Coming(h, d)' = Coming(h, d)
        /\ Clearing(pc'[h], job'[h]) <=> Clearing(pc[h], job[h])
    <2>1. CASE pc'[h] = pc[h]
      <3>1. job' = job /\ heap' = heap
        BY DEF Calm
      <3>2. Coming(h, d)' = Coming(h, d)
        BY <2>1, <3>1 DEF Coming
      <3> QED BY <2>1, <3>1, <3>2
    <2>2. CASE pc[h] \in Resting /\ pc'[h] = "read"
      <3>1. pc[h] \in Silent /\ pc'[h] \in Silent
        BY <2>2 DEF Silent, Resting
      <3>2. Coming(h, d) = <<>> /\ Coming(h, d)' = <<>>
        BY <3>1, NothingComing DEF Coming
      <3>3. ~Clearing(pc'[h], job'[h]) /\ ~Clearing(pc[h], job[h])
        BY <2>2 DEF Resting, Clearing
      <3> QED BY <3>2, <3>3
    <2> QED BY <2>1, <2>2 DEF Calm
  <1>3. Warned(d) => Warned(d)'
    <2>1. ~(pc[d] = "read" /\ pc'[d] = "create")
      BY <1>1 DEF Calm
    <2> QED BY <1>1, <2>1, HearsGrows, WarnedKept DEF PokerInv
  <1>4. Excused(d) => Excused(d)'
    <2>1. Excusing(pc[d], job[d]) => Excusing(pc'[d], job'[d])
      <3>1. CASE pc'[d] = pc[d]
        BY <1>1, <3>1 DEF Calm
      <3>2. CASE pc[d] \in Resting
        BY <3>2 DEF Resting, Excusing
      <3> QED BY <1>1, <3>1, <3>2 DEF Calm
    <2> QED BY <1>3, <2>1 DEF Excused
  <1>5. untold \subseteq untold'
    BY DEF Work, Calm, PokerInv, UntoldInv
  <1>6. WillShow(view[d], buf[d], Coming(h, d), heap[1], untold) =>
          WillShow(view'[d], buf'[d], Coming(h, d)', heap'[1], untold')
    <2>1. HAVE WillShow(view[d], buf[d], Coming(h, d), heap[1], untold)
    <2>2. WillShow(view[d], buf[d], Coming(h, d), heap[1], untold')
      BY <1>5, <2>1, WillShowMore
    <2>3. buf[d] \in Seq(Message) /\ view' = view /\ UNCHANGED heap
      BY <1>1 DEF TypeInv, BuffersOK, Work, Calm
    <2>4. WillShow(view[d], buf'[d], Coming(h, d), heap[1], untold')
      <3>1. CASE buf'[d] = buf[d]
        BY <2>2, <3>1
      <3>2. CASE buf'[d] = Append(buf[d], Plain("error"))
        BY <2>2, <2>3, <3>2, WillShowError
      <3> QED BY <3>1, <3>2 DEF Hears
    <2> QED BY <1>2, <2>3, <2>4
  <1> QED BY <1>2, <1>3, <1>4, <1>6 DEF Served

\* So it does for all of them.
LEMMA CalmServes ==
  ASSUME PokerInv, Work, current = made, Calm
  PROVE  ViewsTrue'
PROOF
  <1> SUFFICES ASSUME NEW h \in Conn, Only(h)', NEW d \in clients', Live(d)'
               PROVE  Served(d, h)'
    BY DEF ViewsTrue
  <1>1. d \in clients /\ Hears(d)
    BY DEF Calm
  <1>2. current # NoRoom
    BY <1>1, NobodyThere
  <1>3. Only(h)
    <2> SUFFICES ASSUME NEW e \in Conn \ {h} PROVE pc[e] \in Resting
      BY DEF Only
    <2>1. pc'[e] \in Resting
      BY DEF Only
    <2> QED BY <2>1 DEF Calm
  <1>4. Served(d, h)
    BY <1>1, <1>3 DEF Hears, PokerInv, ViewsTrue
  <1> QED BY <1>1, <1>2, <1>4, CalmServed

\* Which steps are.
LEMMA CalmSteps ==
  ASSUME PokerInv, current = made, (current = made)',
         \/ \E c \in Conn : \/ Connect(c) \/ ReceiveGarbage(c) \/ PumpStops(c)
                            \/ /\ \E q \in Request : ReceiveJoin(c, q) \/ Receive(c, q)
                               /\ UNCHANGED pc
         \/ CollectCandidates \/ DeleteCandidates \/ Tick
  PROVE  Calm
PROOF
  <1>0. TypeInv /\ clients \subseteq Conn
    BY DEF PokerInv, TypeInv, RestOK
  <1>1. ASSUME NEW c \in Conn, Connect(c) PROVE Calm
    <2>1. /\ pc[c] = "new" /\ Goto(c, "read") /\ pump' = [pump EXCEPT ![c] = TRUE]
          /\ UNCHANGED <<heap, made, clients, job, buf, done>>
      BY <1>1 DEF Connect, manager
    <2>2. \A d \in Conn : pc'[d] = pc[d] \/ (pc[d] \in Resting /\ pc'[d] = "read")
      BY <1>0, <2>1 DEF Goto, Resting, TypeInv, ConnsOK
    <2>3. ASSUME NEW d \in clients', Live(d)' PROVE Hears(d)
      <3>1. d \in clients /\ d \in Conn /\ d # c
        BY <1>0, <2>1 DEF PokerInv, OneRoom
      <3>2. pump'[d] = pump[d]
        BY <1>0, <2>1, <3>1 DEF TypeInv, RestOK
      <3> QED BY <2>1, <2>3, <3>1, <3>2 DEF Hears, Live
    <2> QED BY <2>1, <2>2, <2>3 DEF Calm
  <1>2. ASSUME NEW c \in Conn, UNCHANGED <<pc, heap, made, clients, job, pump>>,
               SendError(c) \/ UNCHANGED <<buf, done>>
        PROVE  Calm
    <2>1. \A d \in clients' : Live(d)' => Hears(d)
      BY <1>0, <1>2, ErrorHears
    <2> QED BY <1>2, <2>1 DEF Calm
  <1>3. ASSUME NEW c \in Conn, ReceiveGarbage(c) PROVE Calm
    BY <1>2, <1>3 DEF ReceiveGarbage, Read, manager
  <1>4. ASSUME NEW c \in Conn, NEW q \in Request, ReceiveJoin(c, q), UNCHANGED pc
        PROVE  Calm
    <2>1. pc[c] = "read" /\ pc \in [Conn -> Places] /\ UNCHANGED <<heap, made, clients, pump>>
      BY <1>0, <1>4 DEF ReceiveJoin, Read, manager, TypeInv, ConnsOK
    <2>2. ~Goto(c, "create")
      BY <1>4, <2>1 DEF Goto
    <2>3. SendError(c) /\ UNCHANGED job
      BY <1>4, <2>2 DEF ReceiveJoin
    <2> QED BY <1>2, <1>4, <2>1, <2>3
  <1>5. ASSUME NEW c \in Conn, NEW q \in Request, Receive(c, q), UNCHANGED pc
        PROVE  Calm
    <2>1. pc[c] = "read" /\ pc \in [Conn -> Places] /\ UNCHANGED <<heap, made, clients, pump>>
      BY <1>0, <1>5 DEF Receive, Read, manager, TypeInv, ConnsOK
    <2>2. ~Goto(c, "snapshot") /\ ~Goto(c, "handle")
      BY <1>5, <2>1 DEF Goto
    <2>3. UNCHANGED job /\ (SendError(c) \/ UNCHANGED <<buf, done>>)
      BY <1>5, <2>2 DEF Receive
    <2> QED BY <1>2, <1>5, <2>1, <2>3
  <1>6. ASSUME NEW c \in Conn, PumpStops(c) PROVE Calm
    <2>1. StopPump(c) /\ UNCHANGED <<pc, heap, made, clients, job, done>>
      BY <1>6 DEF PumpStops, manager
    <2>2. ASSUME NEW d \in clients', Live(d)' PROVE Hears(d)
      <3>1. d \in clients /\ d \in Conn
        BY <1>0, <2>1
      <3>2. d # c
        BY <1>0, <2>1, <2>2 DEF StopPump, Live, TypeInv, RestOK
      <3>3. pump'[d] = pump[d] /\ buf'[d] = buf[d]
        BY <1>0, <2>1, <3>1, <3>2 DEF StopPump, TypeInv, RestOK, BuffersOK
      <3> QED BY <2>1, <2>2, <3>1, <3>3 DEF Hears, Live
    <2> QED BY <2>1, <2>2 DEF Calm
  <1>7. ASSUME UNCHANGED <<pc, heap, made, clients, job, buf, done, pump>> PROVE Calm
    <2>1. \A d \in clients' : Live(d)' => Hears(d)
      BY <1>0, <1>7, NothingHears
    <2> QED BY <1>7, <2>1 DEF Calm
  <1>8. ASSUME CollectCandidates \/ Tick PROVE Calm
    BY <1>7, <1>8 DEF CollectCandidates, Tick, conns, manager
  <1>9. ASSUME DeleteCandidates PROVE Calm
    BY <1>7, <1>9 DEF DeleteCandidates, conns
  <1> QED BY <1>1, <1>3, <1>4, <1>5, <1>6, <1>8, <1>9

\* A tab reads a message: it comes nearer to what it will show.
LEMMA HearServes ==
  ASSUME PokerInv, NEW c \in Conn, Hear(c)
  PROVE  ViewsTrue'
PROOF
  <1>1. /\ buf[c] # <<>> /\ buf' = [buf EXCEPT ![c] = Tail(buf[c])]
        /\ view' = [view EXCEPT ![c] = Reduced(view[c], Head(buf[c]))]
        /\ mustJoin' = [mustJoin EXCEPT ![c] =
                          mustJoin[c] \/ Head(buf[c]).type = "room_cleared"]
        /\ UNCHANGED <<untold, heap, clients, pc, job, done, pump>>
    BY DEF Hear, Deliver, manager
  <1>2. TypeInv /\ clients \subseteq Conn /\ DOMAIN view = Conn
        /\ mustJoin \in [Conn -> BOOLEAN] /\ buf \in [Conn -> Seq(Message)]
    BY DEF PokerInv, TypeInv, RestOK, BuffersOK, TabsOK
  <1> SUFFICES ASSUME NEW h \in Conn, Only(h)', NEW d \in clients', Live(d)'
               PROVE  Served(d, h)'
    BY DEF ViewsTrue
  <1>3. Only(h) /\ Live(d) /\ d \in clients /\ d \in Conn
    BY <1>1, <1>2 DEF Only, Live
  <1>4. Served(d, h)
    BY <1>3 DEF PokerInv, ViewsTrue
  <1>5. Coming(h, d)' = Coming(h, d)
    BY <1>1 DEF Coming
  <1>6. CASE d # c
    <2>1. buf'[d] = buf[d] /\ view'[d] = view[d] /\ mustJoin'[d] = mustJoin[d]
      BY <1>1, <1>2, <1>3, <1>6
    <2>2. Warned(d)' = Warned(d)
      BY <2>1 DEF Warned
    <2>3. Excused(d)' = Excused(d)
      BY <1>1, <2>2 DEF Excused
    <2> QED BY <1>1, <1>4, <1>5, <2>1, <2>2, <2>3 DEF Served
  <1>7. CASE d = c
    <2>1. /\ buf'[d] = Tail(buf[d]) /\ view'[d] = Reduced(view[d], Head(buf[d]))
          /\ mustJoin'[d] = (mustJoin[d] \/ Head(buf[d]).type = "room_cleared")
      BY <1>1, <1>2, <1>3, <1>7
    <2>2. Warned(d) => Warned(d)'
      <3>1. ASSUME NEW k \in DOMAIN buf[d], buf[d][k].type = "room_cleared", ~mustJoin'[d]
            PROVE  \E n \in DOMAIN Tail(buf[d]) : Tail(buf[d])[n].type = "room_cleared"
        <4>1. PICK msgs \in Seq(Message) : msgs = buf[d]
          BY <1>2, <1>3
        <4>2. msgs # <<>> /\ k \in DOMAIN msgs /\ msgs[k].type = "room_cleared"
          BY <1>1, <1>7, <3>1, <4>1
        <4>3. k # 1
          BY <2>1, <3>1, <4>1, <4>2, SeqFacts
        <4>4. k - 1 \in DOMAIN Tail(msgs) /\ Tail(msgs)[k - 1] = msgs[k]
          BY <4>2, <4>3
        <4>5. PICK n : n = k - 1
          OBVIOUS
        <4> QED BY <4>1, <4>2, <4>4, <4>5
      <3> QED BY <2>1, <3>1 DEF Warned
    <2>3. Excused(d) => Excused(d)'
      BY <1>1, <2>2 DEF Excused
    <2>4. WillShow(view[d], buf[d], Coming(h, d), heap[1], untold) =>
            WillShow(view'[d], buf'[d], Coming(h, d)', heap'[1], untold')
      <3>1. HAVE WillShow(view[d], buf[d], Coming(h, d), heap[1], untold)
      <3>2. buf[d] \in Seq(Message) /\ buf[d] # <<>>
        BY <1>1, <1>2, <1>3, <1>7
      <3>3. WillShow(Reduced(view[d], Head(buf[d])), Tail(buf[d]), Coming(h, d), heap[1], untold)
        BY <3>1, <3>2, WillShowHeard
      <3> QED BY <1>1, <1>5, <2>1, <3>3
    <2> QED BY <1>1, <1>4, <1>5, <2>2, <2>3, <2>4 DEF Served
  <1> QED BY <1>6, <1>7

(***************************************************************************)
(* All steps.                                                              *)
(***************************************************************************)
\* The operations on the room that a request asks for.
HandlesOf(c) ==
  \/ HandleVote(c) \/ HandleReveal(c) \/ HandleNewRound(c) \/ HandleClearRoom(c)
  \/ HandleUpdateName(c) \/ HandlePresence(c) \/ HandleUpdateRole(c)
  \/ HandleTimerSetDuration(c) \/ HandleTimerStart(c) \/ HandleTimerReset(c)
  \/ HandleLeave(c)

\* The steps of c in a handler, into one and out of it.
HandlerMoves(c) ==
  \/ Handle(c) \/ ReadFails(c) \/ RateLimited(c)
  \/ /\ \E q \in Request : ReceiveJoin(c, q) \/ Receive(c, q)
     /\ ~UNCHANGED pc

\* Where c goes, it is no new connection.
Goes(c) == \E p, j, s : Moves(c, p, j, s) /\ p # "new"

\* A step with a known goal is a move.
LEMMA MovesGo ==
  ASSUME NEW c, NEW p, NEW j, NEW s, Steps(c, p, j, s), p # "new"
  PROVE  Goes(c)
  BY DEF Steps, Goes

\* An operation moves its own connection only.
LEMMA HandlerGoes ==
  ASSUME TypeInv, NEW c \in Conn, HandlesOf(c)
  PROVE  Goes(c)
PROOF
  <1>1. HandlerStep(c)
    BY VoteHandled, RevealHandled, NewRoundHandled, ClearRoomHandled,
       UpdateNameHandled, PresenceHandled, UpdateRoleHandled, TimerHandled,
       LeaveHandled DEF HandlesOf
  <1>2. \E p, j, s : Steps(c, p, j, s) /\ p # "new"
    BY <1>1, HandlerSteps
  <1> QED BY <1>2, MovesGo

\* So does every step in, into or out of a handler.
LEMMA HandlerMovesGo ==
  ASSUME TypeInv, NEW c \in Conn, HandlerMoves(c)
  PROVE  Goes(c)
PROOF
  <1>1. CASE HandlesOf(c)
    BY <1>1, HandlerGoes
  <1>2. CASE GetOrCreateRoom(c)
    BY <1>2, GetOrCreateRoomSteps, MovesGo
  <1>3. CASE Join(c)
    <2>1. \E p, j, s : Steps(c, p, j, s) /\ p # "new"
      BY <1>3, JoinSteps
    <2> QED BY <2>1, MovesGo
  <1>4. CASE RegisterClient(c)
    BY <1>4, RegisterClientSteps, MovesGo
  <1>5. CASE BuildRoomState(c)
    <2>1. \E j : Steps(c, "welcome", j, sid[c])
      BY <1>5, BuildRoomStateSteps
    <2> QED BY <2>1, MovesGo
  <1>6. CASE Welcome(c)
    <2>1. \E p, j, s : Steps(c, p, j, s) /\ p # "new"
      BY <1>6, WelcomeSteps
    <2> QED BY <2>1, MovesGo
  <1>7. CASE Forget(c)
    BY <1>7, ForgetSteps, MovesGo
  <1>8. ASSUME NEW rest \in SUBSET Conn, pc[c] \in {"snapshot", "send"}, UNCHANGED sid,
               Proceed(c, rest)
        PROVE  Goes(c)
    <2>1. \E p, j, s : Steps(c, p, j, s) /\ p # "new"
      BY <1>8, ProceedSteps DEF ProceedsTo
    <2> QED BY <2>1, MovesGo
  <1>9. CASE Snapshot(c)
    <2>1. clients \ job[c].skip \in SUBSET Conn
      BY DEF TypeInv, RestOK
    <2>2. pc[c] \in {"snapshot", "send"} /\ UNCHANGED sid /\ Proceed(c, clients \ job[c].skip)
      BY <1>9 DEF Snapshot
    <2> QED BY <1>8, <2>1, <2>2
  <1>10. ASSUME NEW d \in Conn, SendOne(c, d) PROVE Goes(c)
    <2>1. job[c].rest \ {d} \in SUBSET Conn
      BY OfConn DEF Job
    <2>2. pc[c] \in {"snapshot", "send"} /\ UNCHANGED sid /\ Proceed(c, job[c].rest \ {d})
      BY <1>10 DEF SendOne
    <2> QED BY <1>8, <2>1, <2>2
  <1>11. CASE MarkDisconnected(c)
    <2>1. \E p, j, s : Steps(c, p, j, s) /\ p # "new"
      BY <1>11, MarkDisconnectedSteps
    <2> QED BY <2>1, MovesGo
  <1>12. CASE Bye(c)
    BY <1>12, ByeSteps, MovesGo
  <1>13. CASE ReadFails(c) \/ RateLimited(c)
    <2>1. pc[c] = "read" /\ CleanUp(c)
      BY <1>13 DEF ReadFails, RateLimited
    <2>2. \/ Steps(c, "bye", NoJob, sid[c])
          \/ \E j : Steps(c, "mark", j, sid[c])
      BY <2>1, CleanUpSteps
    <2> QED BY <2>2, MovesGo
  <1>14. ASSUME NEW q \in Request, ReceiveJoin(c, q), ~UNCHANGED pc PROVE Goes(c)
    BY <1>14, ReceiveJoinSteps, MovesGo
  <1>15. ASSUME NEW q \in Request, Receive(c, q), ~UNCHANGED pc PROVE Goes(c)
    BY <1>15, ReceiveSteps, MovesGo
  <1> QED BY <1>1, <1>2, <1>3, <1>4, <1>5, <1>6, <1>7, <1>9, <1>10, <1>11, <1>12,
             <1>13, <1>14, <1>15 DEF HandlerMoves, Handle, HandlesOf

\* Where c goes from or to, and nobody overlaps, c is alone.
LEMMA Alone ==
  ASSUME TypeInv, NEW c \in Conn, Goes(c), OneAtATime, OneAtATime',
         pc[c] \notin Resting \/ pc'[c] \notin Resting
  PROVE  Only(c)
PROOF
  <1>1. \A d \in Conn \ {c} : pc'[d] = pc[d]
    BY MovesOne DEF Goes
  <1>2. CASE pc[c] \notin Resting
    BY <1>2 DEF OneAtATime, Only
  <1>3. CASE pc'[c] \notin Resting
    <2>1. PICK h \in Conn : \A d \in Conn \ {h} : pc'[d] \in Resting
      BY DEF OneAtATime, Only
    <2>2. h = c
      BY <1>3, <2>1
    <2> QED BY <1>1, <2>1, <2>2 DEF Only
  <1> QED BY <1>2, <1>3

\* Every step in, into and out of a handler is.
LEMMA HandlerMovesAlone ==
  ASSUME TypeInv, NEW c \in Conn, HandlerMoves(c), OneAtATime, OneAtATime'
  PROVE  Only(c)
PROOF
  <1>1. Goes(c) /\ pc \in [Conn -> Places]
    BY HandlerMovesGo DEF TypeInv, ConnsOK
  <1>2. pc[c] \notin Resting \/ pc'[c] \notin Resting
    <2>1. CASE HandlesOf(c)
      <3>1. pc[c] = "handle"
        BY <2>1 DEF HandlesOf, HandleVote, HandleReveal, HandleNewRound, HandleClearRoom,
           HandleUpdateName, HandlePresence, HandleUpdateRole, HandleTimerSetDuration,
           HandleTimerStart, HandleTimerReset, HandleLeave, Locked
      <3> QED BY <3>1 DEF Resting
    <2>2. CASE \/ GetOrCreateRoom(c) \/ Join(c) \/ RegisterClient(c) \/ BuildRoomState(c)
               \/ Welcome(c) \/ Forget(c) \/ Snapshot(c) \/ MarkDisconnected(c) \/ Bye(c)
               \/ \E d \in Conn : SendOne(c, d)
      <3>1. pc[c] \in {"create", "join", "register", "state", "welcome", "forget",
                       "snapshot", "mark", "bye", "send"}
        BY <2>2 DEF GetOrCreateRoom, Join, RegisterClient, BuildRoomState, Welcome,
           Forget, Snapshot, MarkDisconnected, Bye, SendOne
      <3> QED BY <3>1 DEF Resting
    <2>3. CASE ReadFails(c) \/ RateLimited(c)
      <3>1. Goto(c, "bye") \/ Goto(c, "mark")
        BY <2>3 DEF ReadFails, RateLimited, CleanUp
      <3>2. pc'[c] \in {"bye", "mark"}
        BY <1>1, <3>1 DEF Goto
      <3> QED BY <3>2 DEF Resting
    <2>4. ASSUME NEW q \in Request, ReceiveJoin(c, q) \/ Receive(c, q), ~UNCHANGED pc
          PROVE  pc'[c] \notin Resting
      <3>1. Goto(c, "create") \/ Goto(c, "snapshot") \/ Goto(c, "handle")
        BY <2>4 DEF ReceiveJoin, Receive
      <3>2. pc'[c] \in {"create", "snapshot", "handle"}
        BY <1>1, <3>1 DEF Goto
      <3> QED BY <3>2 DEF Resting
    <2> QED BY <2>1, <2>2, <2>3, <2>4 DEF HandlerMoves, Handle, HandlesOf
  <1> QED BY <1>1, <1>2, Alone

\* What is the matter of the room, of c and of the views, after any such step.
LEMMA HandlerMovesServe ==
  ASSUME PokerInv, Work, current = made, NEW c \in Conn, HandlerMoves(c), Only(c),
         pc[c] = "join" /\ pc'[c] = "read" => c \notin clients
  PROVE  Good(c)
PROOF
  <1>1. ASSUME pc[c] \notin {"new", "read", "create", "bye", "gone"} PROVE current # NoRoom
    BY <1>1, TheOneRoom DEF NoRoom
  <1>2. IsRoom(heap[1]) /\ NoCards(heap[1])
    BY TheRoom DEF PokerInv
  <1>3. CASE HandlesOf(c)
    <2>1. pc[c] = "handle"
      BY <1>3 DEF HandlesOf, HandleVote, HandleReveal, HandleNewRound, HandleClearRoom,
         HandleUpdateName, HandlePresence, HandleUpdateRole, HandleTimerSetDuration,
         HandleTimerStart, HandleTimerReset, HandleLeave, Locked
    <2>2. current # NoRoom
      BY <1>1, <2>1
    <2> QED BY <1>3, <2>2, VoteServes, RevealServes, NewRoundServes, ClearServes,
            UpdateNameServes, PresenceServes, UpdateRoleServes, TimerServes, LeaveServes
         DEF HandlesOf
  <1>4. CASE GetOrCreateRoom(c)
    BY <1>4, GetOrCreateRoomServes
  <1>5. CASE Join(c)
    <2>1. pc[c] = "join"
      BY <1>5 DEF Join
    <2> QED BY <1>5, <2>1, JoinServes
  <1>6. CASE RegisterClient(c)
    <2>1. pc[c] = "register" /\ UNCHANGED heap
      BY <1>6 DEF RegisterClient
    <2> QED BY <1>1, <1>2, <1>6, <2>1, RegisterServes DEF Good
  <1>7. CASE BuildRoomState(c)
    <2>1. pc[c] = "state"
      BY <1>7 DEF BuildRoomState
    <2> QED BY <1>1, <1>7, <2>1, StateServes DEF Good
  <1>8. CASE Welcome(c)
    <2>1. pc[c] = "welcome" /\ UNCHANGED heap
      BY <1>8 DEF Welcome
    <2> QED BY <1>1, <1>2, <1>8, <2>1, WelcomeServes DEF Good
  <1>9. CASE Forget(c)
    BY <1>9, ForgetServes
  <1>10. CASE Snapshot(c)
    <2>1. pc[c] = "snapshot" /\ UNCHANGED heap
      BY <1>10 DEF Snapshot
    <2> QED BY <1>1, <1>2, <1>10, <2>1, SnapshotServes DEF Good
  <1>11. ASSUME NEW d \in Conn, SendOne(c, d) PROVE Good(c)
    <2>1. pc[c] = "send" /\ UNCHANGED heap
      BY <1>11 DEF SendOne
    <2> QED BY <1>1, <1>2, <1>11, <2>1, SendOneServes DEF Good
  <1>12. CASE MarkDisconnected(c)
    BY <1>12, MarkServes
  <1>13. CASE Bye(c)
    BY <1>13, ByeServes
  <1>14. CASE ReadFails(c) \/ RateLimited(c)
    BY <1>14, CleanUpServes
  <1>15. ASSUME NEW q \in Request, ReceiveJoin(c, q), ~UNCHANGED pc PROVE Good(c)
    BY <1>15, ReceiveJoinServes DEF ReceiveJoin
  <1>16. ASSUME NEW q \in Request, Receive(c, q), ~UNCHANGED pc PROVE Good(c)
    BY <1>16, ReceiveServes
  <1> QED BY <1>3, <1>4, <1>5, <1>6, <1>7, <1>8, <1>9, <1>10, <1>11, <1>12, <1>13,
             <1>14, <1>15, <1>16 DEF HandlerMoves, Handle, HandlesOf

\* How many rooms there are, and who is registered.
Registers(c) ==
  \/ UNCHANGED made /\ clients' \subseteq clients
  \/ UNCHANGED made /\ made = 1 /\ clients' = clients \cup {c}
  \/ made' = 1 /\ clients' = {}

\* What such a step does to the room's number and to its clients.
LEMMA HandlerMovesRegister ==
  ASSUME PokerInv, current = made, NEW c \in Conn, HandlerMoves(c)
  PROVE  Registers(c)
PROOF
  <1>1. TypeInv
    BY DEF PokerInv
  <1>2. CASE \/ HandlesOf(c) \/ Join(c) \/ BuildRoomState(c) \/ Welcome(c) \/ Snapshot(c)
             \/ (\E d \in Conn : SendOne(c, d)) \/ MarkDisconnected(c)
             \/ ReadFails(c) \/ RateLimited(c)
             \/ \E q \in Request : ReceiveJoin(c, q) \/ Receive(c, q)
    <2>1. UNCHANGED <<made, clients>>
      BY <1>2 DEF HandlesOf, HandleVote, HandleReveal, HandleNewRound, HandleClearRoom,
         HandleUpdateName, HandlePresence, HandleUpdateRole, HandleTimerSetDuration,
         HandleTimerStart, HandleTimerReset, HandleLeave, Locked, Join, BuildRoomState,
         Welcome, Snapshot, SendOne, MarkDisconnected, ReadFails, RateLimited, CleanUp,
         ReceiveJoin, Receive, Read, manager
    <2> QED BY <2>1 DEF Registers
  <1>3. CASE GetOrCreateRoom(c)
    <2>1. \/ UNCHANGED <<made, clients>>
          \/ current = NoRoom /\ clients' = {} /\ made' = made + 1
      BY <1>3 DEF GetOrCreateRoom
    <2>2. ASSUME current = NoRoom, made' = made + 1 PROVE made' = 1
      <3>1. made = 0
        BY <2>2 DEF NoRoom
      <3> QED BY <2>2, <3>1
    <2> QED BY <2>1, <2>2 DEF Registers
  <1>4. CASE RegisterClient(c)
    <2>1. pc[c] = "register" /\ clients' = clients \cup {c} /\ UNCHANGED made
      BY <1>4 DEF RegisterClient
    <2>2. made = 1
      BY <2>1, TheOneRoom
    <2> QED BY <2>1, <2>2 DEF Registers
  <1>5. CASE Forget(c) \/ Bye(c)
    <2>1. clients' = clients \ {c} /\ UNCHANGED made
      BY <1>5 DEF Forget, Bye
    <2> QED BY <2>1 DEF Registers
  <1> QED BY <1>2, <1>3, <1>4, <1>5 DEF HandlerMoves, Handle, HandlesOf

\* Nobody is registered before the one room there is exists.
LEMMA OneRoomKept ==
  ASSUME PokerInv, NEW c \in Conn, Goes(c), Registers(c)
  PROVE  OneRoom'
PROOF
  <1>1. TypeInv /\ OneRoom
    BY DEF PokerInv
  <1>2. pc'[c] # "new" /\ \A d \in Conn \ {c} : pc'[d] = pc[d]
    BY <1>1, MovesOne DEF Goes
  <1>3. made' <= 1
    <2>1. CASE made' = made
      BY <1>1, <2>1 DEF OneRoom
    <2>2. CASE made' = 1
      BY <2>2
    <2> QED BY <2>1, <2>2 DEF Registers
  <1>4. ASSUME NEW d \in clients' PROVE pc'[d] # "new" /\ made' = 1
    <2>1. CASE d \in clients
      <3>1. pc[d] # "new" /\ made = 1 /\ d \in Conn
        BY <1>1, <2>1 DEF OneRoom, TypeInv, RestOK
      <3>2. pc'[d] # "new"
        BY <1>2, <3>1
      <3> QED BY <3>1, <3>2 DEF Registers
    <2>2. CASE d \notin clients
      <3>1. d = c /\ made' = 1
        BY <1>4, <2>2 DEF Registers
      <3> QED BY <1>2, <3>1
    <2> QED BY <2>1, <2>2
  <1> QED BY <1>3, <1>4 DEF OneRoom

\* The tabs keep their shape, and what is untold stays so.
LEMMA TabsKept ==
  ASSUME TabsOK, PokerNext
  PROVE  TabsOK'
PROOF
  <1>1. CASE Work
    <2>1. view' = view
      BY <1>1 DEF Work
    <2>2. mustJoin' = [c \in Conn |-> mustJoin[c] /\ ~(\E q \in Request : ReceiveJoin(c, q))]
      BY <1>1 DEF Work
    <2>3. mustJoin' \in [Conn -> BOOLEAN]
      BY <2>2, Zenon
    <2> QED BY <2>1, <2>3 DEF TabsOK
  <1>2. ASSUME NEW c \in Conn, Hear(c) PROVE TabsOK'
    <2>1. PICK w, b : /\ view' = [view EXCEPT ![c] = w]
                      /\ b = (mustJoin[c] \/ Head(buf[c]).type = "room_cleared")
      BY <1>2 DEF Hear
    <2>2. b \in BOOLEAN /\ mustJoin' = [mustJoin EXCEPT ![c] = b]
      BY <1>2, <2>1 DEF Hear
    <2> QED BY <2>1, <2>2 DEF TabsOK
  <1> QED BY <1>1, <1>2 DEF PokerNext

\* What is about to be told is not counted as untold.
LEMMA UntoldStays ==
  ASSUME Work
  PROVE  UntoldInv'
  BY DEF Work, UntoldInv

\* No client that is registered is refused when it joins again.
LetIn == \A c \in Conn : pc[c] = "join" /\ pc'[c] = "read" => c \notin clients

\* Every step keeps the invariant, as long as handlers do not overlap and the
\* room is not collected.
LEMMA PokerStep ==
  ASSUME PokerInv, PokerNext, current = made, OneAtATime, (current = made)', OneAtATime',
         LetIn
  PROVE  PokerInv'
PROOF
  <1>1. TypeInv /\ TabsOK /\ JobsInv /\ OneRoom /\ NoCards(heap[1])
    BY DEF PokerInv
  <1>2. TypeInv'
    BY <1>1, TypeStep DEF PokerNext, Work, Hear, Next
  <1>3. TabsOK'
    BY <1>1, TabsKept
  <1>4. ASSUME NEW c \in Conn, Hear(c) PROVE PokerInv'
    <2>1. UNCHANGED <<heap, made, clients, pc, job, untold>>
      BY <1>4 DEF Hear, Deliver, manager
    <2>2. OneRoom' /\ JobsInv' /\ NoCards(heap'[1]) /\ UntoldInv'
      BY <1>1, <2>1 DEF PokerInv, OneRoom, JobsInv, UntoldInv
    <2>3. ViewsTrue'
      BY <1>4, HearServes
    <2> QED BY <1>2, <1>3, <2>2, <2>3 DEF PokerInv
  <1>5. ASSUME Work, Calm PROVE PokerInv'
    <2>1. ViewsTrue'
      BY <1>5, CalmServes
    <2>2. NoCards(heap'[1]) /\ UntoldInv'
      BY <1>1, <1>5, UntoldStays DEF Calm
    <2>3. OneRoom'
      <3>1. ASSUME NEW d \in clients' PROVE pc'[d] # "new" /\ made' = 1
        <4>1. d \in clients /\ d \in Conn /\ pc[d] # "new" /\ made = 1
          BY <1>1, <1>5, <3>1 DEF Calm, OneRoom, TypeInv, RestOK
        <4> QED BY <1>5, <4>1 DEF Calm
      <3> QED BY <1>1, <1>5, <3>1 DEF Calm, OneRoom
    <2>4. ASSUME NEW d \in Conn PROVE JobShape(pc'[d], job'[d], d)
      <3>1. CASE pc'[d] = pc[d]
        BY <1>1, <1>5, <3>1 DEF Calm, JobsInv
      <3>2. CASE pc'[d] = "read"
        BY <3>2 DEF JobShape
      <3> QED BY <1>5, <3>1, <3>2 DEF Calm
    <2> QED BY <1>2, <1>3, <2>1, <2>2, <2>3, <2>4 DEF PokerInv, JobsInv
  <1>6. ASSUME Work, NEW c \in Conn, HandlerMoves(c) PROVE PokerInv'
    <2>1. Only(c) /\ Goes(c)
      BY <1>1, <1>6, HandlerMovesAlone, HandlerMovesGo
    <2>2. pc[c] = "join" /\ pc'[c] = "read" => c \notin clients
      BY DEF LetIn
    <2>3. Good(c)
      BY <1>6, <2>1, <2>2, HandlerMovesServe
    <2>4. OneRoom'
      BY <1>6, <2>1, OneRoomKept, HandlerMovesRegister
    <2>5. ASSUME NEW d \in Conn PROVE JobShape(pc'[d], job'[d], d)
      <3>1. CASE d = c
        BY <2>3, <3>1 DEF Good
      <3>2. CASE d # c
        <4>1. pc'[d] = pc[d] /\ job'[d] = job[d]
          BY <1>1, <2>1, <3>2, MovesOne DEF Goes
        <4> QED BY <1>1, <4>1 DEF JobsInv
      <3> QED BY <3>1, <3>2
    <2>6. NoCards(heap'[1]) /\ ViewsTrue' /\ UntoldInv'
      BY <1>6, <2>3, UntoldStays DEF Good
    <2> QED BY <1>2, <1>3, <2>4, <2>5, <2>6 DEF PokerInv, JobsInv
  <1>7. ASSUME Work PROVE Calm \/ \E c \in Conn : HandlerMoves(c)
    <2>1. \/ \E c \in Conn : HandlerMoves(c)
          \/ \E c \in Conn : \/ Connect(c) \/ ReceiveGarbage(c) \/ PumpStops(c)
                             \/ /\ \E q \in Request : ReceiveJoin(c, q) \/ Receive(c, q)
                                /\ UNCHANGED pc
          \/ CollectCandidates \/ DeleteCandidates \/ Tick
      BY <1>7 DEF Work, Serve, HandlerMoves
    <2> QED BY <2>1, CalmSteps
  <1> QED BY <1>4, <1>5, <1>6, <1>7 DEF PokerNext

\* It holds at the beginning.
LEMMA PokerStarts ==
  ASSUME PokerInit
  PROVE  PokerInv
PROOF
  <1>1. Init /\ view = [c \in Conn |-> NoView] /\ mustJoin = [c \in Conn |-> FALSE]
        /\ untold = {}
    BY DEF PokerInit
  <1>2. TypeInv
    BY <1>1, InitOK
  <1>3. TabsOK
    BY <1>1 DEF TabsOK
  <1>4. clients = {} /\ made = 0
    BY <1>1 DEF Init
  <1>5. OneRoom /\ ViewsTrue
    BY <1>4 DEF OneRoom, ViewsTrue
  <1>6. JobsInv
    <2>1. \A c \in Conn : pc[c] = "new"
      BY <1>1 DEF Init
    <2> QED BY <2>1 DEF JobsInv, JobShape
  <1>7. NoCards(heap[1])
    <2>1. 1 \in RoomId
      BY <1>2, TheRoom
    <2>2. PICK r : r = NewRoom(1)
      OBVIOUS
    <2>3. heap[1] = r
      BY <1>1, <2>1, <2>2 DEF Init
    <2>4. NoCards(r)
      BY <2>2 DEF NoCards, NewRoom, Members
    <2> QED BY <2>3, <2>4
  <1>8. UntoldInv
    BY <1>1 DEF UntoldInv
  <1> QED BY <1>2, <1>3, <1>5, <1>6, <1>7, <1>8 DEF PokerInv

\* Where no handler is at work, views that will be true are.
LEMMA QuietViews ==
  ASSUME PokerInv
  PROVE  ViewsConverge
PROOF
  <1> SUFFICES ASSUME Quiet, NEW c \in Conn, UpToDate(c)
               PROVE  Agrees(view[c], heap[1])
    BY DEF ViewsConverge
  <1>1. c \in clients /\ Live(c) /\ buf[c] = <<>> /\ ~mustJoin[c]
    BY DEF UpToDate, Live
  <1>2. pc[c] \in Resting /\ Only(c)
    BY DEF Quiet, Only, Resting
  <1>3. Served(c, c)
    BY <1>1, <1>2 DEF PokerInv, ViewsTrue
  <1>4. ~Warned(c)
    <2>1. DOMAIN <<>> = {}
      OBVIOUS
    <2> QED BY <1>1, <2>1 DEF Warned
  <1>5. ~Excused(c)
    BY <1>2, <1>4 DEF Excused, Excusing, Resting
  <1>6. Coming(c, c) = <<>>
    BY <1>2, NothingComing DEF Coming, Silent
  <1>7. WillShow(view[c], <<>>, <<>>, heap[1], untold)
    BY <1>1, <1>3, <1>5, <1>6 DEF Served
  <1>8. Shows(view[c], heap[1], untold)
    BY <1>7, WillShowNow
  <1>9. IsRoom(heap[1])
    BY TheRoom DEF PokerInv
  <1> QED BY <1>8, <1>9, ShowsAgrees

\* What a tab shows is what the server holds. Whenever no handler is at work, a
\* registered tab that has read all it was sent, was never dropped as slow and
\* has joined again after a room_cleared shows the room's participants, phase,
\* cards and timer as they are, but for what no message tells (Poker's untold).
\* So for each operation the state change under the room's lock (room.go:205-429),
\* the messages that ws.go:193-599 builds and sends after the unlock, and the
\* web client's reducer fit together, whoever joins, leaves, drops out or
\* falls behind meanwhile. It holds for any number of connections and sessions
\* and for any order in which messages are read, where
\*  - no two handlers are at work at once (overlapping ones may announce in the
\*    other order: MCHub's runs), and the room is not collected;
\*  - a client that is registered is not refused when it joins again: a refusal
\*    (the room has filled up, or the name is empty once sanitized) leaves it in
\*    the broadcasts of a room whose state it was not sent.
THEOREM ViewsAreTrue ==
  PokerSpec /\ [](current = made /\ OneAtATime) /\ [][LetIn]_pokerVars => []ViewsConverge
PROOF
  <1>1. PokerInit => PokerInv
    BY PokerStarts
  <1>2. PokerInv /\ [PokerNext]_pokerVars /\ [LetIn]_pokerVars
        /\ (current = made /\ OneAtATime) /\ (current = made /\ OneAtATime)'
        => PokerInv'
    <2> SUFFICES ASSUME PokerInv, [PokerNext]_pokerVars, [LetIn]_pokerVars,
                        current = made, OneAtATime, (current = made)', OneAtATime'
                 PROVE  PokerInv'
      OBVIOUS
    <2>1. CASE UNCHANGED pokerVars
      <3>1. UNCHANGED <<heap, lock, now, round, made, current, clients, gc, pc, job, sid,
                        buf, done, pump, left, view, mustJoin, untold>>
        BY <2>1 DEF pokerVars, vars, manager, conns
      <3>2. TypeInv'
        BY <2>1, TypeStep DEF PokerInv, pokerVars
      <3>3. TabsOK' /\ OneRoom' /\ JobsInv' /\ NoCards(heap'[1]) /\ UntoldInv'
        BY <3>1 DEF PokerInv, TabsOK, OneRoom, JobsInv, UntoldInv
      <3>4. ViewsTrue'
        BY <3>1 DEF PokerInv, ViewsTrue, Only, Live, Served, Excused, Warned, Coming
      <3> QED BY <3>2, <3>3, <3>4 DEF PokerInv
    <2>2. CASE PokerNext /\ LetIn
      BY <2>2, PokerStep
    <2>3. CASE PokerNext /\ UNCHANGED pokerVars
      BY <2>1, <2>3
    <2> QED BY <2>1, <2>2, <2>3
  <1>3. PokerInv => ViewsConverge
    BY QuietViews
  <1> QED BY <1>1, <1>2, <1>3, PTL DEF PokerSpec
=============================================================================

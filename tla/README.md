# A verification project for OM Scrum Poker

TLA+ models of the planning-poker server in this repository (`internal/`,
`cmd/server`) and its browser client (`web/src`), configurations that
model-check them with TLC, and proofs checked by TLAPS.  Paths below are relative to the repository, line
numbers refer to the commit the models were written from.

- [The system](#the-system)
- [Modules](#modules)
- [What the runs check](#what-the-runs-check)
- [Bounds](#bounds) and [fairness](#fairness)
- [What is proved](#what-is-proved)
- [Where code and documents disagree](#where-code-and-documents-disagree)
- [What is not modelled](#what-is-not-modelled) and [the plan](#plan)
- [Running it](#running-it)

## The system

One Go process keeps poker rooms in memory; browsers talk to it over one
WebSocket each.  Nothing is persisted: a restart forgets every room, and the
clients join again.

| Component | State | Operations | Shared with | Hard behaviour |
|---|---|---|---|---|
| Room, `internal/domain/room.go` | phase, participants by session, timer, last activity; one mutex | Join, Leave, UpdateRole, CastVote, Reveal, NewRound, ClearRoom, UpdateName, UpdatePresence, SetTimerDuration, StartTimer, ResetTimer, TimerInfo | handlers of all connections | long sequences of legal calls; a participant outlives its connection; the timer expires only when looked at |
| Statistics, `stats.go` | none | CalculateResult | Reveal, BuildRoomState | `?` votes, even and odd medians, consensus |
| Room manager, `internal/server/room_manager.go` | rooms by id, registered clients by room; one RW mutex | GetOrCreateRoom, GetRoom, RegisterClient, UnregisterClient, Broadcast, BroadcastExcept, BuildRoomState, collectGarbage (two phases), CloseAll | handlers, collector goroutine, shutdown | pointers to rooms that are no longer in the map; client sets copied before they are used |
| Client, `client.go` | session id, send channel of 32, done channel | Send (never blocks, closes when full), Close, WritePump | its two goroutines and everybody who broadcasts | slow readers, lost connections |
| Handlers, `ws.go` | locals between critical sections | readPump, dispatch, twelve handlers, clean-up | room and manager | everything between unlocking the room and the last Send |
| Rate limiters, `ratelimit.go`, `msg_rate_limiter.go` | token buckets per address / connection | allow, cleanup | HandleWebSocket, handleJoin, readPump | refill and cap, forgotten buckets |
| Connection tracker, `conntracker.go` | counters per address and in total | TryAdd, Remove | HandleWebSocket | balanced on every exit path |
| Start and shutdown, `cmd/server/main.go` | | CloseAll, then Shutdown | manager, HTTP server | connections accepted in between |
| Web client, `web/src/ws.ts`, `state.ts` | socket, reconnect timer, queue, signals | connect, closeSocket, scheduleReconnect, retry, disconnect, handleMessage | one server connection | reconnection, automatic rejoin after room_cleared, events in an unexpected order |
| Views, `web/src/components`, `usePresence.ts` | optimistic selection, actionPending, local countdown | | signals | an answer that never comes |
| HTTP handler, `handler.go` | none | static files, health, headers | | |

How they interact.  `HandleWebSocket` admits a connection, starts the write
pump and reads events until the read fails.  Each event is handled by one
handler to its end before the next is read.  A handler looks the room up in the
manager, locks the room, calls one method, unlocks, and broadcasts outside any
lock: it copies the set of registered clients and calls Send on each.  Only
`handleJoin` keeps the room locked longer, over Join, RegisterClient and
BuildRoomState.  When the read pump returns, the participant is marked
disconnected and announced, and the client is unregistered.  Every ten minutes
the collector removes rooms that have no registered client and no activity for
24 hours.

What makes each part correct:

- *Room*: cards cannot change once everybody has seen them and a new round
  starts with an empty table; a lost connection costs neither card nor seat; an
  observer holds no card; the room is never overfull; the countdown told to
  clients agrees with the clock; every activity is stamped.
- *Handlers, clients and manager*: concurrent handlers amount to one room
  operation at a time; cards of the current round stay on the server; whoever
  is joined is registered and nobody else; who is shown as present has a
  connection, unless that took another session;
  handlers return, slow clients are dropped; a used room is never collected.
- *Limits*: counters agree with what is open; nobody gets more than the rate,
  and nobody who kept to it is refused.
- *Web client*: one socket at most and always an attempt under way, the server
  knows the present name, and the view converges to the server's room.
- *Statistics and names*: the numbers are what they claim to be; a name can be
  shown.

## Modules

| Module | What it is | Code |
|---|---|---|
| `RoomOps` | the methods of Room as operators on a room value: `CanX` is true when the method accepts, `AfterX` is the room it leaves | `room.go`, the votes of `stats.go` |
| `Room` | one room and a clock; any session calls any method with any input. One action per method, plus the status written by the clean-up (`Disconnect`), the expiry that TimerInfo notices (`ReadTimer`) and the clock | `room.go` |
| `VotingRound` | abstract specification: a ballot that is laid, withdrawn, revealed, replaced | what `Room` promises |
| `RoomOpsProofs` | what each operation of `RoomOps` makes of a room: lemmas, used wherever the operations are | |
| `RoomProofs` | theorems about `Room` | |
| `Names` | sanitizeName and the truncation that follows it, on sequences of rune classes | `room.go` 145-212 |
| `Stats` | CalculateResult, and what its numbers have to be | `stats.go` |
| `Hub` | one room id with its manager entry, connections, handlers, write pumps, collector | `ws.go`, `client.go`, `room_manager.go`, `events.go` |
| `HubTypeProofs` | the type of `Hub`, what each step does to the connection that takes it, and the proof | |
| `HubProofs` | theorems about `Hub`: collector, secrecy, presence, registration, and that its rooms are rooms of `Room` | |
| `Poker` | `Hub` with the tabs behind the connections: what the reducer makes of each message, in the order it is read | `ws.ts` 64-278, `state.ts` |
| `PokerProofs` | theorems about `Poker`: what is not announced, and that the tabs show the room | |
| `WebClient` | one tab: URL, name, RoomPage's effect, socket, reconnection timer, queue, pending request, banner | `ws.ts`, `state.ts`, `RoomPage`, `ConnectionBanner`, `EditNameModal`, `NameEntryModal` |
| `WebClientProofs` | theorems about `WebClient` | |
| `ConnLimits` | admission and departure of connections, the tracker's counters, the end of the process | `ws.go` 53-127, `conntracker.go`, `main.go`, CloseAll |
| `ConnLimitsProofs` | theorems about `ConnLimits` | |
| `RateLimit` | the token buckets of addresses and connections, with the clean-up | `ratelimit.go`, `msg_rate_limiter.go` |
| `Allowance` | abstract specification: an allowance that grows with the clock and is spent | what `RateLimit` promises |
| `RateLimitProofs` | theorems about `RateLimit` | |
| `MCRoom`, `MCHub`, `MCPoker`, `MCConnLimits`, `MCRateLimit` | instances for TLC (`WebClient` needs none) | |

How they compose.  `Room` and `Hub` share the operations of `RoomOps`; `MCRoom`
gives `Room` the names of `Names` and checks every room with `Stats`; a room of
`Hub` implements `Room`, and `Room` implements `VotingRound`; `Poker` extends
`Hub` by the clients' copies of the room.  The refusals of `RateLimit` and
`ConnLimits` are nondeterministic choices where the other modules meet them.
`WebClient` takes the server as an environment that answers what it owes.

*State of `Room`.* `room` is the struct without its name, creator, id and
creation time, which never change, and without LastPing, which nobody reads.
`now` is `time.Now()` in seconds; 0 is Go's zero time.

*State of `Hub`.* `heap` holds every room ever made under the id, because a
goroutine may keep a pointer to a room that was collected; `current` is the one
in `rm.rooms`.  `clients` is `rm.clients[id]`.  `pc[c]` and `job[c]` are the
place and the locals of connection c's reading goroutine.  `buf`, `done` and
`sid` are Client.send, done and sessionID; `pump[c]` says that the write pump
runs, which is also when the connection's context is not cancelled.  A join
names its session, as JoinPayload does, and overwrites the one the connection
had; `SessionsOf[c]` are the sessions the client of connection c may name: one
for a tab of the web client, several for a client of another make, of which the
server knows nothing.  `round` is
a history variable, which counts the ballots of every room: cards that leave a
room are stamped with the room and its count.

*Atomicity in `Hub`.* A step is a critical section, or a Send, or a copy of the
client set.  The manager's mutex and a client's mutex are never held across a
step.  A room's mutex is, between `Join` and `BuildRoomState`; `lock` records
the holder.  A handler's steps follow the code: `Receive` (session check and
look-up), `Handle...` (critical section), `Snapshot` and `SendOne` for each
broadcast.  A message is computed where the code computes it.  For
participant_joined the code reads name and role of the participant after
unlocking (`ws.go:257`), which races with other connections of the session;
`Reread` takes them from the room as it is when the handler goes on, whenever
that is.  `MarkDisconnected`, `Bye` are the
clean-up; a lost connection, a failed write or a ping without answer are
`ReadFails` and `PumpStops`, possible at any time.  A refusal by a rate limiter
is a choice (`ReceiveJoin`, `RateLimited`).  Bodies that do not parse and
unknown events are the event `garbage`.

*State of `ConnLimits`.* `perIP` and `total` are the fields of ConnTracker;
`perIP` is defined on the addresses the map holds.  `pc[c]` says how far
HandleWebSocket is with an attempt: accepted by the listener, let through by
the rate limiter, counted, upgraded, on its way out (the deferred Remove is
due).  `clients` are the clients registered with the manager, of all rooms.
`main` is the place of the main goroutine; `farewell` and `told` are the
clients CloseAll has copied and those whose close frame has been sent.  The
rate limiter, the room id checks and the upgrade may each refuse, and the
three-second and ten-second timeouts may fire at any time.  What an open
connection does otherwise is `Hub`'s business.

*State of `RateLimit`.* `buckets` is RateLimiter.buckets, a function on the keys
the map holds, together with the one bucket of each connection.  A token has as
many parts as its window has units of time, so that refilling is exact where
the code computes in floating point.  `watch` is a history variable: a
stopwatch that may be started at any time for any key and counts what the key
is granted, which is how "from any moment on" is said.

*State of `WebClient`.* `client` holds the module variables of `ws.ts` (socket,
timer, attempts, room, queue) and the signals they set (status, reconnect info,
actionPending, the phase of roomState), and the browser's socket objects, each
with the room it was made for and the join the server was last told on it.
`path` and `userName` are what the user sees; `mounted` is the page whose effect
is in force, which lags behind.  `elapsed` is the time since
reconnectStartTime.  `trying` and `cut` are history variables: how long
connections have really been failing, and whether the pending request has lost
its connection.  JavaScript runs one callback at a time, so a callback is a
step; everything may happen between two.

*State of `Poker`.* `view[c]` is roomState and timerState of the tab behind c,
`mustJoin[c]` says that it owes the rejoin after room_cleared.  `untold` is a
history variable: the facts about participants that changed without an
announcement.

Definitions commented "Mutant" are plausible bugs of the definition that
follows them.  They are in no specification; `PROJECT.json` says which property
each must break.

## What the runs check

| Run | Properties | What it shows |
|---|---|---|
| `room` | TypeOK, ObserverHasNoVote, CapacityRespected, TimerConsistent, RemainingAgreesWithState, NamesAreClean, StatisticsAreRight, VotesFrozenInReveal, CardsStay, ImplementsVotingRound, SeniorityStable, ActivityIsStamped, CountdownUninterrupted | three sessions, two places, names that need cleaning, every order of joins, losses, role changes, votes, reveals, rounds, clears and countdowns while the clock ticks |
| `hub_round` | VotesStaySecret, HubImplementsRoom | one connection votes, reveals and turns observer, the other joins and starts rounds; all broadcasts interleave, readers are slow |
| `hub_churn` | TypeOK, RegisteredIffJoined, OnlyTheDesertedHaunt, HubImplementsRoom | joins that succeed and fail, as one session and then another, leaves, presence, the countdown's handlers, clears; connections are lost at any step |
| `hub_gc` | GCSparesTheLiving, HubImplementsRoom | the collector's two phases against joins, losses and a countdown that runs out, with a clock and a second room under the id |
| `hub_fair` | HandlersFinish, SlowClientIsDropped | liveness, with a buffer of one message and a room of one place; also renames and events that do not parse |
| `poker` | ViewsConverge, LittleIsUntold | two people, one with a reserve connection, and the tabs' copies of the room: whatever is done and however late messages are read, who has read them sees the room as it is |
| `web_client` | TypeOK, OneAttempt, ServerKnowsTheName, StaysOrConnects, ButtonsComeBack | a tab between two rooms and the home page, renamed, clicking and retrying, while sockets open, fail and close and the timer fires at any time |
| `conn_limits` | TypeOK, CountersAgree, LimitsHeld, RefusedOnlyWhenFull | five attempts from two addresses, refused at every stage or open, before and during the shutdown |
| `rate_limit` | TypeOK, RateBounded, RefusedOnlyWhenSpent, ImplementsAllowance | an address with both its buckets and a connection, in every rhythm of requests, pauses and clean-ups |

The runs `hub_orphan`, `hub_two_tabs` and `client_banner` each refute one
sentence of the documentation, see
[below](#where-code-and-documents-disagree).

The properties that took the most thought:

- **VotesStaySecret.** Messages are computed under the lock and sent later, so
  "no cards in a buffer while the room is voting" is false for an honest
  reason: a revealed ballot may still be on its way when the next round starts.
  What holds is that cards under way belong to an earlier ballot of their room,
  or that ballot is revealed; for every room that somebody still holds a pointer
  to, not only for the one on the map.
- **RegisteredIffJoined** is about the several steps of joining, leaving and
  cleaning up; it is checked where the collector cannot run, because with it
  `hub_orphan` shows that it fails.  The proof shows the one way in which it
  fails: a room collected in the middle of a join is made anew, with an empty
  set of clients, while the first client is registered (`Replaces`).
- **CardsStay** follows a card through the whole absence of its owner: the loss
  of the connection, whatever the others do meanwhile, the return.  Only the
  owner's vote, the owner's becoming an observer and a new round change it.
- **OnlyTheDesertedHaunt** is about participants shown as present with nobody
  behind them.  That there are none is false: a connection may join as A and
  then as B, and the server forgets A
  ([below](#where-code-and-documents-disagree)).  What holds is that this is the
  only way: two tabs of a session, a leave in one of them, clean-ups that
  race a rejoin or a collected room leave no phantom.  The opposite, somebody
  shown as gone who is there, does happen: `hub_two_tabs`.
- **HubImplementsRoom** relates the finest grain of the server to `Room`: every
  room the id ever had, on the map or off it, takes steps of `Room`.  With it
  (and `RoomRefinement`) everything proved about `Room` carries over to the
  rooms of `Hub`.
- **ViewsConverge** holds as long as no two handlers overlap and no rejoin of a
  registered client is refused, with messages read as late as one likes (a
  theorem, `ViewsAreTrue`).  Overlapping, it fails in the ways listed
  [below](#where-code-and-documents-disagree).  It excuses what the server
  never announces (`untold`), and **LittleIsUntold** bounds that excuse: a
  name, a role or a hand with which a session rejoins, and the card an
  observer gives up.
- **OneAttempt** relates timer, socket, room and page over everything that can
  come between two callbacks: a retry with the timer running, a close in the
  middle of a change of room, a rename that reconnects.  **ServerKnowsTheName**
  is its counterpart for the name, which is told in three ways (the join of a
  new socket, update_name, the rejoin after room_cleared).
- **ButtonsComeBack** excuses the requests that lost their connection, because
  nothing unlocks a button then; it is about the others.
- **RateBounded** and **RefusedOnlyWhenSpent** are two halves: nobody is granted
  more than a full bucket and the earnings since any moment, and nobody is
  refused before that is spent.  A refill that loses fractions breaks the second
  only, a clean-up that forgets too early the first only.
- **RefusedOnlyWhenFull** is, likewise, the other half of LimitsHeld: a tracker
  that leaks a place on one of the exits keeps the limits and, in the end,
  refuses everybody.
- **StatisticsAreRight** says what median, average and spread mean without
  sorting or dividing, and checks the code's sorting and dividing against it.
  It leaves open whether numbers that agree have a spread, which is where code
  and documents disagree (AgreementHasASpread).

## Bounds

- `room`: three sessions and two places, so that a full room, a rejoin into a
  full room and a replaced participant occur; the cards 5, 8 and `?`, and 7,
  which is not in the deck; durations 2 and 3 (1 and 4 are refused) and a
  clock from 1 to 3, so that a countdown can be looked at before and at its
  end; the clock has no fractions of a second, which TimerInfo truncates: with
  whole durations the elapsed time reaches the duration truncated or not at the
  same moment; names a blank is uncovered in, that are cut in the middle of
  marks, and that come to nothing.  The sessions are symmetric.  NamesAreClean
  also covers all names of up to five runes with a limit of four,
  StatisticsAreRight all ballots of up to four voters over six cards.
- `hub_*`: two connections, since the hazards are between one handler and
  another, or the collector.  Each connection sends one to three events
  (`MaxRequests`), enough for join, vote and reveal, or join and another, and
  can be lost at every step.  Each run offers the kinds of events its question
  is about (`KindsOf`).  Buffers hold one message, so that overflow is common.
- `hub_churn`: the first connection joins as one session, the second as that or
  another, and may change between them: two tabs of one session, a second
  person, and a connection that is both in turn.  In the other `hub_*` runs a
  connection has one session; the proofs cover every `SessionsOf`.
- `hub_round`: three events of the voter and two of the other are what a card,
  its reveal and the next round under way at once take.  To leave room for
  them nobody's connection is lost here (`ConnectionsStay`); `hub_churn` and
  `hub_gc` lose connections everywhere.  No property there speaks of time, so
  the clock stands still, as in `hub_churn`.
- `hub_gc`: expiry 1, clock up to 3, two rooms under the id, a countdown of 1.
  The clock may move inside a handler, which only adds behaviours.
- `poker`: three connections of two sessions, three, two and one events, a
  buffer of three.  `OneHandlerAtATime` lets a handler end before anything else
  happens, the premise of ViewsConverge; `JoinsFirst` is what `WebClient` shows
  of a tab, and lets people act on what they have read; `SecondStays` loses
  only the connection that has a successor.  All kinds of events that change a
  view occur, but for a rename, which works like a change of role: that it does
  is `NameFollows`, a lemma of the theorem, and no business of this run.
- `web_client`: two rooms, two names, two sockets (with one, a socket closed
  and its successor could be mistaken for each other), a queue of two, a
  timeout of two units and two attempts.  Delays of the back-off are left open:
  the timer fires at any time.
- `conn_limits`: limits of two per address and three in total, three attempts
  from one address and two from the other: either limit can be the one that
  refuses.  The attempts of one address are symmetric.
- `rate_limit`: buckets of one token in two units, two in three and two in one,
  `StaleAfter` 3, a clock up to 5: a bucket can fill up, be forgotten and be
  used again.  Keys do not interact; the proofs cover any number of them.
- `MaxRooms`, `MaxRequests`, `MaxTime`, `MaxAttempts` bound the models and
  stand for nothing in the code.  In `hub_gc`, `GetOrCreateRoom` waits when
  they are used up, and all instances of `Hub` end when every connection is
  gone, hence `CHECK_DEADLOCK FALSE`; `hub_fair` makes sure that no handler
  hangs before.  `ConnLimits` ends with the process.
- `hub_orphan` has an action constraint that makes its counterexample
  realistic: `HandlersAreQuick`, no 24 hours pass inside a handler.

## Fairness

`FairSpec` of `Hub` assumes, for each connection: a handler that can go on goes
on (the goroutine is runnable, and Go's mutexes do not starve waiters); a write
pump whose client is closed sees the closed channel in the end (`select`
chooses at random among the ready cases, and the buffer is finite); a read under
a cancelled context fails.  It assumes nothing about peers, the network or the
clock: no event has to arrive, no message has to be delivered.

`FairSpec` of `WebClient` assumes that the browser runs effects (`Effect`) and
timers (`TimerFires`), both weakly; that the server answers a request on a
connection that lasts (`Answer`), which is HandlersFinish of `Hub`; and,
strongly, that of infinitely many attempts to connect not all fail (`Opens`):
an attempt can be cut short over and over, so weak fairness would say nothing.
The user owes nothing.

## What is proved

`RoomProofs` proves, with TLAPS, for every set of sessions and names, every
sanitizer, capacity, range of durations and set of inputs that satisfy
`RoomAssumption` and `TimeAssumption`:

| Theorem | Statement |
|---|---|
| `TypeCorrect` | `Spec => []TypeOK` |
| `ObserversHoldNoCard` | `Spec => []ObserverHasNoVote` |
| `TimerTellsTheTime` | `Spec => []TimerConsistent` |
| `TheCountdownToldIsRight` | `Spec => []RemainingAgreesWithState` |
| `RoomNeverOverfull` | `Spec => []CapacityRespected` |
| `RevealedCardsAreFrozen` | `Spec => VotesFrozenInReveal` |
| `RoomImplementsVotingRound` | `Spec => ImplementsVotingRound` |
| `CountdownsRunTheirCourse` | `Spec => CountdownUninterrupted` |
| `ActivitiesAreStamped` | `Spec => ActivityIsStamped` |
| `SeniorityIsStable` | `Spec => SeniorityStable` |
| `CardsAwaitTheAbsent` | `Spec => CardsStay` |

`HubTypeProofs` and `HubProofs` prove, for any number of connections, sessions
and rooms under the id, any size of the buffers, any expiry, any sessions a
connection may join as and any events the clients may send, if they satisfy
`RoomAssumption` and `HubAssumption`:

| Theorem | Statement |
|---|---|
| `HubTypeCorrect` | `Spec => []TypeOK` |
| `GarbageCollection` | `Spec => GCSparesTheLiving` |
| `Secrecy` | `Spec => []VotesStaySecret` |
| `DesertedHaunt` | `Spec => OnlyTheDesertedHaunt` |
| `NobodyHaunts` | `Spec /\ [][NobodySwitches]_vars => []NoPhantoms`: who is shown as present has a connection, if none joins as another session |
| `NobodyListensIn` | `Spec => []NoGhosts`: who is registered has a session and is not gone |
| `Registration` | `Spec /\ NobodyReplaced => []RegisteredIffJoined` |
| `Refinement` | `Spec => HubImplementsRoom` |
| `RoomRefinement` | for every room i, `Spec => RoomAt(i)!Spec` |

Nobody has to keep quiet for these theorems: handlers overlap, the collector
runs, connections are lost at any step.  Two have a hypothesis about the
behaviour, and need it: `hub_orphan` begins where that of `Registration` fails,
and without that of `NobodyHaunts`, which a tab of the web client meets (its
session id is fixed when it is loaded), a session can be deserted.

`PokerProofs` proves, from the same assumptions:

| Theorem | Statement |
|---|---|
| `WhatIsUntold` | `PokerSpec => LittleIsUntold` |
| `ViewsAreTrue` | `PokerSpec /\ [](current = made /\ OneAtATime) /\ [][LetIn]_pokerVars => []ViewsConverge` |

`WhatIsUntold` needs no hypothesis: every step is covered, whatever overlaps.
`ViewsAreTrue` has three.  `OneAtATime`: at most one connection is in a handler;
it is the premise under which the property is checked, and overlapping handlers
do break views ([below](#where-code-and-documents-disagree)).  `current = made`:
the room is not collected, since the view is compared with one room.  `LetIn`:
a client in the manager's set is not refused when it joins again.  A refusal
sends an error and no room_state, and the client stays in the set (`ws.go:232`);
that happens when the room was cleared and has filled up since, or when a
rejoin's name is empty once sanitized.  The run `poker` satisfies all three.
The theorem asks less than the run does: messages may be delivered while a
handler works, requests may come before what was sent is read, any connection
may be lost, and there may be any number of connections, sessions and places
and any size of buffer.

`ConnLimitsProofs` proves, for every set of attempts and addresses (finite or
not) and all limits that satisfy `LimitAssumption`:

| Theorem | Statement |
|---|---|
| `TrackerTypeCorrect` | `Spec => []TypeOK` |
| `CountersAreRight` | `Spec => []CountersAgree` |
| `LimitsAreHeld` | `Spec => []LimitsHeld` |
| `RefusalsAreRight` | `Spec => RefusedOnlyWhenFull` |

`RateLimitProofs` proves, for every set of addresses and connections and all
rates, sizes and clean-up times that satisfy `LimiterAssumption`:

| Theorem | Statement |
|---|---|
| `TypeCorrect` | `Spec => []TypeOK` |
| `BucketsImplementAllowance` | `Spec => ImplementsAllowance` |
| `RatesAreBounded` | `Spec => []RateBounded` |
| `RefusalsAreEarned` | `Spec => RefusedOnlyWhenSpent` |

`WebClientProofs` proves, for all rooms and names, any number of sockets and
any queue, timeout and bound that satisfy `ClientAssumption`:

| Theorem | Statement |
|---|---|
| `ClientTypeCorrect` | `Spec => []TypeOK` |
| `OneAttemptAtATime` | `Spec => []OneAttempt` |
| `TheNameIsKnown` | `Spec => []ServerKnowsTheName` |

The argument for `Room`.  One lemma per operation shows that it keeps a room
well formed; `TypeCorrect` splits `Next` over them.  ObserverHasNoVote and
TimerConsistent are inductive together with TypeOK, and RemainingAgreesWithState
follows from TimerConsistent: without a start in the past the time told could
exceed the duration.  CapacityRespected is not inductive: Cardinality says
something only about finite sets, so the invariant carries that the set of
members is finite.  For the refinement, lemmas say what each operation does to
phase and ballot, and every action is mapped to Lay, Withdraw, Reveal, NewRound
or a stutter; clearing the room is a NewRound when it was in reveal and a
Withdraw of everybody otherwise.  VotesFrozenInReveal follows from the same
lemmas.  SeniorityStable and CardsStay are two consequences of one lemma
on what a step leaves of an entry (`StayingStep`).

The argument for `Hub`.  The type is inductive only with what every place of a
handler knows (`PlaceOK`: a handler past its look-up has a room, one past Join a
session, who broadcasts has a message), and with the lock bound to its holder
(`LocksOK`): otherwise `BuildRoomState` could unlock a room that another has
locked.  A step moves one connection from place to place (`Steps`, one lemma per
action), and the critical sections of the eleven handlers are one shape,
`HandlerStep`: one room changes, its ballot goes on or ends, at most the
handler's own session comes to be present, and what is prepared to be said of
cards is said of a ballot that is revealed in that very step.  The theorems that
follow look at `HandlerStep`, not at the handlers.

*Secrecy.*  `SecretInv` says of every message in a buffer or prepared by a
handler that its cards, if any, are of an earlier ballot of their room or of one
that is revealed.  That survives whatever happens between the lock and the
last Send, since a ballot is never un-revealed: it ends and the count goes up
(`BallotsGoOn`).

*Presence.*  `StandsFor` names who stands for a session shown as present: a
connection of the session whose end is not announced, and which, if its end has
begun, is going to announce it in the room the map holds.  One lemma per kind of
step shows that it makes no phantom of a session that was none, unless it
deserts it (`OnlyDeserted`).  A leave takes the session out of the room although
other connections of it may be there; a clean-up marks it although they are;
neither leaves a phantom, only the opposite (`hub_two_tabs`).  Since there are
none at first, there are none ever where nobody switches (`NobodyHaunts`).

*Registration.*  That nobody without a session is registered is inductive as it
is (`NoGhosts`).  The converse (`NobodyDeaf`) survives every step but one: making
a room while clients of a collected one are registered.

*Refinement.*  Every operation of `RoomOps` on `heap[i]` is an action of the
instance `RoomAt(i)`, one lemma each; every handler takes one such step of its
room and leaves the others alone, including the handlers that hold a pointer to a
collected room; making and clearing a room are both a ClearRoom of `Room`.  What
is proved in `RoomProofs` holds of every behaviour of `Room`, hence of every room
of `Hub`; the prover cannot instantiate a module of theorems by a state
function, so this last step is made here and not by it.

The argument for `Poker`.  For `WhatIsUntold`, one lemma per handler compares
what the operation changes of names, roles and hands (`Changed`) with what the
handler is about to broadcast.

ViewsConverge speaks of tabs that have read everything while nobody is at work,
and says nothing of the steps on the way.  The inductive invariant `PokerInv`
looks ahead: for each registered client whose connection works, the tab's view,
reduced by what is in its buffer and then by what the handler at work still has
to send to it (`Coming`), shows the room as it is now (`WillShow`).  Excused is
who owes a rejoin, or has it under way: the room_state at its end replaces the
view.  What a tab will see is a fold over its buffer, which a prover without
induction cannot compute; `WillShow` speaks instead of any sequence of views, one
per message, of which each is the one before reduced by the message (`Reads`),
and of where it ends.

A commit moves the room, and with it what has to be shown; it must prepare just
the messages that turn a view of the old room into one of the new.  That is one
lemma per operation, `...Follows`: VoteFollows, RevealFollows, AdmittedFollows
and so on, each from what the operation does to a room and the reducer to a
view.  They need `NoCards` (no observer holds a card, or a card turned over could
be missing) and, for what no message tells, `untold`.  A send appends to a
buffer what it takes off `Coming`; a delivery takes off the buffer what it adds
to the view; a full buffer closes the client, of which nothing is promised any
more.  Clearing is different: the announcement comes first, and with the room
the views of all who have been warned stop to matter until they rejoin; so
`Served` says that before a room is cleared everybody has the warning or is
going to get it.  Steps outside the handlers leave the room alone (`CalmServes`).
Before the proof, TLC checked the parts of `PokerInv` with the queue folded out,
under the theorem's hypotheses instead of the constraints of `poker`: one
small instance (votes, reveals, rounds, clears and leaves of two connections) to
the end, larger ones in part.

The argument for `ConnLimits`.  LimitsHeld is about the set of connections that
hold a place, TryAdd looks at counters: the inductive invariant `IInv` joins
the type, CountersAgree, LimitsHeld and the finiteness of that set, without
which its cardinality says nothing.  Not even the type is inductive by itself,
since `total` could drop below zero if it were wrong.  Every step but TryAdd and
Remove leaves counters and holders alone (`OtherStepKeeps`); `OneMore` and
`OneLess` say how the cardinalities move, `TryAddCounts` and `RemoveCounts` that
the counters move alike.

The argument for `RateLimit`.  Every step is looked at as a change of `Level`,
what a key could spend now: a lazy refill leaves it alone, a grant pays for a
token, a tick of the clock lets all levels grow, a clean-up changes nothing,
since a bucket that old would be full (`CleanupLevel`; this is where
`LimiterAssumption` needs windows no longer than the five minutes of the
clean-up).  That is the refinement.  The bounds follow from an invariant that
weighs the stopwatch's grants against level and time: what was granted and what
is left is no more than a full bucket and the earnings, and no less than the
earnings up to a full bucket.

The argument for `WebClient`.  OneAttempt is inductive only together with what
the functions of `ws.ts` need and keep: `Attempting(c, p)`, which adds the
client's room to the attempt, while a page is shown, and `Resting(c)` while
none is.  ServerKnowsTheName is not inductive, because a rename comes before
its effect: the invariant (`Told`) says that the server was told the present
name and the old page's room.  One lemma per function of `ws.ts` says what it
makes of an attempt, one per callback that it keeps the invariant.

Only model-checked: NamesAreClean and StatisticsAreRight, which compute over data
by induction; and liveness (HandlersFinish,
SlowClientIsDropped, StaysOrConnects, ButtonsComeBack), since the prover has no
ENABLED.

## Where code and documents disagree

| Run | Document | Code |
|---|---|---|
| `hub_orphan` | `docs/planning/03-backend-plan.md:790`: "Rooms with active connections are never GC'd, regardless of age." | a join that holds the pointer of a stale room and is not registered yet does not stop the collector (`room_manager.go:79`); the client then is in a room the map does not hold |
| `hub_two_tabs` | `03-backend-plan.md:807`: Disconnected means "WebSocket connection lost" | the clean-up of an old connection marks the session of a live one (`ws.go:110`) |
| `client_banner` | `docs/planning/02-frontend-plan.md:582`: "After 30 seconds of failed attempts (wall-clock time, not attempt count)" | the clock of the back-off starts with the first connection (`ws.ts:324`) and is not reset when one is lost (`ws.ts:287`): after half a minute on line the first loss is reported as final at once and retried only every ten seconds |

Met while modelling, without a run of their own:

*The spread.*  `docs/planning/04-architecture.md:704` says "`[min, max]` of
numeric votes, or `null` if < 2 distinct numeric votes", its line 695 "(including
when all numeric votes are the same value, i.e. consensus)", and
`03-backend-plan.md:926`, 960, 966 and 968 say the same.  The code sends [5, 5]
for a 5 alone and for three of them (`stats.go:88`), and `stats_test.go:57`, 107,
127 and 137 ask for that.  The run `room` evaluates it, for up to four equal
numbers, as the assumption `AgreementHasASpread`; StatisticsAreRight takes no
side.

*A second join as somebody else.*  `handleJoin` takes the session id of every
join payload and `SetSessionID` overwrites the one the connection had
(`ws.go:242`).  The participant it joined as before keeps its status: the
clean-up (`ws.go:105`) looks up the last session only, so that one is shown as
active when the connection is closed, although `01-ux-design.md:418` says
"Active/Idle --> Disconnected | WebSocket `close` event", until the room is
cleared or the session comes back.  `Hub` has the behaviour, and
OnlyTheDesertedHaunt names it as its one exception.  The web client never does
this.

*Order of messages.*  Handlers broadcast after unlocking, so two of them can
overtake each other, and the tab keeps what it reads last.  The run `poker`
excludes overlaps; without `OneHandlerAtATime` its ViewsConverge is violated.

- votes_revealed can be overtaken by round_reset (`ws.go:334`): the cards of the
  last round are on the tables of a room that votes, which
  `03-backend-plan.md:416` ("If `Phase == PhaseVoting`, no client receives any
  vote values") excludes, and so does `01-ux-design.md:458`, of New Round:
  "Clears all votes, returns to voting phase, re-enables card deck for all
  participants."  A tab in that state shows them until the next room_state.
- timer_updated likewise (`ws.go:569`), although
  `docs/planning/timer-technical-plan.md:375` says "No race conditions because
  room mutex serializes all operations."
- room_state is built under the lock and queued after it (`ws.go:249`): a change
  broadcast in between, such as the start of the countdown, is overwritten in
  the tab.
- room_cleared is broadcast before the room is cleared (`ws.go:383`): a tab that
  rejoins at once is cleared away again and does not notice.

*A refused rejoin.*  A tab keeps its view when it hears room_cleared, "The server
will send a fresh room_state after our join." (`ws.ts:219`); when the room has
filled up before it is back, or its name is empty once sanitized, the join is
refused (`ws.go:232`) and none comes.  The server still has the tab among the
room's clients, so what is announced changes a view of the room as it was.

*What is never told.*  A session that rejoins with another name or role is
announced only as active (`ws.go:264`), so the other tabs keep the old ones;
the card a new observer gives up is not announced
(`LittleIsUntold`).  A room_state never carries votes while voting, so the
restoring of the own card from it (`ws.ts:106`) never happens.

*The client without a connection.*  What is clicked off line is queued, and
discarded when the socket opens (`ws.ts:337`); the card stays selected.  A
reveal or new round whose connection is lost leaves its button locked until the
room is left (`cut` in ButtonsComeBack).

*Shutdown.*  `docs/planning/04-architecture.md:1050` says "1. Stop accepting new
connections. 2. Send WebSocket close frame (1001 Going Away) to all clients.";
CloseAll runs before the listener is closed (`main.go:57`), and who joins in
between is not told.  `ConnLimits` has the behaviour.

*Locks.*  `03-backend-plan.md:756` says "Never acquire the manager lock while
holding a room lock."; handleJoin does (`ws.go:243`).  It is harmless as long as
nobody locks a room under the manager's lock, and nobody does: the collector
reads the last activity atomically.  `ws.go:257` reads a participant without the
lock, a data race; `Hub` has it as a read that comes late (`Reread`).

*Small ones.*  `room.go:31` says StartedAt is "zero when idle/expired"; TimerInfo
expires the countdown and keeps StartedAt (`room.go:444`), which nobody reads
then.  A removed rune resets the count of combining marks, so more than three
may remain in a row (`room.go:143`), and a name that is cut may end in a space;
neither is refused by NamesAreClean.

## What is not modelled

- `handler.go`: static files, the health endpoint, headers.  Stateless.
- `scripts/verify-limits`: a load script run by hand against a server.
- Rendering; toasts; the optimistic selectedCard; the local countdown between
  two timer_updated; the idle detection of `usePresence`, which to `WebClient`
  is one more `Say`; ids and names in localStorage.
- Configuration, JSON, logging; RoomCount, ConnectionCount, ActivePerIP and
  other methods that only read; fields nobody reads.
- A torn read by the data race of `ws.go:257`.
- Floating point: `RateLimit` and `Stats` compute exactly.  The clock is
  monotonic everywhere.

## Plan

Done: everything above.  What is left, in order:

1. `Poker` beyond its premise: which overlaps of two handlers break a view,
   and that the next room_state repairs it.
2. Several rooms in `Hub`, for a connection that joins another room by leaving
   the first; CloseAll composed with its write pumps.

## Running it

    tlc -workers 2 -config MCRoom.cfg MCRoom.tla
    tlc -workers 2 -config MCHubRound.cfg MCHub.tla      # and the other MCHub*.cfg
    tlc -workers 2 -config MCPoker.cfg MCPoker.tla
    tlc -workers 2 -config MCConnLimits.cfg MCConnLimits.tla
    tlc -workers 2 -config MCRateLimit.cfg MCRateLimit.tla
    tlc -workers 2 -config MCWebClient.cfg WebClient.tla # and MCWebClientBanner.cfg
    tlapm RoomOpsProofs.tla
    tlapm RoomProofs.tla
    tlapm HubTypeProofs.tla
    tlapm HubProofs.tla
    tlapm PokerProofs.tla
    tlapm ConnLimitsProofs.tla
    tlapm RateLimitProofs.tla
    tlapm WebClientProofs.tla

The longest runs, `hub_round`, `hub_churn` and `poker`, take up to three minutes
with two workers, `room` and `hub_gc` about two; `tlapm` needs a few minutes for
each of `RoomProofs`, `HubTypeProofs` and `HubProofs`, up to ten for
`PokerProofs`, and one or two for each of the others.

------------------------------ MODULE ConnLimits ------------------------------
(***************************************************************************)
(* How connections come in and go: the admission path of HandleWebSocket   *)
(* (internal/server/ws.go), the counters of ConnTracker (conntracker.go)   *)
(* and the end of the process in main (cmd/server/main.go), which tells    *)
(* the clients goodbye before it closes the listener.                      *)
(*                                                                         *)
(* What an open connection does is module Hub's; here it only registers    *)
(* with the manager (a join) and unregisters again (a leave).  The rate    *)
(* limiter, the checks of the room id and the upgrade may each refuse.     *)
(***************************************************************************)
EXTENDS Integers, FiniteSets, Functions

CONSTANTS
  Conn,       \* connection attempts
  Address,    \* client addresses
  addressOf,  \* clientIP of an attempt's request
  MaxPerIP,   \* 100 by default
  MaxTotal    \* 1000 by default

ASSUME LimitAssumption ==
  /\ addressOf \in [Conn -> Address]
  /\ {MaxPerIP, MaxTotal} \subseteq Nat \ {0}

VARIABLES
  perIP,    \* ConnTracker.perIP, a map: defined on the addresses it holds
  total,    \* ConnTracker.total
  pc,       \* pc[c]: how far HandleWebSocket is with c
  clients,  \* the clients registered with the manager, in any room
  main,     \* where main is
  farewell, \* clients CloseAll has found and not yet sent the close frame
  told      \* clients that were sent StatusGoingAway

tracker == <<perIP, total>>
ending == <<main, farewell, told>>
vars == <<tracker, pc, clients, ending>>

Places == {"new", "request", "allowed", "tracked", "open", "leaving", "gone"}

\* Go's perIP[ip]: zero for an address the map does not hold.
Count(a) == IF a \in DOMAIN perIP THEN perIP[a] ELSE 0

\* The handler of c is at place, in a process that still runs.
At(c, place) == main # "exit" /\ pc[c] = place
Goto(c, place) == pc' = [pc EXCEPT ![c] = place]

Init ==
  /\ perIP = [a \in {} |-> 0]
  /\ total = 0
  /\ pc = [c \in Conn |-> "new"]
  /\ clients = {}
  /\ main = "serve"
  /\ farewell = {}
  /\ told = {}

-----------------------------------------------------------------------------
(* One connection.                                                         *)

\* The listener is open until Shutdown.
Accept(c) ==
  /\ main \in {"serve", "close"}
  /\ pc[c] = "new"
  /\ Goto(c, "request")
  /\ UNCHANGED <<tracker, clients, ending>>

\* limiter.AllowWSConnection, which may say no at any time.
AskLimiter(c) ==
  /\ At(c, "request")
  /\ Goto(c, "allowed") \/ Goto(c, "gone")
  /\ UNCHANGED <<tracker, clients, ending>>

\* Mutant: the limit of one address is compared one too late.
HasPlaceForOneMore(a) == total < MaxTotal /\ Count(a) <= MaxPerIP

HasPlace(a) == total < MaxTotal /\ Count(a) < MaxPerIP

\* tracker.TryAdd; without a place the request is refused.
TryAdd(c) ==
  LET a == addressOf[c]
  IN  /\ At(c, "allowed")
      /\ IF HasPlace(a)
         THEN /\ perIP' = [b \in DOMAIN perIP \cup {a} |->
                             IF b = a THEN Count(a) + 1 ELSE perIP[b]]
              /\ total' = total + 1
              /\ Goto(c, "tracked")
         ELSE /\ UNCHANGED tracker
              /\ Goto(c, "gone")
      /\ UNCHANGED <<clients, ending>>

\* Mutant: the deferred Remove comes after the checks that may return.
UpgradeForgetsRemove(c) ==
  /\ At(c, "tracked")
  /\ Goto(c, "open") \/ Goto(c, "gone")
  /\ UNCHANGED <<tracker, clients, ending>>

\* The room id is missing or invalid, or websocket.Accept fails: the handler
\* returns.  Otherwise the read pump starts.
Upgrade(c) ==
  /\ At(c, "tracked")
  /\ Goto(c, "open") \/ Goto(c, "leaving")
  /\ UNCHANGED <<tracker, clients, ending>>

\* handleJoin and handleLeave, as far as the manager's clients go.
Register(c) ==
  /\ At(c, "open")
  /\ clients' = clients \cup {c}
  /\ UNCHANGED <<tracker, pc, ending>>

Unregister(c) ==
  /\ At(c, "open")
  /\ clients' = clients \ {c}
  /\ UNCHANGED <<tracker, pc, ending>>

\* The read pump returns; the clean-up ends with UnregisterClient.
Disconnect(c) ==
  /\ At(c, "open")
  /\ clients' = clients \ {c}
  /\ Goto(c, "leaving")
  /\ UNCHANGED <<tracker, ending>>

\* Mutant: Remove leaves the total alone when it deletes the map's entry.
RemoveKeepsTotal(c) ==
  LET a == addressOf[c]
  IN  /\ At(c, "leaving")
      /\ IF Count(a) = 1
         THEN perIP' = Restrict(perIP, DOMAIN perIP \ {a}) /\ UNCHANGED total
         ELSE perIP' = [perIP EXCEPT ![a] = @ - 1] /\ total' = total - 1
      /\ Goto(c, "gone")
      /\ UNCHANGED <<clients, ending>>

\* Mutant: the map keeps an entry for an address that is gone.
RemoveKeepsEntry(c) ==
  LET a == addressOf[c]
  IN  /\ At(c, "leaving")
      /\ IF Count(a) <= 0
         THEN UNCHANGED tracker
         ELSE perIP' = [perIP EXCEPT ![a] = @ - 1] /\ total' = total - 1
      /\ Goto(c, "gone")
      /\ UNCHANGED <<clients, ending>>

\* The deferred tracker.Remove, which does nothing for an unknown address and
\* deletes the map's entry at zero.
Remove(c) ==
  LET a == addressOf[c]
  IN  /\ At(c, "leaving")
      /\ IF Count(a) <= 0
         THEN UNCHANGED tracker
         ELSE /\ perIP' = IF perIP[a] = 1
                          THEN Restrict(perIP, DOMAIN perIP \ {a})
                          ELSE [perIP EXCEPT ![a] = @ - 1]
              /\ total' = total - 1
      /\ Goto(c, "gone")
      /\ UNCHANGED <<clients, ending>>

-----------------------------------------------------------------------------
(* main, after the signal.                                                 *)

\* CloseAll copies the registered clients.
CloseAll ==
  /\ main = "serve"
  /\ main' = "close"
  /\ farewell' = clients
  /\ UNCHANGED <<tracker, pc, clients, told>>

\* One of its goroutines, CloseGraceful; they outlive the wait for them.
CloseGraceful(c) ==
  /\ main # "exit"
  /\ c \in farewell
  /\ farewell' = farewell \ {c}
  /\ told' = told \cup {c}
  /\ UNCHANGED <<tracker, pc, clients, main>>

\* CloseAll returns when all are told or after three seconds; then Shutdown
\* closes the listener.
Shutdown ==
  /\ main = "close"
  /\ main' = "shutdown"
  /\ UNCHANGED <<tracker, pc, clients, farewell, told>>

\* Shutdown waits for requests that are not upgraded, ten seconds at most; it
\* knows nothing of the upgraded ones.
Exit ==
  /\ main = "shutdown"
  /\ main' = "exit"
  /\ UNCHANGED <<tracker, pc, clients, farewell, told>>

Next ==
  \/ \E c \in Conn :
       \/ Accept(c) \/ AskLimiter(c) \/ TryAdd(c) \/ Upgrade(c)
       \/ Register(c) \/ Unregister(c) \/ Disconnect(c) \/ Remove(c)
       \/ CloseGraceful(c)
  \/ CloseAll \/ Shutdown \/ Exit

Spec == Init /\ [][Next]_vars

-----------------------------------------------------------------------------
(* Properties.                                                             *)

\* Every variable has its shape; the map of addresses holds no zero, that is,
\* it does not grow with every address ever seen; who is registered is open.
TypeOK ==
  /\ DOMAIN perIP \subseteq Address
  /\ perIP \in [DOMAIN perIP -> Nat \ {0}]
  /\ total \in Nat
  /\ pc \in [Conn -> Places]
  /\ clients \subseteq {c \in Conn : pc[c] = "open"}
  /\ main \in {"serve", "close", "shutdown", "exit"}
  /\ farewell \cup told \subseteq Conn

\* The connections that hold a place, and those of one address.
Holding == {c \in Conn : pc[c] \in {"tracked", "open", "leaving"}}
HoldingFrom(a) == {c \in Holding : addressOf[c] = a}

\* The counters are the connections that hold a place, on every way out of
\* HandleWebSocket: none is lost and none is given back twice.
CountersAgree ==
  /\ total = Cardinality(Holding)
  /\ \A a \in Address : Count(a) = Cardinality(HoldingFrom(a))

\* What the limits promise: never more connections than allowed, from one
\* address or in total, however requests and departures interleave.
LimitsHeld ==
  /\ Cardinality(Holding) <= MaxTotal
  /\ \A a \in Address : Cardinality(HoldingFrom(a)) <= MaxPerIP

\* Nobody is refused by the tracker while there is a place: a place given
\* back can be taken again.
RefusedOnlyWhenFull ==
  [][\A c \in Conn : pc[c] = "allowed" /\ pc'[c] = "gone" =>
       \/ Cardinality(Holding) >= MaxTotal
       \/ Cardinality(HoldingFrom(addressOf[c])) >= MaxPerIP]_vars
=============================================================================

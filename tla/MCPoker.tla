------------------------------- MODULE MCPoker -------------------------------
(* An instance of Poker for TLC: two people at one table, the first of them  *)
(* with a second connection to come back by.                                 *)
EXTENDS Poker

CONSTANTS c1, c2, c3, s1, s2

MCRawName == {"ann"}
MCName == {"Ann"}
MCDisplayName == [raw \in MCRawName |-> "Ann"]
MCSessions == [c \in Conn |-> IF c = c2 THEN {s2} ELSE {s1}]

MCKinds ==
  [c \in Conn |->
     CASE c = c1 -> {"join", "vote", "reveal", "update_role", "clear_room",
                      "timer_start"}
       [] c = c2 -> {"join", "new_round", "leave", "timer_set_duration",
                      "timer_reset"}
       [] c = c3 -> {"join"}]
MCRequests == [c \in Conn |-> CASE c = c1 -> 3 [] c = c2 -> 2 [] c = c3 -> 1]

\* People click far apart and messages travel longer than a handler takes: it
\* ends before anything else happens.
OneHandlerAtATime ==
  /\ Cardinality({c \in Conn : pc'[c] \notin {"new", "read", "gone"}}) <= 1
  /\ ~Quiet => <<pc, job>>' # <<pc, job>>

\* What module WebClient shows of a client: on every connection it joins
\* first.  And people look before they click: their messages are read; those
\* of c2, which is fast, always.
JoinsFirst ==
  \A c \in Conn : left'[c] < left[c] =>
    /\ buf[c] = <<>> /\ buf[c2] = <<>>
    /\ sid[c] = "" => pc'[c] = "create"
    /\ c = c2 /\ pc'[c] = "create" => job'[c].event.role = "voter"

\* Only c1 is lost, by its network, and c3 comes after it was.
SecondStays ==
  /\ pump[c2] => pump'[c2] /\ pc'[c2] \notin {"mark", "bye"}
  /\ \A c \in {c1, c3} : pump[c] /\ pc[c] = "read" => pc'[c] \notin {"mark", "bye"}
  /\ pump[c3] => pump'[c3]
  /\ pc'[c3] # "new" => pc'[c1] # "new" /\ ~pump'[c1]
=============================================================================

-------------------------------- MODULE MCHub --------------------------------
(* Instances of Hub for TLC: one display name, a deck of one card, and as    *)
(* many or as few kinds of events as the question needs.                     *)
EXTENDS Hub

CONSTANTS c1, c2, s1, s2

MCRawName == {"ann", "blank"}
MCName == {"Ann"}
MCDisplayName == [raw \in MCRawName |-> IF raw = "ann" THEN "Ann" ELSE ""]
MCOneRawName == {"ann"}
MCOneDisplayName == [raw \in MCOneRawName |-> "Ann"]

\* Two people, two tabs of one, or a person and a client that may join as either.
MCTwoSessions == [c \in Conn |-> IF c = c1 THEN {s1} ELSE {s2}]
MCOneSession == [c \in Conn |-> {s1}]
MCAnySecond == [c \in Conn |-> IF c = c1 THEN {s1} ELSE {s1, s2}]

\* What c1 and c2 send, and how much of it.
MCRoundKinds ==
  [c \in Conn |-> IF c = c1
     THEN {"join", "vote", "reveal", "update_role"} ELSE {"join", "new_round"}]
MCChurnKinds ==
  [c \in Conn |-> IF c = c1
     THEN {"join", "leave", "presence", "timer_set_duration", "timer_start"}
     ELSE {"join", "clear_room", "timer_reset", "new_round"}]
MCGCKinds ==
  [c \in Conn |-> IF c = c1 THEN {"join", "timer_start"} ELSE {"join"}]
MCFairKinds ==
  [c \in Conn |-> {"join", "vote", "leave", "update_name", "garbage"}]

\* For the runs that refute a claim of the documentation.
MCJoinKinds == [c \in Conn |-> {"join"}]

\* On the scale of the room expiry a handler takes no time at all.
HandlersAreQuick ==
  now' > now => \A c \in Conn : pc[c] \in {"new", "read", "gone"}

\* Nobody's connection is lost.
ConnectionsStay ==
  \A c \in Conn : pump[c] => pump'[c] /\ pc'[c] \notin {"mark", "bye"}

MCOneEach == [c \in Conn |-> 1]
MCThreeAndTwo == [c \in Conn |-> IF c = c1 THEN 3 ELSE 2]
MCTwoAndOne == [c \in Conn |-> IF c = c1 THEN 2 ELSE 1]
MCTwoEach == [c \in Conn |-> 2]
=============================================================================

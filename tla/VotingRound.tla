----------------------------- MODULE VotingRound -----------------------------
(***************************************************************************)
(* What a poker room promises about a round, whoever joins, leaves,        *)
(* disconnects or renames in the meantime: cards are laid and taken back   *)
(* while the round is open, a revealed ballot can only lose cards, and the *)
(* next round starts with an empty table.                                  *)
(***************************************************************************)
CONSTANTS Session, Card, NoCard

VARIABLES phase, ballot

vars == <<phase, ballot>>

Empty == [s \in Session |-> NoCard]

TypeOK ==
  /\ phase \in {"voting", "reveal"}
  /\ ballot \in [Session -> Card \cup {NoCard}]

Init == phase = "voting" /\ ballot = Empty

Lay(s, c) ==
  /\ phase = "voting"
  /\ ballot' = [ballot EXCEPT ![s] = c]
  /\ UNCHANGED phase

\* Some cards are taken off the table: their owners left, became observers
\* or changed their minds.
Withdraw(S) ==
  /\ ballot' = [s \in Session |-> IF s \in S THEN NoCard ELSE ballot[s]]
  /\ UNCHANGED phase

Reveal == phase = "voting" /\ phase' = "reveal" /\ UNCHANGED ballot

NewRound == phase = "reveal" /\ phase' = "voting" /\ ballot' = Empty

Next ==
  \/ \E s \in Session, c \in Card : Lay(s, c)
  \/ \E S \in SUBSET Session : Withdraw(S)
  \/ Reveal
  \/ NewRound

Spec == Init /\ [][Next]_vars
=============================================================================

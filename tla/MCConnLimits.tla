----------------------------- MODULE MCConnLimits -----------------------------
(* Instances of ConnLimits for TLC: five connections from two addresses.     *)
EXTENDS ConnLimits, TLC

CONSTANTS c1, c2, c3, c4, c5, a1, a2

\* Three of the connections come from one address.
MCAddressOf == [c \in Conn |-> IF c \in {c1, c2, c3} THEN a1 ELSE a2]

\* The connections of one address are alike.
MCSymmetry == Permutations({c1, c2, c3}) \cup Permutations({c4, c5})
=============================================================================

------------------------------ MODULE Allowance ------------------------------
(***************************************************************************)
(* What a rate limiter promises: every key has an allowance that grows with*)
(* the time up to a limit, and every request granted is paid from it.      *)
(* Nothing else moves it: a request that is refused costs nothing, and an  *)
(* allowance is never given back early.                                    *)
(***************************************************************************)
EXTENDS Integers

CONSTANTS Key, full, price, rate

VARIABLE level

Init == level = full

Spend(k) ==
  /\ level[k] >= price[k]
  /\ level' = [level EXCEPT ![k] = @ - price[k]]

\* A unit of time passes, for all keys at once.
Grow ==
  level' = [k \in Key |-> IF level[k] + rate[k] > full[k] THEN full[k]
                          ELSE level[k] + rate[k]]

Next == Grow \/ \E k \in Key : Spend(k)

Spec == Init /\ [][Next]_level
=============================================================================

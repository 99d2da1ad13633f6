----------------------------- MODULE MCRateLimit -----------------------------
(* An instance of RateLimit for TLC: one address, one connection.  Buckets   *)
(* of one or two tokens; a token takes a fraction of the window.             *)
EXTENDS RateLimit

MCMaxOf == [kind \in Kind |-> IF kind = "room" THEN 1 ELSE 2]
MCWindowOf ==
  [kind \in Kind |-> CASE kind = "room" -> 2 [] kind = "ws" -> 3
                        [] kind = "msg" -> 1]
=============================================================================

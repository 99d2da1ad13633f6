------------------------------ MODULE RateLimit ------------------------------
(***************************************************************************)
(* The token buckets of the server: RateLimiter (internal/server/          *)
(* ratelimit.go), one bucket per address for rooms and one for connections,*)
(* which a clean-up forgets after a while, and MsgRateLimiter              *)
(* (msg_rate_limiter.go), one bucket per connection for its messages.      *)
(* Each limiter's mutex makes its calls atomic.                            *)
(*                                                                         *)
(* Time is counted in units of any size, tokens in parts of a token: a     *)
(* bucket of maxOf tokens per windowOf units of time gains maxOf parts per *)
(* unit when a token has windowOf parts.  What the code computes in        *)
(* floating point is exact here.                                           *)
(***************************************************************************)
EXTENDS Integers, Functions

CONSTANTS
  Address,    \* client addresses
  Conn,       \* connections
  maxOf,      \* tokens of a full bucket: 5 rooms, 20 connections, 20 messages
  windowOf,   \* the time an empty bucket takes to fill: 60 s, 60 s, 1 s
  StaleAfter, \* 5 minutes
  MaxTime     \* bound of the clock

Kind == {"room", "ws", "msg"}

ASSUME LimiterAssumption ==
  /\ maxOf \in [Kind -> Nat \ {0}]
  /\ windowOf \in [Kind -> Nat \ {0}]
  /\ StaleAfter \in Nat
  /\ \A kind \in {"room", "ws"} : windowOf[kind] <= StaleAfter
  /\ MaxTime \in Nat

\* The keys of RateLimiter.buckets, and the connections.
AddressKey == {"room", "ws"} \X Address
ConnKey == {"msg"} \X Conn
Key == AddressKey \cup ConnKey

price == [k \in Key |-> windowOf[k[1]]]
rate == [k \in Key |-> maxOf[k[1]]]
full == [k \in Key |-> maxOf[k[1]] * windowOf[k[1]]]

VARIABLES
  buckets, \* the buckets that exist: RateLimiter.buckets and the connections'
  now,     \* time.Now()
  watch    \* history: a stopwatch started at some time for some key, with
           \* what the key was granted since

vars == <<buckets, now, watch>>

Bucket == [tokens : Nat, lastRefill : Nat]

Init ==
  /\ buckets = [k \in {} |-> <<>>]
  /\ now = 0
  /\ \E k \in Key : watch = [key |-> k, since |-> 0, granted |-> 0]

Exists(k) == k \in DOMAIN buckets

\* Mutant: tokens are added one by one, and the time short of one is lost.
RefilledInWholeTokens(k) ==
  LET gain == ((now - buckets[k].lastRefill) * rate[k]) \div price[k]
      tokens == buckets[k].tokens + gain * price[k]
  IN  IF tokens > full[k] THEN full[k] ELSE tokens

\* Mutant: a bucket grows beyond its size.
RefilledWithoutCap(k) ==
  buckets[k].tokens + (now - buckets[k].lastRefill) * rate[k]

\* The tokens of a bucket that exists, after the lazy refill.
Refilled(k) ==
  LET tokens == buckets[k].tokens + (now - buckets[k].lastRefill) * rate[k]
  IN  IF tokens > full[k] THEN full[k] ELSE tokens

\* buckets[k] = the bucket with these tokens, refilled now.
Store(k, tokens) ==
  buckets' = [q \in DOMAIN buckets \cup {k} |->
                IF q = k THEN [tokens |-> tokens, lastRefill |-> now]
                ELSE buckets[q]]

Count(k) == watch' = IF k = watch.key
                     THEN [watch EXCEPT !.granted = @ + 1] ELSE watch

-----------------------------------------------------------------------------
\* The end of both Allow methods, for a bucket that exists.
Grant(k) ==
  /\ Exists(k)
  /\ Refilled(k) >= price[k]
  /\ Store(k, Refilled(k) - price[k])
  /\ Count(k)
  /\ UNCHANGED now

Refuse(k) ==
  /\ Exists(k)
  /\ Refilled(k) < price[k]
  /\ Store(k, Refilled(k))
  /\ UNCHANGED <<now, watch>>

\* Mutant: the first request is not paid for.
FirstUseFree(k) ==
  /\ ~Exists(k)
  /\ Store(k, full[k])
  /\ Count(k)
  /\ UNCHANGED now

\* RateLimiter.allow for an address it does not know.
FirstUse(k) ==
  /\ ~Exists(k)
  /\ Store(k, full[k] - price[k])
  /\ Count(k)
  /\ UNCHANGED now

\* NewMsgRateLimiter, when the read pump of a connection starts.
NewMsgRateLimiter(k) ==
  /\ ~Exists(k)
  /\ Store(k, full[k])
  /\ UNCHANGED <<now, watch>>

\* Mutant: buckets are forgotten that have not filled up again.
StaleTooEarly == {k \in DOMAIN buckets \cap AddressKey :
                    buckets[k].lastRefill < now}

Stale == {k \in DOMAIN buckets \cap AddressKey :
            now - buckets[k].lastRefill > StaleAfter}

\* One round of RateLimiter.cleanup.
Cleanup ==
  /\ Stale # {}
  /\ buckets' = Restrict(buckets, DOMAIN buckets \ Stale)
  /\ UNCHANGED <<now, watch>>

Tick ==
  /\ now < MaxTime
  /\ now' = now + 1
  /\ UNCHANGED <<buckets, watch>>

\* The stopwatch is started anew.
Watch(k) ==
  /\ watch' = [key |-> k, since |-> now, granted |-> 0]
  /\ UNCHANGED <<buckets, now>>

Next ==
  \/ \E k \in Key : Grant(k) \/ Refuse(k)
  \/ \E k \in AddressKey : FirstUse(k)
  \/ \E k \in ConnKey : NewMsgRateLimiter(k)
  \/ Cleanup
  \/ Tick
  \/ \E k \in Key : Watch(k)

Spec == Init /\ [][Next]_vars

-----------------------------------------------------------------------------
(* Properties.                                                             *)

\* What a key could spend now; a bucket that does not exist is a full one.
Level == [k \in Key |-> IF Exists(k) THEN Refilled(k) ELSE full[k]]

\* A bucket is never overdrawn or overfull and not refilled in the future.
TypeOK ==
  /\ DOMAIN buckets \subseteq Key
  /\ buckets \in [DOMAIN buckets -> Bucket]
  /\ \A k \in DOMAIN buckets : /\ buckets[k].tokens <= full[k]
                               /\ buckets[k].lastRefill <= now
  /\ now \in Nat
  /\ watch \in [key : Key, since : 0 .. now, granted : Nat]

\* What the limits promise (5 rooms and 20 connections a minute and address,
\* 20 messages a second and connection): from any moment on, a key is granted
\* no more than one full bucket and what the time since then has earned,
\* whatever requests, refusals and clean-ups come in between.
RateBounded ==
  watch.granted * price[watch.key]
    <= full[watch.key] + (now - watch.since) * rate[watch.key]

\* The other half: whoever is refused has, from whatever moment on, been
\* granted all that was earned since (ratelimit.go:97, msg_rate_limiter.go:47).
\* So a client that keeps asking is let in as soon as one that waits.
RefusedOnlyWhenSpent ==
  [][\A k \in Key : Refuse(k) /\ k = watch.key =>
       LET earned == (now - watch.since) * rate[k]
       IN  (watch.granted + 1) * price[k]
             > IF earned > full[k] THEN full[k] ELSE earned]_vars

\* Refilling lazily, starting with the first use and forgetting buckets that
\* were idle for long is, for every key, the same as an allowance that grows
\* by the clock: a clean-up gives nothing away and a refusal costs nothing.
Promise == INSTANCE Allowance WITH level <- Level
ImplementsAllowance == Promise!Spec
=============================================================================

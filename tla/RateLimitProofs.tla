--------------------------- MODULE RateLimitProofs ---------------------------
(***************************************************************************)
(* Theorems about RateLimit, for any addresses, connections, bucket sizes  *)
(* and windows, and any unit of time.                                      *)
(*                                                                         *)
(* Everything follows from how a step moves the level of a key, what it    *)
(* could spend now: a granted request takes one price, a tick adds one     *)
(* rate, nothing else moves it (the lemmas ...Level).                      *)
(***************************************************************************)
EXTENDS RateLimit, TLAPS

\* The numbers of a key.
LEMMA KeyNumbers ==
  ASSUME NEW k \in Key
  PROVE  /\ price[k] \in Nat \ {0}
         /\ rate[k] \in Nat \ {0}
         /\ full[k] \in Nat
         /\ full[k] >= price[k]
<1>1. k[1] \in Kind
  BY DEF Key, AddressKey, ConnKey, Kind
<1>2. /\ price[k] = windowOf[k[1]]
      /\ rate[k] = maxOf[k[1]]
      /\ full[k] = maxOf[k[1]] * windowOf[k[1]]
  BY DEF price, rate, full
<1>3. /\ windowOf[k[1]] \in Nat \ {0}
      /\ maxOf[k[1]] \in Nat \ {0}
  BY <1>1, LimiterAssumption
<1>4. \A m, w \in Nat \ {0} : m * w \in Nat /\ m * w >= w
  OBVIOUS
<1> QED
  BY <1>2, <1>3, <1>4

\* Two facts of arithmetic that the solver wants to be told.
LEMMA OneMoreUnit ==
  \A a, b, r \in Int : (a + 1 - b) * r = (a - b) * r + r
  OBVIOUS

LEMMA LongerEarnsMore ==
  \A a, b, r \in Nat : a <= b => a * r <= b * r
  OBVIOUS

\* A bucket of the map, refilled, holds between nothing and all.
LEMMA RefilledIsLevel ==
  ASSUME TypeOK, NEW k \in DOMAIN buckets
  PROVE  /\ k \in Key
         /\ Refilled(k) \in Nat
         /\ Refilled(k) <= full[k]
<1>1. k \in Key
  BY DEF TypeOK
<1>2. /\ rate[k] \in Nat /\ full[k] \in Nat
  BY <1>1, KeyNumbers
<1>3. /\ buckets[k].tokens \in Nat
      /\ buckets[k].lastRefill \in Nat
      /\ buckets[k].lastRefill <= now
      /\ now \in Nat
  BY DEF TypeOK, Bucket
<1>4. (now - buckets[k].lastRefill) * rate[k] \in Nat
  BY <1>2, <1>3
<1> QED
  BY <1>1, <1>2, <1>3, <1>4 DEF Refilled

LEMMA LevelType ==
  TypeOK => /\ Level \in [Key -> Nat]
            /\ \A k \in Key : Level[k] <= full[k]
  BY RefilledIsLevel, KeyNumbers DEF Level, Exists

\* A bucket stored now is worth its tokens; the others are as before.
LEMMA StoreLevel ==
  ASSUME TypeOK, NEW k \in Key, NEW tokens \in Nat, tokens <= full[k],
         Store(k, tokens), now' = now
  PROVE  Level' = [Level EXCEPT ![k] = tokens]
<1>1. /\ DOMAIN buckets' = DOMAIN buckets \cup {k}
      /\ buckets'[k] = [tokens |-> tokens, lastRefill |-> now]
      /\ \A q \in DOMAIN buckets : q # k => buckets'[q] = buckets[q]
  BY DEF Store
<1>2. Refilled(k)' = tokens
  <2>1. (now - now) * rate[k] = 0
    BY KeyNumbers DEF TypeOK
  <2> QED
    BY <1>1, <2>1, KeyNumbers DEF Refilled
<1>3. \A q \in DOMAIN buckets : q # k => Refilled(q)' = Refilled(q)
  BY <1>1 DEF Refilled
<1> QED
  BY <1>1, <1>2, <1>3 DEF Level, Exists

-----------------------------------------------------------------------------
(* How the steps move the levels.                                          *)

LEMMA GrantLevel ==
  ASSUME TypeOK, NEW k \in Key, Grant(k)
  PROVE  /\ Level[k] >= price[k]
         /\ Level' = [Level EXCEPT ![k] = @ - price[k]]
<1>1. /\ Level[k] = Refilled(k)
      /\ Level[k] >= price[k]
  BY DEF Grant, Level, Exists
<1>2. Level[k] - price[k] \in Nat /\ Level[k] - price[k] <= full[k]
  BY <1>1, LevelType, KeyNumbers
<1>3. Level' = [Level EXCEPT ![k] = Level[k] - price[k]]
  BY <1>1, <1>2, StoreLevel DEF Grant
<1> QED
  BY <1>1, <1>3

LEMMA FirstUseLevel ==
  ASSUME TypeOK, NEW k \in Key, FirstUse(k)
  PROVE  /\ Level[k] >= price[k]
         /\ Level' = [Level EXCEPT ![k] = @ - price[k]]
<1>1. Level[k] = full[k] /\ full[k] >= price[k]
  BY KeyNumbers DEF FirstUse, Level, Exists
<1>2. full[k] - price[k] \in Nat /\ full[k] - price[k] <= full[k]
  BY KeyNumbers
<1>3. Level' = [Level EXCEPT ![k] = full[k] - price[k]]
  BY <1>2, StoreLevel DEF FirstUse
<1> QED
  BY <1>1, <1>3

LEMMA RefuseLevel ==
  ASSUME TypeOK, NEW k \in Key, Refuse(k)
  PROVE  Level' = Level /\ Level[k] < price[k]
<1>1. Level[k] = Refilled(k) /\ Level[k] < price[k]
  BY DEF Refuse, Level, Exists
<1>2. Level' = [Level EXCEPT ![k] = Level[k]]
  BY <1>1, LevelType, StoreLevel DEF Refuse
<1> QED
  BY <1>1, <1>2, LevelType

LEMMA NewMsgRateLimiterLevel ==
  ASSUME TypeOK, NEW k \in Key, NewMsgRateLimiter(k)
  PROVE  Level' = Level
<1>1. Level[k] = full[k]
  BY DEF NewMsgRateLimiter, Level, Exists
<1>2. Level' = [Level EXCEPT ![k] = full[k]]
  BY KeyNumbers, StoreLevel DEF NewMsgRateLimiter
<1> QED
  BY <1>1, <1>2, LevelType

\* A bucket that is stale has had the time to fill up: it may as well be gone.
LEMMA CleanupLevel ==
  ASSUME TypeOK, Cleanup
  PROVE  Level' = Level
<1>1. /\ DOMAIN buckets' = DOMAIN buckets \ Stale
      /\ \A k \in DOMAIN buckets' : buckets'[k] = buckets[k]
      /\ now' = now
  BY DEF Cleanup, Restrict
<1>2. \A k \in DOMAIN buckets \ Stale : Refilled(k)' = Refilled(k)
  BY <1>1 DEF Refilled
<1>3. ASSUME NEW k \in Stale
      PROVE  Refilled(k) = full[k]
  <2>1. /\ k \in DOMAIN buckets
        /\ k \in AddressKey
        /\ now - buckets[k].lastRefill > StaleAfter
    BY DEF Stale
  <2>2. /\ k \in Key
        /\ buckets[k].tokens \in Nat
        /\ now - buckets[k].lastRefill \in Nat
    BY <2>1 DEF TypeOK, Bucket
  <2>3. k[1] \in {"room", "ws"}
    BY <2>1 DEF AddressKey
  <2>4. /\ price[k] = windowOf[k[1]]
        /\ rate[k] = maxOf[k[1]]
        /\ full[k] = maxOf[k[1]] * windowOf[k[1]]
    BY <2>2 DEF price, rate, full
  <2>5. /\ price[k] \in Nat
        /\ rate[k] \in Nat
        /\ full[k] = price[k] * rate[k]
        /\ price[k] <= now - buckets[k].lastRefill
    BY <2>1, <2>2, <2>3, <2>4, LimiterAssumption DEF Kind
  <2>6. full[k] <= (now - buckets[k].lastRefill) * rate[k]
    BY <2>2, <2>5, LongerEarnsMore
  <2>7. (now - buckets[k].lastRefill) * rate[k] \in Nat
    BY <2>2, <2>5
  <2>8. full[k] \in Nat
    BY <2>2, KeyNumbers
  <2> QED
    BY <2>2, <2>6, <2>7, <2>8 DEF Refilled
<1> QED
  BY <1>1, <1>2, <1>3 DEF Level, Exists

Grown == [k \in Key |-> IF Level[k] + rate[k] > full[k] THEN full[k]
                         ELSE Level[k] + rate[k]]

LEMMA TickLevel ==
  ASSUME TypeOK, Tick
  PROVE  Level' = Grown
<1>1. buckets' = buckets /\ now' = now + 1 /\ now \in Nat
  BY DEF Tick, TypeOK
<1>2. ASSUME NEW k \in Key, Exists(k)
      PROVE  Refilled(k)' = Grown[k]
  <2>1. /\ rate[k] \in Nat
        /\ full[k] \in Nat
        /\ buckets[k].tokens \in Nat
        /\ buckets[k].lastRefill \in Nat
    BY <1>2, KeyNumbers DEF TypeOK, Bucket, Exists
  <2>2. (now + 1 - buckets[k].lastRefill) * rate[k]
          = (now - buckets[k].lastRefill) * rate[k] + rate[k]
    BY <1>1, <2>1, OneMoreUnit
  <2>3. (now - buckets[k].lastRefill) * rate[k] \in Int
    BY <1>1, <2>1
  <2>4. Level[k] = Refilled(k)
    BY <1>2 DEF Level
  <2> QED
    BY <1>1, <2>1, <2>2, <2>3, <2>4 DEF Refilled, Grown
<1>3. ASSUME NEW k \in Key, ~Exists(k)
      PROVE  full[k] = Grown[k]
  BY <1>3, KeyNumbers DEF Level, Grown
<1>4. \A k \in Key : Exists(k)' <=> Exists(k)
  BY <1>1 DEF Exists
<1>5. Level' = [k \in Key |-> IF Exists(k)' THEN Refilled(k)' ELSE full[k]]
  BY DEF Level
<1> QED
  BY <1>2, <1>3, <1>4, <1>5 DEF Grown

-----------------------------------------------------------------------------
(* Types.                                                                  *)

BucketsOK ==
  /\ DOMAIN buckets \subseteq Key
  /\ buckets \in [DOMAIN buckets -> Bucket]
  /\ \A k \in DOMAIN buckets : /\ buckets[k].tokens <= full[k]
                               /\ buckets[k].lastRefill <= now

WatchOK == now \in Nat /\ watch \in [key : Key, since : 0 .. now, granted : Nat]

LEMMA StoreType ==
  ASSUME TypeOK, NEW k \in Key, NEW tokens \in Nat, tokens <= full[k],
         Store(k, tokens), now' = now
  PROVE  BucketsOK'
<1>1. /\ DOMAIN buckets' = DOMAIN buckets \cup {k}
      /\ buckets'[k] = [tokens |-> tokens, lastRefill |-> now]
      /\ \A q \in DOMAIN buckets : q # k => buckets'[q] = buckets[q]
      /\ buckets' = [q \in DOMAIN buckets' |-> buckets'[q]]
  BY DEF Store
<1>2. \A q \in DOMAIN buckets' :
        /\ buckets'[q] \in Bucket
        /\ buckets'[q].tokens <= full[q]
        /\ buckets'[q].lastRefill <= now
  <2>1. buckets'[k] \in Bucket
    BY <1>1 DEF Bucket, TypeOK
  <2> QED
    BY <1>1, <2>1 DEF TypeOK
<1> QED
  BY <1>1, <1>2 DEF BucketsOK, TypeOK

LEMMA InitType == Init => TypeOK
<1> SUFFICES ASSUME Init PROVE TypeOK
  OBVIOUS
<1>1. BucketsOK
  BY DEF Init, BucketsOK
<1>2. WatchOK
  BY DEF Init, WatchOK
<1> QED
  BY <1>1, <1>2 DEF TypeOK, BucketsOK, WatchOK

LEMMA StepType == TypeOK /\ [Next]_vars => TypeOK'
<1> SUFFICES ASSUME TypeOK, [Next]_vars PROVE TypeOK'
  OBVIOUS
<1>1. ASSUME NEW k \in Key, Grant(k) PROVE TypeOK'
  <2>1. Refilled(k) - price[k] \in Nat /\ Refilled(k) - price[k] <= full[k]
    BY <1>1, RefilledIsLevel, KeyNumbers DEF Grant, Exists
  <2>2. BucketsOK'
    BY <1>1, <2>1, StoreType DEF Grant
  <2>3. WatchOK'
    BY <1>1 DEF Grant, Count, WatchOK, TypeOK
  <2> QED
    BY <2>2, <2>3 DEF TypeOK, BucketsOK, WatchOK
<1>2. ASSUME NEW k \in Key, Refuse(k) PROVE TypeOK'
  <2>1. BucketsOK'
    BY <1>2, RefilledIsLevel, StoreType DEF Refuse, Exists
  <2>2. WatchOK'
    BY <1>2 DEF Refuse, WatchOK, TypeOK
  <2> QED
    BY <2>1, <2>2 DEF TypeOK, BucketsOK, WatchOK
<1>3. ASSUME NEW k \in Key, FirstUse(k) PROVE TypeOK'
  <2>1. full[k] - price[k] \in Nat /\ full[k] - price[k] <= full[k]
    BY KeyNumbers
  <2>2. BucketsOK'
    BY <1>3, <2>1, StoreType DEF FirstUse
  <2>3. WatchOK'
    BY <1>3 DEF FirstUse, Count, WatchOK, TypeOK
  <2> QED
    BY <2>2, <2>3 DEF TypeOK, BucketsOK, WatchOK
<1>4. ASSUME NEW k \in Key, NewMsgRateLimiter(k) PROVE TypeOK'
  <2>1. BucketsOK'
    BY <1>4, KeyNumbers, StoreType DEF NewMsgRateLimiter
  <2>2. WatchOK'
    BY <1>4 DEF NewMsgRateLimiter, WatchOK, TypeOK
  <2> QED
    BY <2>1, <2>2 DEF TypeOK, BucketsOK, WatchOK
<1>5. ASSUME Cleanup PROVE TypeOK'
  BY <1>5 DEF Cleanup, Restrict, TypeOK
<1>6. ASSUME Tick PROVE TypeOK'
  <2>1. BucketsOK'
    BY <1>6 DEF Tick, BucketsOK, TypeOK, Bucket
  <2>2. WatchOK'
    BY <1>6 DEF Tick, WatchOK, TypeOK
  <2> QED
    BY <2>1, <2>2 DEF TypeOK, BucketsOK, WatchOK
<1>7. ASSUME NEW k \in Key, Watch(k) PROVE TypeOK'
  BY <1>7 DEF Watch, TypeOK
<1>8. CASE UNCHANGED vars
  <2>1. BucketsOK' /\ WatchOK'
    BY <1>8 DEF vars, TypeOK, BucketsOK, WatchOK
  <2> QED
    BY <2>1 DEF TypeOK, BucketsOK, WatchOK
<1> QED
  BY <1>1, <1>2, <1>3, <1>4, <1>5, <1>6, <1>7, <1>8 DEF Next, Key

\* Every step keeps the shape of the map, the clock and the stopwatch.
THEOREM TypeCorrect == Spec => []TypeOK
<1> QED
  BY InitType, StepType, PTL DEF Spec

-----------------------------------------------------------------------------
(* The steps, as far as levels, clock and stopwatch go.                    *)

Pays(k) ==
  /\ Level[k] >= price[k]
  /\ Level' = [Level EXCEPT ![k] = @ - price[k]]
  /\ Count(k)
  /\ now' = now

TimePasses == Level' = Grown /\ now' = now + 1 /\ watch' = watch

Restarts == \E k \in Key : watch' = [key |-> k, since |-> now, granted |-> 0]

Otherwise == Level' = Level /\ now' = now /\ (watch' = watch \/ Restarts)

LEMMA StepLevel ==
  ASSUME TypeOK, [Next]_vars
  PROVE  (\E k \in Key : Pays(k)) \/ TimePasses \/ Otherwise
<1>1. ASSUME NEW k \in Key, Grant(k) PROVE Pays(k)
  BY <1>1, GrantLevel DEF Grant, Pays
<1>2. ASSUME NEW k \in Key, Refuse(k) PROVE Otherwise
  BY <1>2, RefuseLevel DEF Refuse, Otherwise
<1>3. ASSUME NEW k \in Key, FirstUse(k) PROVE Pays(k)
  BY <1>3, FirstUseLevel DEF FirstUse, Pays
<1>4. ASSUME NEW k \in Key, NewMsgRateLimiter(k) PROVE Otherwise
  BY <1>4, NewMsgRateLimiterLevel DEF NewMsgRateLimiter, Otherwise
<1>5. ASSUME Cleanup PROVE Otherwise
  BY <1>5, CleanupLevel DEF Cleanup, Otherwise
<1>6. ASSUME Tick PROVE TimePasses
  BY <1>6, TickLevel DEF Tick, TimePasses
<1>7. ASSUME NEW k \in Key, Watch(k) PROVE Otherwise
  <2>1. Level' = Level
    BY <1>7 DEF Watch, Level, Exists, Refilled
  <2> QED
    BY <1>7, <2>1 DEF Watch, Otherwise, Restarts
<1>8. ASSUME UNCHANGED vars PROVE Otherwise
  BY <1>8 DEF vars, Level, Exists, Refilled, Otherwise
<1>9. AddressKey \subseteq Key /\ ConnKey \subseteq Key
  BY DEF Key
<1> QED
  BY <1>1, <1>2, <1>3, <1>4, <1>5, <1>6, <1>7, <1>8, <1>9 DEF Next

\* The buckets are, for every key, the allowance of the abstract limiter.
THEOREM BucketsImplementAllowance == Spec => ImplementsAllowance
<1>1. Init => Promise!Init
  <2> SUFFICES ASSUME Init PROVE Level = full
    BY DEF Promise!Init
  <2>1. full = [k \in Key |-> full[k]]
    BY DEF full
  <2> QED
    BY <2>1 DEF Init, Level, Exists
<1>2. TypeOK /\ [Next]_vars => [Promise!Next]_Level
  <2> SUFFICES ASSUME TypeOK, [Next]_vars PROVE [Promise!Next]_Level
    OBVIOUS
  <2>1. ASSUME NEW k \in Key, Pays(k) PROVE Promise!Next
    BY <2>1 DEF Pays, Promise!Next, Promise!Spend
  <2>2. ASSUME TimePasses PROVE Promise!Next
    BY <2>2 DEF TimePasses, Grown, Promise!Next, Promise!Grow
  <2> QED
    BY <2>1, <2>2, StepLevel DEF Otherwise
<1> QED
  BY <1>1, <1>2, TypeCorrect, PTL DEF Spec, ImplementsAllowance, Promise!Spec

-----------------------------------------------------------------------------
(* The stopwatch.  What was granted and what is left is at most a full     *)
(* bucket and the time's earnings, and at least the earnings as far as a   *)
(* bucket holds them.                                                      *)

Earned == (now - watch.since) * rate[watch.key]
Spent == watch.granted * price[watch.key]

Paid == Spent + Level[watch.key] <= full[watch.key] + Earned

NothingLost ==
  Spent + Level[watch.key]
    >= IF Earned > full[watch.key] THEN full[watch.key] ELSE Earned

IInv == TypeOK /\ Paid /\ NothingLost

LEMMA WatchNumbers ==
  ASSUME TypeOK
  PROVE  /\ watch.key \in Key
         /\ price[watch.key] \in Nat \ {0}
         /\ rate[watch.key] \in Nat \ {0}
         /\ full[watch.key] \in Nat
         /\ Level[watch.key] \in Nat
         /\ Level[watch.key] <= full[watch.key]
         /\ now \in Nat
         /\ watch.since \in Nat
         /\ watch.since <= now
         /\ watch.granted \in Nat
         /\ Earned \in Nat
         /\ Spent \in Nat
<1>1. /\ watch.key \in Key
      /\ now \in Nat
      /\ watch.since \in Nat
      /\ watch.since <= now
      /\ watch.granted \in Nat
  BY DEF TypeOK
<1>2. /\ price[watch.key] \in Nat \ {0}
      /\ rate[watch.key] \in Nat \ {0}
      /\ full[watch.key] \in Nat
      /\ Level[watch.key] \in Nat
      /\ Level[watch.key] <= full[watch.key]
  BY <1>1, KeyNumbers, LevelType
<1>3. \A m, n \in Nat : m * n \in Nat
  OBVIOUS
<1>4. now - watch.since \in Nat
  BY <1>1
<1> QED
  BY <1>1, <1>2, <1>3, <1>4 DEF Earned, Spent

LEMMA InitInv == Init => IInv
<1> SUFFICES ASSUME Init PROVE IInv
  OBVIOUS
<1>1. TypeOK
  BY InitType
<1>2. Earned = 0 /\ Spent = 0
  BY <1>1, WatchNumbers DEF Init, Earned, Spent
<1>3. Level[watch.key] = full[watch.key]
  BY <1>1, WatchNumbers DEF Init, Level, Exists
<1> QED
  BY <1>1, <1>2, <1>3, WatchNumbers DEF IInv, Paid, NothingLost

LEMMA StepInv == IInv /\ [Next]_vars => IInv'
<1> SUFFICES ASSUME IInv, [Next]_vars PROVE IInv'
  OBVIOUS
<1>1. TypeOK /\ TypeOK'
  BY StepType DEF IInv
<1> DEFINE w == watch.key
<1>2. ASSUME NEW k \in Key, Pays(k) PROVE Paid' /\ NothingLost'
  <2>1. watch'.key = w /\ watch'.since = watch.since
    BY <1>1, <1>2 DEF Pays, Count, TypeOK
  <2>2. Earned' = Earned
    BY <1>2, <2>1 DEF Pays, Earned
  <2>3. Spent' + Level'[w] = Spent + Level[w]
    <3>1. CASE k = w
      <4>1. watch'.granted = watch.granted + 1
        BY <1>1, <1>2, <3>1 DEF Pays, Count, TypeOK
      <4>2. Level'[w] = Level[w] - price[w]
        BY <1>1, <1>2, <3>1, LevelType DEF Pays
      <4>3. (watch.granted + 1) * price[w] = watch.granted * price[w] + price[w]
        BY <1>1, WatchNumbers
      <4> QED
        BY <1>1, <2>1, <4>1, <4>2, <4>3, WatchNumbers DEF Spent
    <3>2. CASE k # w
      <4>1. watch' = watch /\ Level'[w] = Level[w]
        BY <1>1, <1>2, <3>2, WatchNumbers, LevelType DEF Pays, Count
      <4> QED
        BY <4>1 DEF Spent
    <3> QED
      BY <3>1, <3>2
  <2> QED
    BY <2>1, <2>2, <2>3 DEF IInv, Paid, NothingLost
<1>3. ASSUME TimePasses PROVE Paid' /\ NothingLost'
  <2>1. watch' = watch /\ now' = now + 1
    BY <1>3 DEF TimePasses
  <2>2. Spent' = Spent
    BY <2>1 DEF Spent
  <2>3. Earned' = Earned + rate[w]
    <3>1. Earned' = (now + 1 - watch.since) * rate[w]
      BY <1>1, <2>1, WatchNumbers DEF Earned
    <3>2. (now + 1 - watch.since) * rate[w]
            = (now - watch.since) * rate[w] + rate[w]
      BY <1>1, WatchNumbers, OneMoreUnit
    <3> QED
      BY <3>1, <3>2 DEF Earned
  <2>4. Level'[w] = IF Level[w] + rate[w] > full[w] THEN full[w]
                    ELSE Level[w] + rate[w]
    BY <1>1, <1>3, WatchNumbers DEF TimePasses, Grown
  <2> QED
    BY <1>1, <2>1, <2>2, <2>3, <2>4, WatchNumbers DEF IInv, Paid, NothingLost
<1>4. ASSUME Otherwise PROVE Paid' /\ NothingLost'
  <2>1. CASE watch' = watch
    BY <1>4, <2>1 DEF Otherwise, IInv, Paid, NothingLost, Earned, Spent
  <2>2. CASE Restarts
    <3>1. PICK k \in Key : watch' = [key |-> k, since |-> now, granted |-> 0]
      BY <2>2 DEF Restarts
    <3>2. Level' = Level /\ now' = now
      BY <1>4 DEF Otherwise
    <3>3. (now - now) * rate[k] = 0 /\ 0 * price[k] = 0
      BY <1>1, <3>1, KeyNumbers, WatchNumbers
    <3>4. Earned' = 0 /\ Spent' = 0
      BY <3>1, <3>2, <3>3 DEF Earned, Spent
    <3>5. Level[k] \in Nat /\ Level[k] <= full[k] /\ full[k] \in Nat
      BY <1>1, <3>1, LevelType, KeyNumbers
    <3> QED
      BY <3>1, <3>2, <3>4, <3>5 DEF Paid, NothingLost
  <2> QED
    BY <1>4, <2>1, <2>2 DEF Otherwise
<1>5. Paid' /\ NothingLost'
  BY <1>1, <1>2, <1>3, <1>4, StepLevel
<1> QED
  BY <1>1, <1>5 DEF IInv

LEMMA Inductive == Spec => []IInv
<1> QED
  BY InitInv, StepInv, PTL DEF Spec

\* No key is ever granted more than its limit allows, for all limits and
\* whatever the clean-up forgets.
THEOREM RatesAreBounded == Spec => []RateBounded
<1>1. IInv => RateBounded
  <2> SUFFICES ASSUME IInv PROVE RateBounded
    OBVIOUS
  <2>1. TypeOK /\ Paid
    BY DEF IInv
  <2> QED
    BY <2>1, WatchNumbers DEF Paid, Earned, Spent, RateBounded
<1> QED
  BY <1>1, Inductive, PTL

\* Nobody is refused who has not been granted what was earned.
THEOREM RefusalsAreEarned == Spec => RefusedOnlyWhenSpent
<1>1. IInv /\ [Next]_vars =>
        [\A k \in Key : Refuse(k) /\ k = watch.key =>
           LET earned == (now - watch.since) * rate[k]
           IN  (watch.granted + 1) * price[k]
                 > IF earned > full[k] THEN full[k] ELSE earned]_vars
  <2> SUFFICES ASSUME IInv, NEW k \in Key, Refuse(k), k = watch.key
               PROVE  Spent + price[k]
                        > IF Earned > full[k] THEN full[k] ELSE Earned
    <3>1. \A g, p \in Nat : (g + 1) * p = g * p + p
      OBVIOUS
    <3>2. IInv => (watch.granted + 1) * price[watch.key]
                    = Spent + price[watch.key]
      BY <3>1, WatchNumbers DEF IInv, Spent
    <3> QED
      BY <3>2 DEF Earned
  <2>1. TypeOK /\ NothingLost
    BY DEF IInv
  <2>2. Level[k] < price[k]
    BY <2>1, RefuseLevel
  <2> QED
    BY <2>1, <2>2, WatchNumbers DEF NothingLost
<1> QED
  BY <1>1, Inductive, PTL DEF Spec, RefusedOnlyWhenSpent
=============================================================================

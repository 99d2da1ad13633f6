--------------------------- MODULE ConnLimitsProofs ---------------------------
(* Theorems about ConnLimits: the limits hold, for every number of           *)
(* connections and addresses and for all limits.  Holding is the set whose   *)
(* size matters; most steps leave it alone, TryAdd adds one connection and   *)
(* Remove takes one away, and the counters follow.                           *)
EXTENDS ConnLimits, FiniteSetTheorems, TLAPS

-----------------------------------------------------------------------------
\* A step has one of three effects on the set of holders.
Keeps == Holding' = Holding
Adds(c) == c \notin Holding /\ Holding' = Holding \cup {c}
Drops(c) == c \in Holding /\ Holding' = Holding \ {c}

\* Every step but TryAdd and Remove leaves counters and holders alone.
OtherStep ==
  \/ \E c \in Conn : \/ Accept(c) \/ AskLimiter(c) \/ Upgrade(c)
                     \/ Register(c) \/ Unregister(c) \/ Disconnect(c)
                     \/ CloseGraceful(c)
  \/ CloseAll \/ Shutdown \/ Exit
  \/ UNCHANGED vars

\* The steps of Next, sorted by what they do to the holders.
LEMMA StepKinds ==
  ASSUME [Next]_vars
  PROVE  OtherStep \/ (\E c \in Conn : TryAdd(c)) \/ (\E c \in Conn : Remove(c))
  BY DEF Next, OtherStep

\* The place a connection is at decides whether it holds; moving one
\* connection moves no other.
LEMMA OtherStepKeeps ==
  ASSUME TypeOK, OtherStep
  PROVE  Keeps /\ UNCHANGED tracker
<1>1. CASE UNCHANGED vars
  BY <1>1 DEF vars, Keeps, Holding, tracker
<1>2. CASE CloseAll \/ Shutdown \/ Exit
  BY <1>2 DEF CloseAll, Shutdown, Exit, Keeps, Holding, tracker
<1>3. ASSUME NEW c \in Conn,
             Accept(c) \/ AskLimiter(c) \/ Upgrade(c) \/ Disconnect(c)
      PROVE  Keeps /\ UNCHANGED tracker
  BY <1>3 DEF TypeOK, Accept, AskLimiter, Upgrade, Disconnect, At, Goto,
              Keeps, Holding, tracker
<1>4. ASSUME NEW c \in Conn,
             Register(c) \/ Unregister(c) \/ CloseGraceful(c)
      PROVE  Keeps /\ UNCHANGED tracker
  BY <1>4 DEF Register, Unregister, CloseGraceful, Keeps, Holding, tracker
<1> QED
  BY <1>1, <1>2, <1>3, <1>4 DEF OtherStep

-----------------------------------------------------------------------------
\* What each step does to the type: the map of addresses never holds a zero.
\* That the total stays a number follows from what it counts, below.
LEMMA TypeStep ==
  ASSUME TypeOK, [Next]_vars, total' \in Nat
  PROVE  TypeOK'
<1> USE LimitAssumption
<1>1. CASE UNCHANGED vars
  BY <1>1 DEF vars, tracker, ending, TypeOK
<1>2. CASE CloseAll \/ Shutdown \/ Exit
  BY <1>2 DEF CloseAll, Shutdown, Exit, TypeOK, tracker
<1>3. ASSUME NEW c \in Conn,
             Accept(c) \/ AskLimiter(c) \/ Upgrade(c) \/ Disconnect(c)
      PROVE  TypeOK'
  BY <1>3 DEF TypeOK, Accept, AskLimiter, Upgrade, Disconnect, At, Goto, Places,
              tracker, ending
<1>4. ASSUME NEW c \in Conn,
             Register(c) \/ Unregister(c) \/ CloseGraceful(c)
      PROVE  TypeOK'
  BY <1>4 DEF TypeOK, Register, Unregister, CloseGraceful, At, tracker, ending
<1>5. ASSUME NEW c \in Conn, TryAdd(c)
      PROVE  TypeOK'
  <2> DEFINE a == addressOf[c]
  <2>1. a \in Address /\ Count(a) \in Nat
    BY DEF TypeOK, Count
  <2>2. /\ DOMAIN perIP' \subseteq Address
        /\ perIP' \in [DOMAIN perIP' -> Nat \ {0}]
    <3>1. CASE HasPlace(a)
      <4>1. perIP' = [b \in DOMAIN perIP \cup {a} |->
                        IF b = a THEN Count(a) + 1 ELSE perIP[b]]
        BY <1>5, <3>1 DEF TryAdd
      <4> QED
        BY <2>1, <4>1 DEF TypeOK
    <3>2. CASE ~HasPlace(a)
      BY <1>5, <3>2 DEF TryAdd, TypeOK, tracker
    <3> QED
      BY <3>1, <3>2
  <2>3. /\ pc' \in [Conn -> Places]
        /\ clients' \subseteq {d \in Conn : pc'[d] = "open"}
    BY <1>5 DEF TryAdd, TypeOK, At, Goto, Places
  <2> QED
    BY <1>5, <2>2, <2>3 DEF TryAdd, TypeOK, ending
<1>6. ASSUME NEW c \in Conn, Remove(c)
      PROVE  TypeOK'
  <2> DEFINE a == addressOf[c]
  <2>1. /\ DOMAIN perIP' \subseteq Address
        /\ perIP' \in [DOMAIN perIP' -> Nat \ {0}]
    <3>1. CASE Count(a) <= 0
      BY <1>6, <3>1 DEF Remove, TypeOK, tracker
    <3>2. CASE ~(Count(a) <= 0) /\ perIP[a] = 1
      <4>1. perIP' = [b \in DOMAIN perIP \ {a} |-> perIP[b]]
        BY <1>6, <3>2 DEF Remove, Restrict
      <4> QED
        BY <4>1 DEF TypeOK
    <3>3. CASE ~(Count(a) <= 0) /\ perIP[a] # 1
      <4>1. a \in DOMAIN perIP /\ perIP[a] \in Nat \ {0, 1}
        BY <3>3 DEF TypeOK, Count
      <4>2. perIP' = [perIP EXCEPT ![a] = @ - 1]
        BY <1>6, <3>3 DEF Remove
      <4> QED
        BY <4>1, <4>2 DEF TypeOK
    <3> QED
      BY <3>1, <3>2, <3>3
  <2>2. /\ pc' \in [Conn -> Places]
        /\ clients' \subseteq {d \in Conn : pc'[d] = "open"}
    BY <1>6 DEF Remove, TypeOK, At, Goto, Places
  <2> QED
    BY <1>6, <2>1, <2>2 DEF Remove, TypeOK, ending
<1> QED
  BY <1>1, <1>2, <1>3, <1>4, <1>5, <1>6 DEF Next

-----------------------------------------------------------------------------
\* The inductive invariant.  LimitsHeld needs the counters that TryAdd looks
\* at to be right, and these are only if the sets they count are finite.
IInv ==
  /\ TypeOK
  /\ IsFiniteSet(Holding)
  /\ CountersAgree
  /\ LimitsHeld

\* A subset of the holders is counted by a number.
LEMMA HoldersOfOneAddress ==
  ASSUME IsFiniteSet(Holding), NEW a \in Address
  PROVE  IsFiniteSet(HoldingFrom(a)) /\ Cardinality(HoldingFrom(a)) \in Nat
<1>1. HoldingFrom(a) \subseteq Holding
  BY DEF HoldingFrom
<1> QED
  BY <1>1, FS_Subset, FS_CardinalityType

\* One more holder: one more of its address, and none of any other.
LEMMA OneMore ==
  ASSUME IsFiniteSet(Holding), NEW c \in Conn, Adds(c)
  PROVE  /\ IsFiniteSet(Holding')
         /\ Cardinality(Holding') = Cardinality(Holding) + 1
         /\ \A a \in Address : Cardinality(HoldingFrom(a)') =
              Cardinality(HoldingFrom(a)) + (IF a = addressOf[c] THEN 1 ELSE 0)
<1>1. /\ IsFiniteSet(Holding')
      /\ Cardinality(Holding') = Cardinality(Holding) + 1
  BY FS_AddElement DEF Adds
<1>2. ASSUME NEW a \in Address
      PROVE  Cardinality(HoldingFrom(a)') =
               Cardinality(HoldingFrom(a)) + (IF a = addressOf[c] THEN 1 ELSE 0)
  <2>1. IsFiniteSet(HoldingFrom(a)) /\ Cardinality(HoldingFrom(a)) \in Nat
    BY HoldersOfOneAddress
  <2>2. CASE a = addressOf[c]
    <3>1. HoldingFrom(a)' = HoldingFrom(a) \cup {c} /\ c \notin HoldingFrom(a)
      BY <2>2 DEF Adds, HoldingFrom
    <3> QED
      BY <2>1, <2>2, <3>1, FS_AddElement
  <2>3. CASE a # addressOf[c]
    <3>1. HoldingFrom(a)' = HoldingFrom(a)
      BY <2>3 DEF Adds, HoldingFrom
    <3> QED
      BY <2>1, <2>3, <3>1
  <2> QED
    BY <2>2, <2>3
<1> QED
  BY <1>1, <1>2

\* One holder less, likewise.
LEMMA OneLess ==
  ASSUME IsFiniteSet(Holding), NEW c \in Conn, Drops(c)
  PROVE  /\ IsFiniteSet(Holding')
         /\ Cardinality(Holding') = Cardinality(Holding) - 1
         /\ \A a \in Address : Cardinality(HoldingFrom(a)') =
              Cardinality(HoldingFrom(a)) - (IF a = addressOf[c] THEN 1 ELSE 0)
<1>1. /\ IsFiniteSet(Holding')
      /\ Cardinality(Holding') = Cardinality(Holding) - 1
  BY FS_RemoveElement DEF Drops
<1>2. ASSUME NEW a \in Address
      PROVE  Cardinality(HoldingFrom(a)') =
               Cardinality(HoldingFrom(a)) - (IF a = addressOf[c] THEN 1 ELSE 0)
  <2>1. IsFiniteSet(HoldingFrom(a)) /\ Cardinality(HoldingFrom(a)) \in Nat
    BY HoldersOfOneAddress
  <2>2. CASE a = addressOf[c]
    <3>1. HoldingFrom(a)' = HoldingFrom(a) \ {c} /\ c \in HoldingFrom(a)
      BY <2>2 DEF Drops, HoldingFrom
    <3> QED
      BY <2>1, <2>2, <3>1, FS_RemoveElement
  <2>3. CASE a # addressOf[c]
    <3>1. HoldingFrom(a)' = HoldingFrom(a)
      BY <2>3 DEF Drops, HoldingFrom
    <3> QED
      BY <2>1, <2>3, <3>1
  <2> QED
    BY <2>2, <2>3
<1> QED
  BY <1>1, <1>2

\* The holders of an address are counted, so a holder's entry is there.
LEMMA HolderIsCounted ==
  ASSUME IInv, NEW c \in Conn, c \in Holding
  PROVE  addressOf[c] \in DOMAIN perIP /\ Count(addressOf[c]) >= 1 /\ total >= 1
<1> DEFINE a == addressOf[c]
<1>1. a \in Address
  BY LimitAssumption
<1>2. IsFiniteSet(HoldingFrom(a)) /\ Cardinality(HoldingFrom(a)) \in Nat
  BY <1>1, HoldersOfOneAddress DEF IInv
<1>3. HoldingFrom(a) # {} /\ Holding # {}
  BY DEF HoldingFrom
<1>4. Cardinality(HoldingFrom(a)) # 0 /\ Cardinality(Holding) # 0
  BY <1>2, <1>3, FS_EmptySet DEF IInv
<1>5. Cardinality(Holding) \in Nat
  BY FS_CardinalityType DEF IInv
<1> QED
  BY <1>1, <1>2, <1>4, <1>5 DEF IInv, CountersAgree, Count

-----------------------------------------------------------------------------
\* TryAdd with a place: the counters that were below the limits go up by one.
LEMMA TryAddCounts ==
  ASSUME IInv, NEW c \in Conn, TryAdd(c), HasPlace(addressOf[c])
  PROVE  /\ Adds(c)
         /\ total' = total + 1
         /\ \A a \in Address :
              Count(a)' = Count(a) + (IF a = addressOf[c] THEN 1 ELSE 0)
<1>1. pc[c] = "allowed" /\ pc' = [pc EXCEPT ![c] = "tracked"]
  BY DEF TryAdd, At, Goto
<1>2. Adds(c)
  BY <1>1 DEF IInv, TypeOK, Adds, Holding
<1>3. perIP' = [b \in DOMAIN perIP \cup {addressOf[c]} |->
                  IF b = addressOf[c] THEN Count(addressOf[c]) + 1 ELSE perIP[b]]
  BY DEF TryAdd
<1>4. ASSUME NEW a \in Address
      PROVE  Count(a)' = Count(a) + (IF a = addressOf[c] THEN 1 ELSE 0)
  <2>1. Count(a) \in Nat
    BY DEF IInv, TypeOK, Count
  <2>2. CASE a = addressOf[c]
    BY <1>3, <2>1, <2>2 DEF Count
  <2>3. CASE a # addressOf[c]
    BY <1>3, <2>1, <2>3 DEF Count
  <2> QED
    BY <2>2, <2>3
<1> QED
  BY <1>2, <1>4 DEF TryAdd

\* Remove: they go down by one, and an entry that is deleted counted one.
LEMMA RemoveCounts ==
  ASSUME IInv, NEW c \in Conn, Remove(c)
  PROVE  /\ Drops(c)
         /\ total' = total - 1
         /\ \A a \in Address :
              Count(a)' = Count(a) - (IF a = addressOf[c] THEN 1 ELSE 0)
<1> DEFINE b == addressOf[c]
<1>1. pc[c] = "leaving" /\ pc' = [pc EXCEPT ![c] = "gone"]
  BY DEF Remove, At, Goto
<1>2. Drops(c) /\ c \in Holding
  BY <1>1 DEF IInv, TypeOK, Drops, Holding
<1>3. b \in DOMAIN perIP /\ Count(b) = perIP[b] /\ perIP[b] \in Nat \ {0}
  BY <1>2, HolderIsCounted DEF IInv, TypeOK, Count
<1>4. /\ perIP' = IF perIP[b] = 1 THEN [d \in DOMAIN perIP \ {b} |-> perIP[d]]
                  ELSE [perIP EXCEPT ![b] = @ - 1]
      /\ total' = total - 1
  BY <1>3 DEF Remove, Restrict
<1>5. ASSUME NEW a \in Address
      PROVE  Count(a)' = Count(a) - (IF a = b THEN 1 ELSE 0)
  <2>1. Count(a) \in Nat
    BY DEF IInv, TypeOK, Count
  <2>2. CASE a = b
    BY <1>3, <1>4, <2>2 DEF Count
  <2>3. CASE a # b
    BY <1>3, <1>4, <2>1, <2>3 DEF Count
  <2> QED
    BY <2>2, <2>3
<1> QED
  BY <1>2, <1>4, <1>5

\* Counters and limits across any step.
LEMMA CountsStep ==
  ASSUME IInv, [Next]_vars
  PROVE  /\ total' \in Nat
         /\ IsFiniteSet(Holding')
         /\ CountersAgree'
         /\ LimitsHeld'
<1>0. /\ Cardinality(Holding) \in Nat /\ total \in Nat
      /\ \A a \in Address : Cardinality(HoldingFrom(a)) \in Nat
  BY FS_CardinalityType, HoldersOfOneAddress DEF IInv, TypeOK
<1>1. ASSUME Keeps, UNCHANGED tracker
      PROVE  /\ total' \in Nat
             /\ IsFiniteSet(Holding')
             /\ CountersAgree'
             /\ LimitsHeld'
  <2>1. \A a \in Address : HoldingFrom(a)' = HoldingFrom(a) /\ Count(a)' = Count(a)
    BY <1>1 DEF Keeps, HoldingFrom, Count, tracker
  <2> QED
    BY <1>0, <1>1, <2>1 DEF IInv, CountersAgree, LimitsHeld, Keeps, tracker
<1>2. CASE OtherStep
  BY <1>1, <1>2, OtherStepKeeps DEF IInv
<1>3. ASSUME NEW c \in Conn, TryAdd(c), HasPlace(addressOf[c])
      PROVE  /\ total' \in Nat
             /\ IsFiniteSet(Holding')
             /\ CountersAgree'
             /\ LimitsHeld'
  <2>1. /\ Adds(c) /\ total' = total + 1
        /\ \A a \in Address :
             Count(a)' = Count(a) + (IF a = addressOf[c] THEN 1 ELSE 0)
    BY <1>3, TryAddCounts
  <2>2. /\ IsFiniteSet(Holding')
        /\ Cardinality(Holding') = Cardinality(Holding) + 1
        /\ \A a \in Address : Cardinality(HoldingFrom(a)') =
             Cardinality(HoldingFrom(a)) + (IF a = addressOf[c] THEN 1 ELSE 0)
    BY <2>1, OneMore DEF IInv
  <2>3. CountersAgree'
    BY <1>0, <2>1, <2>2 DEF IInv, CountersAgree
  <2>4. total < MaxTotal /\ Count(addressOf[c]) < MaxPerIP
    BY <1>3 DEF HasPlace
  <2>5. Cardinality(Holding') <= MaxTotal
    BY <1>0, <2>2, <2>4, LimitAssumption DEF IInv, CountersAgree
  <2>6. ASSUME NEW a \in Address
        PROVE  Cardinality(HoldingFrom(a)') <= MaxPerIP
    BY <1>0, <2>2, <2>4, LimitAssumption DEF IInv, CountersAgree, LimitsHeld
  <2> QED
    BY <1>0, <2>1, <2>2, <2>3, <2>5, <2>6 DEF LimitsHeld
<1>4. ASSUME NEW c \in Conn, TryAdd(c), ~HasPlace(addressOf[c])
      PROVE  Keeps /\ UNCHANGED tracker
  BY <1>4 DEF TryAdd, At, Goto, IInv, TypeOK, Keeps, Holding
<1>5. ASSUME NEW c \in Conn, Remove(c)
      PROVE  /\ total' \in Nat
             /\ IsFiniteSet(Holding')
             /\ CountersAgree'
             /\ LimitsHeld'
  <2>1. /\ Drops(c) /\ total' = total - 1
        /\ \A a \in Address :
             Count(a)' = Count(a) - (IF a = addressOf[c] THEN 1 ELSE 0)
    BY <1>5, RemoveCounts
  <2>2. /\ IsFiniteSet(Holding')
        /\ Cardinality(Holding') = Cardinality(Holding) - 1
        /\ \A a \in Address : Cardinality(HoldingFrom(a)') =
             Cardinality(HoldingFrom(a)) - (IF a = addressOf[c] THEN 1 ELSE 0)
    BY <2>1, OneLess DEF IInv
  <2>3. CountersAgree'
    BY <1>0, <2>1, <2>2 DEF IInv, CountersAgree
  <2>4. total >= 1
    BY <2>1, HolderIsCounted DEF Drops
  <2>5. Cardinality(Holding') <= MaxTotal
    BY <1>0, <2>2, LimitAssumption DEF IInv, LimitsHeld
  <2>6. ASSUME NEW a \in Address
        PROVE  Cardinality(HoldingFrom(a)') <= MaxPerIP
    BY <1>0, <2>2, LimitAssumption DEF IInv, LimitsHeld
  <2> QED
    BY <1>0, <2>1, <2>2, <2>3, <2>4, <2>5, <2>6 DEF LimitsHeld
<1> QED
  BY <1>1, <1>2, <1>3, <1>4, <1>5, StepKinds

-----------------------------------------------------------------------------
\* The invariant holds of every reachable state: no way through the handler
\* makes a counter wrong.
THEOREM Invariance == Spec => []IInv
<1>1. Init => IInv
  <2> SUFFICES ASSUME Init PROVE IInv
    OBVIOUS
  <2>1. TypeOK
    BY DEF Init, TypeOK, Places
  <2>2. Holding = {} /\ \A a \in Address : HoldingFrom(a) = {} /\ Count(a) = 0
    BY DEF Init, Holding, HoldingFrom, Count
  <2>3. IsFiniteSet({}) /\ Cardinality({}) = 0
    BY FS_EmptySet
  <2>4. CountersAgree
    BY <2>2, <2>3 DEF Init, CountersAgree
  <2>5. LimitsHeld
    BY <2>2, <2>3, LimitAssumption DEF LimitsHeld
  <2> QED
    BY <2>1, <2>2, <2>3, <2>4, <2>5 DEF IInv
<1>2. IInv /\ [Next]_vars => IInv'
  BY CountsStep, TypeStep DEF IInv
<1> QED
  BY <1>1, <1>2, PTL DEF Spec

\* The counters of ConnTracker are the connections that hold a place.
THEOREM CountersAreRight == Spec => []CountersAgree
<1>1. IInv => CountersAgree
  BY DEF IInv
<1> QED
  BY <1>1, Invariance, PTL

\* Never more connections than MaxPerIP from an address and MaxTotal in all.
THEOREM LimitsAreHeld == Spec => []LimitsHeld
<1>1. IInv => LimitsHeld
  BY DEF IInv
<1> QED
  BY <1>1, Invariance, PTL

\* The counters never drop below zero and the pieces keep their shape, for
\* any connections and addresses; TypeOK alone would not carry itself.
THEOREM TrackerTypeCorrect == Spec => []TypeOK
<1>1. IInv => TypeOK
  BY DEF IInv
<1> QED
  BY <1>1, Invariance, PTL

\* TryAdd refuses only a connection that really would exceed a limit.
THEOREM RefusalsAreRight == Spec => RefusedOnlyWhenFull
<1>1. ASSUME IInv, [Next]_vars, NEW c \in Conn,
             pc[c] = "allowed", pc'[c] = "gone"
      PROVE  \/ Cardinality(Holding) >= MaxTotal
             \/ Cardinality(HoldingFrom(addressOf[c])) >= MaxPerIP
  <2>1. TryAdd(c)
    <3>1. ASSUME NEW d \in Conn, Accept(d) \/ AskLimiter(d) \/ TryAdd(d)
                   \/ Upgrade(d) \/ Disconnect(d) \/ Remove(d)
          PROVE  d = c /\ TryAdd(d)
      BY <1>1, <3>1 DEF IInv, TypeOK, Accept, AskLimiter, TryAdd, Upgrade,
                        Disconnect, Remove, At, Goto
    <3>2. ASSUME \/ \E d \in Conn : Register(d) \/ Unregister(d) \/ CloseGraceful(d)
                 \/ CloseAll \/ Shutdown \/ Exit
                 \/ UNCHANGED vars
          PROVE  FALSE
      BY <1>1, <3>2 DEF Register, Unregister, CloseGraceful, CloseAll, Shutdown,
                        Exit, vars
    <3> QED
      BY <1>1, <3>1, <3>2 DEF Next
  <2>2. ~HasPlace(addressOf[c])
    BY <1>1, <2>1 DEF TryAdd, At, Goto, IInv, TypeOK
  <2>3. total = Cardinality(Holding)
        /\ Count(addressOf[c]) = Cardinality(HoldingFrom(addressOf[c]))
    BY <1>1, LimitAssumption DEF IInv, CountersAgree
  <2>4. /\ total \in Nat /\ Count(addressOf[c]) \in Nat
        /\ MaxTotal \in Nat /\ MaxPerIP \in Nat
    BY <1>1, LimitAssumption DEF IInv, TypeOK, Count
  <2> QED
    BY <2>2, <2>3, <2>4 DEF HasPlace
<1>2. IInv /\ [Next]_vars =>
        [\A c \in Conn : pc[c] = "allowed" /\ pc'[c] = "gone" =>
           \/ Cardinality(Holding) >= MaxTotal
           \/ Cardinality(HoldingFrom(addressOf[c])) >= MaxPerIP]_vars
  BY <1>1
<1> QED
  BY <1>2, Invariance, PTL DEF Spec, RefusedOnlyWhenFull
=============================================================================

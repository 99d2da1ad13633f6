-------------------------------- MODULE Stats --------------------------------
(***************************************************************************)
(* The statistics of a round, internal/domain/stats.go, as operators on    *)
(* the participants of a room, and what they have to be.                   *)
(*                                                                         *)
(* Cards are counted in halves, so that 0.5 is a whole number; a median is *)
(* then in quarters and an average, which the code rounds to two decimals, *)
(* in hundredths.  A pointer that may be nil is a sequence: <<>> or <<x>>. *)
(***************************************************************************)
EXTENDS Integers, FiniteSetsExt, SequencesExt

\* ParseFloat, in halves.
Halves(card) ==
  CASE card = "0" -> 0   [] card = "0.5" -> 1 [] card = "1" -> 2
    [] card = "2" -> 4   [] card = "3" -> 6   [] card = "5" -> 10
    [] card = "8" -> 16  [] card = "13" -> 26 [] card = "20" -> 40
    [] card = "40" -> 80 [] card = "100" -> 200

\* The participants whose vote counts, and those with a number.
Voters(ps) == {s \in DOMAIN ps : ps[s].role # "observer" /\ ps[s].vote # ""}
Numeric(ps) == {s \in Voters(ps) : ps[s].vote # "?"}

\* numericValues, sorted.
Values(ps) ==
  LET q == SetToSeq(Numeric(ps))
  IN  SortSeq([i \in DOMAIN q |-> Halves(ps[q[i]].vote)], <)

Total(values) == FoldLeft(+, 0, values)

\* math.Round(avg*100) / 100, half away from zero.
Average(values) ==
  (100 * Total(values) + Len(values)) \div (2 * Len(values))

\* Mutant: the upper of the two middle values, where their mean is due.
UpperMedian(values) == 2 * values[Len(values) \div 2 + 1]

Median(values) ==
  LET n == Len(values)
  IN  IF n % 2 = 0 THEN values[n \div 2] + values[n \div 2 + 1]
      ELSE 2 * values[n \div 2 + 1]

IsConsensus(values) ==
  values # <<>> /\ \A i \in DOMAIN values : values[i] = values[1]

CalculateResult(ps) ==
  LET values == Values(ps)
      none == values = <<>>
  IN  [totalVoters    |-> Cardinality(Voters(ps)),
       uncertainCount |-> Cardinality(Voters(ps) \ Numeric(ps)),
       average        |-> IF none THEN <<>> ELSE <<Average(values)>>,
       median         |-> IF none THEN <<>> ELSE <<Median(values)>>,
       hasConsensus   |-> IsConsensus(values),
       spread         |-> IF none THEN <<>>
                          ELSE <<values[1], values[Len(values)]>>]

-----------------------------------------------------------------------------
(* What the numbers mean, said without sorting or dividing.                *)

\* For the participants ps the result is the right one: an average and a
\* median as soon as there is a number; the average is the mean to half a
\* hundredth; the median lies half-way between the least and the greatest card
\* with half of the numbers on either side; consensus is the agreement of all
\* numbers, question marks aside.  Numbers that differ have a spread, and a
\* spread is attained and encloses all; whether numbers that agree have one,
\* the documents and the code dispute: see AgreementHasASpread in MCRoom.
ResultIsRight(ps) ==
  LET r == CalculateResult(ps)
      N == Numeric(ps)
      n == Cardinality(N)
      v(s) == Halves(ps[s].vote)
      sum == MapThenSumSet(v, N)
      numbers == {v(s) : s \in N}
      middle == {v(s) : s \in {s \in N :
                   /\ 2 * Cardinality({t \in N : v(t) <= v(s)}) >= n
                   /\ 2 * Cardinality({t \in N : v(t) >= v(s)}) >= n}}
  IN  /\ r.totalVoters = n + r.uncertainCount
      /\ (r.average = <<>>) = (n = 0) /\ (r.median = <<>>) = (n = 0)
      /\ n > 0 =>
           /\ 2 * r.average[1] * n - 100 * sum \in -n .. n
           /\ r.median[1] = Min(middle) + Max(middle)
      /\ r.hasConsensus =
           (n > 0 /\ \A s, t \in N : ps[s].vote = ps[t].vote)
      /\ r.hasConsensus => /\ numbers = {r.median[1] \div 2}
                           /\ numbers = {r.average[1] \div 50}
      /\ Cardinality(numbers) > 1 => r.spread # <<>>
      /\ r.spread # <<>> =>
           /\ {r.spread[1], r.spread[2]} \subseteq numbers
           /\ numbers \subseteq r.spread[1] .. r.spread[2]
=============================================================================

--------------------------- MODULE StudyStatistics ---------------------------
(***************************************************************************)
(* scripts/roundtrip/analyze_roundtrip_experiments.py: the two algorithms  *)
(* under the statistics of the study, rankdata() for Spearman's rho and    *)
(* fisher_two_sided() for the comparison of the granularities.             *)
(***************************************************************************)
EXTENDS Integers, Sequences, FiniteSets, SequencesExt, Combinatorics

CONSTANTS
  Values, \* lists of values of a metric
  Tables  \* <<a, b, c, d>>: PASS and FAIL of one group, PASS and FAIL of the other

\* A metric only counts by its order; the four numbers of a table count runs.
ASSUME StatsAssumption ==
  /\ \A v \in Values : v \in Seq(Int)
  /\ Tables \subseteq Nat \X Nat \X Nat \X Nat

VARIABLES
  values, \* the argument of rankdata()
  ranks,  \* twice the ranks, an average rank may be a half
  index,  \* where in the sorted list its loop is
  table,  \* the argument of fisher_two_sided()
  tail    \* what it sums up, as a number of tables; -1: not yet

statsVars == <<values, ranks, index, table, tail>>

\* At rest: the empty table, of which there is one.
NoTable == <<0, 0, 0, 0>>

StatsInit ==
  /\ \/ values \in Values /\ table = NoTable /\ tail = 1
     \/ values = <<>> /\ table \in Tables /\ tail = -1
  /\ ranks = [i \in DOMAIN values |-> 0]
  /\ index = 1

-----------------------------------------------------------------------------
\* sorted() of the values is stable: equal ones stay in their order.
Place(i) ==
  Cardinality({j \in DOMAIN values : values[j] < values[i] \/ (values[j] = values[i] /\ j <= i)})

\* The positions of the values, sorted by value.
Indexed ==
  [k \in DOMAIN values |-> CHOOSE i \in DOMAIN values : Place(i) = k]

\* Mutant: a tie ends with the second value.
TieEnd_Pair ==
  IF index < Len(values) /\ values[Indexed[index + 1]] = values[Indexed[index]]
  THEN index + 1 ELSE index

\* The last place of the values that are the one at index.
TieEnd ==
  CHOOSE last \in index..Len(values) :
    /\ \A k \in index..last : values[Indexed[k]] = values[Indexed[index]]
    /\ last < Len(values) => values[Indexed[last + 1]] # values[Indexed[index]]

\* One turn of the outer loop of rankdata(): equal values share the average of
\* the ranks they take up.
RankTies ==
  /\ index <= Len(values)
  /\ ranks' = [i \in DOMAIN values |->
                 IF \E k \in index..TieEnd : Indexed[k] = i THEN index + TieEnd
                 ELSE ranks[i]]
  /\ index' = TieEnd + 1
  /\ UNCHANGED <<values, table, tail>>

-----------------------------------------------------------------------------
\* The least and the greatest number of PASS the first group may have with
\* these margins.
Lower(row1, col1, total) == Max({0, row1 - (total - col1)})
Upper(row1, col1) == Min({row1, col1})

\* math.comb(): 0 beyond n.
Comb(n, k) == IF k > n THEN 0 ELSE choose(n, k)

\* probability() times comb(total, row1).
Weight(x, row1, col1, total) == Comb(col1, x) * Comb(total - col1, row1 - x)

\* Mutant: only the tables on this side of the observed one.
TwoSided_OneTail(t) ==
  LET row1 == t[1] + t[2]  col1 == t[1] + t[3]
      total == t[1] + t[2] + t[3] + t[4]
      lower == Lower(row1, col1, total)
      term(x) == IF x <= t[1] THEN Weight(x, row1, col1, total) ELSE 0
      sum[x \in lower..Upper(row1, col1)] ==
        IF x = lower THEN term(x) ELSE sum[x - 1] + term(x)
  IN sum[Upper(row1, col1)]

\* fisher_two_sided() times comb(total, row1): the tables with these margins
\* that are no more probable than the one observed.
TwoSided(t) ==
  LET row1 == t[1] + t[2]  col1 == t[1] + t[3]
      total == t[1] + t[2] + t[3] + t[4]
      lower == Lower(row1, col1, total)
      weight(x) == Weight(x, row1, col1, total)
      term(x) == IF weight(x) <= weight(t[1]) THEN weight(x) ELSE 0
      sum[x \in lower..Upper(row1, col1)] ==
        IF x = lower THEN term(x) ELSE sum[x - 1] + term(x)
  IN sum[Upper(row1, col1)]

FisherTest ==
  /\ tail = -1
  /\ tail' = TwoSided(table)
  /\ UNCHANGED <<values, ranks, index, table>>

StatsNext == RankTies \/ FisherTest

StatsSpec == StatsInit /\ [][StatsNext]_statsVars

-----------------------------------------------------------------------------
\* The reference for the ranks: a value is behind all that are less, and in the
\* middle of all that are equal.
RanksAverage ==
  index > Len(values) =>
    \A i \in DOMAIN values :
      ranks[i] = 1 + Cardinality({j \in DOMAIN values : values[j] < values[i]})
                   + Cardinality({j \in DOMAIN values : values[j] <= values[i]})

\* The reference for the test: of all the ways to choose which runs of the
\* study pass, with as many PASS as there are, those that are no more probable..
FisherExact ==
  tail # -1 =>
    LET n    == table[1] + table[2] + table[3] + table[4]
        left == 1..(table[1] + table[2])
        draws == {s \in SUBSET (1..n) : Cardinality(s) = table[1] + table[3]}
        like(k) == Cardinality({s \in draws : Cardinality(s \cap left) = k})
    IN tail * Cardinality(draws) =
         Comb(n, Cardinality(left))
           * Cardinality({s \in draws : like(Cardinality(s \cap left)) <= like(table[1])})
=============================================================================

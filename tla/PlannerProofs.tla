----------------------------- MODULE PlannerProofs -----------------------------
(***************************************************************************)
(* What the arithmetic of Planner gives for every number of players, teams *)
(* and games, and that its three users agree.                              *)
(***************************************************************************)
EXTENDS Planner, TLAPS

\* Division with remainder by a positive number.
LEMMA Division ==
    ASSUME NEW a \in Nat, NEW b \in Nat \ {0}
    PROVE  /\ a \div b \in Nat /\ a % b \in 0..b - 1
           /\ a = b * (a \div b) + (a % b)
           /\ a \div b = 0 <=> a < b
  <1>1. a \div b \in Int /\ a % b \in 0..b - 1 /\ a = b * (a \div b) + (a % b)
    BY Z3
  <1>2. a \div b >= 0 /\ (a \div b = 0 <=> a < b)
    <2>1. ASSUME a \div b < 0 PROVE FALSE
      <3>1. b * (a \div b) <= -b
        BY <1>1, <2>1, Z3
      <3> QED BY <1>1, <3>1
    <2>2. ASSUME a \div b >= 1 PROVE a >= b
      <3>1. b * (a \div b) >= b
        BY <1>1, <2>2, Z3
      <3> QED BY <1>1, <3>1
    <2>3. a \div b = 0 => a < b
      BY <1>1
    <2> QED BY <1>1, <2>1, <2>2, <2>3
  <1> QED BY <1>1, <1>2

\* splitEvenly promises sizes that "differ by at most one, with the larger teams
\* first", and it places everyone: the first total % groups teams have one player
\* more than the others, and together they have all.
THEOREM SplitIsEven ==
    ASSUME NEW total \in Nat, NEW groups \in Nat \ {0}
    PROVE  LET size == SplitEvenly(total, groups)
               more == total % groups
           IN /\ size \in [1..groups -> Nat]
              /\ \A i, j \in 1..groups :
                    i <= j => size[i] >= size[j] /\ size[i] <= size[j] + 1
              /\ more \in 0..groups - 1
              /\ \A i \in 1..groups : size[i] = size[groups] + (IF i <= more THEN 1 ELSE 0)
              /\ total = groups * size[groups] + more
  <1> DEFINE size == SplitEvenly(total, groups)
             base == total \div groups
             more == total % groups
  <1>1. base \in Nat /\ more \in 0..groups - 1 /\ total = groups * base + more
    BY Division
  <1>2. \A i \in 1..groups : size[i] = base + (IF i <= more THEN 1 ELSE 0)
    BY DEF SplitEvenly
  <1>3. size[groups] = base
    BY <1>1, <1>2
  <1>4. size \in [1..groups -> Nat]
    BY <1>1 DEF SplitEvenly
  <1>5. \A i, j \in 1..groups : i <= j => size[i] >= size[j] /\ size[i] <= size[j] + 1
    BY <1>1, <1>2
  <1> QED BY <1>1, <1>2, <1>3, <1>4, <1>5

LEMMA Comparisons ==
    ASSUME NEW a \in Int, NEW b \in Int
    PROVE  /\ Larger(a, b) \in Int /\ Larger(a, b) \in {a, b}
           /\ Larger(a, b) >= a /\ Larger(a, b) >= b
           /\ Smaller(a, b) \in Int /\ Smaller(a, b) \in {a, b}
           /\ Smaller(a, b) <= a /\ Smaller(a, b) <= b
  BY DEF Larger, Smaller

\* suggestTeamCount promises "never fewer than any selected game demands, never below
\* the global minimum, and never more than the cap or the headcount can support".
\* Cap and headcount are kept as far as the demands themselves keep them; and the
\* warning that a game needs more teams than are planned is never given.
THEOREM SuggestedCountFits ==
    ASSUME NEW players \in Nat, NEW need \in Nat
    PROVE  LET count == SuggestTeamCount(players, need)
           IN /\ count \in Nat /\ count >= MinTeams
              /\ ~TooFewTeams(need, count)
              /\ need <= MaxTeams => count <= MaxTeams
              /\ players >= Floor(need) => ~SomeTeamEmpty(players, count)
  <1> DEFINE low == Floor(need)
             room == Smaller(MaxTeams, Larger(players, 1))
             high == Ceiling(players, need)
             wish == Larger(Preferred, low)
             count == SuggestTeamCount(players, need)
  <1>1. low \in Nat /\ low >= MinTeams /\ low >= need /\ low \in {MinTeams, need}
    BY LimitsAssumption, Comparisons DEF Floor
  <1>2. room \in Int /\ room <= MaxTeams /\ (players >= 1 => room <= players)
    BY LimitsAssumption DEF Larger, Smaller
  <1>3. high \in Int /\ high >= low /\ high \in {low, room}
    BY <1>1, <1>2, Comparisons DEF Ceiling
  <1>4. wish \in Int /\ wish >= low
    BY <1>1, LimitsAssumption DEF Larger
  <1>5. count \in Int /\ count \in {wish, high} /\ count <= high
    <2>1. count = Smaller(wish, high)
      BY DEF SuggestTeamCount
    <2> QED BY <2>1, <1>3, <1>4, Comparisons
  <1>6. count >= low
    BY <1>1, <1>3, <1>4, <1>5
  <1>7. need <= MaxTeams => count <= MaxTeams
    BY <1>1, <1>2, <1>3, <1>5, LimitsAssumption
  <1>8. players >= low => count <= players
    BY <1>1, <1>2, <1>3, <1>5, LimitsAssumption
  <1> QED
    BY <1>1, <1>5, <1>6, <1>7, <1>8, LimitsAssumption DEF TooFewTeams, SomeTeamEmpty

\* A plan that the Night Builder has nothing to say against is one that the other two
\* accept: the readiness of the session finds the headcount valid for all its games,
\* and the teams of each game can be formed in the suggested number.
THEOREM PlanIsFormable ==
    ASSUME NEW players \in Nat, NEW games \in SUBSET Entry, NEW need \in Nat,
           IsNeed(need, games), need <= MaxTeams, MinTeams >= 2,
           NoWarnings(players, need, games)
    PROVE  /\ HeadcountValid(players, games)
           /\ \A g \in games : Formable(players, SuggestTeamCount(players, need), g)
  <1> DEFINE count == SuggestTeamCount(players, need)
  <1>1. count \in Nat /\ count >= 2 /\ count <= MaxTeams
    BY SuggestedCountFits, LimitsAssumption
  <1>2. players # 0 /\ players >= count /\ \A g \in games : PlanFits(players, g)
    BY <1>1 DEF NoWarnings, SomeTeamEmpty
  <1>3. \A g \in games : players >= g.min /\ players <= g.max
    BY <1>2 DEF PlanFits
  <1>4. players \div count # 0
    BY <1>1, <1>2, Division
  <1>5. \A g \in games : Formable(players, count, g)
    BY <1>1, <1>3, <1>4 DEF Formable
  <1> QED BY <1>3, <1>5 DEF HeadcountValid

\* What suggestTeamFormation suggests, validateTeamFormation lets through if the game
\* is for that many players; and as soon as there are two players it has something to
\* suggest.
THEOREM SuggestionsFormable ==
    ASSUME NEW players \in Nat, 6 <= MaxTeams
    PROVE  /\ \A count \in SuggestedCounts(players), g \in Entry :
                HeadcountValid(players, {g}) => Formable(players, count, g)
           /\ SuggestedCounts(players) # {} <=> players >= 2
  <1>1. Smaller(players, 6) \in Int /\ Smaller(players, 6) <= 6
        /\ Smaller(players, 6) \in {players, 6} /\ Smaller(players, 6) <= players
    BY Comparisons
  <1>2. ASSUME NEW count \in SuggestedCounts(players), NEW g \in Entry,
               HeadcountValid(players, {g})
        PROVE  Formable(players, count, g)
    BY <1>1, <1>2, LimitsAssumption DEF SuggestedCounts, HeadcountValid, Formable
  <1>3. ASSUME players >= 2 PROVE 2 \in SuggestedCounts(players)
    <2>1. players \div 2 # 0
      BY <1>3
    <2> QED BY <1>1, <1>3, <2>1 DEF SuggestedCounts
  <1>4. ASSUME players < 2 PROVE SuggestedCounts(players) = {}
    BY <1>1, <1>4 DEF SuggestedCounts
  <1> QED BY <1>2, <1>3, <1>4
=============================================================================

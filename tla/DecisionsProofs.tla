---------------------------- MODULE DecisionsProofs ----------------------------
(* Theorems about Decisions: what a scan reports and approves, what a      *)
(* build hands over, what an overview conceals and what an approval means. *)
EXTENDS Decisions, FiniteSetTheorems, SequenceTheorems, WellFoundedInduction, TLAPS

-----------------------------------------------------------------------------
(* Arithmetic of the gate                                                  *)

LEMMA RoundIsInt ==
    ASSUME NEW n \in Int, NEW d \in Nat \ {0}
    PROVE  RoundRatio(n, d) \in Int
<1>1. n \div d \in Int /\ n % d \in Int
  OBVIOUS
<1> QED
  BY <1>1 DEF RoundRatio

Ids == {issue.id : issue \in Searchable}
Items == [id : Ids, approved : BOOLEAN, score : Int, reward : Nat]

\* what a risk decision is taken from
LEMMA RiskInputTypes ==
    ASSUME NEW ids, NEW issue \in AnyIssue(ids)
    PROVE  /\ RiskInput(issue).reward \in Nat
           /\ RiskInput(issue).ambiguity \in Nat
           /\ RiskInput(issue).confidence \in {0, 60, 70}
           /\ RiskInput(issue).success = 35 /\ RiskInput(issue).hours = 8
           /\ RiskInput(issue).cash = 0 /\ RiskInput(issue).legal = 1
<1>1. issue.reward \in Nat /\ issue.clarity \in Int /\ issue.plausible \in BOOLEAN
  BY DEF AnyIssue
<1>2. RewardClaim(issue).reward \in Nat
  BY <1>1 DEF RewardClaim
<1>3. RoundRatio(issue.clarity, 10) \in Int
  BY <1>1, RoundIsInt
<1>4. Greatest(0, 10 - RoundRatio(issue.clarity, 10)) \in Nat
  BY <1>3 DEF Greatest
<1>5. Confidence(RewardClaim(issue).reward, issue.labelled) \in {0, 60, 70}
  BY DEF Confidence
<1> QED
  BY <1>2, <1>4, <1>5 DEF RiskInput

LEMMA ItemOfIssue ==
    ASSUME NEW issue \in Searchable, EvaluateIssue(issue) # NoItem
    PROVE  EvaluateIssue(issue) \in Items
<1> DEFINE facts == RiskInput(issue)
<1>1. issue \in AnyIssue(Ids) /\ issue.id \in Ids
  BY ScoutAssumption DEF Ids
<1>2. /\ facts.reward \in Nat /\ facts.ambiguity \in Nat /\ facts.confidence \in {0, 60, 70}
      /\ facts.success = 35 /\ facts.hours = 8 /\ facts.cash = 0 /\ facts.legal = 1
  BY <1>1, RiskInputTypes
<1> HIDE DEF facts
<1>3. EvaluateRisk(facts).score \in Int /\ EvaluateRisk(facts).approved \in BOOLEAN
  <2>1. CASE HardStops(facts)
    BY <2>1 DEF EvaluateRisk
  <2>2. CASE ~HardStops(facts)
    <3>1. 100 * facts.reward \in Nat \ {0}
      <4>1. facts.reward # 0
        BY <1>2, <2>2 DEF HardStops
      <4> QED
        BY <1>2, <4>1
    <3>2. facts.reward * facts.success * facts.confidence \in Int
      BY <1>2
    <3>3. RoundRatio(facts.reward * facts.success * facts.confidence, 100) \in Int
      BY <3>2, RoundIsInt
    <3>4. ExpectedValue(facts) \in Int
      BY <1>2, <3>3 DEF ExpectedValue, HourlyCost
    <3>5. Least(100 * facts.reward, Greatest(0, ExpectedValue(facts))) \in Int
      BY <3>1, <3>4 DEF Least, Greatest
    <3>6. RiskScore(facts) \in Int
      <4> DEFINE value == Least(100 * facts.reward, Greatest(0, ExpectedValue(facts)))
                 fixed == 30 * facts.success + 25 * facts.confidence
                            + 20 * (100 - 10 * facts.ambiguity) + 15 * (100 - 10 * facts.legal)
      <4>1. fixed \in Int
        BY <1>2
      <4>2. RiskScore(facts) = RoundRatio(fixed * facts.reward + 10 * value, 100 * facts.reward)
        BY DEF RiskScore
      <4> HIDE DEF fixed
      <4>3. fixed * facts.reward \in Int
        BY <1>2, <4>1
      <4>4. fixed * facts.reward + 10 * value \in Int
        BY <3>5, <4>3
      <4> QED
        BY <3>1, <4>2, <4>4, RoundIsInt
    <3> QED
      BY <2>2, <3>6 DEF EvaluateRisk
  <2> QED
    BY <2>1, <2>2
<1>4. RewardClaim(issue).reward \in Nat
  BY <1>1 DEF RewardClaim, AnyIssue
<1>5. EvaluateIssue(issue) =
        [id |-> issue.id, approved |-> EvaluateRisk(facts).approved,
         score |-> EvaluateRisk(facts).score, reward |-> RewardClaim(issue).reward]
  BY DEF EvaluateIssue, facts
<1> QED
  BY <1>1, <1>3, <1>4, <1>5 DEF Items

-----------------------------------------------------------------------------
(* The order of the report                                                 *)

\* Above is a strict weak order
LEMMA AboveIsOrder ==
    ASSUME NEW x \in Items, NEW y \in Items, NEW z \in Items
    PROVE  /\ ~Above(x, x)
           /\ Above(x, y) => ~Above(y, x)
           /\ Above(x, y) /\ Above(y, z) => Above(x, z)
           /\ ~Above(x, y) /\ ~Above(y, z) => ~Above(x, z)
<1>1. /\ x.approved \in BOOLEAN /\ x.score \in Int /\ x.reward \in Int
      /\ y.approved \in BOOLEAN /\ y.score \in Int /\ y.reward \in Int
      /\ z.approved \in BOOLEAN /\ z.score \in Int /\ z.reward \in Int
  BY DEF Items
<1> QED
  BY <1>1 DEF Above

Winners(items) ==
  /\ items \in Seq(Items)
  /\ \A i, j \in DOMAIN items : items[i].id = items[j].id => i = j

\* in a strict total order, who is not among the first n has n of them before it
LEMMA RanksFull ==
    ASSUME NEW S, IsFiniteSet(S), NEW n \in Nat, NEW ahead \in [S -> SUBSET S],
           \A x, y, z \in S : x \in ahead[y] /\ y \in ahead[z] => x \in ahead[z],
           \A x \in S : x \notin ahead[x],
           \A x, y \in S : x # y => x \in ahead[y] \/ y \in ahead[x],
           NEW e \in S, ~(Cardinality(ahead[e]) < n)
    PROVE  LET top == {x \in S : Cardinality(ahead[x]) < n} IN
           top \subseteq ahead[e] /\ Cardinality(top) >= n
<1> DEFINE Rank(x) == Cardinality(ahead[x])
           top == {x \in S : Rank(x) < n}
<1>1. \A x \in S : IsFiniteSet(ahead[x]) /\ Rank(x) \in Nat
  BY FS_Subset, FS_CardinalityType
<1>2. ASSUME NEW x \in S, NEW y \in ahead[x] PROVE y \in S /\ Rank(y) < Rank(x)
  <2>1. ahead[y] \in SUBSET ahead[x] /\ ahead[y] # ahead[x] /\ y \in S
    BY <1>2
  <2>2. Rank(y) <= Rank(x) /\ Rank(y) # Rank(x)
    BY <1>1, <2>1, FS_Subset
  <2> QED
    BY <1>1, <2>1, <2>2
<1>3. ASSUME NEW t \in top PROVE t \in ahead[e]
  <2>1. t \in S /\ Rank(t) < n /\ ~(Rank(e) < n)
    OBVIOUS
  <2>2. e \notin ahead[t]
    <3> HIDE DEF Rank
    <3> QED
      BY <1>1, <1>2, <2>1
  <2> QED
    BY <2>1, <2>2
<1>4. Cardinality(top) >= n
  <2> DEFINE N == {k \in Nat : \E x \in S \ top : Rank(x) = k}
  <2>1. N \subseteq Nat /\ N # {}
    BY <1>1
  <2>2. PICK m \in N : \A k \in N : ~(<<k, m>> \in OpToRel(<, Nat))
    BY <2>1, NatLessThanWellFounded, WFMin
  <2>3. PICK x \in S \ top : Rank(x) = m
    BY <2>2
  <2>4. ASSUME NEW y \in ahead[x] PROVE y \in top
    <3>1. y \in S /\ Rank(y) < m /\ Rank(y) \in Nat
      BY <1>1, <1>2, <2>3
    <3>2. Rank(y) \notin N
      BY <1>1, <2>2, <3>1 DEF OpToRel
    <3> QED
      BY <1>1, <3>1, <3>2
  <2>5. IsFiniteSet(top)
    BY FS_Subset
  <2>6. Rank(x) <= Cardinality(top) /\ Cardinality(top) \in Nat
    BY <2>4, <2>5, FS_Subset, FS_CardinalityType
  <2>7. ~(Rank(x) < n)
    BY <2>3
  <2> QED
    BY <1>1, <2>3, <2>6, <2>7
<1> QED
  BY <1>3, <1>4


\* a winner that is cut out has max_items reported ones before it
LEMMA CutOut ==
    ASSUME NEW items, Winners(items), NEW k \in DOMAIN items, k \notin Reported(items)
    PROVE  /\ IsFiniteSet(Reported(items)) /\ Cardinality(Reported(items)) >= MaxItems
           /\ \A j \in Reported(items) : j # k /\ ~Above(items[k], items[j])
<1> DEFINE S == DOMAIN items
           ahead == [x \in S |-> Preceding(items, x)]
<1>1. S = 1 .. Len(items) /\ Len(items) \in Nat /\ \A x \in S : items[x] \in Items
  BY DEF Winners
<1>2. IsFiniteSet(S)
  BY <1>1, FS_Interval
<1>3. ahead \in [S -> SUBSET S]
  BY DEF Preceding
<1>4. \A x, y \in S : x \in ahead[y] <=>
        Above(items[x], items[y]) \/ (x < y /\ ~Above(items[y], items[x]))
  BY DEF Preceding
<1> HIDE DEF ahead, S
<1>5. \A x, y, z \in S : x \in ahead[y] /\ y \in ahead[z] => x \in ahead[z]
  <2> SUFFICES ASSUME NEW x \in S, NEW y \in S, NEW z \in S, x \in ahead[y], y \in ahead[z]
               PROVE  x \in ahead[z]
    OBVIOUS
  <2>1. x \in Int /\ y \in Int /\ z \in Int
    BY <1>1
  <2>2. items[x] \in Items /\ items[y] \in Items /\ items[z] \in Items
    BY <1>1
  <2>3. ~Above(items[y], items[x]) /\ ~Above(items[z], items[y])
    BY <1>4, <2>2, AboveIsOrder
  <2>4. ~Above(items[z], items[x])
    BY <2>2, <2>3, AboveIsOrder
  <2>5. CASE Above(items[x], items[y]) \/ Above(items[y], items[z])
    <3>1. Above(items[x], items[z])
      BY <2>2, <2>3, <2>5, AboveIsOrder
    <3> QED
      BY <1>4, <3>1
  <2>6. CASE x < y /\ y < z
    BY <1>4, <2>1, <2>4, <2>6
  <2> QED
    BY <1>4, <2>5, <2>6
<1>6. \A x \in S : x \notin ahead[x]
  BY <1>1, <1>4, AboveIsOrder
<1>7. \A x, y \in S : x # y => x \in ahead[y] \/ y \in ahead[x]
  BY <1>1, <1>4
<1>8. Reported(items) = {x \in S : Cardinality(ahead[x]) < MaxItems}
  BY DEF Reported, S, ahead
<1>9. k \in S /\ ~(Cardinality(ahead[k]) < MaxItems) /\ MaxItems \in Nat
  BY <1>8, ScoutAssumption DEF S
<1>10. Reported(items) \subseteq ahead[k] /\ Cardinality(Reported(items)) >= MaxItems
  BY <1>2, <1>3, <1>5, <1>6, <1>7, <1>8, <1>9, RanksFull
<1>11. ASSUME NEW j \in Reported(items) PROVE j # k /\ ~Above(items[k], items[j])
  <2>1. j \in S /\ j \in ahead[k]
    BY <1>8, <1>10
  <2> QED
    BY <1>1, <1>4, <1>6, <1>9, <2>1, AboveIsOrder
<1> QED
  BY <1>2, <1>8, <1>10, <1>11, FS_Subset

\* what one turn of deduplicate does to the winners
LEMMA Deduplicated ==
    ASSUME NEW items, Winners(items), NEW item \in Items
    PROVE  LET after == Deduplicate(items, item) IN
           /\ Winners(after)
           /\ \A k \in DOMAIN after : after[k] = item \/ \E j \in DOMAIN items : after[k] = items[j]
           /\ \A k \in DOMAIN items :
                \E j \in DOMAIN after : after[j].id = items[k].id /\ ~Above(items[k], after[j])
           /\ \E j \in DOMAIN after : after[j].id = item.id /\ ~Above(item, after[j])
<1> DEFINE after == Deduplicate(items, item)
           D == DOMAIN items
<1>1. D = 1 .. Len(items) /\ Len(items) \in Nat /\ \A k \in D : items[k] \in Items
  BY DEF Winners
<1>2. \A x \in Items : ~Above(x, x)
  BY AboveIsOrder
<1>3. \A i, j \in D : items[i].id = items[j].id => i = j
  BY DEF Winners
<1>4. CASE Known(items, item)
  <2> DEFINE new(k) == IF items[k].id = item.id /\ Above(item, items[k]) THEN item ELSE items[k]
  <2>1. after = [k \in D |-> new(k)]
    BY <1>4 DEF Deduplicate
  <2>2. \A k \in D : new(k) \in Items /\ new(k).id = items[k].id
    BY <1>1
  <2>3. after \in [1 .. Len(items) -> Items] /\ DOMAIN after = D /\ \A k \in D : after[k] = new(k)
    BY <1>1, <2>1, <2>2
  <2>4. after \in Seq(Items)
    BY <1>1, <2>3, SeqDef
  <2>5. \A k \in D : ~Above(items[k], after[k]) /\ after[k].id = items[k].id
    BY <1>1, <1>2, <2>2, <2>3, AboveIsOrder
  <2>6. \A k \in D : items[k].id = item.id => ~Above(item, after[k])
    BY <1>1, <1>2, <2>3
  <2>7. PICK j \in D : items[j].id = item.id
    BY <1>4 DEF Known
  <2> HIDE DEF after
  <2>8. Winners(after)
    BY <1>3, <2>3, <2>4, <2>5 DEF Winners
  <2>9. \A k \in DOMAIN after : after[k] = item \/ \E i \in D : after[k] = items[i]
    BY <2>3
  <2> HIDE DEF new
  <2>10. \A k \in D : \E i \in DOMAIN after : after[i].id = items[k].id /\ ~Above(items[k], after[i])
    BY <2>3, <2>5
  <2>11. after[j].id = item.id /\ ~Above(item, after[j]) /\ j \in DOMAIN after
    BY <2>3, <2>5, <2>6, <2>7
  <2> QED
    BY <2>8, <2>9, <2>10, <2>11 DEF after
<1>5. CASE ~Known(items, item)
  <2> DEFINE last == Len(items) + 1
  <2>1. after = Append(items, item) /\ items \in Seq(Items)
    BY <1>5 DEF Deduplicate, Winners
  <2>2. /\ after \in Seq(Items) /\ DOMAIN after = 1 .. last /\ after[last] = item
        /\ \A k \in D : after[k] = items[k]
    BY <1>1, <2>1, AppendProperties
  <2>3. \A k \in DOMAIN after : k \in D \/ k = last
    BY <1>1, <2>2
  <2>4. \A k \in D : k \in DOMAIN after /\ items[k].id # item.id
    BY <1>1, <1>5, <2>2 DEF Known
  <2>5. last \in DOMAIN after
    BY <1>1, <2>2
  <2> HIDE DEF after, D, last
  <2>6. Winners(after)
    <3> SUFFICES ASSUME NEW i \in DOMAIN after, NEW j \in DOMAIN after, after[i].id = after[j].id
                 PROVE  i = j
      BY <2>2 DEF Winners
    <3> QED
      BY <1>3, <2>2, <2>3, <2>4
  <2>7. \A k \in DOMAIN after : after[k] = item \/ \E j \in D : after[k] = items[j]
    BY <2>2, <2>3
  <2>8. \A k \in D : \E j \in DOMAIN after : after[j].id = items[k].id /\ ~Above(items[k], after[j])
    BY <1>1, <1>2, <2>2, <2>4
  <2>9. after[last].id = item.id /\ ~Above(item, after[last])
    BY <1>2, <2>2
  <2> QED
    BY <2>5, <2>6, <2>7, <2>8, <2>9 DEF after, D
<1> QED
  BY <1>4, <1>5

-----------------------------------------------------------------------------
(* The scans                                                               *)

\* the winners are evaluations of this scan, one of each issue, and none is outdone
WinnersWin ==
  /\ Winners(winners)
  /\ seen \subseteq Items
  /\ \A k \in DOMAIN winners : winners[k] \in seen
  /\ \A item \in seen :
       \E k \in DOMAIN winners : winners[k].id = item.id /\ ~Above(item, winners[k])

ScanInv ==
  /\ errors \in Nat
  /\ WinnersWin
  /\ phase = "search" => before = approved
  /\ ApprovalFollowsEvidence

LEMMA ReportFinite ==
    ASSUME NEW items, Winners(items)
    PROVE  IsFiniteSet(Reported(items)) /\ IsFiniteSet(Opportunities(items))
<1>1. IsFiniteSet(DOMAIN items)
  <2>1. DOMAIN items = 1 .. Len(items) /\ Len(items) \in Nat
    BY DEF Winners
  <2> QED
    BY <2>1, FS_Interval
<1>2. IsFiniteSet(Reported(items))
  BY <1>1, FS_Subset DEF Reported
<1> DEFINE f == [k \in Reported(items) |-> items[k]]
<1>3. f \in Surjection(Reported(items), Opportunities(items))
  BY DEF Surjection, Opportunities
<1> QED
  BY <1>2, <1>3, FS_Surjection

LEMMA WinnersGiveReport == WinnersWin => StrongestIsReported
<1> SUFFICES ASSUME WinnersWin, NEW item \in seen,
                    ~ \E x \in Opportunities(winners) : x.id = item.id /\ ~Above(item, x)
             PROVE  Cardinality({x \in Opportunities(winners) :
                                   x.id # item.id /\ ~Above(item, x)}) >= MaxItems
  BY DEF StrongestIsReported
<1> DEFINE T == {x \in Opportunities(winners) : x.id # item.id /\ ~Above(item, x)}
           J == Reported(winners)
<1>1. PICK k \in DOMAIN winners : winners[k].id = item.id /\ ~Above(item, winners[k])
  BY DEF WinnersWin
<1>2. /\ item \in Items /\ Winners(winners)
      /\ \A j \in DOMAIN winners : winners[j] \in Items
      /\ \A i, j \in DOMAIN winners : winners[i].id = winners[j].id => i = j
  BY DEF WinnersWin, Winners
<1>3. k \notin J
  BY <1>1 DEF Opportunities
<1>4. /\ IsFiniteSet(J) /\ Cardinality(J) >= MaxItems
      /\ \A j \in J : j # k /\ ~Above(winners[k], winners[j])
  BY <1>1, <1>2, <1>3, CutOut
<1>5. ASSUME NEW j \in J PROVE winners[j] \in T
  <2>1. j \in DOMAIN winners /\ winners[j] \in Opportunities(winners)
    BY DEF Reported, Opportunities
  <2>2. winners[j].id # item.id
    BY <1>1, <1>2, <1>4, <2>1
  <2>3. ~Above(item, winners[j])
    BY <1>1, <1>2, <1>4, <2>1, AboveIsOrder
  <2> QED
    BY <2>1, <2>2, <2>3
<1>6. IsFiniteSet(T)
  BY <1>2, ReportFinite, FS_Subset
<1> DEFINE f == [j \in J |-> winners[j]]
<1>7. f \in Injection(J, T)
  <2>1. f \in [J -> T]
    BY <1>5
  <2>2. J \subseteq DOMAIN winners
    BY DEF Reported
  <2>3. \A i, j \in J : f[i] = f[j] => i = j
    BY <1>2, <2>2
  <2> QED
    BY <2>1, <2>3 DEF Injection, IsInjective
<1>8. Cardinality(J) <= Cardinality(T) /\ Cardinality(J) \in Nat /\ Cardinality(T) \in Nat
  BY <1>4, <1>6, <1>7, FS_Injection, FS_CardinalityType
<1> QED
  BY <1>4, <1>8, ScoutAssumption

LEMMA EvaluateInv ==
    ASSUME WinnersWin, NEW issue \in Searchable, Evaluate(issue)
    PROVE  WinnersWin'
<1> DEFINE item == EvaluateIssue(issue)
<1>1. CASE item = NoItem
  BY <1>1 DEF Evaluate, WinnersWin
<1>2. CASE item # NoItem
  <2>1. item \in Items
    BY <1>2, ItemOfIssue
  <2>2. winners' = Deduplicate(winners, item) /\ seen' = seen \cup {item}
    BY <1>2 DEF Evaluate
  <2>3. /\ Winners(winners) /\ seen \subseteq Items
        /\ \A k \in DOMAIN winners : winners[k] \in seen
        /\ \A x \in seen : \E k \in DOMAIN winners : winners[k].id = x.id /\ ~Above(x, winners[k])
    BY DEF WinnersWin
  <2> HIDE DEF item
  <2> DEFINE after == Deduplicate(winners, item)
  <2>4. /\ Winners(after)
        /\ \A k \in DOMAIN after : after[k] = item \/ \E j \in DOMAIN winners : after[k] = winners[j]
        /\ \A k \in DOMAIN winners :
             \E j \in DOMAIN after : after[j].id = winners[k].id /\ ~Above(winners[k], after[j])
        /\ \E j \in DOMAIN after : after[j].id = item.id /\ ~Above(item, after[j])
    BY <2>1, <2>3, Deduplicated
  <2> HIDE DEF after
  <2>5. \A k \in DOMAIN after : after[k] \in seen \cup {item}
    BY <2>3, <2>4
  <2>6. ASSUME NEW x \in seen \cup {item}
        PROVE  \E j \in DOMAIN after : after[j].id = x.id /\ ~Above(x, after[j])
    <3>1. CASE x = item
      BY <2>4, <3>1
    <3>2. CASE x \in seen
      <4>1. PICK k \in DOMAIN winners : winners[k].id = x.id /\ ~Above(x, winners[k])
        BY <2>3, <3>2
      <4>2. PICK j \in DOMAIN after : after[j].id = winners[k].id /\ ~Above(winners[k], after[j])
        BY <2>4
      <4>3. x \in Items /\ winners[k] \in Items /\ after[j] \in Items
        BY <2>1, <2>3, <2>5, <3>2
      <4>4. ~Above(x, after[j])
        BY <4>1, <4>2, <4>3, AboveIsOrder
      <4> QED
        BY <4>1, <4>2, <4>4
    <3> QED
      BY <3>1, <3>2
  <2>7. seen \cup {item} \subseteq Items
    BY <2>1, <2>3
  <2> QED
    BY <2>2, <2>4, <2>5, <2>6, <2>7 DEF WinnersWin, after
<1> QED
  BY <1>1, <1>2

Saved == {item.id : item \in {i \in Opportunities(winners) : i.approved}}

\* a complete scan that leaves an approved winner out stores max_items approvals
LEMMA CutByApprovals ==
    ASSUME WinnersWin, NEW k \in DOMAIN winners, winners[k].approved, winners[k].id \notin Saved
    PROVE  Cardinality(Saved) >= MaxItems
<1> DEFINE J == Reported(winners)
           f == [j \in J |-> winners[j].id]
<1>1. /\ Winners(winners)
      /\ \A j \in DOMAIN winners : winners[j] \in Items
      /\ \A i, j \in DOMAIN winners : winners[i].id = winners[j].id => i = j
  BY DEF WinnersWin, Winners
<1>2. k \notin J
  BY DEF Saved, Opportunities
<1>3. /\ IsFiniteSet(J) /\ Cardinality(J) >= MaxItems
      /\ \A j \in J : ~Above(winners[k], winners[j])
  BY <1>1, <1>2, CutOut
<1>4. J \subseteq DOMAIN winners
  BY DEF Reported
<1>5. \A j \in J : winners[j].approved
  BY <1>1, <1>3, <1>4 DEF Above, Items
<1>6. \A j \in J : winners[j].id \in Saved
  BY <1>5 DEF Saved, Opportunities
<1>7. \A id \in Saved : \E j \in J : winners[j].id = id
  BY DEF Saved, Opportunities
<1>8. f \in Surjection(J, Saved)
  BY <1>6, <1>7 DEF Surjection
<1>9. f \in Injection(J, Saved)
  BY <1>1, <1>4, <1>6 DEF Injection, IsInjective
<1>10. IsFiniteSet(Saved) /\ Cardinality(Saved) = Cardinality(J)
  BY <1>3, <1>8, <1>9, FS_Surjection
<1> QED
  BY <1>3, <1>10

LEMMA StoresInv == ScanInv /\ ScanStores => ApprovalFollowsEvidence'
<1> SUFFICES ASSUME ScanInv, ScanStores
             PROVE  ApprovalFollowsEvidence'
  OBVIOUS
<1>1. /\ errors' = errors /\ before' = before /\ seen' = seen /\ winners' = winners
      /\ approved' = ScanOnce(winners) /\ before = approved /\ errors \in Nat
  BY DEF ScanStores, ScanInv
<1>2. WinnersWin
  BY DEF ScanInv
<1>3. \A item \in Opportunities(winners) :
        item \in seen /\ item \in Items /\ \E k \in DOMAIN winners : item = winners[k]
  BY <1>2 DEF WinnersWin, Opportunities, Reported
<1>4. approved' = IF errors = 0 THEN Saved
                  ELSE (approved \ {item.id : item \in Opportunities(winners)}) \cup Saved
  BY <1>1 DEF ScanOnce, Saved
<1>5. ASSUME NEW id \in approved' PROVE Approving(id) # {} \/ (errors > 0 /\ id \in before)
  <2>1. CASE id \in Saved
    BY <1>3, <2>1 DEF Saved, Approving
  <2>2. CASE id \notin Saved
    BY <1>1, <1>4, <2>2
  <2> QED
    BY <2>1, <2>2
<1>6. ASSUME NEW id \in before \ approved'
      PROVE  \/ Approving(id) = {} /\ (errors = 0 \/ \E item \in seen : item.id = id)
             \/ errors = 0 /\ Cardinality(approved') >= MaxItems
  <2>1. id \notin Saved
    BY <1>4
  <2>2. ASSUME NEW item \in Approving(id)
        PROVE  \E k \in DOMAIN winners : winners[k].id = id /\ winners[k].approved
    <3>1. item \in seen /\ item.id = id /\ item.approved
      BY DEF Approving
    <3>2. PICK k \in DOMAIN winners : winners[k].id = item.id /\ ~Above(item, winners[k])
      BY <1>2, <3>1 DEF WinnersWin
    <3>3. item \in Items /\ winners[k] \in Items
      BY <1>2, <3>1 DEF WinnersWin
    <3> QED
      BY <3>1, <3>2, <3>3 DEF Above, Items
  <2>3. CASE errors = 0
    <3>1. ASSUME Approving(id) # {} PROVE Cardinality(approved') >= MaxItems
      <4>1. PICK k \in DOMAIN winners : winners[k].id = id /\ winners[k].approved
        BY <2>2, <3>1
      <4> QED
        BY <1>2, <1>4, <2>1, <2>3, <4>1, CutByApprovals
    <3> QED
      BY <2>3, <3>1
  <2>4. CASE errors # 0
    <3>1. PICK item \in Opportunities(winners) : item.id = id
      BY <1>1, <1>4, <2>4
    <3>2. PICK k \in DOMAIN winners : item = winners[k]
      BY <1>3
    <3>3. ~item.approved
      BY <2>1, <3>1 DEF Saved
    <3>4. \A j \in DOMAIN winners : winners[j].id = id => j = k
      BY <1>2, <3>1, <3>2 DEF WinnersWin, Winners
    <3>5. Approving(id) = {}
      BY <2>2, <3>2, <3>3, <3>4
    <3> QED
      BY <1>3, <3>1, <3>5
  <2> QED
    BY <2>3, <2>4
<1>7. \A id : Approving(id)' = Approving(id)
  BY <1>1 DEF Approving
<1> QED
  BY <1>1, <1>5, <1>6, <1>7 DEF ApprovalFollowsEvidence

LEMMA ScanStep == ScanInv /\ [ScanNext]_scanVars => ScanInv'
<1> SUFFICES ASSUME ScanInv, [ScanNext]_scanVars
             PROVE  ScanInv'
  OBVIOUS
<1> USE DEF ScanInv
<1>1. CASE ScanBegin
  <2>1. winners' = <<>> /\ seen' = {} /\ errors' = 0 /\ phase' = "search" /\ before' = approved'
    BY <1>1 DEF ScanBegin
  <2>2. <<>> \in Seq(Items) /\ DOMAIN <<>> = {}
    OBVIOUS
  <2> QED
    BY <2>1, <2>2 DEF WinnersWin, Winners, ApprovalFollowsEvidence
<1>2. CASE QueryFails
  BY <1>2 DEF QueryFails, WinnersWin, ApprovalFollowsEvidence
<1>3. ASSUME NEW issue \in Searchable, Evaluate(issue) PROVE ScanInv'
  <2>1. WinnersWin'
    BY <1>3, EvaluateInv
  <2> QED
    BY <1>3, <2>1 DEF Evaluate, ApprovalFollowsEvidence
<1>4. CASE QueryEnds
  BY <1>4 DEF QueryEnds, WinnersWin, ApprovalFollowsEvidence
<1>5. CASE ScanStores
  <2>1. ApprovalFollowsEvidence'
    BY <1>5, StoresInv
  <2> QED
    BY <1>5, <2>1 DEF ScanStores, WinnersWin
<1>6. CASE ScanRaises
  BY <1>6 DEF ScanRaises, WinnersWin, ApprovalFollowsEvidence
<1>7. CASE UNCHANGED scanVars
  BY <1>7 DEF scanVars, WinnersWin, ApprovalFollowsEvidence, Approving
<1> QED
  BY <1>1, <1>2, <1>3, <1>4, <1>5, <1>6, <1>7 DEF ScanNext

LEMMA ScansHold == Spec => []ScanInv
<1>1. Init => ScanInv
  <2>1. <<>> \in Seq(Items) /\ DOMAIN <<>> = {}
    OBVIOUS
  <2> QED
    BY <2>1 DEF Init, ScanInit, ScanInv, WinnersWin, Winners, ApprovalFollowsEvidence
<1>2. [Next]_<<scanVars, buildVars, part, input>> => [ScanNext]_scanVars
  BY DEF Next
<1> QED
  BY <1>1, <1>2, ScanStep, PTL DEF Spec

(* Whatever issues there are, however many queries find them and wherever  *)
(* the report is cut, no evaluation is lost but to better ones             *)
(* (opportunity_scout.py:53, 124).                                         *)
THEOREM StrongestReported == Spec => []StrongestIsReported
<1>1. ScanInv => StrongestIsReported
  BY WinnersGiveReport DEF ScanInv
<1> QED
  BY <1>1, ScansHold, PTL

(* In any number of scans, approvals come and go on evidence only          *)
(* (app.py:361, store.py:309).                                             *)
THEOREM ApprovalsFollow == Spec => []ApprovalFollowsEvidence
<1>1. ScanInv => ApprovalFollowsEvidence
  BY DEF ScanInv
<1> QED
  BY <1>1, ScansHold, PTL

-----------------------------------------------------------------------------
(* The builds                                                              *)

\* The result is collected from variables that outlive an attempt: after each
\* of them they all speak of the files that it ran, and only the last may pass.
Collected ==
  /\ candidate = ran
  /\ changes = ChangedFiles(job.source, ran) /\ changes # {}
  /\ inspection = Inspect(job.source, ran) /\ inspection.passed

BuildInv ==
  building \in {"trying", "done"} =>
    /\ candidate \in Files /\ attempts \in Seq(Runs)
    /\ attempts # <<>> => Collected
    /\ building = "trying" => /\ Len(attempts) < MaxAttempts
                              /\ \A i \in 1 .. Len(attempts) : attempts[i].status = "FAILED"
    /\ building = "done" => /\ Len(attempts) \in 1 .. MaxAttempts
                            /\ \A i \in 1 .. Len(attempts) - 1 : attempts[i].status = "FAILED"

LEMMA OverlayOfFiles ==
    ASSUME NEW files \in Files, NEW proposed \in Files
    PROVE  Overlay(files, proposed) \in Files
<1> DEFINE Q == Texts \cup {Secret}
           D == DOMAIN files \cup DOMAIN proposed
<1>1. PICK P1 \in SUBSET Paths : files \in [P1 -> Q]
  BY DEF Files
<1>2. PICK P2 \in SUBSET Paths : proposed \in [P2 -> Q]
  BY DEF Files
<1>3. Overlay(files, proposed) \in [D -> Q]
  BY <1>1, <1>2 DEF Overlay
<1>4. D \in SUBSET Paths
  BY <1>1, <1>2
<1> QED
  BY <1>3, <1>4 DEF Files

LEMMA ChangedFinite ==
    ASSUME NEW source, NEW output \in Files
    PROVE  IsFiniteSet(ChangedFiles(source, output))
<1>1. DOMAIN output \in SUBSET Paths
  BY DEF Files
<1>2. ChangedFiles(source, output) \in SUBSET Paths
  BY <1>1 DEF ChangedFiles
<1> QED
  BY <1>2, FS_Subset, JobBuildAssumption

LEMMA AttemptInv ==
    ASSUME BuildInv, NEW proposed \in Files, NEW run \in Runs, Attempt(proposed, run)
    PROVE  BuildInv'
<1> DEFINE combined == Overlay(candidate, proposed)
<1>1. building = "trying"
  BY DEF Attempt
<1>2. /\ candidate \in Files /\ attempts \in Seq(Runs) /\ Len(attempts) < MaxAttempts
      /\ \A i \in 1 .. Len(attempts) : attempts[i].status = "FAILED"
  BY <1>1 DEF BuildInv
<1>3. combined \in Files
  BY <1>2, OverlayOfFiles
<1>4. candidate' = combined /\ ran' = combined /\ job' = job
  BY DEF Attempt, NextCandidate
<1>5. Collected'
  BY <1>4 DEF Attempt, Collected
<1>6. /\ attempts' = Append(attempts, run)
      /\ building' = IF run.status = "PASSED" \/ Len(attempts') = MaxAttempts
                     THEN "done" ELSE "trying"
  BY DEF Attempt
<1> HIDE DEF combined
<1>7. /\ attempts' \in Seq(Runs) /\ Len(attempts') = Len(attempts) + 1
      /\ \A i \in 1 .. Len(attempts) : attempts'[i] = attempts[i]
      /\ attempts'[Len(attempts) + 1] = run
  BY <1>2, <1>6, AppendProperties
<1>8. Len(attempts) \in Nat /\ MaxAttempts \in Nat
  BY <1>2, JobBuildAssumption
<1>9. \A i \in 1 .. Len(attempts') - 1 : attempts'[i].status = "FAILED"
  BY <1>2, <1>7, <1>8
<1>10. Len(attempts') \in 1 .. MaxAttempts
  BY <1>2, <1>7, <1>8
<1>11. ASSUME building' = "trying"
       PROVE  /\ Len(attempts') < MaxAttempts
              /\ \A i \in 1 .. Len(attempts') : attempts'[i].status = "FAILED"
  <2>1. run.status = "FAILED" /\ Len(attempts') # MaxAttempts
    BY <1>6, <1>11 DEF Runs
  <2> QED
    BY <1>2, <1>7, <1>8, <1>10, <2>1
<1> QED
  BY <1>3, <1>4, <1>5, <1>7, <1>9, <1>10, <1>11 DEF BuildInv

LEMMA BuildStep == BuildInv /\ [BuildNext]_buildVars => BuildInv'
<1> SUFFICES ASSUME BuildInv, [BuildNext]_buildVars
             PROVE  BuildInv'
  OBVIOUS
<1>1. ASSUME NEW source \in Files, NEW criteria \in BOOLEAN, BuildBegin(source, criteria)
      PROVE  BuildInv'
  <2>1. candidate' = source /\ attempts' = <<>> /\ building' \in {"trying", "raised"}
    BY <1>1 DEF BuildBegin
  <2>2. <<>> \in Seq(Runs) /\ Len(<<>>) = 0 /\ 0 < MaxAttempts
    BY JobBuildAssumption
  <2> QED
    BY <2>1, <2>2 DEF BuildInv
<1>2. CASE AttemptRaises
  BY <1>2 DEF AttemptRaises, BuildInv
<1>3. ASSUME NEW proposed \in Files, NEW run \in Runs, Attempt(proposed, run)
      PROVE  BuildInv'
  BY <1>3, AttemptInv
<1>4. CASE UNCHANGED buildVars
  BY <1>4 DEF buildVars, BuildInv, Collected
<1> QED
  BY <1>1, <1>2, <1>3, <1>4 DEF BuildNext

LEMMA BuildsHold == BuildInv => ResultIsTested
<1> SUFFICES ASSUME BuildInv, building = "done"
             PROVE  /\ BuildResult.output = ran
                    /\ BuildResult.changed = ChangedFiles(job.source, ran)
                    /\ Cardinality(BuildResult.changed) \in 1 .. MaxChangedFiles
                    /\ \A path \in DOMAIN ran : ran[path] # Secret
                    /\ \A i \in 1 .. Len(attempts) - 1 : attempts[i].status = "FAILED"
                    /\ BuildResult.unanimous <=>
                         /\ BuildResult.status = "AWAITING_DELIVERY_REVIEW"
                         /\ job.criteria /\ LastRun.isolated
  BY DEF ResultIsTested
<1>1. /\ candidate \in Files /\ attempts \in Seq(Runs) /\ Len(attempts) \in 1 .. MaxAttempts
      /\ \A i \in 1 .. Len(attempts) - 1 : attempts[i].status = "FAILED"
  BY DEF BuildInv
<1>2. Collected
  BY <1>1 DEF BuildInv
<1>3. /\ BuildResult.output = candidate /\ BuildResult.changed = changes
      /\ BuildResult.unanimous = Unanimous
      /\ BuildResult.status = "AWAITING_DELIVERY_REVIEW" <=> LastRun.status = "PASSED"
  BY DEF BuildResult
<1>4. IsFiniteSet(changes) /\ Cardinality(changes) \in Nat /\ Cardinality(changes) # 0
  BY <1>1, <1>2, ChangedFinite, FS_CardinalityType, FS_EmptySet DEF Collected
<1>5. /\ inspection.changed = Cardinality(changes)
      /\ Cardinality(changes) <= MaxChangedFiles
      /\ \A path \in DOMAIN ran : ran[path] # Secret
  BY <1>2 DEF Collected, Inspect
<1>6. Len(attempts) \in 1 .. 3
  <2> DEFINE n == Len(attempts)
  <2>1. n \in 1 .. MaxAttempts /\ MaxAttempts \in 1 .. 3
    BY <1>1, JobBuildAssumption
  <2> HIDE DEF n
  <2>2. n \in 1 .. 3
    BY <2>1
  <2> QED
    BY <2>2 DEF n
<1>7. Unanimous <=> job.criteria /\ LastRun.status = "PASSED" /\ LastRun.isolated
  <2>1. inspection.changed <= MaxChangedFiles /\ inspection.passed /\ changes # {}
    BY <1>2, <1>5 DEF Collected
  <2> QED
    BY <1>6, <2>1, Zenon DEF Unanimous
<1>8. Cardinality(changes) \in 1 .. MaxChangedFiles
  BY <1>4, <1>5, JobBuildAssumption
<1> QED
  BY <1>1, <1>2, <1>3, <1>5, <1>7, <1>8 DEF Collected

(* Whatever the model proposes over its attempts and whatever they run     *)
(* into, files, change set, inspection and evidence of a result are of one *)
(* candidate (client_job_builder.py:104).                                  *)
THEOREM ResultTested == Spec => []ResultIsTested
<1>1. Init => BuildInv
  BY DEF Init, BuildInit, BuildInv
<1>2. [Next]_<<scanVars, buildVars, part, input>> => [BuildNext]_buildVars
  BY DEF Next
<1> QED
  BY <1>1, <1>2, BuildStep, BuildsHold, PTL DEF Spec

-----------------------------------------------------------------------------
(* The overviews                                                           *)

LEMMA FunctionIsList ==
    ASSUME NEW S, NEW n \in Nat, NEW f \in [1 .. n -> S]
    PROVE  f \in Seq(S) /\ Len(f) = n
<1>1. f \in Seq(S)
  BY SeqDef
<1> QED
  BY <1>1, LenProperties

LEMMA FourLists ==
    ASSUME NEW S, NEW s \in Seq(S), NEW t \in Seq(S), NEW u \in Seq(S), NEW v \in Seq(S),
           NEW all, all = s \o t \o u \o v
    PROVE  /\ Len(s) \in Nat /\ Len(t) \in Nat /\ Len(u) \in Nat /\ Len(v) \in Nat
           /\ all \in Seq(S) /\ Len(all) = Len(s) + Len(t) + Len(u) + Len(v)
           /\ \A i \in 1 .. Len(s) : all[i] = s[i]
           /\ \A i \in 1 .. Len(t) : all[Len(s) + i] = t[i]
           /\ \A i \in 1 .. Len(u) : all[Len(s) + Len(t) + i] = u[i]
           /\ \A i \in 1 .. Len(v) : all[Len(s) + Len(t) + Len(u) + i] = v[i]
<1> DEFINE st == s \o t
           stu == st \o u
<1>1. Len(s) \in Nat /\ Len(t) \in Nat /\ Len(u) \in Nat /\ Len(v) \in Nat
  BY LenProperties
<1>2. /\ st \in Seq(S) /\ Len(st) = Len(s) + Len(t)
      /\ \A i \in 1 .. Len(s) + Len(t) : st[i] = IF i <= Len(s) THEN s[i] ELSE t[i - Len(s)]
  BY ConcatProperties
<1> HIDE DEF st
<1>3. /\ stu \in Seq(S) /\ Len(stu) = Len(st) + Len(u)
      /\ \A i \in 1 .. Len(st) + Len(u) : stu[i] = IF i <= Len(st) THEN st[i] ELSE u[i - Len(st)]
  <2>1. st \in Seq(S)
    BY <1>2
  <2> QED
    BY <2>1, ConcatProperties
<1> HIDE DEF stu
<1>4. /\ all \in Seq(S) /\ Len(all) = Len(stu) + Len(v)
      /\ \A i \in 1 .. Len(stu) + Len(v) : all[i] = IF i <= Len(stu) THEN stu[i] ELSE v[i - Len(stu)]
  <2>1. stu \in Seq(S) /\ all = stu \o v
    BY <1>3 DEF stu, st
  <2> QED
    BY <2>1, ConcatProperties
<1> DEFINE a == Len(s)
           b == Len(t)
           c == Len(u)
           d == Len(v)
<1>5. /\ a \in Nat /\ b \in Nat /\ c \in Nat /\ d \in Nat
      /\ Len(st) = a + b /\ Len(stu) = a + b + c /\ Len(all) = a + b + c + d
  BY <1>1, <1>2, <1>3, <1>4
<1>6. /\ \A i \in 1 .. a + b : st[i] = IF i <= a THEN s[i] ELSE t[i - a]
      /\ \A i \in 1 .. a + b + c : stu[i] = IF i <= a + b THEN st[i] ELSE u[i - (a + b)]
      /\ \A i \in 1 .. a + b + c + d : all[i] = IF i <= a + b + c THEN stu[i] ELSE v[i - (a + b + c)]
  BY <1>2, <1>3, <1>4, <1>5
<1> HIDE DEF a, b, c, d
<1>7. /\ \A i \in 1 .. a : all[i] = s[i]
      /\ \A i \in 1 .. b : all[a + i] = t[i]
      /\ \A i \in 1 .. c : all[a + b + i] = u[i]
      /\ \A i \in 1 .. d : all[a + b + c + i] = v[i]
  <2>1. \A i \in 1 .. a : all[i] = s[i]
    BY <1>5, <1>6
  <2>2. ASSUME NEW i \in 1 .. b PROVE all[a + i] = t[i]
    <3>1. a + i \in 1 .. a + b /\ a + i \in 1 .. a + b + c /\ a + i \in 1 .. a + b + c + d
      BY <1>5
    <3>2. ~(a + i <= a) /\ a + i <= a + b /\ a + i <= a + b + c /\ (a + i) - a = i
      BY <1>5
    <3> QED
      BY <1>6, <3>1, <3>2
  <2>3. ASSUME NEW i \in 1 .. c PROVE all[a + b + i] = u[i]
    <3>1. a + b + i \in 1 .. a + b + c /\ a + b + i \in 1 .. a + b + c + d
      BY <1>5
    <3>2. ~(a + b + i <= a + b) /\ a + b + i <= a + b + c /\ (a + b + i) - (a + b) = i
      BY <1>5
    <3> QED
      BY <1>6, <3>1, <3>2
  <2>4. ASSUME NEW i \in 1 .. d PROVE all[a + b + c + i] = v[i]
    <3>1. a + b + c + i \in 1 .. a + b + c + d
      BY <1>5
    <3>2. ~(a + b + c + i <= a + b + c) /\ (a + b + c + i) - (a + b + c) = i
      BY <1>5
    <3> QED
      BY <1>6, <3>1, <3>2
  <2> QED
    BY <2>1, <2>2, <2>3, <2>4
<1>8. Len(all) = Len(s) + Len(t) + Len(u) + Len(v)
  BY <1>5 DEF a, b, c, d
<1> QED
  BY <1>1, <1>4, <1>7, <1>8 DEF a, b, c, d

\* one of the first twelve is an action whatever else is
LEMMA RaisedIsFinite ==
    ASSUME NEW all, NEW n \in Nat, DOMAIN all = 1 .. n, NEW k \in DOMAIN all
    PROVE  /\ IsFiniteSet(RaisedBefore(all, k)) /\ Cardinality(RaisedBefore(all, k)) \in Nat
           /\ Cardinality(RaisedBefore(all, k)) < k
<1>1. RaisedBefore(all, k) \in SUBSET (1 .. k - 1)
  BY DEF RaisedBefore, Raised
<1>2. k \in Nat /\ k >= 1
  OBVIOUS
<1>3. IsFiniteSet(1 .. k - 1) /\ Cardinality(1 .. k - 1) = k - 1
  <2> DEFINE m == k - 1
  <2>1. m \in Int /\ 1 \in Int /\ (1 > m => m = 0) /\ m - 1 + 1 = m
    BY <1>2
  <2> HIDE DEF m
  <2>2. IsFiniteSet(1 .. m) /\ Cardinality(1 .. m) = m
    BY <2>1, FS_Interval
  <2> QED
    BY <2>2 DEF m
<1>4. /\ IsFiniteSet(RaisedBefore(all, k)) /\ Cardinality(RaisedBefore(all, k)) \in Nat
      /\ Cardinality(RaisedBefore(all, k)) <= k - 1
  BY <1>1, <1>3, FS_Subset, FS_CardinalityType
<1> QED
  BY <1>2, <1>4

\* the first of what is raised is an action
LEMMA ActionsNotEmpty ==
    ASSUME NEW all, NEW n \in Nat, DOMAIN all = 1 .. n, Raised(all) # {}
    PROVE  ActionCenter(all) # {}
<1>1. Raised(all) \subseteq Nat
  BY DEF Raised
<1>2. PICK k \in Raised(all) : \A j \in Raised(all) : ~(<<j, k>> \in OpToRel(<, Nat))
  BY <1>1, NatLessThanWellFounded, WFMin
<1>3. RaisedBefore(all, k) = {}
  BY <1>1, <1>2 DEF RaisedBefore, OpToRel
<1>4. Cardinality(RaisedBefore(all, k)) < MaxActions
  BY <1>3, FS_EmptySet DEF MaxActions
<1> QED
  BY <1>2, <1>4 DEF ActionCenter

\* what the list of possible actions is made of
Parts(world, view, all, a, b, c) ==
  /\ a \in Nat \ {0} /\ b \in Nat /\ c \in Nat
  /\ DOMAIN world.cloud = 1 .. a /\ DOMAIN world.beats = 1 .. b /\ DOMAIN world.repos = 1 .. c
  /\ DOMAIN all = 1 .. (a + b + c + 5) /\ Len(all) = a + b + c + 5
  /\ \A i \in 1 .. a : all[i] = MonitorSeverity(view.cloud[i])
  /\ \A i \in 1 .. b :
       all[a + i] = When(view.local[i] \in {"waiting", "stale", "degraded"}, "warning")
  /\ \A i \in 1 .. c : all[a + b + i] = When(view.repos[i] = "degraded", "warning")
  /\ all[a + b + c + 1] = When(view.backup # "healthy", "warning")
  /\ all[a + b + c + 2] = AlpacaSeverity(view.alpaca)
  /\ all[a + b + c + 4] = When(view.bounty.model = "no", "warning")

LEMMA ConsideredParts ==
    ASSUME NEW world \in AnyWorld, NEW view, view = View(world), NEW all, all = Considered(view),
           NEW a, a = Len(world.cloud), NEW b, b = Len(world.beats), NEW c, c = Len(world.repos)
    PROVE  Parts(world, view, all, a, b, c)
<1> DEFINE Severity == {"none", "warning", "critical"}
           cloud == [i \in DOMAIN view.cloud |-> MonitorSeverity(view.cloud[i])]
           local == [i \in DOMAIN view.local |->
                       When(view.local[i] \in {"waiting", "stale", "degraded"}, "warning")]
           repos == [i \in DOMAIN view.repos |-> When(view.repos[i] = "degraded", "warning")]
           rest == << When(view.backup # "healthy", "warning"),
                      AlpacaSeverity(view.alpaca),
                      When(view.bounty.worker = "no", "critical"),
                      When(view.bounty.model = "no", "warning"),
                      When(BudgetExhausted(view.bounty.budget), "warning") >>
<1>1. /\ world.cloud \in Seq([critical : BOOLEAN, answer : Answers]) /\ world.cloud # <<>>
      /\ world.beats \in Seq([status : STRING, age : Nat])
      /\ world.repos \in Seq(AnyRepo)
  BY DEF AnyWorld
<1>2. /\ a \in Nat \ {0} /\ b \in Nat /\ c \in Nat
      /\ DOMAIN world.cloud = 1 .. a /\ DOMAIN world.beats = 1 .. b /\ DOMAIN world.repos = 1 .. c
  BY <1>1, LenProperties, EmptySeq
<1>3. DOMAIN view.cloud = 1 .. a /\ DOMAIN view.local = 1 .. b /\ DOMAIN view.repos = 1 .. c
  BY <1>2 DEF View
<1>4. all = cloud \o local \o repos \o rest
  BY DEF Considered
<1>5. cloud \in [1 .. a -> Severity] /\ local \in [1 .. b -> Severity] /\ repos \in [1 .. c -> Severity]
  BY <1>3 DEF MonitorSeverity, When
<1>6. /\ rest \in Seq(Severity) /\ Len(rest) = 5
      /\ rest[1] = When(view.backup # "healthy", "warning")
      /\ rest[2] = AlpacaSeverity(view.alpaca)
      /\ rest[4] = When(view.bounty.model = "no", "warning")
  BY DEF AlpacaSeverity, When
<1>7. /\ \A i \in 1 .. a : cloud[i] = MonitorSeverity(view.cloud[i])
      /\ \A i \in 1 .. b : local[i] =
           When(view.local[i] \in {"waiting", "stale", "degraded"}, "warning")
      /\ \A i \in 1 .. c : repos[i] = When(view.repos[i] = "degraded", "warning")
  BY <1>3
<1> HIDE DEF cloud, local, repos, rest, Severity
<1>8. /\ cloud \in Seq(Severity) /\ local \in Seq(Severity) /\ repos \in Seq(Severity)
      /\ Len(cloud) = a /\ Len(local) = b /\ Len(repos) = c
  BY <1>2, <1>5, FunctionIsList
<1>9. /\ all \in Seq(Severity) /\ Len(all) = Len(cloud) + Len(local) + Len(repos) + Len(rest)
      /\ \A i \in 1 .. Len(cloud) : all[i] = cloud[i]
      /\ \A i \in 1 .. Len(local) : all[Len(cloud) + i] = local[i]
      /\ \A i \in 1 .. Len(repos) : all[Len(cloud) + Len(local) + i] = repos[i]
      /\ \A i \in 1 .. Len(rest) : all[Len(cloud) + Len(local) + Len(repos) + i] = rest[i]
  <2>1. cloud \in Seq(Severity) /\ local \in Seq(Severity) /\ repos \in Seq(Severity)
    BY <1>8
  <2>2. rest \in Seq(Severity)
    BY <1>6
  <2> QED
    BY <1>4, <2>1, <2>2, FourLists, SMTT(30)
<1>10. /\ all \in Seq(Severity) /\ Len(all) = a + b + c + 5
       /\ \A i \in 1 .. a : all[i] = cloud[i]
       /\ \A i \in 1 .. b : all[a + i] = local[i]
       /\ \A i \in 1 .. c : all[a + b + i] = repos[i]
       /\ \A i \in 1 .. 5 : all[a + b + c + i] = rest[i]
  BY <1>6, <1>8, <1>9
<1>11. DOMAIN all = 1 .. (a + b + c + 5)
  BY <1>10, LenProperties
<1>12. 1 \in 1 .. 5 /\ 2 \in 1 .. 5 /\ 4 \in 1 .. 5
  OBVIOUS
<1>13. /\ all[a + b + c + 1] = rest[1] /\ all[a + b + c + 2] = rest[2]
       /\ all[a + b + c + 4] = rest[4]
  BY <1>10, <1>12
<1>14. /\ \A i \in 1 .. a : all[i] = MonitorSeverity(view.cloud[i])
       /\ \A i \in 1 .. b : all[a + i] =
            When(view.local[i] \in {"waiting", "stale", "degraded"}, "warning")
       /\ \A i \in 1 .. c : all[a + b + i] = When(view.repos[i] = "degraded", "warning")
  <2>1. ASSUME NEW i \in 1 .. a PROVE all[i] = MonitorSeverity(view.cloud[i])
    <3>1. all[i] = cloud[i]
      BY <1>10
    <3>2. cloud[i] = MonitorSeverity(view.cloud[i])
      BY <1>7
    <3> QED
      BY <3>1, <3>2
  <2>2. ASSUME NEW i \in 1 .. b
        PROVE  all[a + i] = When(view.local[i] \in {"waiting", "stale", "degraded"}, "warning")
    <3>1. all[a + i] = local[i]
      BY <1>10
    <3>2. local[i] = When(view.local[i] \in {"waiting", "stale", "degraded"}, "warning")
      BY <1>7
    <3> QED
      BY <3>1, <3>2
  <2>3. ASSUME NEW i \in 1 .. c
        PROVE  all[a + b + i] = When(view.repos[i] = "degraded", "warning")
    <3>1. all[a + b + i] = repos[i]
      BY <1>10
    <3>2. repos[i] = When(view.repos[i] = "degraded", "warning")
      BY <1>7
    <3> QED
      BY <3>1, <3>2
  <2> QED
    BY <2>1, <2>2, <2>3, Zenon
<1> QED
  BY <1>2, <1>6, <1>10, <1>11, <1>13, <1>14, Zenon DEF Parts

\* an action that is listed as critical makes the overview critical
LEMMA CriticalAction ==
    ASSUME NEW view, NEW k \in ActionCenter(Considered(view)), Considered(view)[k] = "critical"
    PROVE  Overall(view) = "critical"
<1>1. \E j \in ActionCenter(Considered(view)) : Considered(view)[j] = "critical"
  OBVIOUS
<1> QED
  BY <1>1, Zenon DEF Overall

LEMMA HealthyHidesNothing ==
    ASSUME NEW world \in AnyWorld, Overall(View(world)) = "healthy"
    PROVE  AllGood(world)
<1>1. PICK view, all : view = View(world) /\ all = Considered(view)
  OBVIOUS
<1>2. PICK a, b, c : a = Len(world.cloud) /\ b = Len(world.beats) /\ c = Len(world.repos)
  OBVIOUS
<1>3. Parts(world, view, all, a, b, c)
  BY <1>1, <1>2, ConsideredParts
<1>4. ActionCenter(all) = {}
  BY <1>1 DEF Overall
<1>5. Raised(all) = {}
  <2>1. a + b + c + 5 \in Nat /\ DOMAIN all = 1 .. (a + b + c + 5)
    BY <1>3 DEF Parts
  <2> QED
    BY <1>4, <2>1, ActionsNotEmpty
<1>6. \A k \in 1 .. (a + b + c + 5) : all[k] = "none"
  BY <1>3, <1>5 DEF Parts, Raised
<1>7. /\ \A i \in DOMAIN world.cloud : MonitorSeverity(view.cloud[i]) = "none"
      /\ \A i \in DOMAIN world.beats :
           When(view.local[i] \in {"waiting", "stale", "degraded"}, "warning") = "none"
      /\ \A i \in DOMAIN world.repos : When(view.repos[i] = "degraded", "warning") = "none"
      /\ When(view.backup # "healthy", "warning") = "none"
      /\ AlpacaSeverity(view.alpaca) = "none"
      /\ When(view.bounty.model = "no", "warning") = "none"
  <2>1. a \in Nat \ {0} /\ b \in Nat /\ c \in Nat
    BY <1>3 DEF Parts
  <2>2. /\ \A i \in 1 .. a : all[i] = "none"
        /\ \A i \in 1 .. b : all[a + i] = "none"
        /\ \A i \in 1 .. c : all[a + b + i] = "none"
        /\ all[a + b + c + 1] = "none" /\ all[a + b + c + 2] = "none" /\ all[a + b + c + 4] = "none"
    BY <1>6, <2>1
  <2>3. \A i \in DOMAIN world.cloud : MonitorSeverity(view.cloud[i]) = "none"
    BY <1>3, <2>2, Zenon DEF Parts
  <2>4. \A i \in DOMAIN world.beats :
          When(view.local[i] \in {"waiting", "stale", "degraded"}, "warning") = "none"
    BY <1>3, <2>2, Zenon DEF Parts
  <2>5. ASSUME NEW i \in DOMAIN world.repos
        PROVE  When(view.repos[i] = "degraded", "warning") = "none"
    <3>1. i \in 1 .. c /\ all[a + b + i] = When(view.repos[i] = "degraded", "warning")
      BY <1>3, Zenon DEF Parts
    <3> QED
      BY <2>2, <3>1, Zenon
  <2>6. /\ When(view.backup # "healthy", "warning") = "none"
        /\ AlpacaSeverity(view.alpaca) = "none"
        /\ When(view.bounty.model = "no", "warning") = "none"
    BY <1>3, <2>2, Zenon DEF Parts
  <2> QED
    BY <2>3, <2>4, <2>5, <2>6
<1>8. ASSUME NEW i \in DOMAIN world.cloud PROVE world.cloud[i].answer \in {"ok", "silent"}
  <2>1. MonitorSeverity(view.cloud[i]) = "none"
    BY <1>7
  <2>2. view.cloud[i].status = MonitorStatus(world.cloud[i].critical, world.cloud[i].answer)
    BY <1>1 DEF View
  <2>3. view.cloud[i].status \notin {"down", "degraded"}
    BY <2>1 DEF MonitorSeverity
  <2> QED
    BY <2>2, <2>3 DEF MonitorStatus, ClassifyPayload
<1>9. ASSUME NEW i \in DOMAIN world.beats
      PROVE  world.beats[i].status \in Good /\ world.beats[i].age <= 180
  <2>1. When(view.local[i] \in {"waiting", "stale", "degraded"}, "warning") = "none"
    BY <1>7
  <2>2. BeatStatus(world.beats[i]) \notin {"waiting", "stale", "degraded"}
    BY <1>1, <2>1 DEF View, When
  <2>3. ~(world.beats[i].age > 180) /\ world.beats[i].status \in Good
    BY <2>2 DEF BeatStatus, StaleAfter
  <2>4. world.beats[i].age \in Nat
    <3>1. world.beats \in Seq([status : STRING, age : Nat])
      BY DEF AnyWorld
    <3>2. world.beats[i] \in [status : STRING, age : Nat]
      BY <3>1, ElementOfSeq, LenProperties
    <3> QED
      BY <3>2
  <2> QED
    BY <2>3, <2>4
<1>10. ASSUME NEW i \in DOMAIN world.repos
       PROVE  world.repos[i].ci # "failed" /\ world.repos[i].commit \in {"found", "missing"}
  <2>1. When(view.repos[i] = "degraded", "warning") = "none"
    BY <1>7
  <2>2. RepositoryStatus(world.repos[i].private, world.token,
                         world.repos[i].commit, world.repos[i].ci) # "degraded"
    BY <1>1, <2>1 DEF View, When
  <2>3. world.repos[i] \in AnyRepo
    <3>1. world.repos \in Seq(AnyRepo)
      BY DEF AnyWorld
    <3> QED
      BY <3>1, ElementOfSeq, LenProperties
  <2> QED
    BY <2>2, <2>3 DEF RepositoryStatus, AnyRepo
<1>11. world.backup = "healthy"
  BY <1>1, <1>7 DEF View, When
<1>12. /\ world.alpaca.connected /\ world.alpaca.answer \in {"ok", "warning", "silent"}
       /\ world.alpaca.mode \in {"", "PAPER"} /\ world.alpaca.failures = 0
  <2>1. AlpacaSeverity(view.alpaca) = "none"
    BY <1>7
  <2>2. /\ view.alpaca.status = AlpacaStatus(world.alpaca.connected, world.alpaca.answer)
        /\ view.alpaca.mode = world.alpaca.mode /\ view.alpaca.failures = world.alpaca.failures
    BY <1>1 DEF View
  <2>3. /\ view.alpaca.status = "healthy" /\ view.alpaca.mode \in {"", "PAPER"}
        /\ ~(view.alpaca.failures > 0)
    BY <2>1 DEF AlpacaSeverity, When
  <2>4. world.alpaca.failures = 0
    <3>1. world.alpaca.failures \in Nat
      BY DEF AnyWorld
    <3>2. ~(world.alpaca.failures > 0)
      BY <2>2, <2>3, Zenon
    <3> QED
      BY <3>1, <3>2
  <2>5. world.alpaca.connected /\ world.alpaca.answer \in {"ok", "warning", "silent"}
    BY <2>2, <2>3 DEF AlpacaStatus
  <2> QED
    BY <2>2, <2>3, <2>4, <2>5
<1>13. world.details.model = "yes"
  <2>1. world.cloud[1].answer \in {"ok", "silent"}
    <3>1. 1 \in DOMAIN world.cloud
      BY <1>3 DEF Parts
    <3> QED
      BY <1>8, <3>1
  <2>2. view.bounty.model = world.details.model
    BY <1>1, <2>1 DEF View, SummarizeBounty
  <2>3. view.bounty.model # "no"
    BY <1>7 DEF When
  <2>4. world.details.model \in {"yes", "no"}
    BY DEF AnyWorld
  <2> QED
    BY <2>2, <2>3, <2>4
<1> QED
  BY <1>8, <1>9, <1>10, <1>11, <1>12, <1>13 DEF AllGood

LEMMA OutageIsCritical ==
    ASSUME NEW world \in AnyWorld, NEW i \in DOMAIN world.cloud,
           MonitorStatus(world.cloud[i].critical, world.cloud[i].answer) = "down",
           world.cloud[i].critical \/ i <= MaxActions
    PROVE  Overall(View(world)) = "critical"
<1>1. PICK view, all : view = View(world) /\ all = Considered(view)
  OBVIOUS
<1>2. PICK a, b, c : a = Len(world.cloud) /\ b = Len(world.beats) /\ c = Len(world.repos)
  OBVIOUS
<1>3. /\ a \in Nat \ {0} /\ b \in Nat /\ c \in Nat
      /\ DOMAIN world.cloud = 1 .. a /\ DOMAIN all = 1 .. (a + b + c + 5)
      /\ \A k \in 1 .. a : all[k] = MonitorSeverity(view.cloud[k])
  <2>1. Parts(world, view, all, a, b, c)
    BY <1>1, <1>2, ConsideredParts
  <2> QED
    BY <2>1 DEF Parts
<1>4. /\ view.cloud[i].status = "down" /\ view.cloud[i].critical = world.cloud[i].critical
      /\ DOMAIN view.cloud = DOMAIN world.cloud
  BY <1>1 DEF View
<1>5. CASE world.cloud[i].critical
  <2>1. ComputeOverall(view.cloud, view.local, view.repos) = "critical"
    BY <1>4, <1>5 DEF ComputeOverall
  <2> QED
    BY <1>1, <2>1 DEF Overall
<1>6. CASE i <= MaxActions
  <2>1. all[i] = "critical"
    BY <1>3, <1>4 DEF MonitorSeverity
  <2>2. i \in DOMAIN all /\ i \in Nat /\ a + b + c + 5 \in Nat
    BY <1>3
  <2>3. Cardinality(RaisedBefore(all, i)) \in Nat /\ Cardinality(RaisedBefore(all, i)) < i
    BY <1>3, <2>2, RaisedIsFinite
  <2>4. i \in ActionCenter(all)
    BY <1>6, <2>1, <2>2, <2>3 DEF ActionCenter, Raised, MaxActions
  <2> QED
    BY <1>1, <2>1, <2>4, CriticalAction
<1> QED
  BY <1>5, <1>6

LEMMA MoneyIsCritical ==
    ASSUME NEW world \in AnyWorld
    PROVE  LiveIsCritical(world)
<1>1. PICK view, all : view = View(world) /\ all = Considered(view)
  OBVIOUS
<1>2. PICK a, b, c : a = Len(world.cloud) /\ b = Len(world.beats) /\ c = Len(world.repos)
  OBVIOUS
<1>3. PICK place : place = Len(all) - 3
  OBVIOUS
<1>4. SUFFICES ASSUME view.alpaca.status = "healthy", view.alpaca.mode \notin {"", "PAPER"},
                      ~(Cardinality(RaisedBefore(all, place)) >= MaxActions)
               PROVE  Overall(view) = "critical"
  BY <1>1, <1>3 DEF LiveIsCritical
<1>5. /\ a \in Nat \ {0} /\ b \in Nat /\ c \in Nat
      /\ DOMAIN all = 1 .. (a + b + c + 5) /\ Len(all) = a + b + c + 5
      /\ all[a + b + c + 2] = AlpacaSeverity(view.alpaca)
  <2>1. Parts(world, view, all, a, b, c)
    BY <1>1, <1>2, ConsideredParts
  <2> QED
    BY <2>1 DEF Parts
<1>6. AlpacaSeverity(view.alpaca) = "critical"
  BY <1>4 DEF AlpacaSeverity
<1>7. place = a + b + c + 2 /\ place \in DOMAIN all /\ a + b + c + 5 \in Nat
  BY <1>3, <1>5
<1>8. all[place] = "critical"
  BY <1>5, <1>6, <1>7
<1>9. Cardinality(RaisedBefore(all, place)) \in Nat
  BY <1>5, <1>7, RaisedIsFinite
<1>10. place \in ActionCenter(all)
  <2>1. Cardinality(RaisedBefore(all, place)) < MaxActions
    <3>1. \A n \in Nat : ~(n >= MaxActions) => n < MaxActions
      BY DEF MaxActions
    <3> QED
      BY <1>4, <1>9, <3>1, Zenon
  <2> QED
    BY <1>7, <1>8, <2>1 DEF ActionCenter, Raised
<1> QED
  BY <1>1, <1>8, <1>10, CriticalAction

(* Whatever the endpoints, the local systems and the repositories say, and *)
(* however many there are, "healthy" hides nothing and the list that is    *)
(* cut at twelve conceals no outage (ops_dashboard/app.py:823, 926).       *)
THEOREM OverallHonest == Spec => []OverallIsHonest
<1>1. ASSUME NEW world \in AnyWorld
      PROVE  HidesNothing(world) /\ DownIsCritical(world) /\ LiveIsCritical(world)
  BY HealthyHidesNothing, OutageIsCritical, MoneyIsCritical DEF HidesNothing, DownIsCritical
<1> DEFINE Told == part = "overview" => input \in Worlds
<1>2. Init => Told
  BY DEF Init
<1>3. Told /\ [Next]_<<scanVars, buildVars, part, input>> => Told'
  BY DEF Next
<1>4. Told => OverallIsHonest
  BY <1>1, DecisionsAssumption DEF OverallIsHonest
<1> HIDE DEF Told
<1> QED
  BY <1>2, <1>3, <1>4, PTL DEF Spec

-----------------------------------------------------------------------------
(* The gate                                                                *)

LEMMA DivMod ==
    ASSUME NEW n \in Int, NEW d \in Nat \ {0}
    PROVE  /\ n \div d \in Int /\ n % d \in 0 .. d - 1
           /\ n = (d * (n \div d)) + (n % d)
OBVIOUS

LEMMA ProductGrows ==
    ASSUME NEW d \in Nat, NEW x \in Int, NEW y \in Int, x <= y
    PROVE  d * x <= d * y
OBVIOUS

\* rounding to the even neighbour reaches an odd number only from above its half
LEMMA RoundReaches55 ==
    ASSUME NEW n \in Int, NEW d \in Nat \ {0}
    PROVE  RoundRatio(n, d) >= 55 <=> 2 * n > 109 * d
<1>1. PICK low, rest : low = n \div d /\ rest = n % d
  OBVIOUS
<1>2. low \in Int /\ rest \in 0 .. d - 1 /\ n = d * low + rest
  BY <1>1, DivMod
<1>3. RoundRatio(n, d) = IF 2 * rest > d \/ (2 * rest = d /\ low % 2 = 1) THEN low + 1 ELSE low
  BY <1>1 DEF RoundRatio
<1>4. CASE low <= 53
  <2>1. d * low <= d * 53
    BY <1>2, <1>4, ProductGrows
  <2> QED
    BY <1>2, <1>3, <1>4, <2>1
<1>5. CASE low = 54
  <2>1. d * low = 54 * d
    BY <1>5
  <2> QED
    BY <1>2, <1>3, <1>5, <2>1
<1>6. CASE low >= 55
  <2>1. d * 55 <= d * low
    BY <1>2, <1>6, ProductGrows
  <2> QED
    BY <1>2, <1>3, <1>6, <2>1
<1> QED
  BY <1>2, <1>4, <1>5, <1>6

LEMMA RoundGrows ==
    ASSUME NEW m \in Int, NEW n \in Int, m <= n, NEW d \in Nat \ {0}
    PROVE  RoundRatio(m, d) <= RoundRatio(n, d)
<1>1. PICK lowM, restM : lowM = m \div d /\ restM = m % d
  OBVIOUS
<1>2. PICK lowN, restN : lowN = n \div d /\ restN = n % d
  OBVIOUS
<1>3. lowM \in Int /\ restM \in 0 .. d - 1 /\ m = d * lowM + restM
  BY <1>1, DivMod
<1>4. lowN \in Int /\ restN \in 0 .. d - 1 /\ n = d * lowN + restN
  BY <1>2, DivMod
<1>5. RoundRatio(m, d) = IF 2 * restM > d \/ (2 * restM = d /\ lowM % 2 = 1) THEN lowM + 1 ELSE lowM
  BY <1>1 DEF RoundRatio
<1>6. RoundRatio(n, d) = IF 2 * restN > d \/ (2 * restN = d /\ lowN % 2 = 1) THEN lowN + 1 ELSE lowN
  BY <1>2 DEF RoundRatio
<1>7. lowM <= lowN
  <2>1. CASE lowN + 1 <= lowM
    <3>1. d * (lowN + 1) <= d * lowM
      BY <1>3, <1>4, <2>1, ProductGrows
    <3>2. d * (lowN + 1) = d * lowN + d
      BY <1>4
    <3> QED
      BY <1>3, <1>4, <3>1, <3>2
  <2> QED
    BY <1>3, <1>4, <2>1
<1>8. CASE lowM + 1 <= lowN
  BY <1>3, <1>4, <1>5, <1>6, <1>8
<1>9. CASE lowM = lowN
  <2>1. restM <= restN
    BY <1>3, <1>4, <1>9
  <2> QED
    BY <1>3, <1>4, <1>5, <1>6, <1>9, <2>1
<1> QED
  BY <1>3, <1>4, <1>7, <1>8, <1>9

\* what rounding to whole cents does
LEMMA RoundHundreds ==
    ASSUME NEW n \in Nat
    PROVE  /\ RoundRatio(n, 100) \in Int
           /\ 100 * RoundRatio(n, 100) <= n + 50 /\ n - 50 <= 100 * RoundRatio(n, 100)
           /\ n % 100 = 0 => 100 * RoundRatio(n, 100) = n
<1>1. PICK low, rest : low = n \div 100 /\ rest = n % 100
  OBVIOUS
<1>2. low \in Int /\ rest \in 0 .. 99 /\ n = 100 * low + rest
  BY <1>1
<1>3. RoundRatio(n, 100)
        = IF 2 * rest > 100 \/ (2 * rest = 100 /\ low % 2 = 1) THEN low + 1 ELSE low
  BY <1>1 DEF RoundRatio
<1>4. n % 100 = rest
  BY <1>1
<1> QED
  BY <1>2, <1>3, <1>4

\* the expected value and the score of an issue that passed the hard stops
Value(reward, confidence) == RoundRatio(reward * 35 * confidence, 100) - 2400
Score(reward, confidence, ambiguity) ==
  RoundRatio((30 * 35 + 25 * confidence + 20 * (100 - 10 * ambiguity) + 15 * 90) * reward
               + 10 * Least(100 * reward, Greatest(0, Value(reward, confidence))),
             100 * reward)
Worth(reward, confidence, ambiguity) ==
  Value(reward, confidence) >= 100 /\ Score(reward, confidence, ambiguity) >= 55

LEMMA ValueBounds ==
    ASSUME NEW r \in Nat
    PROVE  /\ Value(r, 60) = 21 * r - 2400
           /\ Value(r, 70) \in Int
           /\ 2 * Value(r, 70) <= 49 * r + 1 - 4800
           /\ 49 * r - 1 - 4800 <= 2 * Value(r, 70)
<1>1. r * 35 * 60 = 2100 * r /\ r * 35 * 70 = 2450 * r /\ 2100 * r \in Nat /\ 2450 * r \in Nat
  OBVIOUS
<1>2. (2100 * r) % 100 = 0
  OBVIOUS
<1>3. 100 * RoundRatio(2100 * r, 100) = 2100 * r /\ RoundRatio(2100 * r, 100) \in Int
  BY <1>1, <1>2, RoundHundreds
<1>4. /\ RoundRatio(2450 * r, 100) \in Int
      /\ 100 * RoundRatio(2450 * r, 100) <= 2450 * r + 50
      /\ 2450 * r - 50 <= 100 * RoundRatio(2450 * r, 100)
  BY <1>1, RoundHundreds
<1>5. /\ Value(r, 60) = RoundRatio(2100 * r, 100) - 2400
      /\ Value(r, 70) = RoundRatio(2450 * r, 100) - 2400
  BY <1>1 DEF Value
<1> QED
  BY <1>3, <1>4, <1>5

\* the score reaches its limit when the return on the effort makes up for the rest
LEMMA ScoreEnough ==
    ASSUME NEW r \in Nat \ {0}, NEW c \in {60, 70}, NEW a \in 0 .. 6, Value(r, c) >= 100
    PROVE  Score(r, c, a) >= 55 <=> 20 * Value(r, c) > (2100 - 50 * c + 400 * a) * r
<1>1. Value(r, c) \in Int /\ Value(r, c) <= 100 * r
  <2>1. CASE c = 60
    <3>1. Value(r, 60) = 21 * r - 2400
      BY ValueBounds
    <3> QED
      BY <2>1, <3>1
  <2>2. CASE c = 70
    <3>1. Value(r, 70) \in Int /\ 2 * Value(r, 70) <= 49 * r + 1 - 4800
      BY ValueBounds
    <3>2. 49 * r + 1 - 4800 <= 200 * r
      OBVIOUS
    <3> QED
      BY <2>2, <3>1, <3>2
  <2> QED
    BY <2>1, <2>2
<1>2. Least(100 * r, Greatest(0, Value(r, c))) = Value(r, c)
  BY <1>1 DEF Least, Greatest
<1>3. PICK fixed : fixed = 30 * 35 + 25 * c + 20 * (100 - 10 * a) + 15 * 90
  OBVIOUS
<1>4. fixed \in Int /\ 10900 - 2 * fixed = 2100 - 50 * c + 400 * a
  BY <1>3
<1>5. Score(r, c, a) = RoundRatio(fixed * r + 10 * Value(r, c), 100 * r)
  BY <1>2, <1>3 DEF Score
<1>6. fixed * r + 10 * Value(r, c) \in Int /\ 100 * r \in Nat \ {0}
  BY <1>1, <1>4
<1>7. Score(r, c, a) >= 55 <=> 2 * (fixed * r + 10 * Value(r, c)) > 109 * (100 * r)
  BY <1>5, <1>6, RoundReaches55
<1>8. 2 * (fixed * r + 10 * Value(r, c)) = 2 * (fixed * r) + 20 * Value(r, c)
  BY <1>1, <1>4
<1>9. (10900 - 2 * fixed) * r = 10900 * r - 2 * (fixed * r)
  BY <1>4
<1>10. fixed * r \in Int
  BY <1>4
<1> QED
  BY <1>1, <1>4, <1>7, <1>8, <1>9, <1>10

\* The expected value is a line in the reward, and beyond a rounding its score is
\* too: what is above the line k at r is above it at a higher reward.
LEMMA LineGrows ==
    ASSUME NEW r \in Nat \ {0}, NEW s \in Nat \ {0}, r <= s, NEW k \in Int,
           420 * r - 48000 > k * r
    PROVE  420 * s - 48000 > k * s
<1>1. PICK q : q = 420 - k
  OBVIOUS
<1>2. q \in Int /\ r * q = 420 * r - k * r /\ s * q = 420 * s - k * s
  BY <1>1
<1>3. k * r \in Int /\ k * s \in Int /\ r * q \in Int /\ s * q \in Int
  BY <1>2
<1>4. r * q > 48000
  BY <1>2, <1>3
<1>5. q >= 0
  <2>1. CASE q <= 0
    <3>1. r * q <= r * 0
      BY <1>2, <2>1, ProductGrows
    <3> QED
      BY <1>3, <1>4, <3>1
  <2> QED
    BY <1>2, <2>1
<1>6. q * r <= q * s /\ q * r = r * q /\ q * s = s * q
  BY <1>2, <1>5, ProductGrows
<1> QED
  BY <1>2, <1>3, <1>4, <1>6

LEMMA RoundedLineGrows ==
    ASSUME NEW r \in Nat \ {0}, NEW s \in Nat \ {0}, r < s, NEW k \in Int,
           490 - k > 0 => 490 - k >= 20,
           490 * r + 10 - 48000 > k * r
    PROVE  490 * s - 10 - 48000 > k * s
<1>1. PICK q : q = 490 - k
  OBVIOUS
<1>2. q \in Int /\ r * q = 490 * r - k * r /\ s * q = 490 * s - k * s
  BY <1>1
<1>3. k * r \in Int /\ k * s \in Int /\ r * q \in Int /\ s * q \in Int
  BY <1>2
<1>4. r * q > 47990
  BY <1>2, <1>3
<1>5. q >= 20
  <2>1. CASE q <= 0
    <3>1. r * q <= r * 0
      BY <1>2, <2>1, ProductGrows
    <3> QED
      BY <1>3, <1>4, <3>1
  <2> QED
    BY <1>1, <1>2, <2>1
<1>6. q * (r + 1) <= q * s /\ q * (r + 1) = r * q + q /\ q * s = s * q
  <2>1. q \in Nat /\ r + 1 \in Int /\ r + 1 <= s
    BY <1>2, <1>5
  <2>2. q * (r + 1) <= q * s
    BY <2>1, ProductGrows
  <2> QED
    BY <1>2, <2>2
<1> QED
  BY <1>2, <1>3, <1>4, <1>5, <1>6

\* a higher reward is worth the effort of a lower one
LEMMA WorthReward ==
    ASSUME NEW r \in Nat \ {0}, NEW s \in Nat \ {0}, r <= s, NEW c \in {60, 70}, NEW a \in 0 .. 6,
           Worth(r, c, a)
    PROVE  Worth(s, c, a)
<1>1. PICK k : k = 2100 - 50 * c + 400 * a
  OBVIOUS
<1>2. k \in Int /\ (c = 70 => k = 400 * a - 1400)
  BY <1>1
<1>3. Value(r, c) >= 100 /\ 20 * Value(r, c) > k * r
  BY <1>1, ScoreEnough DEF Worth
<1>4. SUFFICES Value(s, c) >= 100 /\ 20 * Value(s, c) > k * s
  BY <1>1, ScoreEnough DEF Worth
<1>5. k * r \in Int /\ k * s \in Int
  BY <1>2
<1>6. CASE c = 60
  <2>1. Value(r, c) = 21 * r - 2400 /\ Value(s, c) = 21 * s - 2400
    BY <1>6, ValueBounds
  <2>2. 420 * r - 48000 > k * r
    BY <1>3, <1>5, <2>1
  <2>3. 420 * s - 48000 > k * s
    BY <1>2, <2>2, LineGrows
  <2> QED
    BY <1>3, <1>5, <2>1, <2>3
<1>7. CASE c = 70 /\ r < s
  <2>1. /\ Value(r, c) \in Int /\ Value(s, c) \in Int
        /\ 2 * Value(r, c) <= 49 * r + 1 - 4800
        /\ 49 * s - 1 - 4800 <= 2 * Value(s, c)
    <3>1. Value(r, 70) \in Int /\ 2 * Value(r, 70) <= 49 * r + 1 - 4800
      BY ValueBounds
    <3>2. Value(s, 70) \in Int /\ 49 * s - 1 - 4800 <= 2 * Value(s, 70)
      BY ValueBounds
    <3>3. c = 70
      BY <1>7
    <3> QED
      BY <3>1, <3>2, <3>3
  <2>2. 490 - k > 0 => 490 - k >= 20
    BY <1>2, <1>7
  <2>3. 490 * r + 10 - 48000 > k * r
    BY <1>3, <1>5, <2>1
  <2>4. 490 * s - 10 - 48000 > k * s
    BY <1>2, <1>7, <2>2, <2>3, RoundedLineGrows
  <2>5. Value(s, c) >= 100
    BY <1>3, <1>7, <2>1
  <2>6. 20 * Value(s, c) > k * s
    BY <1>5, <2>1, <2>4
  <2> QED
    BY <2>5, <2>6
<1>8. CASE r = s
  BY <1>3, <1>8
<1> QED
  BY <1>6, <1>7, <1>8

\* so are a clearer issue and one with a label
LEMMA WorthEvidence ==
    ASSUME NEW r \in Nat \ {0}, NEW c \in {60, 70}, NEW d \in {60, 70}, c <= d,
           NEW a \in 0 .. 6, NEW b \in 0 .. 6, b <= a,
           Worth(r, c, a)
    PROVE  Worth(r, d, b)
<1>1. Value(r, c) >= 100 /\ 20 * Value(r, c) > (2100 - 50 * c + 400 * a) * r
  BY ScoreEnough DEF Worth
<1>2. Value(r, c) \in Int /\ Value(r, d) \in Int /\ Value(r, c) <= Value(r, d)
  <2>1. Value(r, 60) = 21 * r - 2400
    BY ValueBounds
  <2>5. Value(r, 70) \in Int /\ 49 * r - 1 - 4800 <= 2 * Value(r, 70)
    BY ValueBounds
  <2>2. Value(r, 60) \in Int /\ Value(r, 60) <= Value(r, 70)
    BY <2>1, <2>5
  <2>3. CASE c = d
    BY <2>2, <2>3, <2>5
  <2>4. CASE c = 60 /\ d = 70
    BY <2>2, <2>4, <2>5
  <2> QED
    BY <2>3, <2>4
<1>3. PICK k, m : k = 2100 - 50 * c + 400 * a /\ m = 2100 - 50 * d + 400 * b
  OBVIOUS
<1>4. k \in Int /\ m \in Int /\ m <= k
  BY <1>3
<1>5. r * m <= r * k /\ r * m = m * r /\ r * k = k * r
  BY <1>4, ProductGrows
<1>6. 20 * Value(r, d) > m * r
  <2>1. k * r \in Int /\ m * r \in Int
    BY <1>4
  <2>2. 20 * Value(r, c) > k * r
    BY <1>1, <1>3
  <2> QED
    BY <1>2, <1>5, <2>1, <2>2
<1>7. Value(r, d) >= 100
  BY <1>1, <1>2
<1> QED
  BY <1>3, <1>6, <1>7, ScoreEnough DEF Worth

-----------------------------------------------------------------------------
(* What an approval means                                                  *)

Unclear(clarity) == Greatest(0, 10 - RoundRatio(clarity, 10))
Trust(labelled) == IF labelled THEN 70 ELSE 60

\* what the gate approves
Gate(issue) ==
  /\ issue.plausible /\ issue.license /\ ~issue.assigned
  /\ issue.timeline \in {"read", "long", "unreadable"}
  /\ Competition(issue).linked <= MaxCompeting
  /\ issue.reward \in 1 .. MaxReward /\ Unclear(issue.clarity) \in 0 .. MaxAmbiguity
  /\ Worth(issue.reward, Trust(issue.labelled), Unclear(issue.clarity))

LEMMA UnclearTypes ==
    ASSUME NEW c \in 0 .. 100, NEW d \in 0 .. 100, c <= d
    PROVE  Unclear(c) \in Nat /\ Unclear(d) \in Nat /\ Unclear(d) <= Unclear(c)
<1>1. RoundRatio(c, 10) \in Int /\ RoundRatio(d, 10) \in Int
  BY RoundIsInt
<1>2. RoundRatio(c, 10) <= RoundRatio(d, 10)
  BY RoundGrows
<1> QED
  BY <1>1, <1>2 DEF Unclear, Greatest

LEMMA IssueTypes ==
    ASSUME NEW issue \in Issues
    PROVE  /\ issue.policy = TRUE /\ issue.repo = "found" /\ issue.reward \in Nat
           /\ issue.plausible \in BOOLEAN /\ issue.labelled \in BOOLEAN /\ issue.license \in BOOLEAN
           /\ issue.assigned \in BOOLEAN /\ issue.links \in Nat /\ issue.clarity \in 0 .. 100
<1>1. /\ issue.policy \in {TRUE} /\ issue.repo \in {"found"} /\ issue.reward \in Rewards
      /\ issue.plausible \in BOOLEAN /\ issue.labelled \in BOOLEAN /\ issue.license \in BOOLEAN
      /\ issue.assigned \in BOOLEAN /\ issue.links \in LinkCounts /\ issue.clarity \in Clarities
  BY DEF Issues
<1>2. Rewards \subseteq Nat /\ Clarities \subseteq 0 .. 100 /\ LinkCounts \subseteq Nat
  BY DecisionsAssumption
<1>3. issue.reward \in Nat /\ issue.links \in Nat /\ issue.clarity \in 0 .. 100
  BY <1>1, <1>2
<1> QED
  BY <1>1, <1>3

LEMMA ApprovedMeans ==
    ASSUME NEW issue \in Issues
    PROVE  Approved(issue) <=> Gate(issue)
<1>1. /\ issue.policy = TRUE /\ issue.repo = "found" /\ issue.reward \in Nat
      /\ issue.plausible \in BOOLEAN /\ issue.labelled \in BOOLEAN /\ issue.license \in BOOLEAN
      /\ issue.assigned \in BOOLEAN /\ issue.links \in Nat /\ issue.clarity \in 0 .. 100
  BY IssueTypes
<1>2. PICK facts : facts = RiskInput(issue)
  OBVIOUS
<1>3. Approved(issue) <=> EvaluateRisk(facts).approved
  <2>1. EvaluateIssue(issue) = [id |-> issue.id, approved |-> EvaluateRisk(facts).approved,
                                score |-> EvaluateRisk(facts).score,
                                reward |-> RewardClaim(issue).reward]
    BY <1>1, <1>2 DEF EvaluateIssue
  <2>2. EvaluateIssue(issue) # NoItem
    BY <2>1 DEF NoItem
  <2> QED
    BY <2>1, <2>2 DEF Approved
<1>4. /\ facts.reward = RewardClaim(issue).reward /\ facts.claim_valid = issue.plausible
      /\ facts.success = 35 /\ facts.hours = 8 /\ facts.cash = 0 /\ facts.legal = 1
      /\ facts.license_ok = issue.license /\ facts.terms_ok = issue.policy
      /\ facts.confidence = Confidence(RewardClaim(issue).reward, issue.labelled)
      /\ facts.ambiguity = Unclear(issue.clarity)
      /\ facts.assigned = issue.assigned /\ facts.competing = Competition(issue).linked
      /\ facts.competition_complete = Competition(issue).complete
  BY <1>2 DEF RiskInput, Unclear, RewardClaim, Competition
<1>5. Competition(issue).complete <=> issue.timeline \in {"read", "long", "unreadable"}
  BY DEF Competition
<1>6. Competition(issue).linked \in Nat
  BY <1>1 DEF Competition
<1>7. Unclear(issue.clarity) \in Nat
  BY <1>1, UnclearTypes
<1>8. ~HardStops(facts) <=>
        /\ issue.plausible /\ issue.license /\ ~issue.assigned
        /\ issue.timeline \in {"read", "long", "unreadable"}
        /\ Competition(issue).linked <= MaxCompeting
        /\ issue.reward \in 1 .. MaxReward /\ Unclear(issue.clarity) \in 0 .. MaxAmbiguity
  <2>1. CASE ~issue.plausible
    BY <1>4, <2>1 DEF HardStops
  <2>2. CASE issue.plausible /\ issue.reward = 0
    BY <1>1, <1>4, <2>2 DEF HardStops, RewardClaim
  <2>3. CASE issue.plausible /\ issue.reward > 0
    <3>1. facts.reward = issue.reward /\ facts.confidence = Trust(issue.labelled)
      BY <1>1, <1>4, <2>3 DEF RewardClaim, Confidence, Trust
    <3>2. facts.confidence \in {60, 70}
      BY <3>1 DEF Trust
    <3>3. /\ facts.success \in 0 .. 100 /\ facts.hours \in 0 .. MaxHours
          /\ facts.cash \in 0 .. MaxCashCost /\ facts.legal \in 0 .. MaxLegalRisk
          /\ facts.confidence \in MinConfidence .. 100
      BY <1>4, <3>2, SMT DEF MaxHours, MaxCashCost, MinConfidence, MaxLegalRisk
    <3>4. facts.terms_ok
      BY <1>1, <1>4
    <3>5. ~HardStops(facts) <=>
            /\ facts.claim_valid /\ ~(facts.reward > MaxReward \/ facts.reward <= 0)
            /\ facts.license_ok /\ ~(facts.ambiguity \notin 0 .. MaxAmbiguity)
            /\ ~facts.assigned /\ facts.competition_complete
            /\ ~(facts.competing \notin 0 .. MaxCompeting)
      BY <3>3, <3>4, Zenon DEF HardStops
    <3>6. MaxReward \in Int /\ MaxCompeting \in Int
      BY SMT DEF MaxReward, MaxCompeting
    <3>7. ~(facts.reward > MaxReward \/ facts.reward <= 0) <=> issue.reward \in 1 .. MaxReward
      BY <1>1, <2>3, <3>1, <3>6, SMT
    <3>8. facts.competing \in 0 .. MaxCompeting <=> Competition(issue).linked <= MaxCompeting
      BY <1>4, <1>6, <3>6, SMT
    <3> QED
      BY <1>4, <1>5, <2>3, <3>5, <3>7, <3>8, Zenon
  <2> QED
    BY <1>1, <2>1, <2>2, <2>3, SMT
<1>9. ASSUME issue.plausible, issue.reward > 0
      PROVE  /\ ExpectedValue(facts) = Value(issue.reward, Trust(issue.labelled))
             /\ RiskScore(facts)
                  = Score(issue.reward, Trust(issue.labelled), Unclear(issue.clarity))
  <2>1. facts.reward = issue.reward /\ facts.confidence = Trust(issue.labelled)
    BY <1>1, <1>4, <1>9 DEF RewardClaim, Confidence, Trust
  <2>2. ExpectedValue(facts) = Value(issue.reward, Trust(issue.labelled))
    BY <1>4, <2>1 DEF ExpectedValue, Value, HourlyCost
  <2>3. 30 * facts.success + 25 * facts.confidence + 20 * (100 - 10 * facts.ambiguity)
          + 15 * (100 - 10 * facts.legal)
        = 30 * 35 + 25 * Trust(issue.labelled) + 20 * (100 - 10 * Unclear(issue.clarity)) + 15 * 90
    BY <1>4, <1>7, <2>1 DEF Trust
  <2> QED
    BY <2>1, <2>2, <2>3 DEF RiskScore, Score
<1>10. EvaluateRisk(facts).approved <=>
         ~HardStops(facts) /\ ExpectedValue(facts) >= 100 /\ RiskScore(facts) >= MinScore
  BY DEF EvaluateRisk
<1> QED
  <2>1. issue.reward \in 1 .. MaxReward => issue.reward > 0
    <3>1. MaxReward \in Int
      BY SMT DEF MaxReward
    <3> QED
      BY <3>1, SMT
  <2>2. MinScore = 55
    BY DEF MinScore
  <2> QED
    BY <1>3, <1>8, <1>9, <1>10, <2>1, <2>2, Zenon DEF Gate, Worth

\* evidence that is no worse in any respect
NoWorse(issue, better) ==
  /\ issue.plausible => better.plausible
  /\ issue.license => better.license
  /\ better.assigned => issue.assigned
  /\ better.timeline = issue.timeline /\ better.links <= issue.links
  /\ issue.reward <= better.reward /\ (issue.reward <= MaxReward => better.reward <= MaxReward)
  /\ issue.labelled => better.labelled
  /\ issue.clarity <= better.clarity

LEMMA GateGrows ==
    ASSUME NEW issue \in Issues, NEW better \in Issues, NoWorse(issue, better), Gate(issue)
    PROVE  Gate(better)
<1>1. issue.reward \in Nat /\ better.reward \in Nat /\ MaxReward \in Int
  <2>1. MaxReward \in Int
    BY SMT DEF MaxReward
  <2> QED
    BY <2>1, IssueTypes
<1>2. issue.clarity \in 0 .. 100 /\ better.clarity \in 0 .. 100
  BY IssueTypes
<1>3. /\ Unclear(issue.clarity) \in Nat /\ Unclear(better.clarity) \in Nat
      /\ Unclear(better.clarity) <= Unclear(issue.clarity)
  BY <1>2, UnclearTypes DEF NoWorse
<1>4. Unclear(issue.clarity) \in 0 .. 6 /\ Unclear(better.clarity) \in 0 .. 6
  BY <1>3 DEF Gate, MaxAmbiguity
<1>5. /\ issue.reward \in Nat \ {0} /\ better.reward \in Nat \ {0}
      /\ issue.reward <= better.reward /\ better.reward \in 1 .. MaxReward
  BY <1>1, SMT DEF Gate, NoWorse
<1>6. /\ Trust(issue.labelled) \in {60, 70} /\ Trust(better.labelled) \in {60, 70}
      /\ Trust(issue.labelled) <= Trust(better.labelled)
  BY DEF Trust, NoWorse
<1>7. Worth(issue.reward, Trust(issue.labelled), Unclear(issue.clarity))
  BY DEF Gate
<1>8. Worth(issue.reward, Trust(better.labelled), Unclear(better.clarity))
  BY <1>3, <1>4, <1>5, <1>6, <1>7, WorthEvidence
<1>9. Worth(better.reward, Trust(better.labelled), Unclear(better.clarity))
  BY <1>4, <1>5, <1>6, <1>8, WorthReward
<1>10. Competition(better).linked <= MaxCompeting
  <2>1. issue.links \in Nat /\ better.links \in Nat
    BY IssueTypes
  <2>2. Competition(better).linked <= Competition(issue).linked
    BY <2>1 DEF Competition, NoWorse
  <2>3. Competition(better).linked \in Nat /\ Competition(issue).linked \in Nat
    BY <2>1 DEF Competition
  <2>4. Competition(issue).linked <= MaxCompeting
    BY DEF Gate
  <2> QED
    BY <2>2, <2>3, <2>4 DEF MaxCompeting
<1>11. better.plausible /\ better.license /\ ~better.assigned
  BY DEF Gate, NoWorse
<1>12. better.timeline \in {"read", "long", "unreadable"}
  BY DEF Gate, NoWorse
<1>13. Unclear(better.clarity) \in 0 .. MaxAmbiguity
  BY <1>4 DEF MaxAmbiguity
<1> QED
  BY <1>5, <1>9, <1>10, <1>11, <1>12, <1>13, Zenon DEF Gate

LEMMA ImprovedIsNoWorse ==
    ASSUME NEW issue \in Issues, NEW better \in Improved(issue)
    PROVE  better \in Issues /\ NoWorse(issue, better)
<1>1. /\ issue.reward \in Nat /\ issue.links \in Nat /\ issue.clarity \in 0 .. 100
      /\ issue.plausible \in BOOLEAN /\ issue.labelled \in BOOLEAN /\ issue.license \in BOOLEAN
      /\ issue.assigned \in BOOLEAN
  BY IssueTypes
<1>2. Rewards \subseteq Nat /\ Clarities \subseteq 0 .. 100 /\ LinkCounts \subseteq Nat
  BY DecisionsAssumption
<1>3. MaxReward \in Int
  BY SMT DEF MaxReward
<1>4. ASSUME NEW r \in Rewards, r > issue.reward, r <= MaxReward, better = [issue EXCEPT !.reward = r]
      PROVE  better \in Issues /\ NoWorse(issue, better)
  <2>1. r \in Nat
    BY <1>2
  <2>2. better \in Issues
    BY <1>4, <2>1 DEF Issues
  <2>3. better.reward = r
    BY <1>4, <2>1 DEF Issues
  <2>4. /\ better.plausible = issue.plausible /\ better.license = issue.license /\ better.assigned = issue.assigned
        /\ better.timeline = issue.timeline /\ better.links = issue.links /\ better.labelled = issue.labelled
        /\ better.clarity = issue.clarity
    BY <1>4, <2>1 DEF Issues
  <2> QED
    BY <1>1, <1>3, <1>4, <2>1, <2>2, <2>3, <2>4 DEF NoWorse
<1>5. ASSUME NEW c \in Clarities, c > issue.clarity, better = [issue EXCEPT !.clarity = c]
      PROVE  better \in Issues /\ NoWorse(issue, better)
  <2>1. c \in Nat
    BY <1>2
  <2>2. better \in Issues
    BY <1>5, <2>1 DEF Issues
  <2>3. better.clarity = c
    BY <1>5, <2>1 DEF Issues
  <2>4. /\ better.plausible = issue.plausible /\ better.license = issue.license /\ better.assigned = issue.assigned
        /\ better.timeline = issue.timeline /\ better.links = issue.links /\ better.reward = issue.reward
        /\ better.labelled = issue.labelled
    BY <1>5, <2>1 DEF Issues
  <2> QED
    BY <1>1, <1>5, <2>1, <2>2, <2>3, <2>4 DEF NoWorse
<1>6. ASSUME NEW n \in LinkCounts, n < issue.links, better = [issue EXCEPT !.links = n]
      PROVE  better \in Issues /\ NoWorse(issue, better)
  <2>1. n \in Nat
    BY <1>2
  <2>2. better \in Issues
    BY <1>6, <2>1 DEF Issues
  <2>3. better.links = n
    BY <1>6, <2>1 DEF Issues
  <2>4. /\ better.plausible = issue.plausible /\ better.license = issue.license /\ better.assigned = issue.assigned
        /\ better.timeline = issue.timeline /\ better.reward = issue.reward /\ better.labelled = issue.labelled
        /\ better.clarity = issue.clarity
    BY <1>6, <2>1 DEF Issues
  <2> QED
    BY <1>1, <1>6, <2>1, <2>2, <2>3, <2>4 DEF NoWorse
<1>7. CASE better = [issue EXCEPT !.license = TRUE]
  <2>2. better \in Issues
    BY <1>7 DEF Issues
  <2>3. better.license = TRUE
    BY <1>7 DEF Issues
  <2>4. /\ better.plausible = issue.plausible /\ better.assigned = issue.assigned /\ better.timeline = issue.timeline
        /\ better.links = issue.links /\ better.reward = issue.reward /\ better.labelled = issue.labelled
        /\ better.clarity = issue.clarity
    BY <1>7 DEF Issues
  <2> QED
    BY <1>1, <1>7, <2>2, <2>3, <2>4 DEF NoWorse
<1>8. CASE better = [issue EXCEPT !.assigned = FALSE]
  <2>2. better \in Issues
    BY <1>8 DEF Issues
  <2>3. better.assigned = FALSE
    BY <1>8 DEF Issues
  <2>4. /\ better.plausible = issue.plausible /\ better.license = issue.license /\ better.timeline = issue.timeline
        /\ better.links = issue.links /\ better.reward = issue.reward /\ better.labelled = issue.labelled
        /\ better.clarity = issue.clarity
    BY <1>8 DEF Issues
  <2> QED
    BY <1>1, <1>8, <2>2, <2>3, <2>4 DEF NoWorse
<1>9. CASE better = [issue EXCEPT !.plausible = TRUE]
  <2>2. better \in Issues
    BY <1>9 DEF Issues
  <2>3. better.plausible = TRUE
    BY <1>9 DEF Issues
  <2>4. /\ better.license = issue.license /\ better.assigned = issue.assigned /\ better.timeline = issue.timeline
        /\ better.links = issue.links /\ better.reward = issue.reward /\ better.labelled = issue.labelled
        /\ better.clarity = issue.clarity
    BY <1>9 DEF Issues
  <2> QED
    BY <1>1, <1>9, <2>2, <2>3, <2>4 DEF NoWorse
<1>10. CASE better = [issue EXCEPT !.labelled = TRUE]
  <2>2. better \in Issues
    BY <1>10 DEF Issues
  <2>3. better.labelled = TRUE
    BY <1>10 DEF Issues
  <2>4. /\ better.plausible = issue.plausible /\ better.license = issue.license /\ better.assigned = issue.assigned
        /\ better.timeline = issue.timeline /\ better.links = issue.links /\ better.reward = issue.reward
        /\ better.clarity = issue.clarity
    BY <1>10 DEF Issues
  <2> QED
    BY <1>1, <1>10, <2>2, <2>3, <2>4 DEF NoWorse
<1> QED
  BY <1>4, <1>5, <1>6, <1>7, <1>8, <1>9, <1>10 DEF Improved

(* Whatever rewards, clarities and pull requests issues have: what the     *)
(* gate approves is not taken, and better evidence never turns an approval *)
(* into a rejection (discovery.py:97, risk_compliance_agent.py:116).       *)
THEOREM ApprovalSound == Spec => []ApprovalIsSound
<1> DEFINE Told == part = "issue" => input \in Issues
<1>1. ASSUME NEW issue \in Issues, Approved(issue)
      PROVE  Uncontested(issue) /\ \A better \in Improved(issue) : Approved(better)
  <2>1. Gate(issue)
    BY <1>1, ApprovedMeans
  <2>2. Uncontested(issue)
    <3>1. issue.timeline # "unreadable" => Competition(issue).linked = issue.links
      BY <2>1 DEF Gate, Competition
    <3> QED
      BY <2>1, <3>1 DEF Gate, Uncontested
  <2>3. ASSUME NEW better \in Improved(issue)
        PROVE  Approved(better)
    <3>1. better \in Issues /\ NoWorse(issue, better)
      BY <2>3, ImprovedIsNoWorse
    <3>2. Gate(better)
      BY <2>1, <3>1, GateGrows
    <3> QED
      BY <3>1, <3>2, ApprovedMeans
  <2> QED
    BY <2>2, <2>3
<1>2. Init => Told
  BY DEF Init
<1>3. Told /\ [Next]_<<scanVars, buildVars, part, input>> => Told'
  BY DEF Next
<1>4. Told => ApprovalIsSound
  BY <1>1 DEF ApprovalIsSound
<1> HIDE DEF Told
<1> QED
  BY <1>2, <1>3, <1>4, PTL DEF Spec
=============================================================================

-------------------------- MODULE AccountScore_proofs --------------------------
(***************************************************************************)
(* What the two scores decide, for lists of any length, any amounts and    *)
(* any times: the score of two transactions (Similarity) and that of two   *)
(* accounts (AccountScore).                                                *)
(***************************************************************************)
EXTENDS AccountScore, FiniteSetTheorems, TLAPS

LEMMA DaysType == ASSUME NEW p \in Int, NEW d \in Int PROVE DaysApart(p, d) \in Nat
<1>1. d * Day \in Int /\ Day \in Nat \ {0}
  BY SimilarityAssumption
<1>2. Distance(p, d * Day) \in Nat
  BY <1>1 DEF Distance
<1> QED
  BY <1>1, <1>2 DEF DaysApart

(* Which transactions score_transactions takes for the same, at its        *)
(* threshold of 60: amounts are always compared; of two pending ones no    *)
(* date is, and else two days apart take a sign, the description or the    *)
(* pending flag, and three to five the description.                        *)
THEOREM MatchRule ==
  ASSUME NEW s \in SfTxn, NEW l \in LfTxn, NEW alike \in BOOLEAN
  PROVE  LET days == DaysApart(s.posted, l.date)
         IN  Score(s, l, alike) >= 60 <=>
               /\ AtMostCent(s.amount, l.amount, CentAtMost)
               /\ \/ s.pending /\ l.pending
                  \/ days <= 1
                  \/ days = 2 /\ (alike \/ s.pending = l.pending)
                  \/ days \in 3 .. 5 /\ alike
<1> DEFINE days == DaysApart(s.posted, l.date)
           bonus == IF alike THEN 15 ELSE 0
           same == IF s.pending = l.pending THEN 5 ELSE 0
<1>1. days \in Nat
  BY DaysType DEF SfTxn, LfTxn
<1>2. s.pending \in BOOLEAN /\ l.pending \in BOOLEAN
  BY DEF SfTxn, LfTxn
<1>3. CASE ~AtMostCent(s.amount, l.amount, CentAtMost)
  BY <1>3 DEF Score
<1>4. CASE AtMostCent(s.amount, l.amount, CentAtMost) /\ s.pending /\ l.pending
  BY <1>4 DEF Score
<1>5. CASE AtMostCent(s.amount, l.amount, CentAtMost) /\ ~(s.pending /\ l.pending) /\ days > 5
  BY <1>1, <1>5 DEF Score
<1>6. CASE AtMostCent(s.amount, l.amount, CentAtMost) /\ ~(s.pending /\ l.pending) /\ ~(days > 5)
  <2>1. Score(s, l, alike) = 40 + DayPoints[days] + bonus + same
    BY <1>6 DEF Score
  <2>2. days \in 0 .. 5
    BY <1>1, <1>6
  <2>3. DayPoints[days] = IF days = 0 THEN 40 ELSE IF days = 1 THEN 25 ELSE IF days = 2 THEN 15
                          ELSE IF days = 3 THEN 10 ELSE 5
    BY <2>2 DEF DayPoints
  <2>4. /\ (alike /\ bonus = 15) \/ (~alike /\ bonus = 0)
        /\ (s.pending = l.pending /\ same = 5) \/ (s.pending # l.pending /\ same = 0)
    OBVIOUS
  <2> HIDE DEF days, bonus, same
  <2>5. Score(s, l, alike) >= 60 <=> \/ days <= 1
                                     \/ days = 2 /\ (alike \/ s.pending = l.pending)
                                     \/ days \in 3 .. 5 /\ alike
    BY <2>1, <2>2, <2>3, <2>4
  <2> QED
    BY <1>6, <2>5 DEF days
<1> QED
  BY <1>1, <1>3, <1>4, <1>5, <1>6

-----------------------------------------------------------------------------
(* Each turn takes one transaction at most, and one not taken before.      *)
Counted == matched = Cardinality(used) /\ matched <= turn - 1

Counts ==
  /\ comparable \in BOOLEAN /\ sfTxns \in SfLists /\ lfTxns \in LfLists
  /\ turn \in 1 .. Len(sfTxns) + 1
  /\ used \subseteq DOMAIN lfTxns
  /\ Counted

LEMMA Lengths ==
  ASSUME sfTxns \in SfLists, lfTxns \in LfLists
  PROVE  /\ Len(sfTxns) \in Nat /\ Len(lfTxns) \in Nat /\ MinCount \in Nat
         /\ DOMAIN lfTxns = 1 .. Len(lfTxns)
<1>1. sfTxns \in Seq([posted : Nat, amount : Nat]) /\ lfTxns \in Seq([date : Nat, amount : Nat])
  BY ListAssumption
<1> QED
  BY <1>1 DEF MinCount

LEMMA CountsInit == Init => Counts
<1> SUFFICES ASSUME Init PROVE Counts
  OBVIOUS
<1>1. Cardinality({}) = 0
  BY FS_EmptySet
<1> QED
  BY <1>1, Lengths DEF Init, Counts, Counted

LEMMA CountsStep == Counts /\ [Next]_vars => Counts'
<1> SUFFICES ASSUME Counts, [Next]_vars PROVE Counts'
  OBVIOUS
<1> USE DEF Counts, Counted
<1>1. IsFiniteSet(used)
  <2>1. IsFiniteSet(1 .. Len(lfTxns))
    BY Lengths, FS_Interval
  <2> QED
    BY <2>1, Lengths, FS_Subset
<1>2. Len(sfTxns) \in Nat
  BY Lengths
<1>3. CASE Take
  <2>1. PICK j \in Fit : used' = used \cup {j}
    BY <1>3 DEF Take
  <2>2. j \in DOMAIN lfTxns /\ j \notin used
    BY DEF Fit
  <2>3. Cardinality(used \cup {j}) = Cardinality(used) + 1
    BY <1>1, <2>2, FS_AddElement
  <2>4. UNCHANGED <<comparable, sfTxns, lfTxns>> /\ turn' = turn + 1 /\ turn <= Len(sfTxns)
        /\ matched' = matched + 1
    BY <1>3 DEF Take, Turn
  <2>5. matched' = Cardinality(used')
    BY <2>1, <2>3, <2>4
  <2>6. turn' \in 1 .. Len(sfTxns) + 1 /\ matched' <= turn' - 1
    <3>1. Cardinality(used) \in Nat
      BY <1>1, FS_CardinalityType
    <3> QED
      BY <1>2, <2>4, <3>1
  <2>7. used' \subseteq DOMAIN lfTxns
    BY <2>1, <2>2
  <2> QED
    BY <2>4, <2>5, <2>6, <2>7
<1>4. CASE Pass
  BY <1>2, <1>4, FS_CardinalityType, <1>1 DEF Pass, Turn
<1>5. CASE UNCHANGED vars
  BY <1>5 DEF vars
<1> QED
  BY <1>3, <1>4, <1>5 DEF Next

LEMMA CountsTypes == Counts => ScoreTypeOK
<1> SUFFICES ASSUME Counts PROVE ScoreTypeOK
  OBVIOUS
<1>1. IsFiniteSet(1 .. Len(lfTxns)) /\ Cardinality(1 .. Len(lfTxns)) = Len(lfTxns)
  <2>1. Len(lfTxns) \in Nat
    BY Lengths DEF Counts
  <2> HIDE DEF Counts
  <2> QED
    BY <2>1, FS_Interval
<1>2. Cardinality(used) <= Len(lfTxns) /\ Cardinality(used) \in Nat
  BY <1>1, Lengths, FS_Subset, FS_CardinalityType DEF Counts
<1> QED
  BY <1>2, Lengths DEF Counts, Counted, ScoreTypeOK, MinCount

LEMMA Counting == Spec => []Counts
BY CountsInit, CountsStep, PTL DEF Spec

(* The turns find no more matches than the shorter list has transactions:  *)
(* the score, their fraction, is at most 1.                                *)
THEOREM ScoreTypeCorrect == Spec => []ScoreTypeOK
BY Counting, CountsTypes, PTL

-----------------------------------------------------------------------------
(* The greedy pairing *)

(* A pairing and what extends it, by the turn of its members.              *)
Edges == {p \in (DOMAIN sfTxns) \X (DOMAIN lfTxns) : Compatible(sfTxns[p[1]], lfTxns[p[2]])}
Earlier(M) == {p \in M : p[1] < turn}

(* The pairs of the turns so far.  None can be added; and any pairing has  *)
(* one as large that begins like them, if no amounts are a cent apart.     *)
Chosen(G) ==
  /\ G \in Pairings
  /\ \A p \in G : p[1] < turn
  /\ used = {p[2] : p \in G}
  /\ matched = Cardinality(G)
  /\ \A e \in Edges : e[1] < turn => e[2] \in used \/ \E p \in G : p[1] = e[1]
  /\ ~CentApart =>
       \A M \in Pairings : \E E \in Pairings : Cardinality(M) <= Cardinality(E) /\ Earlier(E) = G

Paired == Counts /\ \E G \in Pairings : Chosen(G)

LEMMA Element ==
  ASSUME NEW R, NEW s \in Seq(R), NEW n \in 1 .. Len(s) PROVE s[n] \in R
OBVIOUS

LEMMA ListTypes ==
  ASSUME Counts
  PROVE  /\ Len(sfTxns) \in Nat /\ Len(lfTxns) \in Nat
         /\ DOMAIN sfTxns = 1 .. Len(sfTxns) /\ DOMAIN lfTxns = 1 .. Len(lfTxns)
         /\ \A m \in DOMAIN sfTxns : sfTxns[m].posted \in Nat /\ sfTxns[m].amount \in Nat
         /\ \A n \in DOMAIN lfTxns : lfTxns[n].date \in Nat /\ lfTxns[n].amount \in Nat
         /\ \A m, n \in DOMAIN sfTxns : m < n => sfTxns[m].posted >= sfTxns[n].posted
         /\ \A m, n \in DOMAIN lfTxns : m < n => lfTxns[m].date >= lfTxns[n].date
<1>1. sfTxns \in Seq([posted : Nat, amount : Nat]) /\ lfTxns \in Seq([date : Nat, amount : Nat])
  BY ListAssumption DEF Counts
<1>2. /\ \A m, n \in DOMAIN sfTxns : m < n => sfTxns[m].posted >= sfTxns[n].posted
      /\ \A m, n \in DOMAIN lfTxns : m < n => lfTxns[m].date >= lfTxns[n].date
  BY ListAssumption DEF Counts
<1>3. Len(sfTxns) \in Nat /\ DOMAIN sfTxns = 1 .. Len(sfTxns)
  BY <1>1
<1>4. Len(lfTxns) \in Nat /\ DOMAIN lfTxns = 1 .. Len(lfTxns)
  BY <1>1
<1>5. \A m \in DOMAIN sfTxns : sfTxns[m].posted \in Nat /\ sfTxns[m].amount \in Nat
  <2>1. ASSUME NEW m \in DOMAIN sfTxns PROVE sfTxns[m] \in [posted : Nat, amount : Nat]
    BY <1>1, <1>3, Element, Zenon
  <2> QED
    BY <2>1
<1>6. \A n \in DOMAIN lfTxns : lfTxns[n].date \in Nat /\ lfTxns[n].amount \in Nat
  <2>1. ASSUME NEW n \in DOMAIN lfTxns PROVE lfTxns[n] \in [date : Nat, amount : Nat]
    BY <1>1, <1>4, Element, Zenon
  <2> QED
    BY <2>1
<1> QED
  BY <1>2, <1>3, <1>4, <1>5, <1>6

LEMMA PairingFacts ==
  ASSUME Counts, NEW M \in Pairings
  PROVE  /\ M \subseteq Edges /\ IsFiniteSet(M) /\ Cardinality(M) \in Nat
         /\ \A p, q \in M : p[1] = q[1] \/ p[2] = q[2] => p = q
<1>1. M \subseteq Edges /\ \A p, q \in M : p[1] = q[1] \/ p[2] = q[2] => p = q
  BY DEF Pairings, Edges
<1>2. IsFiniteSet(DOMAIN sfTxns) /\ IsFiniteSet(DOMAIN lfTxns)
  BY ListTypes, FS_Interval
<1>3. IsFiniteSet((DOMAIN sfTxns) \X (DOMAIN lfTxns))
  BY <1>2, FS_Product
<1>4. M \subseteq (DOMAIN sfTxns) \X (DOMAIN lfTxns)
  BY <1>1 DEF Edges
<1>5. IsFiniteSet(M)
  BY <1>3, <1>4, FS_Subset
<1> QED
  BY <1>1, <1>5, FS_CardinalityType

LEMMA EdgePair ==
  ASSUME NEW e \in Edges
  PROVE  /\ e = <<e[1], e[2]>> /\ e[1] \in DOMAIN sfTxns /\ e[2] \in DOMAIN lfTxns
         /\ Compatible(sfTxns[e[1]], lfTxns[e[2]])
BY DEF Edges

LEMMA PairEdge ==
  ASSUME NEW m \in DOMAIN sfTxns, NEW n \in DOMAIN lfTxns, Compatible(sfTxns[m], lfTxns[n])
  PROVE  <<m, n>> \in Edges
BY DEF Edges

LEMMA PairingIntro ==
  ASSUME NEW M, M \subseteq Edges, \A p, q \in M : p[1] = q[1] \/ p[2] = q[2] => p = q
  PROVE  M \in Pairings
BY DEF Pairings, Edges

LEMMA DayQuotient ==
  ASSUME NEW x \in Nat, NEW y \in Nat, x <= y
  PROVE  x \div Day \in Nat /\ y \div Day \in Nat /\ x \div Day <= y \div Day
<1>1. Day \in Nat \ {0}
  BY SimilarityAssumption
<1> QED
  BY <1>1, SMTT(30)

(* Days between two dates and two times, the nearer of which is meant:     *)
(* whoever comes later has the later date, or an even nearer one.          *)
LEMMA NoFarther ==
  ASSUME NEW p \in Nat, NEW q \in Nat, q <= p, NEW c \in Nat, NEW d \in Nat, d <= c
  PROVE  DaysApart(q, d) <= DaysApart(p, d) \/ DaysApart(q, d) <= DaysApart(q, c)
<1>1. Day \in Nat \ {0}
  BY SimilarityAssumption
<1>2. c * Day \in Nat /\ d * Day \in Nat
  BY <1>1
<1>3. d * Day <= c * Day
  BY <1>1, SMTT(30)
<1> DEFINE C == c * Day
           D == d * Day
<1> HIDE DEF C, D
<1>4. C \in Nat /\ D \in Nat /\ D <= C
  BY <1>2, <1>3 DEF C, D
<1>5. /\ Distance(q, D) \in Nat /\ Distance(p, D) \in Nat /\ Distance(q, C) \in Nat
      /\ Distance(q, D) <= Distance(p, D) \/ Distance(q, D) <= Distance(q, C)
  BY <1>4 DEF Distance
<1>6. \/ Distance(q, D) \div Day <= Distance(p, D) \div Day
      \/ Distance(q, D) \div Day <= Distance(q, C) \div Day
  BY <1>5, DayQuotient
<1> QED
  BY <1>6 DEF DaysApart, C, D

LEMMA SameAmount ==
  ASSUME Counts, ~CentApart, NEW m \in DOMAIN sfTxns, NEW n \in DOMAIN lfTxns
  PROVE  AtMostCent(sfTxns[m].amount, lfTxns[n].amount, CentBelow)
           <=> sfTxns[m].amount = lfTxns[n].amount
<1>1. Distance(sfTxns[m].amount, lfTxns[n].amount) # 1
  BY DEF CentApart
<1>2. sfTxns[m].amount \in Nat /\ lfTxns[n].amount \in Nat
  BY ListTypes
<1> QED
  BY <1>1, <1>2 DEF Distance, AtMostCent

(* Two crossed pairs can be uncrossed.                                     *)
LEMMA Uncross ==
  ASSUME Counts, ~CentApart,
         NEW m \in DOMAIN sfTxns, NEW mm \in DOMAIN sfTxns, m < mm,
         NEW n \in DOMAIN lfTxns, NEW nn \in DOMAIN lfTxns, n < nn,
         Compatible(sfTxns[m], lfTxns[n]), Compatible(sfTxns[m], lfTxns[nn]),
         Compatible(sfTxns[mm], lfTxns[n])
  PROVE  Compatible(sfTxns[mm], lfTxns[nn])
<1>1. sfTxns[mm].amount = lfTxns[nn].amount
  BY SameAmount DEF Compatible
<1>2. /\ sfTxns[mm].posted \in Nat /\ sfTxns[m].posted \in Nat /\ sfTxns[mm].posted <= sfTxns[m].posted
      /\ lfTxns[n].date \in Nat /\ lfTxns[nn].date \in Nat /\ lfTxns[nn].date <= lfTxns[n].date
  BY ListTypes
<1>3. \/ DaysApart(sfTxns[mm].posted, lfTxns[nn].date) <= DaysApart(sfTxns[m].posted, lfTxns[nn].date)
      \/ DaysApart(sfTxns[mm].posted, lfTxns[nn].date) <= DaysApart(sfTxns[mm].posted, lfTxns[n].date)
  BY <1>2, NoFarther
<1>4. /\ DaysApart(sfTxns[mm].posted, lfTxns[nn].date) \in Nat
      /\ DaysApart(sfTxns[m].posted, lfTxns[nn].date) \in Nat
      /\ DaysApart(sfTxns[mm].posted, lfTxns[n].date) \in Nat
  <2>1. \A p, d \in Nat : DaysApart(p, d) \in Nat
    BY DaysType
  <2> QED
    BY <1>2, <2>1
<1>5. Window \in Nat
  BY ListAssumption
<1>6. /\ DaysApart(sfTxns[m].posted, lfTxns[nn].date) <= Window
      /\ DaysApart(sfTxns[mm].posted, lfTxns[n].date) <= Window
  BY DEF Compatible
<1>7. DaysApart(sfTxns[mm].posted, lfTxns[nn].date) <= Window
  BY <1>3, <1>4, <1>5, <1>6
<1> QED
  BY <1>1, <1>7, SameAmount DEF Compatible

LEMMA AddPair ==
  ASSUME Counts, NEW M \in Pairings, NEW y \in Edges, \A p \in M : p[1] # y[1] /\ p[2] # y[2]
  PROVE  M \cup {y} \in Pairings /\ Cardinality(M \cup {y}) = Cardinality(M) + 1
<1>1. /\ M \subseteq Edges /\ IsFiniteSet(M)
      /\ \A p, q \in M : p[1] = q[1] \/ p[2] = q[2] => p = q
  BY PairingFacts
<1>2. M \cup {y} \in Pairings
  <2>1. \A p, q \in M \cup {y} : p[1] = q[1] \/ p[2] = q[2] => p = q
    BY <1>1
  <2> QED
    BY <1>1, <2>1, PairingIntro
<1> QED
  BY <1>1, <1>2, FS_AddElement

LEMMA RemovePair ==
  ASSUME Counts, NEW M \in Pairings, NEW x \in M
  PROVE  M \ {x} \in Pairings /\ Cardinality(M \ {x}) = Cardinality(M) - 1
<1>1. /\ M \subseteq Edges /\ IsFiniteSet(M)
      /\ \A p, q \in M : p[1] = q[1] \/ p[2] = q[2] => p = q
  BY PairingFacts
<1>2. M \ {x} \in Pairings
  BY <1>1, PairingIntro
<1> QED
  BY <1>1, <1>2, FS_RemoveElement

(* What a change among the later pairs leaves of the earlier ones.         *)
LEMMA EarlierStill ==
  ASSUME Counts, NEW E \in Pairings, NEW F \in Pairings, NEW y \in F, y[1] = turn,
         \A p \in F : p \in E \/ p = y \/ p[1] > turn,
         \A p \in E : p \in F \/ p[1] >= turn
  PROVE  {p \in F : p[1] < turn + 1} = Earlier(E) \cup {y}
<1>1. \A p, q \in F : p[1] = q[1] => p = q
  BY PairingFacts
<1>2. \A p \in E \cup F : p[1] \in Nat
  <2>1. \A p \in E \cup F : p \in Edges
    BY PairingFacts
  <2> QED
    BY <2>1, EdgePair, ListTypes
<1>3. turn \in Nat
  BY ListTypes DEF Counts
<1>4. ASSUME NEW p \in F, p[1] < turn + 1 PROVE p \in Earlier(E) \cup {y}
  <2>1. CASE p[1] = turn
    BY <1>1, <2>1
  <2>2. CASE p[1] < turn
    BY <1>2, <1>3, <2>2 DEF Earlier
  <2> QED
    BY <1>2, <1>3, <1>4, <2>1, <2>2
<1>5. ASSUME NEW p \in Earlier(E) \cup {y} PROVE p \in F /\ p[1] < turn + 1
  BY <1>2, <1>3 DEF Earlier
<1> QED
  BY <1>4, <1>5

(* The transaction whose turn it is may have a partner, in a pairing that  *)
(* begins like the one chosen: then it is one still left.                  *)
LEMMA StillLeft ==
  ASSUME Counts, NEW G, Chosen(G), turn <= Len(sfTxns), NEW E \in Pairings, Earlier(E) = G,
         NEW x \in E, x[1] = turn
  PROVE  x[2] \in Fit
<1>1. x \in Edges /\ \A p \in E : p[2] = x[2] => p = x
  BY PairingFacts
<1>2. x[2] \notin used
  <2>1. SUFFICES ASSUME x[2] \in used PROVE FALSE
    OBVIOUS
  <2>2. PICK g \in G : g[2] = x[2]
    BY <2>1 DEF Chosen
  <2>3. g \in E /\ g[1] < turn
    BY DEF Earlier
  <2>4. turn \in Nat
    BY ListTypes DEF Counts
  <2> QED
    BY <1>1, <2>2, <2>3, <2>4
<1> QED
  BY <1>1, <1>2, EdgePair DEF Fit

LEMMA TakeExtends ==
  ASSUME Counts, NEW G, Chosen(G), ~CentApart, turn <= Len(sfTxns), NEW j \in Fit, FirstFit(j),
         NEW E \in Pairings, Earlier(E) = G
  PROVE  \E F \in Pairings : /\ Cardinality(E) <= Cardinality(F)
                             /\ {p \in F : p[1] < turn + 1} = G \cup {<<turn, j>>}
<1> DEFINE y == <<turn, j>>
<1>0. /\ turn \in Nat /\ turn \in DOMAIN sfTxns /\ Cardinality(E) \in Nat
      /\ j \in DOMAIN lfTxns /\ j \in Nat /\ j \notin used /\ Compatible(sfTxns[turn], lfTxns[j])
  BY ListTypes, PairingFacts DEF Counts, Fit
<1>1. y \in Edges /\ y[1] = turn /\ y[2] = j
  BY <1>0, PairEdge
<1>2. /\ \A p \in E : p \in Edges
      /\ \A p, q \in E : p[1] = q[1] \/ p[2] = q[2] => p = q
  BY PairingFacts
<1>3. \A p \in E : p[1] \in Nat /\ p[1] \in DOMAIN sfTxns /\ p[2] \in Nat /\ p[2] \in DOMAIN lfTxns
                   /\ Compatible(sfTxns[p[1]], lfTxns[p[2]])
  BY <1>2, EdgePair, ListTypes
<1>4. \A p \in E : p[2] = j => p[1] >= turn
  BY <1>0, <1>3 DEF Earlier, Chosen
<1> HIDE DEF y
<1>5. CASE y \in E
  <2>1. {p \in E : p[1] < turn + 1} = G \cup {y}
    BY <1>1, <1>5, EarlierStill
  <2> QED
    BY <1>0, <2>1 DEF y
<1>6. CASE y \notin E /\ \E x \in E : x[1] = turn
  <2>1. PICK x \in E : x[1] = turn
    BY <1>6
  <2>2. x[2] \in Fit /\ j <= x[2]
    BY <2>1, StillLeft DEF FirstFit
  <2>3. x[2] # j
    <3>1. x = <<x[1], x[2]>>
      BY <1>2, EdgePair
    <3> QED
      BY <1>6, <2>1, <3>1 DEF y
  <2>4. j < x[2]
    BY <1>0, <1>3, <2>2, <2>3
  <2> DEFINE D == E \ {x}
  <2>5. D \in Pairings /\ Cardinality(D) = Cardinality(E) - 1
    BY RemovePair
  <2>6. \A p \in D : p \in E /\ p[1] # turn
    BY <1>2, <2>1
  <2>7. CASE \A p \in E : p[2] # j
    <3> DEFINE F == D \cup {y}
    <3> HIDE DEF D
    <3>1. \A p \in D : p[1] # y[1] /\ p[2] # y[2]
      BY <1>1, <2>6, <2>7
    <3>2. F \in Pairings /\ Cardinality(F) = Cardinality(D) + 1
      BY <1>1, <2>5, <3>1, AddPair
    <3>3. {p \in F : p[1] < turn + 1} = G \cup {y}
      <4>1. y \in F /\ (\A p \in F : p \in E \/ p = y \/ p[1] > turn)
        BY <2>6
      <4>2. \A p \in E : p \in F \/ p[1] >= turn
        BY <1>0, <1>3, <2>1 DEF D
      <4> HIDE DEF F
      <4> QED
        BY <1>1, <3>2, <4>1, <4>2, EarlierStill
    <3>4. Cardinality(E) <= Cardinality(F)
      BY <1>0, <2>5, <3>2
    <3> QED
      BY <3>2, <3>3, <3>4 DEF y
  <2>8. CASE \E z \in E : z[2] = j
    <3>1. PICK z \in E : z[2] = j
      BY <2>8
    <3>2. z # x /\ z[1] > turn /\ z \in D
      BY <1>0, <1>2, <1>3, <1>4, <2>1, <2>3, <3>1
    <3> DEFINE w == <<z[1], x[2]>>
               B == D \ {z}
               C == B \cup {y}
               F == C \cup {w}
    <3>3. w \in Edges /\ w[1] = z[1] /\ w[2] = x[2]
      <4>1. Compatible(sfTxns[z[1]], lfTxns[x[2]])
        BY <1>0, <1>3, <2>1, <2>4, <3>1, <3>2, Uncross
      <4> QED
        BY <1>3, <3>1, <4>1, PairEdge
    <3>4. B \in Pairings /\ Cardinality(B) = Cardinality(D) - 1
      BY <2>5, <3>2, RemovePair
    <3>5. \A p \in B : p \in E /\ p # x /\ p # z
      OBVIOUS
    <3>6. \A p \in B : p[1] # turn /\ p[2] # j /\ p[1] # z[1] /\ p[2] # x[2]
      BY <1>2, <2>1, <3>1, <3>5
    <3>7. \A p \in E : p \in B \/ p = x \/ p = z
      OBVIOUS
    <3> HIDE DEF B, D, w
    <3>8. C \in Pairings /\ Cardinality(C) = Cardinality(B) + 1
      BY <1>1, <3>4, <3>6, AddPair
    <3>9. \A p \in C : p[1] # w[1] /\ p[2] # w[2]
      BY <1>0, <1>1, <2>3, <3>2, <3>3, <3>6
    <3>10. F \in Pairings /\ Cardinality(F) = Cardinality(C) + 1
      <4> HIDE DEF C
      <4> QED
        BY <3>3, <3>8, <3>9, AddPair
    <3>11. {p \in F : p[1] < turn + 1} = G \cup {y}
      <4>1. y \in F /\ (\A p \in F : p \in E \/ p = y \/ p[1] > turn)
        BY <3>2, <3>3, <3>5
      <4>2. \A p \in E : p \in F \/ p[1] >= turn
        BY <1>0, <1>3, <2>1, <3>1, <3>2, <3>7
      <4> HIDE DEF F
      <4> QED
        BY <1>1, <3>10, <4>1, <4>2, EarlierStill
    <3>12. Cardinality(E) <= Cardinality(F)
      BY <1>0, <2>5, <3>4, <3>8, <3>10
    <3> QED
      BY <3>10, <3>11, <3>12 DEF y
  <2> QED
    BY <2>7, <2>8
<1>7. CASE \A p \in E : p[1] # turn
  <2>1. CASE \A p \in E : p[2] # j
    <3> DEFINE F == E \cup {y}
    <3>1. F \in Pairings /\ Cardinality(F) = Cardinality(E) + 1
      BY <1>1, <1>7, <2>1, AddPair
    <3>2. {p \in F : p[1] < turn + 1} = G \cup {y}
      <4>1. y \in F /\ (\A p \in F : p \in E \/ p = y \/ p[1] > turn)
            /\ (\A p \in E : p \in F \/ p[1] >= turn)
        OBVIOUS
      <4> HIDE DEF F
      <4> QED
        BY <1>1, <3>1, <4>1, EarlierStill
    <3> QED
      BY <1>0, <3>1, <3>2 DEF y
  <2>2. CASE \E z \in E : z[2] = j
    <3>1. PICK z \in E : z[2] = j
      BY <2>2
    <3> DEFINE D == E \ {z}
               F == D \cup {y}
    <3>2. D \in Pairings /\ Cardinality(D) = Cardinality(E) - 1
      BY RemovePair
    <3>3. \A p \in D : p \in E /\ p[1] # y[1] /\ p[2] # y[2]
      BY <1>1, <1>2, <1>7, <3>1
    <3>4. \A p \in E : p \in D \/ p = z
      OBVIOUS
    <3> HIDE DEF D
    <3>5. F \in Pairings /\ Cardinality(F) = Cardinality(D) + 1
      BY <1>1, <3>2, <3>3, AddPair
    <3>6. {p \in F : p[1] < turn + 1} = G \cup {y}
      <4>1. y \in F /\ (\A p \in F : p \in E \/ p = y \/ p[1] > turn)
            /\ (\A p \in E : p \in F \/ p[1] >= turn)
        BY <1>4, <3>1, <3>3, <3>4
      <4> HIDE DEF F
      <4> QED
        BY <1>1, <3>5, <4>1, EarlierStill
    <3> QED
      BY <1>0, <3>2, <3>5, <3>6 DEF y
  <2> QED
    BY <2>1, <2>2
<1> QED
  BY <1>5, <1>6, <1>7

LEMMA PassExtends ==
  ASSUME Counts, NEW G, Chosen(G), turn <= Len(sfTxns), Fit = {}, NEW E \in Pairings, Earlier(E) = G
  PROVE  {p \in E : p[1] < turn + 1} = G
<1>1. \A p \in E : p[1] # turn
  BY StillLeft
<1>2. \A p \in E : p[1] \in Nat
  BY PairingFacts, EdgePair, ListTypes
<1>3. turn \in Nat
  BY ListTypes DEF Counts
<1> QED
  BY <1>1, <1>2, <1>3 DEF Earlier

LEMMA PairedInit == Init => Paired
<1> SUFFICES ASSUME Init PROVE Paired
  OBVIOUS
<1>1. Counts
  BY CountsInit
<1>2. /\ turn = 1 /\ used = {} /\ matched = 0
      /\ \A m \in DOMAIN sfTxns : m \in Nat /\ m >= 1
  BY <1>1, ListTypes DEF Init
<1>3. \A e \in Edges : ~(e[1] < turn)
  BY <1>2, EdgePair
<1>4. {} \in Pairings
  BY PairingIntro
<1>5. Cardinality({}) = 0
  BY FS_EmptySet
<1>6. ASSUME NEW M \in Pairings PROVE Cardinality(M) <= Cardinality(M) /\ Earlier(M) = {}
  BY <1>1, <1>3, PairingFacts DEF Earlier
<1>7. Chosen({})
  BY <1>2, <1>3, <1>4, <1>5, <1>6 DEF Chosen
<1> QED
  BY <1>1, <1>4, <1>7 DEF Paired

(* The pairs that go together, and so the pairings, stay the same.         *)
LEMMA SameLists ==
  ASSUME Turn
  PROVE  /\ Edges' = Edges /\ Pairings' = Pairings /\ CentApart' = CentApart
         /\ turn' = turn + 1 /\ turn <= Len(sfTxns)
BY DEF Turn, Edges, Pairings, CentApart

LEMMA TakePairs == ASSUME Paired, Take PROVE Paired'
<1>1. Counts /\ Turn
  BY DEF Paired, Take
<1>2. Counts'
  BY <1>1, CountsStep DEF Next
<1>3. PICK G \in Pairings : Chosen(G)
  BY DEF Paired
<1>4. PICK j \in Fit : FirstFit(j) /\ used' = used \cup {j} /\ matched' = matched + 1
  BY DEF Take
<1>5. PICK y : y = <<turn, j>>
  OBVIOUS
<1> DEFINE H == G \cup {y}
<1>6. turn \in Nat /\ turn' = turn + 1 /\ turn \in DOMAIN sfTxns /\ turn <= Len(sfTxns)
  BY <1>1, SameLists, ListTypes DEF Counts
<1>7. /\ j \in DOMAIN lfTxns /\ j \notin used /\ Compatible(sfTxns[turn], lfTxns[j])
      /\ y \in Edges /\ y[1] = turn /\ y[2] = j
  BY <1>4, <1>5, <1>6, PairEdge DEF Fit
<1>8. /\ G \subseteq Edges /\ matched = Cardinality(G) /\ used = {p[2] : p \in G}
      /\ \A p \in G : p[1] < turn /\ p[1] \in Nat
  BY <1>1, <1>3, PairingFacts, EdgePair, ListTypes DEF Chosen
<1>9. H \in Pairings /\ Cardinality(H) = Cardinality(G) + 1
  <2>1. \A p \in G : p[1] # y[1] /\ p[2] # y[2]
    BY <1>6, <1>7, <1>8
  <2> QED
    BY <1>1, <1>3, <1>7, <2>1, AddPair
<1>10. \A p \in H : p[1] < turn'
  BY <1>6, <1>7, <1>8
<1>11. used' = {p[2] : p \in H} /\ matched' = Cardinality(H)
  BY <1>4, <1>7, <1>8, <1>9
<1>12. ASSUME NEW e \in Edges, e[1] < turn' PROVE e[2] \in used' \/ \E p \in H : p[1] = e[1]
  <2>1. e[1] \in Nat
    BY <1>1, EdgePair, ListTypes
  <2>2. CASE e[1] = turn
    BY <1>7, <2>2
  <2>3. CASE e[1] < turn
    BY <1>3, <1>4, <2>3 DEF Chosen
  <2> QED
    BY <1>6, <1>12, <2>1, <2>2, <2>3
<1>13. ASSUME ~CentApart, NEW M \in Pairings
       PROVE  \E F \in Pairings : Cardinality(M) <= Cardinality(F) /\ {p \in F : p[1] < turn'} = H
  <2>1. PICK E \in Pairings : Cardinality(M) <= Cardinality(E) /\ Earlier(E) = G
    BY <1>3, <1>13 DEF Chosen
  <2>2. PICK F \in Pairings : /\ Cardinality(E) <= Cardinality(F)
                              /\ {p \in F : p[1] < turn + 1} = G \cup {<<turn, j>>}
    BY <1>1, <1>3, <1>4, <1>6, <1>13, <2>1, TakeExtends
  <2>3. Cardinality(M) \in Nat /\ Cardinality(E) \in Nat /\ Cardinality(F) \in Nat
    BY <1>1, PairingFacts
  <2> QED
    BY <1>5, <1>6, <2>1, <2>2, <2>3
<1> HIDE DEF H
<1>14. Chosen(H)'
  BY <1>1, <1>9, <1>10, <1>11, <1>12, <1>13, SameLists DEF Chosen, Earlier
<1> QED
  BY <1>1, <1>2, <1>9, <1>14, SameLists DEF Paired

LEMMA PassPairs == ASSUME Paired, Pass PROVE Paired'
<1>1. Counts /\ Turn /\ Fit = {} /\ used' = used /\ matched' = matched
  BY DEF Paired, Pass
<1>2. Counts'
  BY <1>1, CountsStep DEF Next
<1>3. PICK G \in Pairings : Chosen(G)
  BY DEF Paired
<1>4. turn \in Nat /\ turn' = turn + 1 /\ turn <= Len(sfTxns)
  BY <1>1, SameLists, ListTypes DEF Counts
<1>5. \A p \in G : p[1] < turn'
  BY <1>1, <1>3, <1>4, PairingFacts, EdgePair, ListTypes DEF Chosen
<1>6. ASSUME NEW e \in Edges, e[1] < turn' PROVE e[2] \in used' \/ \E p \in G : p[1] = e[1]
  <2>1. e[1] \in Nat /\ e[2] \in DOMAIN lfTxns /\ Compatible(sfTxns[e[1]], lfTxns[e[2]])
    BY <1>1, EdgePair, ListTypes
  <2>2. CASE e[1] = turn
    BY <1>1, <2>1, <2>2 DEF Fit
  <2>3. CASE e[1] < turn
    BY <1>1, <1>3, <2>3 DEF Chosen
  <2> QED
    BY <1>4, <1>6, <2>1, <2>2, <2>3
<1>7. ASSUME ~CentApart, NEW M \in Pairings
      PROVE  \E E \in Pairings : Cardinality(M) <= Cardinality(E) /\ {p \in E : p[1] < turn'} = G
  <2>1. PICK E \in Pairings : Cardinality(M) <= Cardinality(E) /\ Earlier(E) = G
    BY <1>3, <1>7 DEF Chosen
  <2>2. {p \in E : p[1] < turn + 1} = G
    BY <1>1, <1>3, <1>4, <2>1, PassExtends
  <2> QED
    BY <1>4, <2>1, <2>2
<1>8. Chosen(G)'
  BY <1>1, <1>3, <1>5, <1>6, <1>7, SameLists DEF Chosen, Earlier
<1> QED
  BY <1>1, <1>2, <1>3, <1>8, SameLists DEF Paired

LEMMA PairedStep == Paired /\ [Next]_vars => Paired'
<1> SUFFICES ASSUME Paired, [Next]_vars PROVE Paired'
  OBVIOUS
<1>1. CASE UNCHANGED vars
  <2>1. Edges' = Edges /\ Pairings' = Pairings /\ CentApart' = CentApart
        /\ turn' = turn /\ used' = used /\ matched' = matched
    BY <1>1 DEF vars, Edges, Pairings, CentApart
  <2>2. Counts'
    BY CountsStep DEF Paired
  <2>3. PICK G \in Pairings : Chosen(G)
    BY DEF Paired
  <2>4. Chosen(G)'
    BY <2>1, <2>3 DEF Chosen, Earlier
  <2> QED
    BY <2>1, <2>2, <2>4 DEF Paired
<1> QED
  BY <1>1, TakePairs, PassPairs DEF Next

(* Without amounts a cent apart the pairing that begins like the one       *)
(* chosen is, at the end, that one.  With them, a pair of any other shares *)
(* a transaction with one chosen: two of it at most with each.             *)
LEMMA PairedIsMaximum == ASSUME Paired PROVE GreedyIsMaximum
<1>1. Counts
  BY DEF Paired
<1>2. PICK G \in Pairings : Chosen(G)
  BY DEF Paired
<1>3. matched = Cardinality(G) /\ matched \in Nat /\ IsFiniteSet(G)
  BY <1>1, <1>2, PairingFacts DEF Chosen
<1>4. SUFFICES ASSUME turn > Len(sfTxns), NEW M \in Pairings
              PROVE  Cardinality(M) <= (IF CentApart THEN 2 ELSE 1) * matched
  BY DEF GreedyIsMaximum
<1>5. \A e \in Edges : e[1] < turn
  BY <1>1, <1>4, EdgePair, ListTypes DEF Counts
<1>6. CASE ~CentApart
  <2>1. PICK E \in Pairings : Cardinality(M) <= Cardinality(E) /\ Earlier(E) = G
    BY <1>2, <1>6 DEF Chosen
  <2>2. Earlier(E) = E
    BY <1>1, <1>5, PairingFacts DEF Earlier
  <2> QED
    BY <1>3, <1>6, <2>1, <2>2
<1>7. CASE CentApart
  <2> DEFINE R == {p \in M : \E g \in G : g[1] = p[1]}
             C == {p \in M : \E g \in G : g[2] = p[2]}
             row == [p \in R |-> CHOOSE g \in G : g[1] = p[1]]
             column == [p \in C |-> CHOOSE g \in G : g[2] = p[2]]
  <2>1. M \subseteq Edges /\ \A p, q \in M : p[1] = q[1] \/ p[2] = q[2] => p = q
    BY <1>1, PairingFacts
  <2>2. M = R \cup C
    <3>1. ASSUME NEW p \in M PROVE p \in R \cup C
      <4>1. p[2] \in used \/ \E g \in G : g[1] = p[1]
        BY <1>2, <1>5, <2>1 DEF Chosen
      <4>2. p[2] \in used => \E g \in G : g[2] = p[2]
        BY <1>2 DEF Chosen
      <4> QED
        BY <4>1, <4>2
    <3> QED
      BY <3>1
  <2>3. IsFiniteSet(R) /\ Cardinality(R) <= matched
    <3>1. \A p \in R : row[p] \in G /\ row[p][1] = p[1]
      OBVIOUS
    <3>2. row \in Injection(R, G)
      BY <2>1, <3>1 DEF Injection, IsInjective
    <3> HIDE DEF row, R
    <3> QED
      BY <1>3, <3>2, FS_Injection
  <2>4. IsFiniteSet(C) /\ Cardinality(C) <= matched
    <3>1. \A p \in C : column[p] \in G /\ column[p][2] = p[2]
      OBVIOUS
    <3>2. column \in Injection(C, G)
      BY <2>1, <3>1 DEF Injection, IsInjective
    <3> HIDE DEF column, C
    <3> QED
      BY <1>3, <3>2, FS_Injection
  <2> HIDE DEF R, C
  <2>5. Cardinality(R \cup C) <= Cardinality(R) + Cardinality(C)
    <3>1. IsFiniteSet(R \cap C) /\ Cardinality(R \cap C) \in Nat
      BY <2>3, FS_Intersection, FS_CardinalityType
    <3>2. Cardinality(R \cup C) = Cardinality(R) + Cardinality(C) - Cardinality(R \cap C)
      BY <2>3, <2>4, FS_Union
    <3> QED
      BY <2>3, <2>4, <3>1, <3>2, FS_CardinalityType
  <2>6. Cardinality(R) \in Nat /\ Cardinality(C) \in Nat /\ Cardinality(M) \in Nat
    BY <1>1, <2>3, <2>4, FS_CardinalityType, PairingFacts
  <2>7. Cardinality(M) <= 2 * matched
    BY <1>3, <2>2, <2>3, <2>4, <2>5, <2>6
  <2> QED
    BY <1>7, <2>7
<1> QED
  BY <1>6, <1>7

(* However long the lists and whatever they hold: taking the first that    *)
(* fits, turn by turn, finds as many pairs as there can be, or half as     *)
(* many at least if amounts a cent apart are among them.                   *)
THEOREM GreedyFindsMost == Spec => []GreedyIsMaximum
<1>1. Spec => []Paired
  BY PairedInit, PairedStep, PTL DEF Spec
<1> QED
  BY <1>1, PairedIsMaximum, PTL
=============================================================================

---------------------------- MODULE MatchingProofs ----------------------------
EXTENDS Matching, FiniteSetTheorems, TLAPS

Thousandths == 0 .. 1000

AtMost(n, d) == n <= 1000 * d

LEMMA ThousandthsBound ==
    \A n \in Nat, d \in Nat \ {0} : AtMost(n, d) => n \div d \in Thousandths
<1> SUFFICES ASSUME NEW n \in Nat, NEW d \in Nat \ {0}, n <= 1000 * d
             PROVE  n \div d \in Thousandths
  BY DEF AtMost
<1> DEFINE q == n \div d
<1>1. q \in Int /\ d * q <= n /\ n < d * q + d
  BY SMT
<1>2. q >= 0
  <2>1. SUFFICES ASSUME q < 0 PROVE FALSE
    BY <1>1, SMT
  <2>2. d * q + d <= 0
    BY <2>1, <1>1, SMT
  <2> QED
    BY <2>2, <1>1, SMT
<1>3. q <= 1000
  <2>1. SUFFICES ASSUME q >= 1001 PROVE FALSE
    BY <1>1, SMT
  <2>2. d * q >= d * 1001
    BY <2>1, <1>1, SMT
  <2> QED
    BY <2>2, <1>1, SMT
<1> QED
  BY <1>1, <1>2, <1>3, SMT DEF Thousandths

LEMMA SizeFacts == \A v \in Int : Size(v) \in Nat /\ (Size(v) = 0 <=> v = 0)
BY SMT DEF Size

LEMMA AmountScoreBounds ==
    ASSUME NEW v \in Int \cup {Missing}, NEW a \in Int
    PROVE  AmountScore(v, a) \in Thousandths
<1> DEFINE off == Size(a - v)
<1>1. CASE v = Missing \/ v <= 0 \/ a <= 0
  BY <1>1, SMT DEF AmountScore, Thousandths
<1>2. CASE ~(v = Missing \/ v <= 0 \/ a <= 0)
  <2>1. v \in Int /\ v > 0 /\ off \in Nat
    BY <1>2, SizeFacts, SMT
  <2>2. CASE 10 * off >= 3 * v \/ 100 * off <= v
    BY <2>1, <2>2, <1>2, SMT DEF AmountScore, Thousandths
  <2>3. CASE ~(10 * off >= 3 * v \/ 100 * off <= v)
    <3> DEFINE n == (30 * v - 100 * off) * 1000
    <3> DEFINE d == 29 * v
    <3>1. n \in Nat /\ d \in Nat \ {0} /\ AtMost(n, d)
      BY <2>1, <2>3, SMT DEF AtMost
    <3> HIDE DEF n, d
    <3>2. n \div d \in Thousandths
      BY <3>1, ThousandthsBound
    <3>3. AmountScore(v, a) = n \div d
      BY <1>2, <2>3, SMT DEF AmountScore, n, d
    <3> QED
      BY <3>2, <3>3
  <2> QED
    BY <2>2, <2>3, SMT
<1> QED
  BY <1>1, <1>2, SMT

LEMMA ExactAmountScore ==
    \A v \in Int : v > 0 => AmountScore(v, v) = 1000
BY TablesAssumption, SMT DEF AmountScore, Size

LEMMA DivisionKeepsOrder ==
    \A n, m \in Nat, d \in Nat \ {0} : n <= m => n \div d <= m \div d
<1> SUFFICES ASSUME NEW n \in Nat, NEW m \in Nat, NEW d \in Nat \ {0}, n <= m, n \div d >= (m \div d) + 1
             PROVE  FALSE
  BY SMT
<1> DEFINE q == n \div d
           r == m \div d
<1>1. q \in Int /\ r \in Int /\ d * q <= n /\ m < d * r + d
  BY SMT
<1>2. d * q >= d * (r + 1)
  BY <1>1, SMT
<1>3. d * (r + 1) = d * r + d
  BY <1>1, SMT
<1> QED
  BY <1>1, <1>2, <1>3, SMT

\* The order of the query agrees with the score: of two positive amounts the one nearer to the
\* invoice's has at least the amount score of the other (amountScore, withOrder).
THEOREM NearerAmountScoresHigher ==
    ASSUME NEW v \in Nat \ {0}, NEW a \in Nat \ {0}, NEW b \in Nat \ {0}, Size(a - v) <= Size(b - v)
    PROVE  AmountScore(v, b) <= AmountScore(v, a)
<1> DEFINE x == Size(a - v)
           y == Size(b - v)
<1>1. x \in Nat /\ y \in Nat /\ x <= y
  <2>1. a - v \in Int /\ b - v \in Int
    OBVIOUS
  <2> QED
    BY <2>1, SizeFacts
<1>2. AmountScore(v, a) \in Thousandths /\ AmountScore(v, b) \in Thousandths
  BY AmountScoreBounds
<1>3. v # Missing
  BY TablesAssumption
<1>4. CASE 100 * x <= v \/ 10 * y >= 3 * v
  <2>1. AmountScore(v, a) = 1000 \/ AmountScore(v, b) = 0
    BY <1>1, <1>3, <1>4, SMT DEF AmountScore
  <2> QED
    BY <1>2, <2>1, SMT DEF Thousandths
<1>5. CASE 100 * x > v /\ 10 * y < 3 * v
  <2> DEFINE n == (30 * v - 100 * y) * 1000
             m == (30 * v - 100 * x) * 1000
             d == 29 * v
  <2>1. n \in Nat /\ m \in Nat /\ d \in Nat \ {0} /\ n <= m
    BY <1>1, <1>5, SMT
  <2>2. AmountScore(v, b) = n \div d /\ AmountScore(v, a) = m \div d
    BY <1>1, <1>3, <1>5, SMT DEF AmountScore
  <2> HIDE DEF n, m, d
  <2> QED
    BY <2>1, <2>2, DivisionKeepsOrder
<1> QED
  BY <1>1, <1>4, <1>5, SMT

LEMMA DateScoreBounds ==
    ASSUME NEW date \in Int \cup {Missing}, NEW at \in Int
    PROVE  DateScore(date, at) \in Thousandths
<1>1. CASE date = Missing
  BY <1>1, SMT DEF DateScore, Thousandths
<1>2. CASE date # Missing
  <2> DEFINE far == Size(at - ParseFlexibleDateTime(date))
  <2>1. at - ParseFlexibleDateTime(date) \in Int
    BY <1>2, SMT DEF ParseFlexibleDateTime
  <2>2. far \in Nat
    BY <2>1, SizeFacts, SMT
  <2>3. 6000 \div (6 + far) \in Thousandths
    <3> DEFINE d == 6 + far
    <3>1. 6000 \in Nat /\ d \in Nat \ {0} /\ AtMost(6000, d)
      BY <2>2, SMT DEF AtMost
    <3> HIDE DEF d
    <3>2. 6000 \div d \in Thousandths
      BY <3>1, ThousandthsBound, SMT
    <3> QED
      BY <3>2, SMT DEF d
  <2> QED
    BY <1>2, <2>3, SMT DEF DateScore
<1> QED
  BY <1>1, <1>2, SMT

LEMMA BigramsAreFinite ==
    ASSUME NEW a \in Seq(Nat)
    PROVE  IsFiniteSet(Bigrams(a))
<1> DEFINE n == Len(a) - 1
           f == [i \in 1 .. n |-> SubSeq(a, i, i + 1)]
<1>1. n \in Int
  OBVIOUS
<1>2. IsFiniteSet(1 .. n)
  BY <1>1, FS_Interval, 1 \in Int, SMT
<1>3. f \in Surjection(1 .. n, Bigrams(a))
  <2>1. f \in [1 .. n -> Bigrams(a)]
    BY DEF Bigrams
  <2>2. \A t \in Bigrams(a) : \E i \in 1 .. n : f[i] = t
    BY DEF Bigrams
  <2> QED
    BY <2>1, <2>2 DEF Surjection
<1> QED
  BY <1>2, <1>3, FS_Surjection, Zenon

LEMMA BigramBounds ==
    ASSUME NEW a \in Seq(Nat), NEW b \in Seq(Nat)
    PROVE  BigramJaccard(a, b) \in Thousandths
<1> DEFINE A == Bigrams(a)
           B == Bigrams(b)
<1>1. CASE a = <<>> \/ b = <<>> \/ Within(a, b) \/ Within(b, a) \/ A = {} \/ B = {}
  <2>1. BigramJaccard(a, b) = 0 \/ BigramJaccard(a, b) = 1000
    BY <1>1, SMT DEF BigramJaccard
  <2> QED
    BY <2>1, SMT DEF Thousandths
<1>2. CASE ~(a = <<>> \/ b = <<>> \/ Within(a, b) \/ Within(b, a) \/ A = {} \/ B = {})
  <2> DEFINE n == Cardinality(A \cap B)
             d == Cardinality(A \cup B)
  <2>1. IsFiniteSet(A) /\ IsFiniteSet(B)
    BY BigramsAreFinite, SMT
  <2>2. IsFiniteSet(A \cup B)
    BY <2>1, FS_Union, Zenon
  <2>3. n \in Nat /\ d \in Nat /\ n <= d
    <3>1. A \cap B \in SUBSET (A \cup B)
      OBVIOUS
    <3> QED
      BY <2>2, <3>1, FS_Subset, FS_CardinalityType, SMT
  <2>4. d # 0
    BY <1>2, <2>2, FS_EmptySet, Zenon
  <2>5. (1000 * n) \div d \in Thousandths
    <3> DEFINE m == 1000 * n
    <3>1. m \in Nat /\ d \in Nat \ {0} /\ AtMost(m, d)
      BY <2>3, <2>4, SMT DEF AtMost
    <3> HIDE DEF m, d
    <3>2. m \div d \in Thousandths
      BY <3>1, ThousandthsBound
    <3> QED
      BY <3>2, SMT DEF m
  <2> QED
    BY <1>2, <2>5, SMT DEF BigramJaccard
<1> QED
  BY <1>1, <1>2, SMT

LEMMA MerchantScoreBounds ==
    ASSUME NEW v \in InvoiceRows, NEW w \in PaymentRows
    PROVE  MerchantScore(v.name, w.name) \in Thousandths
<1>1. CASE v.name = Missing \/ w.name = Missing
  BY <1>1, SMT DEF MerchantScore, Thousandths
<1>2. CASE v.name # Missing /\ w.name # Missing
  <2>1. NormalizeName(v.name) \in Seq(Nat) /\ NormalizeName(w.name) \in Seq(Nat)
    BY <1>2, NamesAssumption
  <2>2. BigramJaccard(NormalizeName(v.name), NormalizeName(w.name)) \in Thousandths
    BY <2>1, BigramBounds
  <2> QED
    BY <1>2, <2>2 DEF MerchantScore
<1> QED
  BY <1>1, <1>2

-----------------------------------------------------------------------------
RowsTyped == payments \in [Payments -> PaymentRows] /\ invoices \in [Invoices -> InvoiceRows]

\* A score lies between 0 and 1, and an exact amount alone reaches 0.55, for any rows (Score).
THEOREM ScoresAreBounded ==
    ASSUME RowsTyped, NEW i \in Invoices, NEW p \in Payments
    PROVE  /\ Score(i, p) \in Nat /\ Score(i, p) <= 100000
           /\ invoices[i].amount # Missing /\ invoices[i].amount > 0
                 /\ payments[p].amount = invoices[i].amount => Score(i, p) >= 55000
<1> DEFINE v == invoices[i]
           w == payments[p]
           x == AmountScore(v.amount, w.amount)
           y == DateScore(v.date, w.at)
           z == MerchantScore(v.name, w.name)
<1>1. v \in InvoiceRows /\ w \in PaymentRows
  BY SMT DEF RowsTyped
<1>2. /\ v.amount \in Int \cup {Missing} /\ v.date \in Int \cup {Missing}
      /\ w.amount \in Int /\ w.at \in Int
  BY <1>1, ColumnsAssumption, SMT
<1>3. x \in Thousandths
  BY <1>2, AmountScoreBounds
<1>4. v.amount # Missing /\ v.amount > 0 /\ w.amount = v.amount => x = 1000
  BY <1>2, ExactAmountScore, SMT
<1>5. y \in Thousandths
  BY <1>2, DateScoreBounds
<1>6. z \in Thousandths
  BY <1>1, MerchantScoreBounds
<1>7. Score(i, p) = 55 * x + 25 * y + 20 * z
  BY SMT DEF Score
<1> HIDE DEF x, y, z
<1>8. x \in Nat /\ y \in Nat /\ z \in Nat /\ x <= 1000 /\ y <= 1000 /\ z <= 1000
  BY <1>3, <1>5, <1>6, SMT DEF Thousandths
<1>9. Score(i, p) \in Nat /\ Score(i, p) <= 100000 /\ (x = 1000 => Score(i, p) >= 55000)
  BY <1>7, <1>8, SMT
<1>10. ASSUME v.amount # Missing /\ v.amount > 0 /\ w.amount = v.amount PROVE Score(i, p) >= 55000
  BY <1>4, <1>9, <1>10, SMT
<1> QED
  BY <1>9, <1>10, SMT
-----------------------------------------------------------------------------
(* The inductive invariant of a request                                     *)

\* What is asked about exists, with one of the limits, from the first statement to the answer.
RequestTyped ==
    /\ MatchTypeOK
    /\ request.pc # "idle" => request.of \in Payments \cup Invoices /\ request.limit \in Limits

Looked == request.pc \in {"recent", "rank", "said"}

\* The payment an invoice has is among those read as linked, unless the link came later.
LinkIsSeen ==
    request.pc \in {"query", "recent", "rank", "said"} /\ ByInvoice /\ request.of \notin touched =>
        links[request.of] \notin Confirmed(payments, User) \ request.linked

\* Candidates are confirmed rows of the user; an invoice among them that has a payment got it later.
FoundIsFree ==
    Looked => IF ByInvoice THEN request.found \subseteq Confirmed(payments, User)
              ELSE /\ request.found \subseteq Confirmed(invoices, User)
                   /\ \A i \in request.found : i \in touched \/ ~Taken(i)

NothingYet == request.pc = "recent" => request.found = {}

\* The newest payments stand in where no payment is a candidate.
SomethingIsFound ==
    request.pc \in {"rank", "said"} /\ ByInvoice /\ Confirmed(payments, User) # {} => request.found # {}

SaidIsScored == Answered => /\ Said \subseteq Scored
                            /\ ByInvoice /\ Scored # {} => Said # {}

\* The parts of ExactAmountIsBest.
AmountAsked == IF ByInvoice THEN invoices[request.of].amount ELSE payments[request.of].amount
SameAmount ==
    IF ByInvoice THEN {p \in Confirmed(payments, User) : Size(payments[p].amount) = AmountAsked}
    ELSE {i \in Confirmed(invoices, User) : invoices[i].amount = AmountAsked}
Due ==
    IF ByInvoice
    THEN {p \in SameAmount : /\ payments[p].amount > 0 /\ p \notin request.linked
                             /\ invoices[request.of].date \in {Missing, payments[p].at \div 2}}
    ELSE {i \in SameAmount : i \notin touched \cup request.linked /\ ~Taken(i)}
Prunable ==
    AmountAsked # Missing /\ AmountAsked > 0 /\ Cardinality(SameAmount) <= CandidateLimit(request.limit)

\* No row of exactly the amount is lost to the LIMIT; of the scored rows, none scores more than
\* the first one said.
DueIsFound == Looked /\ Prunable => Due \subseteq request.found
BestIsFirst ==
    Answered /\ Prunable /\ Due # {} =>
        request.said # <<>> /\ \A y \in Due : ScoreOf(request.said[1]) >= ScoreOf(y)

MatchInv ==
    /\ RequestTyped /\ LinkIsSeen /\ FoundIsFree /\ SomethingIsFound /\ SaidIsScored
    /\ NothingYet /\ DueIsFound /\ BestIsFirst

-----------------------------------------------------------------------------
(* What the statements return                                               *)

\* LIMIT k returns rows of the table, and some where there are any.
LEMMA FirstOfFacts ==
    ASSUME NEW S, IsFiniteSet(S), NEW k \in Nat \ {0}, NEW d, NEW r, NEW T \in FirstOf(S, k, d, r)
    PROVE  T \subseteq S /\ IsFiniteSet(T) /\ (S # {} => T # {})
<1>1. T \in SUBSET S /\ Cardinality(T) = IF Cardinality(S) < k THEN Cardinality(S) ELSE k
  BY DEF FirstOf
<1>2. IsFiniteSet(T)
  BY <1>1, FS_Subset
<1>3. ASSUME S # {} PROVE T # {}
  <2>1. Cardinality(S) \in Nat /\ Cardinality(S) # 0
    BY <1>3, FS_CardinalityType, FS_EmptySet
  <2>2. Cardinality(T) # 0
    BY <1>1, <2>1
  <2> QED
    BY <2>2, <1>2, FS_EmptySet
<1> QED
  BY <1>1, <1>2, <1>3

\* Rows at distance 0 are all returned if they are among no more than k rows.
LEMMA NearestAreKept ==
    ASSUME NEW S, IsFiniteSet(S), NEW k \in Nat \ {0}, NEW d, NEW r, NEW T \in FirstOf(S, k, d, r),
           NEW E, IsFiniteSet(E), Cardinality(E) <= k,
           \A x \in S : d[x] \in Nat /\ (d[x] = 0 => x \in E),
           NEW y \in S, d[y] = 0
    PROVE  y \in T
<1> SUFFICES ASSUME y \notin T PROVE FALSE
  OBVIOUS
<1>1. T \in SUBSET S /\ IsFiniteSet(T)
  BY FirstOfFacts DEF FirstOf
<1>2. Cardinality(T) = IF Cardinality(S) < k THEN Cardinality(S) ELSE k
  BY DEF FirstOf
<1>3. ASSUME NEW x \in T PROVE x \in E
  <2>1. ~(d[y] < d[x])
    BY <1>3 DEF FirstOf
  <2>2. d[x] \in Nat /\ x \in S
    BY <1>1, <1>3
  <2>3. d[x] = 0
    BY <2>1, <2>2
  <2> QED
    BY <2>2, <2>3
<1>4. Cardinality(S) \in Nat /\ Cardinality(T) \in Nat /\ Cardinality(E) \in Nat
  BY <1>1, FS_CardinalityType
<1>5. Cardinality(T) = k
  <2>1. Cardinality(S) # Cardinality(T)
    BY <1>1, FS_Subset
  <2> QED
    BY <1>2, <2>1
<1>6. T \cup {y} \in SUBSET E
  BY <1>3
<1>7. Cardinality(T \cup {y}) = Cardinality(T) + 1
  BY <1>1, FS_AddElement
<1>8. Cardinality(T \cup {y}) <= Cardinality(E)
  BY <1>6, FS_Subset
<1> QED
  BY <1>4, <1>5, <1>7, <1>8

\* A sorted list holds every row; the first one's score is the greatest.
LEMMA RankedFacts ==
    ASSUME NEW S, IsFiniteSet(S), NEW s \in Ranked(S), \A x \in S : ScoreOf(x) \in Nat
    PROVE  /\ s \in Seq(S)
           /\ S # {} => s # <<>> /\ s[1] \in S /\ \A y \in S : ScoreOf(s[1]) >= ScoreOf(y)
<1> DEFINE n == Cardinality(S)
<1>1. n \in Nat /\ IsFiniteSet(1 .. n) /\ Cardinality(1 .. n) = n
  BY FS_CardinalityType, FS_Interval
<1>2. s \in [1 .. n -> S] /\ \A i, j \in 1 .. n : i # j => s[i] # s[j]
  BY DEF Ranked, SetToSeqs
<1>3. s \in Seq(S) /\ Len(s) = n
  BY <1>1, <1>2
<1>4. ASSUME S # {} PROVE n >= 1 /\ s # <<>> /\ s[1] \in S
  BY <1>1, <1>2, <1>3, <1>4, FS_EmptySet
<1>5. ASSUME NEW y \in S PROVE ScoreOf(s[1]) >= ScoreOf(y)
  <2>1. s \in Injection(1 .. n, S)
    BY <1>2 DEF Injection, IsInjective
  <2>2. s \in Surjection(1 .. n, S)
    BY <2>1, <1>1, FS_Injection
  <2>3. PICK k \in 1 .. n : s[k] = y
    BY <2>2 DEF Surjection
  <2>4. 1 \in 1 .. n /\ s[1] \in S
    BY <1>4, <1>5, <1>1
  <2>5. CASE k = 1
    BY <2>3, <2>4, <2>5
  <2>6. CASE k # 1
    <3>1. 1 < k
      BY <2>6, <1>1
    <3> DEFINE points == [x \in S |-> ScoreOf(x)]
    <3>2. points[s[1]] > points[s[k]] \/ points[s[1]] = points[s[k]]
      BY <2>4, <3>1 DEF Ranked
    <3>3. points[s[1]] = ScoreOf(s[1]) /\ points[s[k]] = ScoreOf(y)
      BY <2>3, <2>4
    <3> QED
      BY <3>2, <3>3, <2>4
  <2> QED
    BY <2>5, <2>6
<1> QED
  BY <1>3, <1>4, <1>5

LEMMA FirstFewFacts ==
    ASSUME NEW S, NEW s \in Seq(S), request.limit \in Nat \ {0}
    PROVE  /\ FirstFew(s) \in Seq(S) /\ ToSet(FirstFew(s)) \subseteq S
           /\ s # <<>> => FirstFew(s) # <<>> /\ FirstFew(s)[1] = s[1] /\ ToSet(FirstFew(s)) # {}
<1> DEFINE n == IF Len(s) < request.limit THEN Len(s) ELSE request.limit
           t == SubSeq(s, 1, n)
<1>1. n \in Nat /\ n <= Len(s) /\ (s # <<>> => n >= 1)
  OBVIOUS
<1>2. t \in Seq(S) /\ Len(t) = n /\ \A i \in 1 .. n : t[i] = s[i] /\ t[i] \in S
  BY <1>1
<1>3. DOMAIN t = 1 .. n
  BY <1>2
<1>4. ToSet(t) \subseteq S
  BY <1>2, <1>3 DEF ToSet
<1>5. s # <<>> => t # <<>> /\ t[1] = s[1] /\ ToSet(t) # {}
  BY <1>1, <1>2, <1>3 DEF ToSet
<1> QED
  BY <1>2, <1>4, <1>5 DEF FirstFew

-----------------------------------------------------------------------------
(* What the queries return                                                  *)

LEMMA TablesAreFinite ==
    ASSUME RequestTyped
    PROVE  /\ RowsTyped
           /\ Confirmed(payments, User) \subseteq Payments /\ IsFiniteSet(Confirmed(payments, User))
           /\ Confirmed(invoices, User) \subseteq Invoices /\ IsFiniteSet(Confirmed(invoices, User))
<1>1. RowsTyped
  BY DEF RowsTyped, RequestTyped, MatchTypeOK
<1>2. Confirmed(payments, User) \in SUBSET Payments /\ Confirmed(invoices, User) \in SUBSET Invoices
  BY <1>1 DEF RowsTyped, Confirmed
<1> QED
  BY <1>1, <1>2, TablesAssumption, FS_Subset

LEMMA LimitFacts ==
    ASSUME RequestTyped, request.pc # "idle"
    PROVE  request.limit \in Nat \ {0} /\ CandidateLimit(request.limit) \in Nat \ {0}
<1>1. request.limit \in Nat \ {0}
  BY CandidatesAssumption DEF RequestTyped
<1> DEFINE n == request.limit * PerSuggestion
<1>2. n \in Nat
  BY <1>1, CandidatesAssumption
<1>3. CandidateLimit(request.limit) = IF n < FewestCandidates THEN FewestCandidates ELSE n
  BY DEF CandidateLimit
<1> HIDE DEF n
<1> QED
  BY <1>1, <1>2, <1>3, CandidatesAssumption

LEMMA PaymentColumns ==
    ASSUME RowsTyped, NEW p \in Payments
    PROVE  payments[p].amount \in Int /\ payments[p].at \in Int
BY ColumnsAssumption DEF RowsTyped

LEMMA InvoiceColumns ==
    ASSUME RowsTyped, NEW i \in Invoices
    PROVE  /\ invoices[i].amount \in Int \cup {Missing}
           /\ invoices[i].date \in Int \cup {Missing}
BY ColumnsAssumption DEF RowsTyped

LEMMA AmountIsNear ==
    \A a \in Int, n, m \in Nat : a > 0 /\ n <= 10 /\ 10 <= m => a \in Tenths(a, n) .. TenthsUp(a, m)
<1> SUFFICES ASSUME NEW a \in Int, NEW n \in Nat, NEW m \in Nat, a > 0, n <= 10, 10 <= m
             PROVE  a \in Tenths(a, n) .. TenthsUp(a, m)
  BY Zenon
<1>1. a * n <= a * 10 /\ (-a) * m <= (-a) * 10
  BY SMT
<1>2. a * n \in Int /\ (-a) * m \in Int
  BY SMT
<1>3. (a * n) \div 10 <= a /\ ((-a) * m) \div 10 <= -a
  BY <1>1, <1>2, SMT
<1>4. Tenths(a, n) \in Int /\ TenthsUp(a, m) \in Int /\ Tenths(a, n) <= a /\ a <= TenthsUp(a, m)
  BY <1>2, <1>3, SMT DEF Tenths, TenthsUp
<1> QED
  BY <1>4, SMT

LEMMA PaymentQuery ==
    ASSUME RequestTyped, request.pc # "idle", ByInvoice, NEW T \in PaymentCandidates(request.of)
    PROVE  T \subseteq Confirmed(payments, User) /\ (Prunable => Due \subseteq T)
<1> DEFINE v == invoices[request.of]
           S == IF Near(v) # {} \/ v.amount = Missing THEN Near(v) ELSE OfThatDay(v)
           k == CandidateLimit(request.limit)
           d == PaymentDistance(v.amount)
<1>1. T \in FirstOf(S, k, d, PaymentRecency)
  BY DEF PaymentCandidates
<1>2. S \in SUBSET Confirmed(payments, User)
  BY DEF Near, OfThatDay
<1>3. IsFiniteSet(S) /\ k \in Nat \ {0}
  BY <1>2, TablesAreFinite, FS_Subset, LimitFacts
<1>4. T \subseteq S
  BY <1>1, <1>3, FirstOfFacts
<1>5. ASSUME Prunable, NEW y \in Due PROVE y \in T
  <2> DEFINE a == v.amount
  <2>1. request.of \in Invoices /\ RowsTyped
    BY TablesAreFinite DEF ByInvoice
  <2>2. AmountAsked = a /\ a # Missing /\ a > 0 /\ a \in Int
    BY <1>5, <2>1, InvoiceColumns DEF Prunable, AmountAsked, ByInvoice
  <2>3. /\ y \in Confirmed(payments, User) /\ y \in Payments /\ payments[y].amount \in Int
        /\ Size(payments[y].amount) = a /\ payments[y].amount > 0
        /\ v.date \in {Missing, payments[y].at \div 2}
    BY <1>5, <2>1, <2>2, TablesAreFinite, PaymentColumns DEF Due, SameAmount, ByInvoice
  <2>4. Size(payments[y].amount) \in Tenths(a, 8) .. TenthsUp(a, 12)
    BY <2>2, <2>3, AmountIsNear
  <2>5. y \in Near(v)
    BY <2>3, <2>4 DEF Near
  <2>6. S = Near(v) /\ y \in S
    BY <2>5
  <2>7. ASSUME NEW x \in S PROVE d[x] \in Nat /\ (d[x] = 0 => x \in SameAmount)
    <3>1. x \in Confirmed(payments, User) /\ x \in Payments /\ payments[x].amount \in Int
      BY <1>2, <2>1, <2>7, TablesAreFinite, PaymentColumns
    <3>2. d[x] = Size(Size(payments[x].amount) - a)
      BY <2>2, <3>1 DEF PaymentDistance
    <3>3. Size(payments[x].amount) \in Nat /\ Size(payments[x].amount) - a \in Int
      BY <2>2, <3>1, SizeFacts
    <3>4. d[x] \in Nat /\ (d[x] = 0 <=> Size(payments[x].amount) - a = 0)
      BY <3>2, <3>3, SizeFacts
    <3>5. d[x] = 0 => Size(payments[x].amount) = a
      BY <2>2, <3>3, <3>4
    <3> QED
      BY <2>2, <3>1, <3>4, <3>5 DEF SameAmount, ByInvoice
  <2>8. d[y] = 0
    <3>1. d[y] = Size(Size(payments[y].amount) - a)
      BY <2>2, <2>3 DEF PaymentDistance
    <3> QED
      BY <2>2, <2>3, <3>1 DEF Size
  <2>9. IsFiniteSet(SameAmount) /\ Cardinality(SameAmount) <= k
    <3>1. SameAmount \in SUBSET Confirmed(payments, User)
      BY DEF SameAmount, ByInvoice
    <3> QED
      BY <1>5, <3>1, TablesAreFinite, FS_Subset DEF Prunable
  <2> HIDE DEF S, k, d
  <2> QED
    BY <1>1, <1>3, <2>6, <2>7, <2>8, <2>9, NearestAreKept
<1> QED
  BY <1>2, <1>4, <1>5

LEMMA InvoiceQuery ==
    ASSUME RequestTyped, request.pc # "idle", ~ByInvoice, NEW T \in InvoiceCandidates(request.of)
    PROVE  T \subseteq Unlinked(User) /\ (Prunable => Due \subseteq T)
<1> DEFINE a == payments[request.of].amount
           S == {i \in Unlinked(User) :
                    a = 0 \/ /\ invoices[i].amount # Missing
                             /\ invoices[i].amount \in Tenths(Size(a), 9) .. TenthsUp(Size(a), 11)}
           k == CandidateLimit(request.limit)
           d == [i \in Invoices |-> IF a = 0 \/ invoices[i].amount = Missing THEN 0
                                    ELSE Size(invoices[i].amount - Size(a))]
<1>1. T \in FirstOf(S, k, d, InvoiceRecency)
  BY DEF InvoiceCandidates
<1>2. S \in SUBSET Unlinked(User) /\ Unlinked(User) \subseteq Confirmed(invoices, User)
  BY DEF Unlinked
<1>3. IsFiniteSet(S) /\ k \in Nat \ {0}
  <2>1. S \in SUBSET Confirmed(invoices, User)
    BY <1>2
  <2> QED
    BY <2>1, TablesAreFinite, FS_Subset, LimitFacts
<1>4. T \subseteq S
  BY <1>1, <1>3, FirstOfFacts
<1>5. ASSUME Prunable, NEW y \in Due PROVE y \in T
  <2>1. request.of \in Payments /\ RowsTyped
    BY TablesAreFinite DEF ByInvoice, RequestTyped
  <2>2. AmountAsked = a /\ a > 0 /\ a \in Int /\ Size(a) = a
    BY <1>5, <2>1, PaymentColumns DEF Prunable, AmountAsked, ByInvoice, Size
  <2>3. /\ y \in Confirmed(invoices, User) /\ y \in Invoices /\ invoices[y].amount = a /\ ~Taken(y)
    BY <1>5, <2>1, <2>2, TablesAreFinite DEF Due, SameAmount, ByInvoice
  <2>4. a \in Tenths(a, 9) .. TenthsUp(a, 11)
    BY <2>2, AmountIsNear
  <2>5. a # Missing
    BY <2>2, TablesAssumption
  <2>6. y \in S
    BY <2>2, <2>3, <2>4, <2>5 DEF Unlinked
  <2>7. ASSUME NEW x \in S PROVE d[x] \in Nat /\ (d[x] = 0 => x \in SameAmount)
    <3>1. /\ x \in Confirmed(invoices, User) /\ x \in Invoices
          /\ invoices[x].amount \in Int /\ invoices[x].amount # Missing
      BY <1>2, <2>1, <2>2, <2>7, TablesAreFinite, InvoiceColumns
    <3>2. d[x] = Size(invoices[x].amount - a)
      BY <2>2, <3>1
    <3>3. invoices[x].amount - a \in Int
      BY <2>2, <3>1
    <3>4. d[x] \in Nat /\ (d[x] = 0 <=> invoices[x].amount - a = 0)
      BY <3>2, <3>3, SizeFacts
    <3>5. d[x] = 0 => invoices[x].amount = a
      BY <2>2, <3>1, <3>4
    <3> QED
      BY <2>2, <3>1, <3>4, <3>5 DEF SameAmount, ByInvoice
  <2>8. d[y] = 0
    <3>1. d[y] = Size(invoices[y].amount - a)
      BY <2>2, <2>3, <2>5
    <3> QED
      BY <2>2, <2>3, <3>1 DEF Size
  <2>9. IsFiniteSet(SameAmount) /\ Cardinality(SameAmount) <= k
    <3>1. SameAmount \in SUBSET Confirmed(invoices, User)
      BY DEF SameAmount, ByInvoice
    <3> QED
      BY <1>5, <3>1, TablesAreFinite, FS_Subset DEF Prunable
  <2> HIDE DEF S, k, d
  <2> QED
    BY <1>1, <1>3, <2>6, <2>7, <2>8, <2>9, NearestAreKept
<1> QED
  BY <1>2, <1>4, <1>5

LEMMA RecentQuery ==
    ASSUME RequestTyped, request.pc # "idle", NEW T \in Recent
    PROVE  IF ByInvoice THEN /\ T \subseteq Confirmed(payments, User)
                             /\ Confirmed(payments, User) # {} => T # {}
           ELSE T \subseteq Unlinked(User)
<1> DEFINE k == CandidateLimit(request.limit)
<1>1. k \in Nat \ {0}
  BY LimitFacts
<1>2. CASE ByInvoice
  <2>1. T \in FirstOf(Confirmed(payments, User), k, [p \in Payments |-> 0], PaymentRecency)
    BY <1>2 DEF Recent
  <2> HIDE DEF k
  <2> QED
    BY <1>1, <1>2, <2>1, TablesAreFinite, FirstOfFacts
<1>3. CASE ~ByInvoice
  <2>1. T = {} \/ T \in FirstOf(Unlinked(User), k, [i \in Invoices |-> 0], InvoiceRecency)
    BY <1>3 DEF Recent
  <2>2. Unlinked(User) \in SUBSET Confirmed(invoices, User)
    BY DEF Unlinked
  <2>3. IsFiniteSet(Unlinked(User))
    BY <2>2, TablesAreFinite, FS_Subset
  <2> HIDE DEF k
  <2> QED
    BY <1>1, <1>3, <2>1, <2>3, FirstOfFacts
<1> QED
  BY <1>2, <1>3

LEMMA ScoreFacts ==
    ASSUME RequestTyped, request.pc # "idle", FoundIsFree, Looked
    PROVE  /\ \A x \in Scored : ScoreOf(x) \in Nat
           /\ IsFiniteSet(Scored) /\ IsFiniteSet(Good) /\ Good \subseteq Scored
           /\ Prunable => \A y \in Due \cap Scored : y \in Good
<1>1. RowsTyped /\ Payments \cap Invoices = {}
  BY TablesAreFinite, TablesAssumption
<1>2. Scored \subseteq request.found /\ Good \in SUBSET Scored
  BY DEF Scored, Good
<1>3. LeastScore \in {5000, 15000}
  BY SMT DEF LeastScore
<1>4. CASE ByInvoice
  <2>1. request.of \in Invoices /\ Scored \in SUBSET Confirmed(payments, User)
    BY <1>2, <1>4 DEF ByInvoice, FoundIsFree
  <2>2. Scored \subseteq Payments /\ IsFiniteSet(Scored) /\ IsFiniteSet(Good)
    BY <1>2, <2>1, TablesAreFinite, FS_Subset
  <2>3. \A x \in Scored : ScoreOf(x) = Score(request.of, x)
    BY <1>4 DEF ScoreOf
  <2>4. \A x \in Scored : ScoreOf(x) \in Nat
    BY <1>1, <2>1, <2>2, <2>3, ScoresAreBounded
  <2>5. ASSUME Prunable, NEW y \in Due \cap Scored PROVE y \in Good
    <3>1. invoices[request.of].amount # Missing /\ invoices[request.of].amount > 0
      BY <1>4, <2>5 DEF Prunable, AmountAsked
    <3>2. payments[y].amount = invoices[request.of].amount
      BY <1>1, <1>4, <2>2, <2>5, PaymentColumns DEF Due, SameAmount, AmountAsked, Size
    <3>3. ScoreOf(y) >= 55000
      BY <1>1, <2>1, <2>2, <2>3, <2>5, <3>1, <3>2, ScoresAreBounded, SMT
    <3>4. ScoreOf(y) >= LeastScore
      BY <1>3, <2>4, <2>5, <3>3, SMT
    <3> QED
      BY <2>5, <3>4 DEF Good
  <2> QED
    BY <1>2, <2>2, <2>4, <2>5
<1>5. CASE ~ByInvoice
  <2>1. request.of \in Payments /\ Scored \in SUBSET Confirmed(invoices, User)
    BY <1>2, <1>5 DEF ByInvoice, FoundIsFree, RequestTyped
  <2>2. Scored \subseteq Invoices /\ IsFiniteSet(Scored) /\ IsFiniteSet(Good)
    BY <1>2, <2>1, TablesAreFinite, FS_Subset
  <2>3. \A x \in Scored : ScoreOf(x) = Score(x, request.of)
    BY <1>5 DEF ScoreOf
  <2>4. \A x \in Scored : ScoreOf(x) \in Nat
    BY <1>1, <2>1, <2>2, <2>3, ScoresAreBounded
  <2>5. ASSUME Prunable, NEW y \in Due \cap Scored PROVE y \in Good
    <3>1. payments[request.of].amount # Missing /\ payments[request.of].amount > 0
      BY <1>5, <2>5 DEF Prunable, AmountAsked
    <3>2. payments[request.of].amount = invoices[y].amount
      BY <1>5, <2>5 DEF Due, SameAmount, AmountAsked
    <3>3. ScoreOf(y) >= 55000
      BY <1>1, <2>1, <2>2, <2>3, <2>5, <3>1, <3>2, ScoresAreBounded, SMT
    <3>4. ScoreOf(y) >= LeastScore
      BY <1>3, <2>4, <2>5, <3>3, SMT
    <3> QED
      BY <2>5, <3>4 DEF Good
  <2> QED
    BY <1>2, <2>2, <2>4, <2>5
<1> QED
  BY <1>4, <1>5

-----------------------------------------------------------------------------
(* Every step keeps the invariant                                           *)

\* What is due depends on the question, the rows, the links and what was touched.
LEMMA SameQuestion ==
    ASSUME UNCHANGED <<rows, links, touched>>,
           request'.of = request.of, request'.limit = request.limit, request'.linked = request.linked
    PROVE  /\ ByInvoice' = ByInvoice /\ Prunable' = Prunable /\ Due' = Due
           /\ Confirmed(payments, User)' = Confirmed(payments, User)
           /\ Confirmed(invoices, User)' = Confirmed(invoices, User)
           /\ \A i : Taken(i)' = Taken(i)
           /\ \A x : ScoreOf(x)' = ScoreOf(x)
<1>1. /\ payments' = payments /\ invoices' = invoices /\ links' = links /\ touched' = touched
  BY DEF rows
<1>2. ByInvoice' = ByInvoice
  BY DEF ByInvoice
<1>3. Confirmed(payments, User)' = Confirmed(payments, User)
  BY <1>1 DEF Confirmed
<1>4. Confirmed(invoices, User)' = Confirmed(invoices, User)
  BY <1>1 DEF Confirmed
<1>5. \A i : Taken(i)' = Taken(i)
  BY <1>1 DEF Taken, Confirmed
<1>6. \A x : ScoreOf(x)' = ScoreOf(x)
  BY <1>1, <1>2 DEF ScoreOf, Score
<1>7. AmountAsked' = AmountAsked
  BY <1>1, <1>2 DEF AmountAsked
<1>8. SameAmount' = SameAmount
  BY <1>1, <1>2, <1>3, <1>4, <1>7 DEF SameAmount
<1>9. Prunable' = Prunable
  BY <1>7, <1>8 DEF Prunable
<1>10. Due' = Due
  BY <1>1, <1>2, <1>5, <1>8 DEF Due
<1> QED
  BY <1>2, <1>3, <1>4, <1>5, <1>6, <1>9, <1>10

LEMMA AskStep ==
    ASSUME MatchInv, NEW x \in Payments \cup Invoices, NEW n \in Limits, Ask(x, n)
    PROVE  MatchInv'
<1>1. request' = [pc |-> "linked", of |-> x, limit |-> n, linked |-> {}, found |-> {}, said |-> <<>>]
  BY DEF Ask, Idle
<1>2. RequestTyped'
  <2>1. MatchTypeOK'
    <3>1. <<>> \in Seq(Payments \cup Invoices)
      OBVIOUS
    <3>2. request' \in Requests
      BY <1>1, <3>1 DEF Requests, MatchPoints
    <3> QED
      BY <3>2 DEF MatchInv, RequestTyped, MatchTypeOK, Ask, rows
  <2> QED
    BY <1>1, <2>1 DEF RequestTyped
<1> QED
  BY <1>1, <1>2 DEF MatchInv, LinkIsSeen, FoundIsFree, NothingYet, SomethingIsFound, SaidIsScored,
                   DueIsFound, BestIsFirst, Looked, Answered

LEMMA ReadLinkedStep ==
    ASSUME MatchInv, ReadLinked
    PROVE  MatchInv'
<1> DEFINE L == IF ByInvoice THEN LinkedPayments(request.of) ELSE LinkedInvoices(request.of)
<1>1. request' = [request EXCEPT !.pc = "query", !.linked = L]
  BY DEF ReadLinked
<1>2. MatchTypeOK /\ RowsTyped /\ UNCHANGED <<rows, links, column, touched, changes>>
  BY TablesAreFinite DEF MatchInv, RequestTyped, ReadLinked
<1>3. L \subseteq Payments \cup Invoices
  BY <1>2, TablesAreFinite DEF MatchInv, LinkedPayments, LinkedInvoices
<1> HIDE DEF L
<1>4. request'.pc = "query" /\ request'.linked = L /\ request'.of = request.of /\ request'.limit = request.limit
  BY <1>1, <1>2 DEF MatchTypeOK, Requests
<1>5. RequestTyped'
  <2>1. MatchTypeOK'
    BY <1>1, <1>2, <1>3 DEF MatchTypeOK, Requests, MatchPoints, rows
  <2> QED
    BY <1>4, <2>1 DEF RequestTyped, MatchInv, ReadLinked
<1>6. LinkIsSeen'
  BY <1>2, <1>4 DEF LinkIsSeen, ByInvoice, Confirmed, LinkedPayments, rows, L
<1> QED
  BY <1>4, <1>5, <1>6 DEF MatchInv, FoundIsFree, NothingYet, SomethingIsFound, SaidIsScored,
                   DueIsFound, BestIsFirst, Looked, Answered

LEMMA LeaveStep ==
    ASSUME MatchInv, Leave
    PROVE  MatchInv'
<1>1. request'.pc = "idle"
  BY DEF Leave, Idle
<1>2. RequestTyped'
  <2>1. MatchTypeOK'
    BY DEF MatchInv, RequestTyped, MatchTypeOK, Requests, MatchPoints, Leave, Idle, rows
  <2> QED
    BY <1>1, <2>1 DEF RequestTyped
<1> QED
  BY <1>1, <1>2 DEF MatchInv, LinkIsSeen, FoundIsFree, NothingYet, SomethingIsFound, SaidIsScored,
                   DueIsFound, BestIsFirst, Looked, Answered

LEMMA QueryStep ==
    ASSUME MatchInv, Query
    PROVE  MatchInv'
<1> DEFINE C == IF ByInvoice THEN PaymentCandidates(request.of) ELSE InvoiceCandidates(request.of)
<1>1. PICK T \in C : request' = [request EXCEPT !.pc = IF T = {} THEN "recent" ELSE "rank", !.found = T]
  BY DEF Query
<1>2. RequestTyped /\ MatchTypeOK /\ request.pc = "query" /\ UNCHANGED <<rows, links, column, touched, changes>>
  BY DEF MatchInv, RequestTyped, Query
<1>3. IF ByInvoice THEN T \subseteq Confirmed(payments, User) ELSE T \subseteq Unlinked(User)
  BY <1>1, <1>2, PaymentQuery, InvoiceQuery
<1>4. Prunable => Due \subseteq T
  BY <1>1, <1>2, PaymentQuery, InvoiceQuery
<1> HIDE DEF C
<1>5. T \subseteq Payments \cup Invoices
  BY <1>2, <1>3, TablesAreFinite DEF Unlinked
<1>6. /\ request'.pc = IF T = {} THEN "recent" ELSE "rank"
      /\ request'.found = T /\ request'.linked = request.linked
      /\ request'.of = request.of /\ request'.limit = request.limit
  BY <1>1, <1>2 DEF MatchTypeOK, Requests
<1>7. RequestTyped'
  <2>1. MatchTypeOK'
    BY <1>1, <1>2, <1>5 DEF MatchTypeOK, Requests, MatchPoints, rows
  <2> QED
    BY <1>2, <1>6, <2>1 DEF RequestTyped
<1>8. /\ ByInvoice' = ByInvoice /\ Prunable' = Prunable /\ Due' = Due
      /\ Confirmed(payments, User)' = Confirmed(payments, User)
      /\ Confirmed(invoices, User)' = Confirmed(invoices, User)
      /\ \A i : Taken(i)' = Taken(i)
  BY <1>2, <1>6, SameQuestion
<1>9. LinkIsSeen'
  BY <1>2, <1>6, <1>8 DEF MatchInv, LinkIsSeen
<1>10. FoundIsFree'
  BY <1>3, <1>6, <1>8 DEF FoundIsFree, Unlinked
<1>11. NothingYet' /\ SomethingIsFound'
  BY <1>6 DEF NothingYet, SomethingIsFound
<1>12. DueIsFound'
  BY <1>4, <1>6, <1>8 DEF DueIsFound
<1>13. ~Answered'
  BY <1>6 DEF Answered
<1> QED
  BY <1>7, <1>9, <1>10, <1>11, <1>12, <1>13 DEF MatchInv, SaidIsScored, BestIsFirst

LEMMA ReadRecentStep ==
    ASSUME MatchInv, ReadRecent
    PROVE  MatchInv'
<1>1. PICK T \in Recent : request' = [request EXCEPT !.pc = "rank", !.found = T]
  BY DEF ReadRecent
<1>2. RequestTyped /\ MatchTypeOK /\ request.pc = "recent" /\ UNCHANGED <<rows, links, column, touched, changes>>
  BY DEF MatchInv, RequestTyped, ReadRecent
<1>3. IF ByInvoice THEN /\ T \subseteq Confirmed(payments, User)
                        /\ Confirmed(payments, User) # {} => T # {}
      ELSE T \subseteq Unlinked(User)
  BY <1>2, RecentQuery
<1>4. T \subseteq Payments \cup Invoices
  BY <1>2, <1>3, TablesAreFinite DEF Unlinked
<1>5. /\ request'.pc = "rank"
      /\ request'.found = T /\ request'.linked = request.linked
      /\ request'.of = request.of /\ request'.limit = request.limit
  BY <1>1, <1>2 DEF MatchTypeOK, Requests
<1>6. RequestTyped'
  <2>1. MatchTypeOK'
    BY <1>1, <1>2, <1>4 DEF MatchTypeOK, Requests, MatchPoints, rows
  <2> QED
    BY <1>2, <1>5, <2>1 DEF RequestTyped
<1>7. /\ ByInvoice' = ByInvoice /\ Prunable' = Prunable /\ Due' = Due
      /\ Confirmed(payments, User)' = Confirmed(payments, User)
      /\ Confirmed(invoices, User)' = Confirmed(invoices, User)
      /\ \A i : Taken(i)' = Taken(i)
  BY <1>2, <1>5, SameQuestion
<1>8. LinkIsSeen'
  BY <1>2, <1>5, <1>7 DEF MatchInv, LinkIsSeen
<1>9. FoundIsFree'
  BY <1>3, <1>5, <1>7 DEF FoundIsFree, Unlinked
<1>10. NothingYet' /\ SomethingIsFound'
  BY <1>3, <1>5, <1>7 DEF NothingYet, SomethingIsFound
<1>11. DueIsFound'
  <2>1. Prunable => Due = {}
    BY <1>2 DEF MatchInv, NothingYet, DueIsFound, Looked
  <2> QED
    BY <1>7, <2>1 DEF DueIsFound
<1>12. ~Answered'
  BY <1>5 DEF Answered
<1> QED
  BY <1>6, <1>8, <1>9, <1>10, <1>11, <1>12 DEF MatchInv, SaidIsScored, BestIsFirst

LEMMA RankStep ==
    ASSUME MatchInv, Rank
    PROVE  MatchInv'
<1> DEFINE R == IF ByInvoice /\ Good = {} THEN Scored ELSE Good
<1>1. PICK s \in Ranked(R) : request' = [request EXCEPT !.pc = "said", !.said = FirstFew(s)]
  BY DEF Rank
<1>2. RequestTyped /\ MatchTypeOK /\ request.pc = "rank" /\ UNCHANGED <<rows, links, column, touched, changes>>
  BY DEF MatchInv, RequestTyped, Rank
<1>3. /\ \A x \in Scored : ScoreOf(x) \in Nat
      /\ IsFiniteSet(Scored) /\ IsFiniteSet(Good) /\ Good \subseteq Scored
      /\ Prunable => \A y \in Due \cap Scored : y \in Good
  BY <1>2, ScoreFacts DEF MatchInv, Looked
<1>4. R \subseteq Scored /\ IsFiniteSet(R) /\ (ByInvoice /\ Scored # {} => R # {})
  BY <1>3
<1>5. Scored \subseteq request.found /\ request.found \subseteq Payments \cup Invoices
  BY <1>2 DEF Scored, MatchTypeOK, Requests
<1>6. Prunable => \A y \in Due : y \in R
  <2>1. Due \cap request.linked = {}
    BY DEF Due
  <2>2. Prunable => Due \subseteq Scored
    BY <1>2, <2>1 DEF MatchInv, DueIsFound, Looked, Scored
  <2> QED
    BY <1>3, <2>2
<1> HIDE DEF R
<1>7. /\ s \in Seq(R)
      /\ R # {} => s # <<>> /\ s[1] \in R /\ \A y \in R : ScoreOf(s[1]) >= ScoreOf(y)
  BY <1>3, <1>4, RankedFacts
<1> DEFINE t == FirstFew(s)
<1>8. /\ t \in Seq(R) /\ ToSet(t) \subseteq R
      /\ s # <<>> => t # <<>> /\ t[1] = s[1] /\ ToSet(t) # {}
  BY <1>2, <1>7, LimitFacts, FirstFewFacts
<1> HIDE DEF t
<1>9. t \in Seq(Payments \cup Invoices)
  BY <1>4, <1>5, <1>8
<1>10. /\ request'.pc = "said" /\ request'.said = t
       /\ request'.found = request.found /\ request'.linked = request.linked
       /\ request'.of = request.of /\ request'.limit = request.limit
  BY <1>1, <1>2 DEF MatchTypeOK, Requests, t
<1>11. RequestTyped'
  <2>1. MatchTypeOK'
    BY <1>1, <1>2, <1>9 DEF MatchTypeOK, Requests, MatchPoints, rows, t
  <2> QED
    BY <1>2, <1>10, <2>1 DEF RequestTyped
<1>12. /\ ByInvoice' = ByInvoice /\ Prunable' = Prunable /\ Due' = Due
       /\ Confirmed(payments, User)' = Confirmed(payments, User)
       /\ Confirmed(invoices, User)' = Confirmed(invoices, User)
       /\ \A i : Taken(i)' = Taken(i)
       /\ \A x : ScoreOf(x)' = ScoreOf(x)
  BY <1>2, <1>10, SameQuestion
<1>13. LinkIsSeen'
  BY <1>2, <1>10, <1>12 DEF MatchInv, LinkIsSeen
<1>14. FoundIsFree' /\ NothingYet' /\ SomethingIsFound' /\ DueIsFound'
  BY <1>2, <1>10, <1>12 DEF MatchInv, FoundIsFree, NothingYet, SomethingIsFound, DueIsFound, Looked
<1>15. SaidIsScored'
  <2>1. Said' = ToSet(t) /\ Scored' = Scored
    BY <1>10 DEF Said, Scored
  <2> QED
    BY <1>4, <1>7, <1>8, <1>12, <2>1 DEF SaidIsScored
<1>16. BestIsFirst'
  <2>1. SUFFICES ASSUME Prunable, Due # {}
                 PROVE  t # <<>> /\ \A y \in Due : ScoreOf(t[1]) >= ScoreOf(y)
    BY <1>10, <1>12 DEF BestIsFirst
  <2> QED
    BY <1>6, <1>7, <1>8, <2>1
<1> QED
  BY <1>11, <1>13, <1>14, <1>15, <1>16 DEF MatchInv

\* A link or unlink of i: nothing more becomes due.
LEMMA TouchStep ==
    ASSUME MatchInv, NEW i \in Invoices, UNCHANGED <<rows, request>>, touched' = touched \cup {i},
           \A j \in Invoices \ {i} : links'[j] = links[j], MatchTypeOK'
    PROVE  MatchInv'
<1>1. payments' = payments /\ invoices' = invoices /\ request' = request
  BY DEF rows
<1>2. /\ ByInvoice' = ByInvoice
      /\ Confirmed(payments, User)' = Confirmed(payments, User)
      /\ Confirmed(invoices, User)' = Confirmed(invoices, User)
  BY <1>1 DEF ByInvoice, Confirmed
<1>3. \A j \in Invoices \ {i} : Taken(j)' = Taken(j)
  BY <1>1 DEF Taken, Confirmed
<1>4. AmountAsked' = AmountAsked
  BY <1>1, <1>2 DEF AmountAsked
<1>5. SameAmount' = SameAmount
  BY <1>1, <1>2, <1>4 DEF SameAmount
<1>6. Prunable' = Prunable
  BY <1>1, <1>4, <1>5 DEF Prunable
<1>7. Scored' = Scored /\ Said' = Said /\ Answered' = Answered /\ Looked' = Looked
  BY <1>1 DEF Scored, Said, Answered, Looked
<1>8. \A x : ScoreOf(x)' = ScoreOf(x)
  BY <1>1, <1>2 DEF ScoreOf, Score
<1>9. Confirmed(invoices, User) \subseteq Invoices
  BY TablesAreFinite DEF MatchInv
<1>10. Due' \subseteq Due
  <2>1. CASE ByInvoice
    BY <1>1, <1>2, <1>5, <2>1 DEF Due
  <2>2. CASE ~ByInvoice
    <3>1. SameAmount \subseteq Invoices
      BY <1>9, <2>2 DEF SameAmount
    <3> QED
      BY <1>1, <1>2, <1>3, <1>5, <2>2, <3>1 DEF Due
  <2> QED
    BY <2>1, <2>2
<1>11. RequestTyped'
  BY <1>1 DEF MatchInv, RequestTyped
<1>12. LinkIsSeen'
  BY <1>1, <1>2 DEF MatchInv, LinkIsSeen, ByInvoice
<1>13. FoundIsFree'
  BY <1>1, <1>2, <1>3, <1>7, <1>9 DEF MatchInv, FoundIsFree
<1>14. NothingYet' /\ SomethingIsFound'
  BY <1>1, <1>2 DEF MatchInv, NothingYet, SomethingIsFound
<1>15. SaidIsScored'
  BY <1>2, <1>7 DEF MatchInv, SaidIsScored
<1>16. DueIsFound'
  BY <1>1, <1>6, <1>7, <1>10 DEF MatchInv, DueIsFound
<1>17. BestIsFirst'
  BY <1>1, <1>6, <1>7, <1>8, <1>10 DEF MatchInv, BestIsFirst
<1> QED
  BY <1>11, <1>12, <1>13, <1>14, <1>15, <1>16, <1>17 DEF MatchInv

LEMMA LinkStep ==
    ASSUME MatchInv, NEW i \in Invoices, NEW p \in Payments, LinkPayment(i, p) \/ UnlinkPayment(i, p)
    PROVE  MatchInv'
<1>1. MatchTypeOK
  BY DEF MatchInv, RequestTyped
<1>2. changes \in 0 .. MaxLinks /\ changes < MaxLinks /\ changes' = changes + 1
  BY <1>1 DEF LinkPayment, UnlinkPayment, Touch, MatchTypeOK
<1>3. changes' \in 0 .. MaxLinks
  BY <1>2, CandidatesAssumption
<1>4. UNCHANGED <<rows, request>> /\ touched' = touched \cup {i}
  BY DEF LinkPayment, UnlinkPayment, Touch
<1>5. /\ links' \in [Invoices -> Payments \cup {Missing}]
      /\ column' \in [Invoices -> Payments \cup {Missing}]
      /\ \A j \in Invoices \ {i} : links'[j] = links[j]
  BY <1>1 DEF LinkPayment, UnlinkPayment, MatchTypeOK
<1>6. MatchTypeOK'
  BY <1>1, <1>3, <1>4, <1>5 DEF MatchTypeOK, rows
<1> QED
  BY <1>4, <1>5, <1>6, TouchStep

LEMMA MatchInvStarts == MatchInit => MatchInv
<1> SUFFICES ASSUME MatchInit PROVE MatchInv
  OBVIOUS
<1>1. request.pc = "idle" /\ request \in Requests
  <2>1. <<>> \in Seq(Payments \cup Invoices)
    OBVIOUS
  <2> QED
    BY <2>1 DEF MatchInit, Idle, Requests, MatchPoints
<1>2. MatchTypeOK
  BY <1>1, LinkSetsAssumption, CandidatesAssumption DEF MatchInit, MatchTypeOK
<1> QED
  BY <1>1, <1>2 DEF MatchInv, RequestTyped, LinkIsSeen, FoundIsFree, NothingYet, SomethingIsFound,
                   SaidIsScored, DueIsFound, BestIsFirst, Looked, Answered

LEMMA MatchInvKept == MatchInv /\ [MatchNext]_matchVars => MatchInv'
<1> SUFFICES ASSUME MatchInv, [MatchNext]_matchVars PROVE MatchInv'
  OBVIOUS
<1>1. ASSUME NEW x \in Payments \cup Invoices, NEW n \in Limits, Ask(x, n) PROVE MatchInv'
  BY <1>1, AskStep
<1>2. CASE ReadLinked
  BY <1>2, ReadLinkedStep
<1>3. CASE Query
  BY <1>3, QueryStep
<1>4. CASE ReadRecent
  BY <1>4, ReadRecentStep
<1>5. CASE Rank
  BY <1>5, RankStep
<1>6. CASE Leave
  BY <1>6, LeaveStep
<1>7. ASSUME NEW i \in Invoices, NEW p \in Payments, LinkPayment(i, p) \/ UnlinkPayment(i, p)
      PROVE  MatchInv'
  BY <1>7, LinkStep
<1>8. CASE UNCHANGED matchVars
  <2>1. /\ payments' = payments /\ invoices' = invoices /\ links' = links /\ column' = column
        /\ request' = request /\ touched' = touched /\ changes' = changes
    BY <1>8 DEF matchVars
  <2>2. /\ ByInvoice' = ByInvoice /\ Prunable' = Prunable /\ Due' = Due
        /\ Confirmed(payments, User)' = Confirmed(payments, User)
        /\ Confirmed(invoices, User)' = Confirmed(invoices, User)
        /\ \A i : Taken(i)' = Taken(i)
        /\ \A x : ScoreOf(x)' = ScoreOf(x)
    BY <2>1, SameQuestion DEF rows
  <2>3. Scored' = Scored /\ Said' = Said /\ Answered' = Answered /\ Looked' = Looked
    BY <2>1 DEF Scored, Said, Answered, Looked
  <2> QED
    BY <2>1, <2>2, <2>3 DEF MatchInv, RequestTyped, MatchTypeOK, LinkIsSeen, FoundIsFree, NothingYet,
                            SomethingIsFound, SaidIsScored, DueIsFound, BestIsFirst
<1> QED
  BY <1>1, <1>2, <1>3, <1>4, <1>5, <1>6, <1>7, <1>8 DEF MatchNext

-----------------------------------------------------------------------------
(* Theorems                                                                 *)

LEMMA MatchInvHolds == MatchSpec => []MatchInv
<1>1. MatchInit => MatchInv
  BY MatchInvStarts
<1>2. MatchInv /\ [MatchNext]_matchVars => MatchInv'
  BY MatchInvKept
<1> QED
  BY <1>1, <1>2, PTL DEF MatchSpec

\* Rows, links and the request under way have their types, for any tables and limits (MatchTypeOK).
THEOREM MatchTypeCorrect == MatchSpec => []MatchTypeOK
<1>1. MatchInv => MatchTypeOK
  BY DEF MatchInv, RequestTyped
<1> QED
  BY <1>1, MatchInvHolds, PTL

\* The pruning by SQL loses no perfect match (ExactAmountIsBest), however many rows there are,
\* for every ?limit, in any order of rows that are equal, while links come and go.
THEOREM ExactAmountIsBestHolds == MatchSpec => []ExactAmountIsBest
<1>1. MatchInv => ExactAmountIsBest
  <2>1. SUFFICES ASSUME MatchInv PROVE ExactAmountIsBest
    OBVIOUS
  <2>2. CASE ByInvoice
    BY <2>1, <2>2 DEF MatchInv, BestIsFirst, ExactAmountIsBest, AmountAsked, SameAmount, Due, Prunable
  <2>3. CASE ~ByInvoice
    BY <2>1, <2>3 DEF MatchInv, BestIsFirst, ExactAmountIsBest, AmountAsked, SameAmount, Due, Prunable
  <2> QED
    BY <2>2, <2>3
<1> QED
  BY <1>1, MatchInvHolds, PTL

\* What was linked before the request began and stays so is not suggested (LinkedIsNotOffered).
THEOREM LinkedIsNotOfferedHolds == MatchSpec => []LinkedIsNotOffered
<1>1. MatchInv => LinkedIsNotOffered
  <2>1. SUFFICES ASSUME MatchInv, Answered PROVE LinkedIsNotOffered
    BY DEF LinkedIsNotOffered
  <2>2. Said \subseteq request.found \ request.linked /\ FoundIsFree /\ LinkIsSeen /\ Looked /\ request.pc = "said"
    BY <2>1 DEF MatchInv, SaidIsScored, Scored, Answered, Looked
  <2>3. CASE ByInvoice
    BY <2>2, <2>3 DEF FoundIsFree, LinkIsSeen, LinkedIsNotOffered
  <2>4. CASE ~ByInvoice
    BY <2>2, <2>4 DEF FoundIsFree, LinkedIsNotOffered
  <2> QED
    BY <2>3, <2>4
<1> QED
  BY <1>1, MatchInvHolds, PTL

\* An invoice without a payment is answered if its owner has one (FreeInvoiceIsAnswered).
THEOREM FreeInvoiceIsAnsweredHolds == MatchSpec => []FreeInvoiceIsAnswered
<1>1. MatchInv => FreeInvoiceIsAnswered
  <2>1. SUFFICES ASSUME MatchInv, Answered, ByInvoice, request.linked = {}, Confirmed(payments, User) # {}
                 PROVE  Said # {}
    BY DEF FreeInvoiceIsAnswered
  <2>2. request.found # {}
    BY <2>1 DEF MatchInv, SomethingIsFound, Answered
  <2> QED
    BY <2>1, <2>2 DEF MatchInv, SaidIsScored, Scored
<1> QED
  BY <1>1, MatchInvHolds, PTL
=============================================================================

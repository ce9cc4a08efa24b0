--------------------------- MODULE AttemptsProofs ---------------------------
(***************************************************************************)
(* Theorems about Attempts for every quiz and every number of attempts and *)
(* requests: first what a grade is, from the lemmas of SumProofs; then the *)
(* invariant Inv, one lemma per kind of step, and what follows from it.    *)
(***************************************************************************)
EXTENDS AttemptsProps, SumProofs, TLAPS

-----------------------------------------------------------------------------
(* Grading.                                                                *)

\* Quotients of naturals: they grow with the numerator.
LEMMA Quotients ==
    ASSUME NEW a \in Nat, NEW b \in Nat, NEW n \in Nat \ {0}
    PROVE  /\ a \div n \in Nat /\ n * (a \div n) <= a /\ a < n * (a \div n) + n
           /\ a <= b => a \div n <= b \div n
<1>1. /\ a \div n \in Int /\ b \div n \in Int
      /\ n * (a \div n) <= a /\ a < n * (a \div n) + n
      /\ n * (b \div n) <= b /\ b < n * (b \div n) + n
  OBVIOUS
<1>2. PICK x \in Int, y \in Int : x = a \div n /\ y = b \div n
  BY <1>1
<1>3. n * x <= a /\ a < n * x + n /\ n * y <= b /\ b < n * y + n
  BY <1>1, <1>2
<1>4. x >= 0
  BY <1>3
<1>5. a <= b => x <= y
  BY <1>3
<1> QED BY <1>1, <1>2, <1>4, <1>5

\* The absolute value of an integer, as Rounded takes it.
Absolute(a) == IF a < 0 THEN -a ELSE a

\* math.Round, on absolute values: the integer whose double product is within one
\* denominator of the double numerator.
LEMMA RoundedAbsolutes ==
    ASSUME NEW n \in Nat, NEW d \in Nat \ {0}
    PROVE  \E r \in Nat : /\ r = (2 * n + d) \div (2 * d)
                          /\ -d <= 2 * n - 2 * (r * d) /\ 2 * n - 2 * (r * d) <= d
<1>1. PICK a \in Nat, m \in Nat \ {0} : a = 2 * n + d /\ m = 2 * d
  OBVIOUS
<1>2. a \div m \in Nat /\ m * (a \div m) <= a /\ a < m * (a \div m) + m
  BY Quotients
<1>3. PICK r \in Nat : r = a \div m /\ m * r <= a /\ a < m * r + m
  BY <1>2
<1>4. PICK p \in Nat : p = r * d
  OBVIOUS
<1>5. m * r = 2 * p
  BY <1>1, <1>4
<1>6. -d <= 2 * n - 2 * p /\ 2 * n - 2 * p <= d
  BY <1>1, <1>3, <1>5
<1> QED BY <1>1, <1>3, <1>4, <1>6

\* math.Round gives the integer nearest to a quotient, whatever the signs.
LEMMA RoundedIsNearest ==
    ASSUME NEW a \in Int, NEW b \in Int \ {0}
    PROVE  /\ Rounded(a, b) \in Int
           /\ b > 0 => -b <= 2 * (a - Rounded(a, b) * b) /\ 2 * (a - Rounded(a, b) * b) <= b
           /\ b < 0 => b <= 2 * (a - Rounded(a, b) * b) /\ 2 * (a - Rounded(a, b) * b) <= -b
<1>1. PICK n \in Nat, d \in Nat \ {0} : n = Absolute(a) /\ d = Absolute(b)
  BY DEF Absolute
<1>2. PICK r \in Nat : /\ r = (2 * n + d) \div (2 * d)
                       /\ -d <= 2 * n - 2 * (r * d) /\ 2 * n - 2 * (r * d) <= d
  BY RoundedAbsolutes
<1>3. PICK p \in Nat : p = r * d
  OBVIOUS
<1>4. -d <= 2 * n - 2 * p /\ 2 * n - 2 * p <= d
  BY <1>2, <1>3
<1>5. Rounded(a, b) = IF (a < 0) = (b < 0) THEN r ELSE -r
  BY <1>1, <1>2 DEF Rounded, Absolute
<1>6. CASE a < 0 /\ b < 0
  <2>1. Rounded(a, b) = r /\ n = -a /\ d = -b
    BY <1>1, <1>5, <1>6 DEF Absolute
  <2>2. r * b = -p
    BY <1>3, <2>1
  <2> QED BY <1>4, <1>6, <2>1, <2>2
<1>7. CASE a < 0 /\ b > 0
  <2>1. Rounded(a, b) = -r /\ n = -a /\ d = b
    BY <1>1, <1>5, <1>7 DEF Absolute
  <2>2. (-r) * b = -p
    BY <1>3, <2>1
  <2> QED BY <1>4, <1>7, <2>1, <2>2
<1>8. CASE a >= 0 /\ b < 0
  <2>1. Rounded(a, b) = -r /\ n = a /\ d = -b
    BY <1>1, <1>5, <1>8 DEF Absolute
  <2>2. (-r) * b = p
    BY <1>3, <2>1
  <2> QED BY <1>4, <1>8, <2>1, <2>2
<1>9. CASE a >= 0 /\ b > 0
  <2>1. Rounded(a, b) = r /\ n = a /\ d = b
    BY <1>1, <1>5, <1>9 DEF Absolute
  <2>2. r * b = p
    BY <1>3, <2>1
  <2> QED BY <1>4, <1>9, <2>1, <2>2
<1> QED BY <1>6, <1>7, <1>8, <1>9

\* math.Round keeps an exact hundred.
LEMMA RoundedHundred ==
    ASSUME NEW n \in Nat \ {0}
    PROVE  Rounded(10000 * n, n) = 10000
<1>0. \A x \in Nat : Rounded(x, n) = (2 * x + n) \div (2 * n)
  BY DEF Rounded
<1>1. PICK w \in Nat : w = 10000 * n
  OBVIOUS
<1>2. PICK r \in Nat : /\ r = (2 * w + n) \div (2 * n)
                       /\ -n <= 2 * w - 2 * (r * n) /\ 2 * w - 2 * (r * n) <= n
  BY RoundedAbsolutes
<1>3. w - r * n = (10000 - r) * n
  BY <1>1
<1>4. PICK k \in Int : k = 10000 - r
  OBVIOUS
<1>5. -n <= 2 * (k * n) /\ 2 * (k * n) <= n
  BY <1>1, <1>2, <1>3, <1>4
<1>6. k = 0
  <2>1. k >= 1 => k * n >= n
    OBVIOUS
  <2>2. k <= -1 => k * n <= -n
    OBVIOUS
  <2>3. k * n \in Int
    OBVIOUS
  <2> QED BY <1>5, <2>1, <2>2, <2>3
<1> QED BY <1>0, <1>1, <1>2, <1>4, <1>6

\* math.Round of what is not negative grows with the numerator.
LEMMA RoundedGrows ==
    ASSUME NEW a \in Nat, NEW b \in Nat, NEW n \in Nat \ {0}
    PROVE  /\ Rounded(a, n) \in Nat
           /\ a <= b => Rounded(a, n) <= Rounded(b, n)
<1>1. \A x \in Nat : Rounded(x, n) = (2 * x + n) \div (2 * n)
  BY DEF Rounded
<1>2. PICK x \in Nat, y \in Nat, m \in Nat \ {0} : x = 2 * a + n /\ y = 2 * b + n /\ m = 2 * n
  OBVIOUS
<1>3. Rounded(a, n) = x \div m /\ Rounded(b, n) = y \div m
  BY <1>1, <1>2
<1>4. x \div m \in Nat /\ (x <= y => x \div m <= y \div m)
  BY Quotients
<1>5. a <= b => x <= y
  BY <1>2
<1> QED BY <1>3, <1>4, <1>5

\* contarRespuestas: all hits means that every right option was chosen, no error
\* that nothing else was.
LEMMA Counting ==
    ASSUME NEW key \in SUBSET Options, NEW chosen \in SUBSET Options
    PROVE  /\ IsFiniteSet(key) /\ IsFiniteSet(chosen)
           /\ Hits(key, chosen) \in Nat /\ Errors(key, chosen) \in Nat /\ Cardinality(key) \in Nat
           /\ key # {} => Cardinality(key) # 0
           /\ Hits(key, chosen) <= Cardinality(key)
           /\ Hits(key, chosen) = Cardinality(key) => key \subseteq chosen
           /\ Errors(key, chosen) = 0 => chosen \subseteq key
<1>1. IsFiniteSet(key) /\ IsFiniteSet(chosen)
  BY AttemptsAssumption, FS_Subset
<1>2. IsFiniteSet(chosen \intersect key) /\ IsFiniteSet(chosen \ key)
  BY <1>1, FS_Subset
<1>3. /\ Cardinality(chosen \intersect key) \in Nat /\ Cardinality(chosen \ key) \in Nat
      /\ Cardinality(key) \in Nat
  BY <1>1, <1>2, FS_CardinalityType
<1>4. /\ Cardinality(chosen \intersect key) <= Cardinality(key)
      /\ Cardinality(key) = Cardinality(chosen \intersect key) => key = chosen \intersect key
  BY <1>1, FS_Subset
<1>5. key # {} => Cardinality(key) # 0
  BY <1>1, FS_EmptySet
<1>6. Cardinality(chosen \ key) = 0 => chosen \ key = {}
  BY <1>2, FS_EmptySet
<1> QED BY <1>1, <1>3, <1>4, <1>5, <1>6 DEF Hits, Errors

\* A question's points divide into as many shares as it has right options.
LEMMA Shares ==
    ASSUME NEW key \in SUBSET Options, key # {}
    PROVE  \E n \in Nat \ {0}, m \in Nat \ {0} :
             n = Cardinality(key) /\ Parts = n * m /\ Parts \div n = m
<1>1. IsFiniteSet(Options) /\ Cardinality(Options) \in Nat
  BY AttemptsAssumption, FS_CardinalityType
<1>2. PICK n \in Nat \ {0} : n = Cardinality(key) /\ n <= Cardinality(Options)
  BY <1>1, Counting, FS_Subset
<1>3. n \in 1..Cardinality(Options)
  BY <1>1, <1>2
<1>4. PICK m \in 1..Parts : Parts = n * m
  BY <1>3, AttemptsAssumption
<1>5. m \in Nat \ {0} /\ Parts \in Nat
  BY <1>4, AttemptsAssumption
<1>6. PICK x \in Nat : x = Parts \div n /\ n * x <= Parts /\ Parts < n * x + n
  BY <1>2, <1>5, Quotients
<1>7. x = m
  <2>1. PICK k \in Int : k = m - x
    BY <1>5, <1>6
  <2>2. n * k = Parts - n * x
    BY <1>2, <1>4, <1>5, <1>6, <2>1
  <2>3. 0 <= n * k /\ n * k < n
    BY <1>2, <1>5, <1>6, <2>2
  <2>4. k >= 1 => n * k >= n
    BY <1>2
  <2>5. k <= -1 => n * k <= -n
    BY <1>2
  <2>6. n * k \in Int
    OBVIOUS
  <2>7. k = 0
    BY <1>2, <2>3, <2>4, <2>5, <2>6
  <2> QED BY <1>5, <1>6, <2>1, <2>7
<1> QED BY <1>2, <1>4, <1>5, <1>6, <1>7

\* puntosDePregunta gives a question between none and all of its points, all of them for
\* exactly the right options, and otherwise at least one share less, whichever rule
\* grades it.
LEMMA CreditInParts ==
    ASSUME NEW z \in Quiz, NEW q \in Questions, NEW chosen \in SUBSET Options
    PROVE  /\ Credit(z, q, chosen) \in 0..Parts
           /\ z.key[q] # {} /\ chosen = z.key[q] => Credit(z, q, chosen) = Parts
           /\ z.key[q] # {} /\ chosen # z.key[q]
                => Cardinality(z.key[q]) * (Parts - Credit(z, q, chosen)) >= Parts
<1>1. PICK key \in SUBSET Options : key = z.key[q]
  BY DEF Quiz
<1>2. PICK h \in Nat, e \in Nat :
         h = Hits(key, chosen) /\ e = Errors(key, chosen)
  BY Counting
<1>3. Parts \in Nat \ {0}
  BY AttemptsAssumption
<1>4. CASE key = {}
  BY <1>1, <1>3, <1>4 DEF Credit
<1>5. CASE key # {}
  <2>1. PICK n \in Nat \ {0}, m \in Nat \ {0} :
           n = Cardinality(key) /\ Parts = n * m /\ Parts \div n = m
    BY <1>5, Shares
  <2>2. h <= n /\ (h = n => key \subseteq chosen) /\ (e = 0 => chosen \subseteq key)
    BY <1>2, <2>1, Counting
  <2>3. chosen = key => h = n /\ e = 0
    <3>1. ASSUME chosen = key PROVE h = n /\ e = 0
      <4>1. chosen \intersect key = key /\ chosen \ key = {}
        BY <3>1
      <4> QED BY <1>2, <2>1, <4>1, FS_EmptySet DEF Hits, Errors
    <3> QED BY <3>1
  <2>4. n * (Parts - 0) >= Parts
    BY <1>3
  <2>5. CASE q \in z.single \/ ~z.partial
    <3>1. Credit(z, q, chosen) = IF chosen = key THEN Parts ELSE 0
      BY <1>1, <1>5, <2>5 DEF Credit
    <3> QED BY <1>1, <1>3, <2>1, <2>4, <3>1
  <2>6. CASE ~(q \in z.single \/ ~z.partial) /\ h <= e
    <3>1. Credit(z, q, chosen) = 0
      BY <1>1, <1>2, <2>6 DEF Credit
    <3>2. chosen # key
      BY <2>1, <2>3, <2>6
    <3> QED BY <1>1, <1>3, <2>1, <2>4, <3>1, <3>2
  <2>7. CASE ~(q \in z.single \/ ~z.partial) /\ h > e
    <3>1. PICK k \in Nat : k = h - e /\ k <= n
      BY <2>2, <2>7
    <3>2. PICK c \in Nat : c = k * m
      OBVIOUS
    <3>3. Credit(z, q, chosen) = c
      <4>1. Credit(z, q, chosen) = (h - e) * (Parts \div Cardinality(key))
        BY <1>1, <1>2, <1>5, <2>7 DEF Credit
      <4>2. Parts \div Cardinality(key) = m
        BY <2>1
      <4> QED BY <3>1, <3>2, <4>1, <4>2
    <3>4. Parts - c = (n - k) * m /\ (n - k) * m >= 0
      <4>1. n * m - k * m = (n - k) * m
        OBVIOUS
      <4>2. \A x \in Nat : x * m >= 0
        OBVIOUS
      <4> QED BY <2>1, <3>1, <3>2, <4>1, <4>2
    <3>5. chosen # key => n - k >= 1
      BY <2>2, <3>1
    <3>6. n - k >= 1 => (n - k) * m >= m
      BY <3>1
    <3>7. \A x \in Int : x >= m => n * x >= n * m
      OBVIOUS
    <3>8. chosen # key => n * (Parts - c) >= Parts
      BY <1>3, <2>1, <3>4, <3>5, <3>6, <3>7
    <3>9. chosen = key => c = Parts
      BY <2>1, <2>3, <3>1, <3>2
    <3> QED BY <1>1, <1>3, <2>1, <3>2, <3>3, <3>4, <3>8, <3>9
  <2> QED BY <1>2, <2>5, <2>6, <2>7
<1> QED BY <1>4, <1>5

\* Choosing one more wrong option never earns more at a question: it is never the
\* exact answer, and where credit is partial it counts against the hits.
LEMMA WrongOptionNeverHelps ==
    ASSUME NEW z \in Quiz, NEW q \in Questions, NEW chosen \in SUBSET Options,
           NEW o \in Options, o \notin z.key[q]
    PROVE  Credit(z, q, chosen \union {o}) <= Credit(z, q, chosen)
<1>1. PICK key \in SUBSET Options : key = z.key[q]
  BY DEF Quiz
<1> DEFINE more == chosen \union {o}
<1>2. more \in SUBSET Options /\ more # key
  BY <1>1
<1>3. Hits(key, more) = Hits(key, chosen)
  <2>1. more \intersect key = chosen \intersect key
    BY <1>1
  <2> QED BY <2>1 DEF Hits
<1>4. Errors(key, chosen) <= Errors(key, more)
  <2>1. IsFiniteSet(more \ key) /\ chosen \ key \subseteq more \ key
    BY <1>2, Counting, FS_Difference
  <2> QED BY <2>1, FS_Subset DEF Errors
<1> HIDE DEF more
<1>5. PICK h \in Nat, e \in Nat, d \in Nat :
         /\ h = Hits(key, chosen) /\ e = Errors(key, chosen)
         /\ h = Hits(key, more) /\ d = Errors(key, more) /\ e <= d
  BY <1>2, <1>3, <1>4, Counting
<1>6. Credit(z, q, chosen) \in 0..Parts /\ Parts \in Nat
  BY CreditInParts, AttemptsAssumption
<1>7. CASE q \in z.single \/ ~z.partial
  BY <1>1, <1>2, <1>6, <1>7 DEF Credit
<1>8. CASE ~(q \in z.single \/ ~z.partial) /\ (key = {} \/ h <= d)
  <2>1. Credit(z, q, more) = 0
    BY <1>1, <1>5, <1>8 DEF Credit
  <2> QED BY <1>6, <2>1 DEF more
<1>9. CASE ~(q \in z.single \/ ~z.partial) /\ key # {} /\ h > d
  <2>1. PICK m \in Nat : Parts \div Cardinality(key) = m
    BY <1>9, Shares
  <2>2. Credit(z, q, chosen) = (h - e) * m /\ Credit(z, q, more) = (h - d) * m
    BY <1>1, <1>5, <1>9, <2>1 DEF Credit
  <2>3. PICK a \in Nat, b \in Nat : a = h - d /\ b = h - e /\ a <= b
    BY <1>5, <1>9
  <2>4. a * m <= b * m
    BY <2>3
  <2> QED BY <2>2, <2>3, <2>4 DEF more
<1>10. Credit(z, q, more) <= Credit(z, q, chosen)
  BY <1>5, <1>7, <1>8, <1>9 DEF more
<1> QED BY <1>10 DEF more

\* What Calificar adds up: at each question an integer; of positive points a natural
\* number, at most all of the question's points.
LEMMA PointsEarned ==
    ASSUME NEW z \in Quiz, NEW s \in Answers
    PROVE  /\ IsFiniteSet(Questions) /\ Parts \in Nat \ {0}
           /\ DOMAIN z.points = Questions /\ DOMAIN Earned(z, s) = Questions
           /\ \A q \in Questions : /\ z.points[q] \in Int
                                   /\ Earned(z, s)[q] = Credit(z, q, s[q]) * z.points[q]
                                   /\ Earned(z, s)[q] \in Int
                                   /\ z.points[q] > 0 => /\ Earned(z, s)[q] \in Nat
                                                         /\ Earned(z, s)[q] <= Parts * z.points[q]
<1>1. DOMAIN z.points = Questions /\ DOMAIN Earned(z, s) = Questions /\ Parts \in Nat \ {0}
  BY AttemptsAssumption DEF Quiz, Earned
<1>2. ASSUME NEW q \in Questions
      PROVE  /\ z.points[q] \in Int
             /\ Earned(z, s)[q] = Credit(z, q, s[q]) * z.points[q]
             /\ Earned(z, s)[q] \in Int
             /\ z.points[q] > 0 => /\ Earned(z, s)[q] \in Nat
                                   /\ Earned(z, s)[q] <= Parts * z.points[q]
  <2>1. Credit(z, q, s[q]) \in 0..Parts
    BY CreditInParts DEF Answers
  <2>2. PICK c \in 0..Parts, p \in Int : c = Credit(z, q, s[q]) /\ p = z.points[q]
    BY <2>1 DEF Quiz
  <2>3. c * p \in Int /\ (p > 0 => c * p \in Nat /\ c * p <= Parts * p)
    BY <1>1
  <2> QED BY <2>2, <2>3 DEF Earned
<1> QED BY <1>1, <1>2, AttemptsAssumption

\* Calificar's result is a number, and the nearest hundredth where there are points.
LEMMA GradeIsNearest ==
    ASSUME NEW z \in Quiz, NEW s \in Answers
    PROVE  /\ Grade(z, s) \in Int
           /\ SumFunction(z.points) \in Int /\ SumFunction(Earned(z, s)) \in Int
           /\ NearestHundredth(z, s)
<1>1. PICK p \in Int, e \in Int : p = SumFunction(z.points) /\ e = SumFunction(Earned(z, s))
  BY PointsEarned, SumIsInt DEF SumFunction
<1>2. CASE p = 0
  BY <1>1, <1>2 DEF Grade, NearestHundredth
<1>3. CASE p # 0
  <2>1. PICK b \in Int \ {0}, a \in Int : b = Parts * p /\ a = 10000 * e
    BY <1>3, AttemptsAssumption
  <2>2. Grade(z, s) = Rounded(a, b)
    BY <1>1, <1>3, <2>1 DEF Grade
  <2>3. (p > 0 <=> b > 0) /\ (p < 0 <=> b < 0)
    BY <1>3, <2>1, AttemptsAssumption
  <2>4. PICK g \in Int : /\ g = Rounded(a, b)
                         /\ b > 0 => -b <= 2 * (a - g * b) /\ 2 * (a - g * b) <= b
                         /\ b < 0 => b <= 2 * (a - g * b) /\ 2 * (a - g * b) <= -b
    BY RoundedIsNearest
  <2>5. NearestHundredth(z, s)
    BY <1>1, <2>1, <2>2, <2>3, <2>4 DEF NearestHundredth
  <2> QED BY <1>1, <2>2, <2>4, <2>5
<1> QED BY <1>2, <1>3

\* The sums of a quiz whose points are positive: there are points, no more are earned
\* than there are, and what one question misses is missing from the total.
LEMMA WellFormedSums ==
    ASSUME NEW z \in Quiz, WellFormed(z), NEW s \in Answers
    PROVE  \E p \in Nat \ {0}, e \in Nat, w \in Nat \ {0} :
             /\ p = SumFunction(z.points) /\ e = SumFunction(Earned(z, s)) /\ w = Parts * p
             /\ e <= w
             /\ Grade(z, s) = Rounded(10000 * e, w)
             /\ \A q \in Questions : Parts * z.points[q] - Earned(z, s)[q] <= w - e
             /\ (\A q \in Questions : Earned(z, s)[q] = Parts * z.points[q]) => e = w
<1> DEFINE all == [q \in Questions |-> Parts * z.points[q]]
           none == [q \in Questions |-> 0]
<1>1. \A q \in Questions : z.points[q] \in Nat \ {0} /\ all[q] \in Nat
  BY AttemptsAssumption DEF WellFormed, Quiz
<1>2. PICK p \in Nat, e \in Nat : p = SumFunction(z.points) /\ e = SumFunction(Earned(z, s))
  BY <1>1, PointsEarned, SumIsNat DEF SumFunction
<1>3. p # 0
  <2>1. PICK q \in Questions : TRUE
    BY AttemptsAssumption
  <2>2. PICK o \in Nat : o = SumFunctionOnSet(none, Questions)
    BY SumIsNat, PointsEarned
  <2>3. \A x \in Questions : z.points[x] - none[x] <= SumFunctionOnSet(z.points, Questions) - o
    <3>1. \A x \in Questions : none[x] \in Nat /\ z.points[x] \in Nat /\ none[x] <= z.points[x]
      BY <1>1
    <3> HIDE DEF none
    <3> QED BY <2>2, <3>1, PointsEarned, SumIsMonotone
  <2>4. z.points[q] <= p - o
    BY <1>1, <1>2, <2>3, PointsEarned DEF SumFunction
  <2> QED BY <1>1, <1>2, <2>2, <2>4
<1>4. PICK w \in Nat \ {0} : w = Parts * p
  BY <1>2, <1>3, AttemptsAssumption
<1>5. SumFunctionOnSet(all, Questions) = w
  <2>1. \A q \in Questions : z.points[q] \in Int /\ all[q] = Parts * z.points[q]
    BY <1>1
  <2>2. PICK c \in Int : c = Parts
    BY AttemptsAssumption
  <2> HIDE DEF all
  <2>3. SumFunctionOnSet(all, Questions) = c * SumFunctionOnSet(z.points, Questions)
    BY <2>1, <2>2, AttemptsAssumption, SumOfMultiples
  <2> QED BY <1>2, <1>4, <2>2, <2>3, PointsEarned DEF SumFunction
<1>6. \A q \in Questions : /\ Earned(z, s)[q] \in Nat /\ all[q] \in Nat
                           /\ Earned(z, s)[q] <= all[q] /\ all[q] = Parts * z.points[q]
  BY <1>1, PointsEarned
<1>7. /\ SumFunctionOnSet(Earned(z, s), Questions) <= SumFunctionOnSet(all, Questions)
      /\ \A q \in Questions : all[q] - Earned(z, s)[q]
           <= SumFunctionOnSet(all, Questions) - SumFunctionOnSet(Earned(z, s), Questions)
  <2> HIDE DEF all
  <2> QED BY <1>6, PointsEarned, SumIsMonotone
<1>8. SumFunctionOnSet(Earned(z, s), Questions) = e
  BY <1>2, PointsEarned DEF SumFunction
<1>9. ASSUME \A q \in Questions : Earned(z, s)[q] = Parts * z.points[q] PROVE e = w
  <2>1. Earned(z, s) = all
    BY <1>6, <1>9 DEF Earned
  <2> QED BY <1>5, <1>8, <2>1
<1>10. Grade(z, s) = Rounded(10000 * e, w)
  BY <1>2, <1>3, <1>4 DEF Grade
<1>11. e <= w /\ \A q \in Questions : Parts * z.points[q] - Earned(z, s)[q] <= w - e
  <2> HIDE DEF all
  <2> QED BY <1>5, <1>6, <1>7, <1>8
<1> QED BY <1>2, <1>3, <1>4, <1>9, <1>10, <1>11

\* Of positive points, a grade is between 0 and 100, and 100 for exactly the right
\* options.
LEMMA GradeIsPercentage ==
    ASSUME NEW z \in Quiz, WellFormed(z), NEW s \in Answers
    PROVE  /\ Grade(z, s) \in 0..10000
           /\ (\A q \in Questions : s[q] = z.key[q]) => Grade(z, s) = 10000
<1>1. PICK p \in Nat \ {0}, e \in Nat, w \in Nat \ {0} :
         /\ p = SumFunction(z.points) /\ e = SumFunction(Earned(z, s)) /\ w = Parts * p
         /\ e <= w
         /\ Grade(z, s) = Rounded(10000 * e, w)
         /\ \A q \in Questions : Parts * z.points[q] - Earned(z, s)[q] <= w - e
         /\ (\A q \in Questions : Earned(z, s)[q] = Parts * z.points[q]) => e = w
  BY WellFormedSums
<1>2. Grade(z, s) \in Nat /\ Grade(z, s) <= 10000
  <2>1. PICK a \in Nat, b \in Nat : a = 10000 * e /\ b = 10000 * w /\ a <= b
    BY <1>1
  <2>2. Rounded(a, w) \in Nat /\ (a <= b => Rounded(a, w) <= Rounded(b, w))
    BY RoundedGrows
  <2>3. Rounded(10000 * w, w) = 10000
    BY RoundedHundred
  <2> QED BY <1>1, <2>1, <2>2, <2>3
<1>3. ASSUME \A q \in Questions : s[q] = z.key[q] PROVE Grade(z, s) = 10000
  <2>1. \A q \in Questions : Credit(z, q, s[q]) = Parts
    BY <1>3, CreditInParts DEF WellFormed, Answers
  <2>2. \A q \in Questions : Earned(z, s)[q] = Parts * z.points[q]
    BY <2>1, PointsEarned
  <2>3. Grade(z, s) = Rounded(10000 * w, w)
    BY <1>1, <2>2
  <2>4. Rounded(10000 * w, w) = 10000
    BY RoundedHundred
  <2> QED BY <2>3, <2>4
<1>4. Grade(z, s) \in 0..10000
  <2>1. PICK g \in Nat : g = Grade(z, s) /\ g <= 10000
    BY <1>2
  <2>2. g <= 10000
    BY <2>1
  <2>3. g \in 0..10000
    BY <2>2
  <2> QED BY <2>1, <2>3
<1> QED BY <1>3, <1>4

\* Factors change places.
LEMMA Rearrange ==
    ASSUME NEW a \in Int, NEW b \in Int, NEW c \in Int
    PROVE  a * (b * c) = b * (a * c)
OBVIOUS

\* 100 is for exactly the right options, or for what rounds up to it: a question that was
\* answered otherwise misses a share, which is then half a hundredth of a percent at most.
LEMMA FullMarksAreNearlyExact ==
    ASSUME NEW z \in Quiz, WellFormed(z), NEW s \in Answers, Grade(z, s) = 10000,
           NEW q \in Questions, s[q] # z.key[q]
    PROVE  20000 * z.points[q] <= Cardinality(z.key[q]) * SumFunction(z.points)
<1>1. PICK p \in Nat \ {0}, e \in Nat, w \in Nat \ {0} :
         /\ p = SumFunction(z.points) /\ e = SumFunction(Earned(z, s)) /\ w = Parts * p
         /\ e <= w
         /\ Grade(z, s) = Rounded(10000 * e, w)
         /\ \A x \in Questions : Parts * z.points[x] - Earned(z, s)[x] <= w - e
         /\ (\A x \in Questions : Earned(z, s)[x] = Parts * z.points[x]) => e = w
  BY WellFormedSums
<1>2. 20000 * (w - e) <= w
  <2>1. 2 * (10000 * e - 10000 * w) >= -w
    BY <1>1, GradeIsNearest DEF NearestHundredth
  <2> QED BY <1>1, <2>1
<1>3. z.key[q] \in SUBSET Options /\ z.key[q] # {} /\ s[q] \in SUBSET Options
  BY DEF Quiz, Answers, WellFormed
<1>4. PICK n \in Nat \ {0}, m \in Nat \ {0} : n = Cardinality(z.key[q]) /\ Parts = n * m
  BY <1>3, Shares
<1>5. PICK t \in Nat \ {0}, c \in 0..Parts, v \in Nat \ {0} :
         t = z.points[q] /\ c = Credit(z, q, s[q]) /\ v = Parts
  BY <1>3, CreditInParts, AttemptsAssumption DEF WellFormed, Quiz
<1>6. n * (v - c) >= v
  BY <1>3, <1>4, <1>5, CreditInParts
<1>7. v * t - c * t <= w - e
  BY <1>1, <1>5, PointsEarned
<1>8. PICK k \in Nat : k = v - c /\ n * k >= v
  BY <1>5, <1>6
<1>9. k * t <= w - e
  BY <1>5, <1>7, <1>8
<1>10. v * t <= n * (k * t)
  BY <1>8
<1>11. 20000 * (v * t) <= n * w
  <2>1. PICK y \in Nat, x \in Nat : y = k * t /\ x = w - e
    BY <1>1
  <2>2. y <= x /\ 20000 * x <= w /\ v * t <= n * y
    BY <1>1, <1>2, <1>9, <1>10, <2>1
  <2>3. n * (20000 * y) <= n * w
    <3>1. 20000 * y <= w
      BY <2>2
    <3> QED BY <3>1
  <2> QED BY <2>2, <2>3
<1>12. n * w = v * (n * p) /\ 20000 * (v * t) = v * (20000 * t)
  <2>1. w = v * p
    BY <1>1, <1>5
  <2>2. n * (v * p) = v * (n * p)
    BY Rearrange
  <2>3. 20000 * (v * t) = v * (20000 * t)
    OBVIOUS
  <2> QED BY <2>1, <2>2, <2>3
<1>13. 20000 * t <= n * p
  <2>1. PICK x \in Nat, y \in Nat : x = 20000 * t /\ y = n * p
    OBVIOUS
  <2>2. v * x <= v * y
    BY <1>11, <1>12, <2>1
  <2>3. v * (y - x) >= 0
    BY <2>2
  <2>4. y - x >= 0
    BY <2>3
  <2> QED BY <2>1, <2>4
<1> QED BY <1>1, <1>4, <1>5, <1>13

\* One more wrong option, at any question of positive points, never raises the grade.
LEMMA WrongOptionNeverRaisesGrade ==
    ASSUME NEW z \in Quiz, WellFormed(z), NEW s \in Answers, NEW q \in Questions,
           NEW o \in Options, o \notin z.key[q]
    PROVE  Grade(z, [s EXCEPT ![q] = @ \union {o}]) <= Grade(z, s)
<1> DEFINE t == [s EXCEPT ![q] = @ \union {o}]
<1>1. t \in Answers /\ t[q] = s[q] \union {o} /\ \A x \in Questions : x # q => t[x] = s[x]
  BY DEF Answers
<1> HIDE DEF t
<1>2. \A x \in Questions : /\ Earned(z, t)[x] \in Nat /\ Earned(z, s)[x] \in Nat
                           /\ Earned(z, t)[x] <= Earned(z, s)[x]
  <2> SUFFICES ASSUME NEW x \in Questions PROVE /\ Earned(z, t)[x] \in Nat /\ Earned(z, s)[x] \in Nat
                                                /\ Earned(z, t)[x] <= Earned(z, s)[x]
    OBVIOUS
  <2>1. Credit(z, x, t[x]) <= Credit(z, x, s[x])
    BY <1>1, WrongOptionNeverHelps, CreditInParts, AttemptsAssumption DEF Answers
  <2>2. PICK c \in 0..Parts, d \in 0..Parts, n \in Nat \ {0} :
           c = Credit(z, x, t[x]) /\ d = Credit(z, x, s[x]) /\ n = z.points[x]
    BY <1>1, CreditInParts DEF Answers, Quiz, WellFormed
  <2>3. c * n <= d * n
    BY <2>1, <2>2, AttemptsAssumption
  <2> QED BY <1>1, <2>2, <2>3, PointsEarned
<1>3. PICK p \in Nat \ {0}, e \in Nat, w \in Nat \ {0} :
         /\ p = SumFunction(z.points) /\ e = SumFunction(Earned(z, s)) /\ w = Parts * p
         /\ Grade(z, s) = Rounded(10000 * e, w)
  BY WellFormedSums
<1>4. PICK d \in Nat : d = SumFunction(Earned(z, t)) /\ Grade(z, t) = Rounded(10000 * d, w)
  BY <1>1, <1>3, WellFormedSums
<1>5. d <= e
  BY <1>1, <1>2, <1>3, <1>4, PointsEarned, SumIsMonotone DEF SumFunction
<1>6. PICK a \in Nat, b \in Nat : a = 10000 * d /\ b = 10000 * e /\ a <= b
  BY <1>5
<1>7. Rounded(a, w) <= Rounded(b, w)
  BY <1>6, RoundedGrows
<1> QED BY <1>3, <1>4, <1>6, <1>7 DEF t

-----------------------------------------------------------------------------
(* The invariant.                                                          *)

\* A request that works on an attempt names one, and one that is about to finish
\* it holds one of the final statuses.
Sound(t) ==
    /\ t \in Request
    /\ t.op \in {"save", "submit", "mark"} => t.att \in Attempts
    /\ t.op = "submit" => t.status \in Finished

RequestsSound == req \in [Requests -> Request] /\ \A r \in Requests : Sound(req[r])

\* The variables that are neither rows nor requests.
OthersTyped ==
    /\ quiz \in Quizzes /\ enrolled \in BOOLEAN /\ late \subseteq Attempts
    /\ marked \in BOOLEAN /\ shown \subseteq Attempts /\ left \in [Kinds -> Nat]

\* Attempts may be infinite; those that were started are not, which is why the
\* number a Start reads is a natural.
RowsTyped == att \in [Attempts -> Attempt] /\ IsFiniteSet(Existing)

Inv == RowsTyped /\ RequestsSound /\ OthersTyped

\* What one step may do to the rows: open one that was absent, when no other
\* is in progress; close one that is in progress; or change answers.
RowStep ==
    \/ UNCHANGED att
    \/ \E a \in Attempts : \E t \in Attempt :
         /\ att' = [att EXCEPT ![a] = t]
         /\ \/ att[a].status = "absent" /\ t.status = "in_progress" /\ IndexAllows
            \/ att[a].status = "in_progress" /\ t.status \in Finished
            \/ t.status = att[a].status /\ t.score = att[a].score

\* A request that does nothing.
LEMMA IdleIsSound == Sound(Idle) /\ Idle.op = "none"
<1>1. Blank \in Answers
  BY DEF Blank, Answers
<1>2. Idle \in Request /\ Idle.op = "none"
  BY <1>1 DEF Idle, Request, Policies
<1> QED BY <1>2 DEF Sound

\* A step of one request that leaves it sound.
LEMMA RequestStep ==
    ASSUME RequestsSound, NEW r \in Requests, NEW t, Sound(t), req' = [req EXCEPT ![r] = t]
    PROVE  RequestsSound'
<1>1. req' = [q \in Requests |-> IF q = r THEN t ELSE req[q]]
  BY DEF RequestsSound
<1>2. \A q \in Requests : Sound(req'[q])
  BY <1>1 DEF RequestsSound
<1>3. req' \in [Requests -> Request]
  BY <1>1, <1>2 DEF Sound
<1> QED BY <1>2, <1>3 DEF RequestsSound

\* Rows keep their types, and the attempts that were started stay finitely many,
\* in every step that RowStep allows.
LEMMA RowsKeepTypes == RowsTyped /\ RowStep => RowsTyped'
<1>1. CASE UNCHANGED att
  BY <1>1 DEF RowsTyped, Existing
<1>2. ASSUME RowsTyped, NEW a \in Attempts, NEW t \in Attempt, att' = [att EXCEPT ![a] = t]
      PROVE  RowsTyped'
  <2>1. att' \in [Attempts -> Attempt] /\ \A b \in Attempts : b # a => att'[b] = att[b]
    BY <1>2 DEF RowsTyped
  <2>2. Existing' \subseteq Existing \union {a}
    BY <2>1 DEF Existing
  <2>3. IsFiniteSet(Existing \union {a})
    BY <1>2, FS_AddElement DEF RowsTyped
  <2>4. IsFiniteSet(Existing')
    BY <2>2, <2>3, FS_Subset
  <2> QED BY <2>1, <2>4 DEF RowsTyped
<1> QED BY <1>1, <1>2 DEF RowStep

\* What is left of a budget stays a number.
LEMMA SpendKeepsTypes ==
    ASSUME left \in [Kinds -> Nat], NEW k \in Kinds, Spend(k)
    PROVE  left' \in [Kinds -> Nat]
<1>1. left[k] - 1 \in Nat
  BY DEF Spend
<1> QED BY <1>1 DEF Spend

\* The step of each action on the requests, the rows and the rest: a Start reads.
LEMMA StartReadStep ==
    ASSUME Inv, NEW r \in Requests, StartRead(r)
    PROVE  RequestsSound' /\ RowStep /\ OthersTyped'
<1> DEFINE t == [Idle EXCEPT !.op = "start", !.used = Cardinality(Existing), !.timed = quiz.timed]
<1>1. Cardinality(Existing) \in Nat /\ quiz.timed \in BOOLEAN
  <2>1. Cardinality(Existing) \in Nat
    BY FS_CardinalityType DEF Inv, RowsTyped
  <2>2. quiz \in Quiz
    BY AttemptsAssumption DEF Inv, OthersTyped
  <2> QED BY <2>1, <2>2 DEF Quiz
<1>2. PICK n \in Nat, b \in BOOLEAN : n = Cardinality(Existing) /\ b = quiz.timed
  BY <1>1
<1>3. t = [Idle EXCEPT !.op = "start", !.used = n, !.timed = b]
  BY <1>2
<1> HIDE DEF t
<1>4. t \in Request /\ t.op = "start"
  BY <1>3, IdleIsSound DEF Sound, Request
<1>5. Sound(t)
  BY <1>4 DEF Sound
<1>6. req' = [req EXCEPT ![r] = t]
  BY DEF StartRead, t
<1>7. left' \in [Kinds -> Nat]
  BY SpendKeepsTypes DEF StartRead, Inv, OthersTyped, Kinds
<1>8. RequestsSound'
  BY <1>5, <1>6, RequestStep DEF Inv
<1> QED BY <1>7, <1>8 DEF StartRead, Inv, OthersTyped, RowStep

\* A Start inserts, or the index refuses it.
LEMMA StartInsertStep ==
    ASSUME Inv, NEW r \in Requests, NEW a \in Attempts, StartInsert(r, a)
    PROVE  RequestsSound' /\ RowStep /\ OthersTyped'
<1>1. RequestsSound'
  BY IdleIsSound, RequestStep DEF Inv, StartInsert
<1>2. PICK n \in Nat, b \in BOOLEAN : n = req[r].used /\ b = req[r].timed
  BY DEF Inv, RequestsSound, Request
<1> DEFINE t == [Absent EXCEPT !.status = "in_progress", !.number = n + 1, !.timed = b]
<1>3. t \in Attempt /\ t.status = "in_progress"
  <2>1. Absent \in Attempt
    BY DEF Absent, Attempt, Blank, Answers
  <2>2. n + 1 \in Nat
    OBVIOUS
  <2> QED BY <2>1, <2>2 DEF Attempt
<1>4. att[a].status = "absent" /\ (UNCHANGED att \/ (IndexAllows /\ att' = [att EXCEPT ![a] = t]))
  BY <1>2 DEF StartInsert
<1> HIDE DEF t
<1>5. RowStep
  BY <1>3, <1>4 DEF RowStep
<1> QED BY <1>1, <1>5 DEF StartInsert, Inv, OthersTyped

\* SaveAnswers has checked its attempt.
LEMMA SaveReadStep ==
    ASSUME Inv, NEW r \in Requests, NEW a \in Attempts, NEW body \in Bodies, SaveRead(r, a, body)
    PROVE  RequestsSound' /\ RowStep /\ OthersTyped'
<1> DEFINE g == [q \in Questions |-> IF q \in DOMAIN body THEN body[q] ELSE {}]
<1>0. PICK given \in Answers, qs \in SUBSET Questions : given = g /\ qs = DOMAIN body
  <2>1. DOMAIN body \subseteq Questions /\ \A q \in DOMAIN body : body[q] \subseteq Options
    BY AttemptsAssumption
  <2> QED BY <2>1 DEF Answers
<1> HIDE DEF g
<1> DEFINE t == [Idle EXCEPT !.op = "save", !.att = a, !.todo = qs, !.given = given]
<1>1. t \in Request /\ t.op = "save" /\ t.att = a
  BY IdleIsSound DEF Sound, Request
<1>2. req' = [req EXCEPT ![r] = t]
  BY <1>0 DEF SaveRead, g
<1> HIDE DEF t
<1>3. RequestsSound'
  BY <1>1, <1>2, RequestStep DEF Inv, Sound
<1>4. left' \in [Kinds -> Nat]
  BY SpendKeepsTypes DEF SaveRead, Inv, OthersTyped, Kinds
<1> QED BY <1>3, <1>4 DEF SaveRead, Inv, OthersTyped, RowStep

\* SaveAnswers writes the answer to one question, which leaves status and score.
LEMMA SaveWriteStep ==
    ASSUME Inv, NEW r \in Requests, NEW q \in Questions, SaveWrite(r, q)
    PROVE  RequestsSound' /\ RowStep /\ OthersTyped'
<1>1. req[r] \in Request /\ req[r].op = "save" /\ req[r].att \in Attempts
  BY DEF Inv, RequestsSound, Sound, SaveWrite
<1> DEFINE t == IF req[r].todo = {q} THEN Idle ELSE [req[r] EXCEPT !.todo = req[r].todo \ {q}]
<1>2. Sound(t)
  <2>1. CASE req[r].todo = {q}
    BY <2>1, IdleIsSound
  <2>2. CASE req[r].todo # {q}
    <3>1. t \in Request /\ t.op = "save" /\ t.att = req[r].att
      BY <1>1, <2>2 DEF Request
    <3> HIDE DEF t
    <3> QED BY <1>1, <3>1 DEF Sound
  <2> QED BY <2>1, <2>2
<1>3. req' = [req EXCEPT ![r] = t]
  <2>1. CASE req[r].todo = {q}
    BY <2>1 DEF SaveWrite
  <2>2. CASE req[r].todo # {q}
    BY <2>2 DEF SaveWrite
  <2> QED BY <2>1, <2>2
<1> HIDE DEF t
<1>4. RequestsSound'
  BY <1>2, <1>3, RequestStep DEF Inv
<1>5. PICK a \in Attempts, g \in SUBSET Options : a = req[r].att /\ g = req[r].given[q]
  BY <1>1 DEF Request, Answers
<1> DEFINE u == [att[a] EXCEPT !.answers = [att[a].answers EXCEPT ![q] = g]]
<1>6. u \in Attempt /\ u.status = att[a].status /\ u.score = att[a].score
  <2>1. att[a] \in Attempt /\ [att[a].answers EXCEPT ![q] = g] \in Answers
    BY DEF Inv, RowsTyped, Attempt, Answers
  <2> QED BY <2>1 DEF Attempt
<1>7. att' = [att EXCEPT ![a] = u]
  BY <1>5 DEF SaveWrite
<1> HIDE DEF u
<1>8. RowStep
  BY <1>6, <1>7 DEF RowStep
<1> QED BY <1>4, <1>8 DEF SaveWrite, Inv, OthersTyped

\* A Submit has graded: what it carries is a percentage and a final status.
LEMMA SubmitReadStep ==
    ASSUME Inv, NEW r \in Requests, NEW a \in Attempts, SubmitRead(r, a)
    PROVE  RequestsSound' /\ RowStep /\ OthersTyped'
<1>1. quiz \in Quiz /\ att[a].answers \in Answers
  BY AttemptsAssumption DEF Inv, OthersTyped, RowsTyped, Attempt
<1>2. PICK z \in Quiz, s \in Answers : z = quiz /\ s = att[a].answers
  BY <1>1
<1>3. PICK n \in Int, m \in Int, f \in Policies :
         n = Grade(quiz, att[a].answers) /\ m = quiz.pass /\ f = quiz.feedback
  BY <1>2, GradeIsNearest DEF Quiz
<1>4. PICK d \in Finished : d = Closing(a)
  BY DEF Finished, Closing
<1>5. PICK p \in BOOLEAN : p = (n >= m)
  <2>1. (n >= m) \in BOOLEAN
    OBVIOUS
  <2> QED BY <2>1, Zenon
<1> DEFINE t == [Idle EXCEPT !.op = "submit", !.att = a, !.score = n, !.status = d, !.passes = p,
                            !.feedback = f]
<1>6. t \in Request /\ t.op = "submit" /\ t.att = a /\ t.status = d
  BY IdleIsSound DEF Sound, Request
<1>7. req' = [req EXCEPT ![r] = t]
  BY <1>3, <1>4, <1>5 DEF SubmitRead
<1> HIDE DEF t
<1>8. RequestsSound'
  BY <1>6, <1>7, RequestStep DEF Inv, Sound
<1>9. left' \in [Kinds -> Nat]
  BY SpendKeepsTypes DEF SubmitRead, Inv, OthersTyped, Kinds
<1> QED BY <1>8, <1>9 DEF SubmitRead, Inv, OthersTyped, RowStep

\* FinishAttempt closes an attempt in progress, and no other.
LEMMA SubmitFinishStep ==
    ASSUME Inv, NEW r \in Requests, SubmitFinish(r)
    PROVE  RequestsSound' /\ RowStep /\ OthersTyped'
<1>1. PICK a \in Attempts, d \in Finished, n \in Int :
         a = req[r].att /\ d = req[r].status /\ n = req[r].score
  BY DEF Inv, RequestsSound, Sound, SubmitFinish, Request
<1> DEFINE t == [req[r] EXCEPT !.op = "mark"]
<1>2. Sound(t)
  <2>1. t \in Request /\ t.op = "mark" /\ t.att = a
    BY <1>1 DEF Inv, RequestsSound, Request
  <2> HIDE DEF t
  <2> QED BY <2>1 DEF Sound
<1>3. req' = [req EXCEPT ![r] = t] \/ req' = [req EXCEPT ![r] = Idle]
  BY DEF SubmitFinish
<1> HIDE DEF t
<1>4. RequestsSound'
  BY <1>2, <1>3, IdleIsSound, RequestStep DEF Inv
<1> DEFINE u == [att[a] EXCEPT !.status = d, !.score = n]
<1>5. u \in Attempt /\ u.status = d
  <2>1. PICK w \in Attempt : w = att[a]
    BY DEF Inv, RowsTyped
  <2>2. [w EXCEPT !.status = d] \in Attempt /\ [w EXCEPT !.status = d].status = d
    BY DEF Attempt
  <2>3. PICK v \in Attempt : v = [w EXCEPT !.status = d] /\ v.status = d
    BY <2>2
  <2>4. [v EXCEPT !.score = n] \in Attempt /\ [v EXCEPT !.score = n].status = d
    BY <2>3 DEF Attempt
  <2>5. u = [v EXCEPT !.score = n]
    BY <2>1, <2>3
  <2> QED BY <2>4, <2>5
<1>6. ASSUME att[a].status = "in_progress" PROVE RowStep
  <2>1. att' = [att EXCEPT ![a].status = d, ![a].score = n]
    BY <1>1, <1>6 DEF SubmitFinish, Closable
  <2>2. att' = [att EXCEPT ![a] = u]
    BY <2>1 DEF Inv, RowsTyped
  <2> HIDE DEF u
  <2> QED BY <1>5, <1>6, <2>2 DEF RowStep
<1>7. ASSUME att[a].status # "in_progress" PROVE RowStep
  BY <1>1, <1>7 DEF SubmitFinish, Closable, RowStep
<1>8. OthersTyped'
  BY <1>1 DEF SubmitFinish, Answered, Inv, OthersTyped
<1> QED BY <1>4, <1>6, <1>7, <1>8

\* A Submit tells learning; the rows stay.
LEMMA SubmitMarkStep ==
    ASSUME Inv, NEW r \in Requests, SubmitMark(r)
    PROVE  RequestsSound' /\ RowStep /\ OthersTyped'
<1>1. RequestsSound'
  BY IdleIsSound, RequestStep DEF Inv, SubmitMark
<1>2. req[r].att \in Attempts
  BY DEF Inv, RequestsSound, Sound, SubmitMark
<1> QED BY <1>1, <1>2 DEF SubmitMark, Answered, Inv, OthersTyped, RowStep

\* A request ends halfway; what it has written stays.
LEMMA RequestFailsStep ==
    ASSUME Inv, NEW r \in Requests, RequestFails(r)
    PROVE  RequestsSound' /\ RowStep /\ OthersTyped'
<1>1. RequestsSound'
  BY IdleIsSound, RequestStep DEF Inv, RequestFails
<1>2. left' \in [Kinds -> Nat]
  BY SpendKeepsTypes DEF RequestFails, Inv, OthersTyped, Kinds
<1> QED BY <1>1, <1>2 DEF RequestFails, Inv, OthersTyped, RowStep

\* The clock, the students who read their results, and what other modules change.
LEMMA OutsideStep ==
    ASSUME Inv,
           \/ \E a \in Attempts : TimeRunsOut(a) \/ Result(a)
           \/ \E z \in Quizzes : VersionChanges(z)
           \/ EnrollmentChanges
           \/ UNCHANGED vars
    PROVE  RequestsSound' /\ RowStep /\ OthersTyped'
<1>1. UNCHANGED <<att, req>>
  BY DEF TimeRunsOut, Result, VersionChanges, EnrollmentChanges, vars
<1>2. RequestsSound' /\ RowStep
  BY <1>1 DEF Inv, RequestsSound, RowStep
<1>3. ASSUME NEW a \in Attempts, TimeRunsOut(a) \/ Result(a) PROVE OthersTyped'
  BY <1>3 DEF TimeRunsOut, Result, Answered, Inv, OthersTyped
<1>4. ASSUME NEW z \in Quizzes, VersionChanges(z) PROVE OthersTyped'
  <2>1. left' \in [Kinds -> Nat]
    BY <1>4, SpendKeepsTypes DEF VersionChanges, Inv, OthersTyped, Kinds
  <2> QED BY <1>4, <2>1 DEF VersionChanges, Inv, OthersTyped
<1>5. ASSUME EnrollmentChanges PROVE OthersTyped'
  <2>1. left' \in [Kinds -> Nat]
    BY <1>5, SpendKeepsTypes DEF EnrollmentChanges, Inv, OthersTyped, Kinds
  <2> QED BY <1>5, <2>1 DEF EnrollmentChanges, Inv, OthersTyped
<1>6. ASSUME UNCHANGED vars PROVE OthersTyped'
  BY <1>6 DEF vars, Inv, OthersTyped
<1>7. OthersTyped'
  BY <1>3, <1>4, <1>5, <1>6
<1> QED BY <1>2, <1>7

\* The whole of Next respects Inv and RowStep.
LEMMA InvInductive ==
    ASSUME Inv, [Next]_vars PROVE Inv' /\ RowStep
<1>1. RequestsSound' /\ RowStep /\ OthersTyped'
  BY StartReadStep, StartInsertStep, SaveReadStep, SaveWriteStep, SubmitReadStep, SubmitFinishStep,
     SubmitMarkStep, RequestFailsStep, OutsideStep DEF Next, Advance
<1> QED BY <1>1, RowsKeepTypes DEF Inv

\* Inv holds in every reachable state.
LEMMA InvHolds == Spec => []Inv
<1>1. Init => Inv
  <2> SUFFICES ASSUME Init PROVE Inv
    OBVIOUS
  <2>1. Absent \in Attempt
    BY DEF Absent, Attempt, Blank, Answers
  <2>2. Existing = {} /\ att \in [Attempts -> Attempt]
    BY <2>1 DEF Init, Existing, Absent
  <2>3. RowsTyped
    BY <2>2, FS_EmptySet DEF RowsTyped
  <2>4. RequestsSound
    BY IdleIsSound DEF Init, RequestsSound, Sound
  <2>5. OthersTyped
    BY AttemptsAssumption DEF Init, OthersTyped
  <2> QED BY <2>3, <2>4, <2>5 DEF Inv
<1>2. Inv /\ [Next]_vars => Inv'
  BY InvInductive
<1> QED BY <1>1, <1>2, PTL DEF Spec

-----------------------------------------------------------------------------
(* The theorems.                                                           *)

\* Rows, requests and grades keep their types, whatever quizzes are published: every score
\* is a number, a row has one of the statuses the code gives, never 'expired'.
THEOREM TypeCorrect == Spec => []TypeOK
<1>1. Inv => TypeOK
  BY DEF Inv, RowsTyped, RequestsSound, OthersTyped, TypeOK
<1> QED BY <1>1, InvHolds, PTL

\* Whatever quiz is published and whatever was answered: the grade is the hundredth nearest
\* to the percentage of the points earned. If the points are positive, as the contract
\* asks and the handler does not, it is between 0 and 100; exactly the right options get
\* 100, other answers only where what they miss is lost in the rounding; and one more
\* wrong option never raises it.
THEOREM GradesAreFair == Spec => []GradingIsFair
<1>1. ASSUME NEW z \in Quiz, NEW s \in Answers PROVE FairGrade(z, s)
  <2>1. NearestHundredth(z, s)
    BY GradeIsNearest
  <2>2. ASSUME WellFormed(z)
        PROVE  /\ Grade(z, s) \in 0..10000
               /\ (\A q \in Questions : s[q] = z.key[q]) => Grade(z, s) = 10000
               /\ Grade(z, s) = 10000 => FullMarks(z, s)
               /\ \A q \in Questions, o \in Options : o \notin z.key[q]
                    => Grade(z, [s EXCEPT ![q] = @ \union {o}]) <= Grade(z, s)
    BY <2>2, GradeIsPercentage, FullMarksAreNearlyExact, WrongOptionNeverRaisesGrade DEF FullMarks
  <2> QED BY <2>1, <2>2 DEF FairGrade
<1>2. Inv => GradingIsFair
  BY <1>1, AttemptsAssumption DEF Inv, OthersTyped, RowsTyped, Attempt, GradingIsFair, Existing
<1> QED BY <1>2, InvHolds, PTL

\* Whatever Starts overlap, a student has at most one attempt in progress at a
\* quiz: the unique index is enough, the reads before it are not needed.
THEOREM OneAttemptInProgress == Spec => []OneInProgress
<1>1. Init => OneInProgress
  BY DEF Init, OneInProgress, Absent
<1>2. Inv /\ OneInProgress /\ [Next]_vars => OneInProgress'
  <2> SUFFICES ASSUME Inv, OneInProgress, RowStep PROVE OneInProgress'
    BY InvInductive
  <2>1. CASE UNCHANGED att
    BY <2>1 DEF OneInProgress
  <2>2. ASSUME NEW a \in Attempts, NEW t, att' = [att EXCEPT ![a] = t],
               \/ att[a].status = "absent" /\ t.status = "in_progress" /\ IndexAllows
               \/ att[a].status = "in_progress" /\ t.status \in Finished
               \/ t.status = att[a].status /\ t.score = att[a].score
        PROVE OneInProgress'
    <3>1. \A b \in Attempts : att'[b] = IF b = a THEN t ELSE att[b]
      BY <2>2 DEF Inv, RowsTyped
    <3> QED BY <2>2, <3>1 DEF OneInProgress, IndexAllows, Finished
  <2> QED BY <2>1, <2>2 DEF RowStep
<1> QED BY <1>1, <1>2, InvHolds, PTL DEF Spec

\* The status and the score of a closed attempt never change again, whatever
\* Submits, saves and expiries overlap.
THEOREM ResultsAreFinal == Spec => ResultIsFinal
<1> DEFINE Final == \A a \in Attempts : att[a].status \in Finished
                     => att'[a].status = att[a].status /\ att'[a].score = att[a].score
<1>1. Inv /\ [Next]_vars => [Final]_vars
  <2> SUFFICES ASSUME Inv, RowStep PROVE Final
    BY InvInductive
  <2>1. CASE UNCHANGED att
    BY <2>1
  <2>2. ASSUME NEW a \in Attempts, NEW t, att' = [att EXCEPT ![a] = t],
               \/ att[a].status = "absent" /\ t.status = "in_progress" /\ IndexAllows
               \/ att[a].status = "in_progress" /\ t.status \in Finished
               \/ t.status = att[a].status /\ t.score = att[a].score
        PROVE Final
    <3>1. \A b \in Attempts : att'[b] = IF b = a THEN t ELSE att[b]
      BY <2>2 DEF Inv, RowsTyped
    <3> QED BY <2>2, <3>1 DEF Finished
  <2> QED BY <2>1, <2>2 DEF RowStep
<1>2. Spec => [][Final]_vars
  BY <1>1, InvHolds, PTL DEF Spec
<1> QED BY <1>2 DEF ResultIsFinal

\* What a Submit relies on after it has read: its attempt was opened, and once it
\* has gone past FinishAttempt the attempt is closed, by it or by another Submit.
SubmitsClose ==
    \A r \in Requests :
        /\ req[r].op = "submit" => att[req[r].att].status # "absent"
        /\ req[r].op = "mark" => att[req[r].att].status \in Finished

\* The right options are shown of closed attempts only, and learning is told of
\* the quiz only when an attempt at it is closed.
KeyAfterClosing ==
    /\ \A a \in shown : att[a].status \in Finished
    /\ marked => \E a \in Attempts : att[a].status \in Finished

\* An attempt that was opened stays opened, and one that is closed stays closed.
LEMMA RowsAdvance ==
    ASSUME Inv, RowStep, NEW a \in Attempts
    PROVE  /\ att[a].status # "absent" => att'[a].status # "absent"
           /\ att[a].status \in Finished => att'[a].status \in Finished
<1>1. CASE UNCHANGED att
  BY <1>1
<1>2. ASSUME NEW b \in Attempts, NEW t, att' = [att EXCEPT ![b] = t],
             \/ att[b].status = "absent" /\ t.status = "in_progress" /\ IndexAllows
             \/ att[b].status = "in_progress" /\ t.status \in Finished
             \/ t.status = att[b].status /\ t.score = att[b].score
      PROVE  /\ att[a].status # "absent" => att'[a].status # "absent"
             /\ att[a].status \in Finished => att'[a].status \in Finished
  <2>1. att'[a] = IF a = b THEN t ELSE att[a]
    BY <1>2 DEF Inv, RowsTyped
  <2> QED BY <1>2, <2>1 DEF Finished
<1> QED BY <1>1, <1>2 DEF RowStep

\* SubmitsClose is kept by every step: the request that moves either ends, begins
\* something else, or has just read or closed its attempt.
LEMMA SubmitsCloseStep ==
    ASSUME Inv, SubmitsClose, [Next]_vars
    PROVE  SubmitsClose'
<1>1. RowStep
  BY InvInductive
<1>2. ASSUME NEW r \in Requests, req'[r] = req[r]
      PROVE  /\ req'[r].op = "submit" => att'[req'[r].att].status # "absent"
             /\ req'[r].op = "mark" => att'[req'[r].att].status \in Finished
  BY <1>1, <1>2, RowsAdvance DEF SubmitsClose, Inv, RequestsSound, Sound
<1>3. ASSUME NEW r \in Requests, NEW t, req' = [req EXCEPT ![r] = t],
             req'[r].op = "submit" => att'[req'[r].att].status # "absent",
             req'[r].op = "mark" => att'[req'[r].att].status \in Finished
      PROVE  SubmitsClose'
  <2>1. \A q \in Requests : q # r => req'[q] = req[q]
    BY <1>3 DEF Inv, RequestsSound
  <2> QED BY <1>2, <1>3, <2>1 DEF SubmitsClose
<1>4. ASSUME UNCHANGED req PROVE SubmitsClose'
  BY <1>2, <1>4 DEF SubmitsClose
<1>5. ASSUME NEW r \in Requests, req' = [req EXCEPT ![r] = Idle] PROVE SubmitsClose'
  BY <1>3, <1>5, IdleIsSound DEF Inv, RequestsSound
<1>6. ASSUME NEW r \in Requests, StartRead(r) PROVE SubmitsClose'
  <2>1. req'[r].op = "start"
    BY <1>6 DEF StartRead, Idle, Inv, RequestsSound
  <2> QED BY <1>3, <1>6, <2>1 DEF StartRead
<1>7. ASSUME NEW r \in Requests, NEW a \in Attempts, NEW body, SaveRead(r, a, body)
      PROVE  SubmitsClose'
  <2>1. req'[r].op = "save"
    BY <1>7 DEF SaveRead, Idle, Inv, RequestsSound
  <2> QED BY <1>3, <1>7, <2>1 DEF SaveRead
<1>8. ASSUME NEW r \in Requests, NEW q, SaveWrite(r, q) PROVE SubmitsClose'
  <2>1. CASE req[r].todo = {q}
    BY <1>5, <1>8, <2>1 DEF SaveWrite
  <2>2. CASE req[r].todo # {q}
    <3>1. req'[r].op = "save"
      BY <1>8, <2>2 DEF SaveWrite, Inv, RequestsSound, Request
    <3> QED BY <1>3, <1>8, <3>1 DEF SaveWrite
  <2> QED BY <2>1, <2>2
<1>9. ASSUME NEW r \in Requests, NEW a \in Attempts, SubmitRead(r, a) PROVE SubmitsClose'
  <2>1. req'[r].op = "submit" /\ req'[r].att = a
    BY <1>9 DEF SubmitRead, Idle, Inv, RequestsSound
  <2>2. att'[a].status # "absent"
    BY <1>9 DEF SubmitRead
  <2> QED BY <1>3, <1>9, <2>1, <2>2 DEF SubmitRead
<1>10. ASSUME NEW r \in Requests, SubmitFinish(r) PROVE SubmitsClose'
  <2>1. PICK a \in Attempts : a = req[r].att
    BY <1>10 DEF SubmitFinish, Inv, RequestsSound, Sound
  <2>2. att'[a].status \in Finished
    BY <1>10, <2>1 DEF SubmitFinish, Closable, SubmitsClose, Inv, RequestsSound, Sound,
           RowsTyped, Attempt
  <2>3. CASE req' = [req EXCEPT ![r] = Idle]
    BY <1>5, <2>3
  <2>4. CASE req' = [req EXCEPT ![r].op = "mark"]
    <3>1. req'[r].op = "mark" /\ req'[r].att = a
      BY <2>1, <2>4 DEF Inv, RequestsSound, Request
    <3> QED BY <1>3, <2>2, <2>4, <3>1
  <2> QED BY <1>10, <2>3, <2>4 DEF SubmitFinish
<1>11. ASSUME NEW r \in Requests, \/ \E a \in Attempts : StartInsert(r, a)
                                  \/ SubmitMark(r) \/ RequestFails(r)
       PROVE  SubmitsClose'
  BY <1>5, <1>11 DEF StartInsert, SubmitMark, RequestFails
<1>12. ASSUME \/ \E a \in Attempts : TimeRunsOut(a) \/ Result(a)
              \/ \E z \in Quizzes : VersionChanges(z)
              \/ EnrollmentChanges
              \/ UNCHANGED vars
       PROVE  SubmitsClose'
  BY <1>4, <1>12 DEF TimeRunsOut, Result, VersionChanges, EnrollmentChanges, vars
<1> QED BY <1>6, <1>7, <1>8, <1>9, <1>10, <1>11, <1>12 DEF Next, Advance

\* Of two overlapping Submits the second finds the attempt closed and carries on
\* all the same; what it shows and what it tells learning is still only about an
\* attempt that is closed.
THEOREM KeyNeedsClosedAttempt == Spec => []KeyAfterClosing
<1>1. Init => SubmitsClose /\ KeyAfterClosing
  BY IdleIsSound DEF Init, SubmitsClose, KeyAfterClosing
<1>2. Inv /\ SubmitsClose /\ KeyAfterClosing /\ [Next]_vars => SubmitsClose' /\ KeyAfterClosing'
  <2> SUFFICES ASSUME Inv, SubmitsClose, KeyAfterClosing, [Next]_vars PROVE KeyAfterClosing'
    BY SubmitsCloseStep
  <2>1. RowStep
    BY InvInductive
  <2>2. \A a \in Attempts : att[a].status \in Finished => att'[a].status \in Finished
    BY <2>1, RowsAdvance
  <2>3. shown \subseteq Attempts
    BY DEF Inv, OthersTyped
  <2>4. ASSUME NEW a \in Attempts, att'[a].status \in Finished, shown' \subseteq shown \union {a}
        PROVE KeyAfterClosing'
    BY <2>2, <2>3, <2>4 DEF KeyAfterClosing
  <2>5. ASSUME shown' = shown, marked' = marked PROVE KeyAfterClosing'
    BY <2>2, <2>3, <2>5 DEF KeyAfterClosing
  <2>6. ASSUME NEW a \in Attempts, Result(a) PROVE KeyAfterClosing'
    BY <2>2, <2>4, <2>6 DEF Result, Answered
  <2>7. ASSUME NEW r \in Requests, SubmitFinish(r) \/ SubmitMark(r) PROVE KeyAfterClosing'
    <3>1. PICK a \in Attempts : a = req[r].att
      BY <2>7 DEF SubmitFinish, SubmitMark, Inv, RequestsSound, Sound
    <3>2. att'[a].status \in Finished
      <4>1. CASE SubmitMark(r)
        BY <3>1, <4>1 DEF SubmitMark, SubmitsClose
      <4>2. CASE SubmitFinish(r)
        BY <3>1, <4>2 DEF SubmitFinish, Closable, SubmitsClose, Inv, RequestsSound, Sound,
           RowsTyped, Attempt
      <4> QED BY <2>7, <4>1, <4>2
    <3>3. shown' \subseteq shown \union {a}
      BY <2>7, <3>1 DEF SubmitFinish, SubmitMark, Answered
    <3> QED BY <2>4, <3>2, <3>3
  <2>8. \/ \E a \in Attempts : Result(a)
        \/ \E r \in Requests : SubmitFinish(r) \/ SubmitMark(r)
        \/ shown' = shown /\ marked' = marked
    BY DEF Next, Advance, StartRead, StartInsert, SaveRead, SaveWrite, SubmitRead, RequestFails,
           TimeRunsOut, VersionChanges, EnrollmentChanges, vars
  <2> QED BY <2>5, <2>6, <2>7, <2>8
<1> QED BY <1>1, <1>2, InvHolds, PTL DEF Spec
=============================================================================

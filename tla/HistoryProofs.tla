---------------------------- MODULE HistoryProofs ----------------------------
(* What an answer and its chart show, for every table the collector can have *)
(* saved, every span of the calendar and every climate.                      *)
(*                                                                           *)
(* First, what finite sets of rows need: induction over their size, which    *)
(* the well-foundedness of < gives for sets of numbers, and from it that     *)
(* such a set has extreme members and that the sum over it is a number.      *)
(* Then the calendar: instants are in the order of a number (Rank), and      *)
(* MySQL's and the clock's functions lead from instants to instants.  Then   *)
(* the window of a query, whose rows are in one of two halves, that of now   *)
(* and that of the window's begin; hence the periods of a point.             *)
EXTENDS History, FiniteSetTheorems, WellFoundedInduction, TLAPS

-----------------------------------------------------------------------------
(* Finite sets: induction over one, its greatest member, a sum over it *)

\* A set of numbers has a least one; what holds of 0 and of n + 1 whenever it
\* holds of n holds of all.
LEMMA LeastNumber ==
  ASSUME NEW T \in SUBSET Nat, T # {}
  PROVE  \E m \in T : \A n \in T : m <= n
<1> DEFINE R == OpToRel(<, Nat)
<1>1. IsWellFoundedOn(R, Nat)
  BY NatLessThanWellFounded
<1> HIDE DEF R
<1>2. PICK x \in T : \A y \in T : ~(<<y, x>> \in R)
  BY <1>1, WFMin
<1>3. \A y \in T : ~(y < x)
  BY <1>2 DEF R, OpToRel
<1> QED
  BY <1>3

LEMMA NumberInduction ==
  ASSUME NEW T, 0 \in T, \A n \in Nat : n \in T => n + 1 \in T
  PROVE  Nat \subseteq T
<1> SUFFICES ASSUME Nat \ T # {}
             PROVE  FALSE
  OBVIOUS
<1>1. PICK m \in Nat \ T : \A n \in Nat \ T : m <= n
  BY LeastNumber
<1>2. m # 0 /\ m - 1 \in Nat
  BY <1>1
<1>3. m - 1 \in T
  BY <1>1, <1>2
<1> QED
  BY <1>1, <1>2, <1>3

\* A finite set without one of its members.
LEMMA OneLess ==
  ASSUME NEW S, IsFiniteSet(S), NEW x \in S
  PROVE  /\ IsFiniteSet(S \ {x})
         /\ Cardinality(S) \in Nat \ {0}
         /\ Cardinality(S \ {x}) = Cardinality(S) - 1
<1>1. Cardinality(S) \in Nat
  BY FS_CardinalityType
<1>2. Cardinality(S) # 0
  BY FS_EmptySet
<1>3. IsFiniteSet(S \ {x}) /\ Cardinality(S \ {x}) = Cardinality(S) - 1
  BY FS_RemoveElement
<1> QED
  BY <1>1, <1>2, <1>3

\* Among finitely many numbers there is a greatest and a least one.
LEMMA GreatestOf ==
  ASSUME NEW S, IsFiniteSet(S), S # {}, NEW f, \A x \in S : f[x] \in Int
  PROVE  \E m \in S : \A x \in S : f[x] <= f[m]
<1> DEFINE Has(T) == \E m \in T : \A x \in T : f[x] <= f[m]
           N == {n \in Nat : \A T \in SUBSET S :
                   T # {} /\ Cardinality(T) = n => Has(T)}
<1>1. 0 \in N
  BY FS_Subset, FS_EmptySet
<1>2. ASSUME NEW n \in Nat, n \in N
      PROVE  n + 1 \in N
  <2> SUFFICES ASSUME NEW T \in SUBSET S, T # {}, Cardinality(T) = n + 1
               PROVE  Has(T)
    OBVIOUS
  <2>1. PICK x \in T : TRUE
    OBVIOUS
  <2>2. IsFiniteSet(T)
    BY FS_Subset
  <2>3. Cardinality(T \ {x}) = n
    <3>1. Cardinality(T \ {x}) = Cardinality(T) - 1
      BY <2>1, <2>2, OneLess
    <3> QED
      BY <3>1
  <2>4. CASE T \ {x} = {}
    <3>1. \A y \in T : y = x
      BY <2>4
    <3> QED
      BY <2>1, <3>1
  <2>5. CASE T \ {x} # {}
    <3>1. PICK m \in T \ {x} : \A y \in T \ {x} : f[y] <= f[m]
      BY <1>2, <2>3, <2>5
    <3>2. f[m] \in Int /\ f[x] \in Int /\ \A y \in T : f[y] \in Int
      BY <2>1
    <3>3. CASE f[x] <= f[m]
      BY <3>1, <3>3
    <3>4. CASE ~(f[x] <= f[m])
      <4>1. \A y \in T : f[y] <= f[x]
        BY <3>1, <3>2, <3>4
      <4> QED
        BY <2>1, <4>1
    <3> QED
      BY <3>3, <3>4
  <2> QED
    BY <2>4, <2>5
<1>3. Nat \subseteq N
  <2> HIDE DEF N
  <2> QED
    BY <1>1, <1>2, NumberInduction
<1>4. Cardinality(S) \in Nat
  BY FS_CardinalityType
<1> QED
  BY <1>3, <1>4

LEMMA LeastOf ==
  ASSUME NEW S, IsFiniteSet(S), S # {}, NEW f, \A x \in S : f[x] \in Int
  PROVE  \E m \in S : \A x \in S : f[m] <= f[x]
<1> DEFINE g == [x \in S |-> -f[x]]
<1>1. \A x \in S : g[x] \in Int /\ g[x] = -f[x]
  OBVIOUS
<1>2. PICK m \in S : \A x \in S : g[x] <= g[m]
  <2> HIDE DEF g
  <2> QED
    BY <1>1, GreatestOf
<1> QED
  BY <1>1, <1>2

Total(rs) == MapThenSumSet(LAMBDA r : r.t, rs)

\* MapThenSumSet is a recursive function on the subsets of its argument; the
\* sums over sets of at most n rows are approximations of it.
LEMMA TotalIsInt ==
  ASSUME NEW rs, IsFiniteSet(rs), \A r \in rs : r.t \in Int
  PROVE  Total(rs) \in Int
<1> DEFINE First(s) == CHOOSE r \in s : TRUE
           Rest(s) == s \ {First(s)}
           Stops(s, n) == s = {} \/ Cardinality(s) > n
           Sums(g, n) == \A s \in SUBSET rs :
             g[s] = IF Stops(s, n) THEN 0 ELSE First(s).t + g[Rest(s)]
           N == {n \in Nat : \E g \in [SUBSET rs -> Int] : Sums(g, n)}
<1>1. \A s \in SUBSET rs : IsFiniteSet(s) /\ Cardinality(s) \in Nat
  BY FS_Subset, FS_CardinalityType
<1>2. ASSUME NEW s \in SUBSET rs, s # {}
      PROVE  /\ First(s).t \in Int
             /\ Rest(s) \in SUBSET rs
             /\ Cardinality(s) # 0
             /\ Cardinality(Rest(s)) = Cardinality(s) - 1
  <2>1. First(s) \in s
    BY <1>2
  <2> HIDE DEF First
  <2> QED
    BY <1>1, <2>1, OneLess
<1> HIDE DEF First, Rest
<1>3. 0 \in N
  <2> DEFINE g == [s \in SUBSET rs |-> 0]
  <2>1. \A s \in SUBSET rs : Stops(s, 0)
    <3> SUFFICES ASSUME NEW s \in SUBSET rs, s # {}
                 PROVE  Cardinality(s) > 0
      OBVIOUS
    <3>1. Cardinality(s) # 0
      BY <1>2
    <3> QED
      BY <1>1, <3>1
  <2> HIDE DEF Stops
  <2>2. g \in [SUBSET rs -> Int] /\ Sums(g, 0)
    BY <2>1
  <2> HIDE DEF g, Sums
  <2> QED
    BY <2>2
<1>4. ASSUME NEW n \in Nat, n \in N
      PROVE  n + 1 \in N
  <2>1. PICK g \in [SUBSET rs -> Int] : Sums(g, n)
    BY <1>4
  <2> DEFINE h == [s \in SUBSET rs |->
               IF Stops(s, n + 1) THEN 0 ELSE First(s).t + g[Rest(s)]]
  <2>2. \A s \in SUBSET rs : Stops(s, n + 1) => Stops(s, n)
    BY <1>1
  <2>3. h \in [SUBSET rs -> Int]
    <3> SUFFICES ASSUME NEW s \in SUBSET rs, ~Stops(s, n + 1)
                 PROVE  First(s).t + g[Rest(s)] \in Int
      OBVIOUS
    <3> QED
      BY <1>2
  <2>4. ASSUME NEW s \in SUBSET rs, ~Stops(s, n + 1)
        PROVE  h[Rest(s)] = g[Rest(s)]
    <3> DEFINE u == Rest(s)
    <3>1. u \in SUBSET rs /\ Cardinality(u) = Cardinality(s) - 1
      BY <1>2, <2>4
    <3>2. ~(Cardinality(u) > n)
      BY <1>1, <2>4, <3>1
    <3> HIDE DEF u
    <3>3. Stops(u, n) <=> Stops(u, n + 1)
      BY <1>1, <3>1, <3>2
    <3>4. h[u] = g[u]
      <4> HIDE DEF Stops
      <4> QED
        BY <2>1, <3>1, <3>3
    <3> QED
      BY <3>4 DEF u
  <2>5. Sums(h, n + 1)
    <3> HIDE DEF Stops
    <3> SUFFICES ASSUME NEW s \in SUBSET rs
                 PROVE  h[s] = IF Stops(s, n + 1) THEN 0 ELSE First(s).t + h[Rest(s)]
      OBVIOUS
    <3> QED
      BY <2>4
  <2> HIDE DEF h, Sums
  <2> QED
    BY <2>3, <2>5
<1>5. Nat \subseteq N
  <2> HIDE DEF N
  <2> QED
    BY <1>3, <1>4, NumberInduction
<1>6. PICK g \in [SUBSET rs -> Int] : Sums(g, Cardinality(rs))
  <2> HIDE DEF Sums
  <2> QED
    BY <1>1, <1>5
<1> DEFINE Equation(g1) == g1 = [s \in SUBSET rs |->
             IF s = {} THEN 0 ELSE First(s).t + g1[s \ {First(s)}]]
           iter == CHOOSE g1 : Equation(g1)
<1>7. Equation(g)
  <2>1. ASSUME NEW s \in SUBSET rs
        PROVE  ~(Cardinality(s) > Cardinality(rs))
    BY <1>1, FS_Subset
  <2>2. ASSUME NEW s \in SUBSET rs
        PROVE  g[s] = IF s = {} THEN 0 ELSE First(s).t + g[s \ {First(s)}]
    BY <1>6, <2>1 DEF Rest
  <2> QED
    BY <2>2
<1>8. Equation(iter)
  <2> HIDE DEF Equation
  <2> QED
    BY <1>7
<1>9. Total(rs) = iter[rs]
  BY DEF Total, MapThenSumSet, MapThenFoldSet, First
<1> HIDE DEF iter
<1> DEFINE M == {n \in Nat : \A s \in SUBSET rs :
                   Cardinality(s) = n => iter[s] \in Int}
<1>10. 0 \in M
  <2> SUFFICES ASSUME NEW s \in SUBSET rs, Cardinality(s) = 0
               PROVE  iter[s] \in Int
    OBVIOUS
  <2>1. s = {}
    BY <1>2
  <2> QED
    BY <1>8, <2>1
<1>11. ASSUME NEW n \in Nat, n \in M
       PROVE  n + 1 \in M
  <2> SUFFICES ASSUME NEW s \in SUBSET rs, Cardinality(s) = n + 1
               PROVE  iter[s] \in Int
    OBVIOUS
  <2>1. CASE s = {}
    BY <1>8, <2>1
  <2>2. CASE s # {}
    <3>1. Cardinality(Rest(s)) = n /\ Rest(s) \in SUBSET rs /\ First(s).t \in Int
      BY <1>2, <2>2
    <3>2. iter[Rest(s)] \in Int
      BY <1>11, <3>1
    <3>3. iter[s] = First(s).t + iter[Rest(s)]
      BY <1>8, <2>2 DEF Rest
    <3> QED
      BY <3>1, <3>2, <3>3
  <2> QED
    BY <2>1, <2>2
<1>12. Nat \subseteq M
  <2> HIDE DEF M
  <2> QED
    BY <1>10, <1>11, NumberInduction
<1> QED
  BY <1>1, <1>9, <1>12

-----------------------------------------------------------------------------
(* Instants *)

\* An instant as a number that grows with it.
Rank(t) == ((((t[1] * 12 + t[2]) * 31 + t[3]) * 24 + t[4]) * 60 + t[5]) * 60 + t[6]

LEMMA InstantFields ==
  ASSUME NEW t \in Instants
  PROVE  /\ t[1] \in Int /\ t[2] \in 1 .. 12 /\ t[3] \in 1 .. 31
         /\ t[3] <= DaysIn(t[1], t[2])
         /\ t[4] \in 0 .. 23 /\ t[5] \in 0 .. 59 /\ t[6] \in 0 .. 59
         /\ Rank(t) \in Int
  BY DEF Instants, DaysIn, Rank

\* Earlier, place by place.
LexEarlier(a, b) ==
  \/ a[1] < b[1]
  \/ a[1] = b[1] /\ a[2] < b[2]
  \/ a[1] = b[1] /\ a[2] = b[2] /\ a[3] < b[3]
  \/ a[1] = b[1] /\ a[2] = b[2] /\ a[3] = b[3] /\ a[4] < b[4]
  \/ a[1] = b[1] /\ a[2] = b[2] /\ a[3] = b[3] /\ a[4] = b[4] /\ a[5] < b[5]
  \/ a[1] = b[1] /\ a[2] = b[2] /\ a[3] = b[3] /\ a[4] = b[4] /\ a[5] = b[5] /\ a[6] < b[6]

LEMMA EarlierPlaces ==
  ASSUME NEW a, NEW b
  PROVE  Earlier(a, b) <=> LexEarlier(a, b)
<1>1. ASSUME Earlier(a, b)
      PROVE  LexEarlier(a, b)
  <2>1. PICK i \in 1 .. 6 : a[i] < b[i] /\ \A j \in 1 .. i - 1 : a[j] = b[j]
    BY <1>1 DEF Earlier
  <2> QED
    BY <2>1 DEF LexEarlier
<1>2. ASSUME LexEarlier(a, b)
      PROVE  Earlier(a, b)
  <2> USE <1>2 DEF LexEarlier, Earlier
  <2>1. CASE a[1] < b[1]
    BY <2>1
  <2>2. CASE a[1] = b[1] /\ a[2] < b[2]
    BY <2>2
  <2>3. CASE a[1] = b[1] /\ a[2] = b[2] /\ a[3] < b[3]
    BY <2>3
  <2>4. CASE a[1] = b[1] /\ a[2] = b[2] /\ a[3] = b[3] /\ a[4] < b[4]
    BY <2>4
  <2>5. CASE a[1] = b[1] /\ a[2] = b[2] /\ a[3] = b[3] /\ a[4] = b[4] /\ a[5] < b[5]
    BY <2>5
  <2>6. CASE a[1] = b[1] /\ a[2] = b[2] /\ a[3] = b[3] /\ a[4] = b[4] /\ a[5] = b[5] /\ a[6] < b[6]
    BY <2>6
  <2> QED
    BY <2>1, <2>2, <2>3, <2>4, <2>5, <2>6
<1> QED
  BY <1>1, <1>2

LEMMA SixtiethPlace ==
  ASSUME NEW x \in Int, NEW y \in Int, NEW p \in 0 .. 59, NEW q \in 0 .. 59
  PROVE  /\ x * 60 + p < y * 60 + q <=> x < y \/ (x = y /\ p < q)
         /\ x * 60 + p = y * 60 + q <=> x = y /\ p = q
OBVIOUS

\* Instants are in the order of their ranks.
LEMMA EarlierRank ==
  ASSUME NEW a \in Instants, NEW b \in Instants
  PROVE  Earlier(a, b) <=> Rank(a) < Rank(b)
<1> DEFINE Month(t) == t[1] * 12 + t[2]
           Day(t) == Month(t) * 31 + t[3]
           Hour(t) == Day(t) * 24 + t[4]
           Minute(t) == Hour(t) * 60 + t[5]
           Second(t) == Minute(t) * 60 + t[6]
<1>a. Month(a) \in Int /\ Month(b) \in Int
  BY InstantFields
<1>b. Day(a) \in Int /\ Day(b) \in Int
  <2> HIDE DEF Month
  <2> QED
    BY <1>a, InstantFields
<1>c. Hour(a) \in Int /\ Hour(b) \in Int
  <2> HIDE DEF Day
  <2> QED
    BY <1>b, InstantFields
<1>d. Minute(a) \in Int /\ Minute(b) \in Int
  <2> HIDE DEF Hour
  <2> QED
    BY <1>c, InstantFields
<1>1. Month(a) < Month(b) <=> a[1] < b[1] \/ (a[1] = b[1] /\ a[2] < b[2])
  BY InstantFields
<1>2. Month(a) = Month(b) <=> a[1] = b[1] /\ a[2] = b[2]
  BY InstantFields
<1> HIDE DEF Month
<1>3. Day(a) < Day(b) <=> Month(a) < Month(b) \/ (Month(a) = Month(b) /\ a[3] < b[3])
  BY <1>a, InstantFields
<1>4. Day(a) = Day(b) <=> Month(a) = Month(b) /\ a[3] = b[3]
  BY <1>a, InstantFields
<1> HIDE DEF Day
<1>5. Hour(a) < Hour(b) <=> Day(a) < Day(b) \/ (Day(a) = Day(b) /\ a[4] < b[4])
  BY <1>b, InstantFields
<1>6. Hour(a) = Hour(b) <=> Day(a) = Day(b) /\ a[4] = b[4]
  BY <1>b, InstantFields
<1> HIDE DEF Hour
<1>e. a[5] \in 0 .. 59 /\ b[5] \in 0 .. 59 /\ a[6] \in 0 .. 59 /\ b[6] \in 0 .. 59
  BY InstantFields
<1> HIDE DEF Minute, Second
<1>7. Minute(a) < Minute(b) <=> Hour(a) < Hour(b) \/ (Hour(a) = Hour(b) /\ a[5] < b[5])
  BY <1>c, <1>e, SixtiethPlace DEF Minute
<1>8. Minute(a) = Minute(b) <=> Hour(a) = Hour(b) /\ a[5] = b[5]
  <2>1. Minute(b) < Minute(a) <=> Hour(b) < Hour(a) \/ (Hour(b) = Hour(a) /\ b[5] < a[5])
    BY <1>c, <1>e, SixtiethPlace DEF Minute
  <2> QED
    BY <1>7, <1>c, <1>d, <1>e, <2>1
<1>9. Second(a) < Second(b) <=>
        Minute(a) < Minute(b) \/ (Minute(a) = Minute(b) /\ a[6] < b[6])
  BY <1>d, <1>e, SixtiethPlace DEF Second
<1>10. Rank(a) = Second(a) /\ Rank(b) = Second(b)
  BY DEF Rank, Second, Minute, Hour, Day, Month
<1>11. Second(a) < Second(b) <=> LexEarlier(a, b)
  BY <1>1, <1>2, <1>3, <1>4, <1>5, <1>6, <1>7, <1>8, <1>9 DEF LexEarlier
<1> QED
  BY <1>10, <1>11, EarlierPlaces

\* Whatever the calendar's functions make of an instant is an instant, and it
\* is earlier or later as their names say.
LEMMA DayBeforeInstant ==
  ASSUME NEW t \in Instants
  PROVE  /\ MonthBefore(t)[1] \in Int /\ MonthBefore(t)[2] \in 1 .. 12
         /\ DayBefore(t) \in Instants
         /\ DayBefore(t)[4] = t[4] /\ DayBefore(t)[5] = t[5] /\ DayBefore(t)[6] = t[6]
         /\ LexEarlier(DayBefore(t), t)
<1>1. CASE t[3] > 1
  BY <1>1, InstantFields DEF Instants, DayBefore, MonthBefore, DaysIn, LexEarlier
<1>2. CASE t[3] = 1
  <2> DEFINE m == MonthBefore(t)
             u == [m EXCEPT ![3] = DaysIn(m[1], m[2])]
  <2>1. /\ m \in [1 .. 6 -> Int]
        /\ m[2] \in 1 .. 12
        /\ m[1] < t[1] \/ (m[1] = t[1] /\ m[2] < t[2])
        /\ m[4] = t[4] /\ m[5] = t[5] /\ m[6] = t[6]
    BY InstantFields DEF Instants, MonthBefore
  <2>2. DaysIn(m[1], m[2]) \in 28 .. 31
    BY DEF DaysIn
  <2>3. DayBefore(t) = u
    BY <1>2 DEF DayBefore
  <2> HIDE DEF m
  <2>4. u \in Instants
    BY <2>1, <2>2, InstantFields DEF Instants
  <2>5. LexEarlier(u, t)
    BY <2>1 DEF LexEarlier
  <2>6. u[4] = t[4] /\ u[5] = t[5] /\ u[6] = t[6]
    BY <2>1
  <2> QED
    BY <2>1, <2>3, <2>4, <2>5, <2>6 DEF m
<1> QED
  BY <1>1, <1>2, InstantFields

LEMMA DateSubInstant ==
  ASSUME NEW t \in Instants, NEW unit \in Types
  PROVE  DATE_SUB(t, unit) \in Instants /\ Earlier(DATE_SUB(t, unit), t)
<1> DEFINE u == DATE_SUB(t, unit)
<1> USE InstantFields, DayBeforeInstant
<1>1. CASE unit = "hour"
  <2>1. u = IF t[4] > 0 THEN [t EXCEPT ![4] = @ - 1] ELSE [DayBefore(t) EXCEPT ![4] = 23]
    BY <1>1 DEF DATE_SUB
  <2> HIDE DEF u
  <2>2. u \in Instants
    BY <2>1 DEF Instants
  <2>3. LexEarlier(u, t)
    <3> DEFINE d == DayBefore(t)
    <3>1. CASE t[4] > 0
      BY <2>1, <3>1 DEF Instants, LexEarlier
    <3>2. CASE ~(t[4] > 0)
      <4>1. u = [d EXCEPT ![4] = 23] /\ d \in [1 .. 6 -> Int]
        BY <2>1, <3>2 DEF Instants
      <4>2. LexEarlier(d, t) /\ d[4] = t[4] /\ d[5] = t[5] /\ d[6] = t[6]
        OBVIOUS
      <4> HIDE DEF d
      <4>3. d[1] < t[1] \/ (d[1] = t[1] /\ (d[2] < t[2] \/ (d[2] = t[2] /\ d[3] < t[3])))
        BY <4>1, <4>2 DEF LexEarlier
      <4> QED
        BY <4>1, <4>3 DEF LexEarlier
    <3> QED
      BY <3>1, <3>2
  <2> QED
    BY <2>2, <2>3, EarlierPlaces DEF u
<1>2. CASE unit = "day"
  <2>1. u = DayBefore(t)
    BY <1>2 DEF DATE_SUB
  <2> HIDE DEF u
  <2>2. u \in Instants
    BY <2>1
  <2>3. LexEarlier(u, t)
    BY <2>1
  <2> QED
    BY <2>2, <2>3, EarlierPlaces DEF u
<1>3. CASE unit = "month"
  <2>1. u = Clamp(MonthBefore(t))
    BY <1>3 DEF DATE_SUB
  <2> HIDE DEF u
  <2>2. u \in Instants
    BY <2>1 DEF Instants, Clamp, MonthBefore, DaysIn
  <2>3. LexEarlier(u, t)
    BY <2>1 DEF Instants, LexEarlier, Clamp, MonthBefore
  <2> QED
    BY <2>2, <2>3, EarlierPlaces DEF u
<1>4. CASE unit = "year"
  <2>1. u = Clamp([t EXCEPT ![1] = @ - 1])
    BY <1>4 DEF DATE_SUB
  <2> HIDE DEF u
  <2>2. u \in Instants
    BY <2>1 DEF Instants, Clamp, DaysIn
  <2>3. LexEarlier(u, t)
    BY <2>1 DEF Instants, LexEarlier, Clamp
  <2> QED
    BY <2>2, <2>3, EarlierPlaces DEF u
<1> QED
  BY <1>1, <1>2, <1>3, <1>4 DEF Types

LEMMA DayAfterInstant ==
  ASSUME NEW t \in Instants
  PROVE  /\ DayAfter(t) \in Instants
         /\ Earlier(t, DayAfter(t))
         /\ \A i \in 4 .. 6 : DayAfter(t)[i] = t[i]
<1>1. DayAfter(t) \in Instants /\ \A i \in 4 .. 6 : DayAfter(t)[i] = t[i]
  BY InstantFields DEF Instants, DayAfter, DaysIn
<1>2. LexEarlier(t, DayAfter(t))
  BY InstantFields DEF Instants, DayAfter, LexEarlier
<1> QED
  BY <1>1, <1>2, EarlierPlaces

LEMMA Sixtieth ==
  ASSUME NEW n \in 0 .. 119
  PROVE  n \div 60 \in 0 .. 1 /\ n % 60 = n - 60 * (n \div 60) /\ n % 60 \in 0 .. 59
OBVIOUS

LEMMA TwentyFourth ==
  ASSUME NEW n \in 0 .. 47
  PROVE  n \div 24 \in 0 .. 1 /\ n % 24 = n - 24 * (n \div 24) /\ n % 24 \in 0 .. 23
OBVIOUS

LEMMA CarryInstant ==
  ASSUME NEW t \in [1 .. 6 -> Int], t[2] \in 1 .. 12, t[3] \in 1 .. DaysIn(t[1], t[2]),
         t[4] \in 0 .. 46, t[5] \in 0 .. 118, t[6] \in 0 .. 118
  PROVE  /\ Carry(t) \in Instants
         /\ \A u \in Instants :
              /\ u[1] = t[1] /\ u[2] = t[2] /\ u[3] = t[3]
              /\ \/ u[4] < t[4] /\ u[5] = t[5]
                 \/ u[4] = t[4] /\ u[5] < t[5]
                 \/ u[4] = t[4] /\ u[5] = t[5] /\ u[6] < t[6]
              => Earlier(u, Carry(t))
<1> DEFINE s == t[6] \div 60
           m == (t[5] + s) \div 60
           h == (t[4] + m) \div 24
           kept == [t EXCEPT ![4] = (@ + m) % 24, ![5] = (@ + s) % 60, ![6] = @ % 60]
<1>1. /\ s \in 0 .. 1 /\ t[6] % 60 = t[6] - 60 * s /\ t[6] % 60 \in 0 .. 59
  BY Sixtieth
<1> HIDE DEF s
<1>2. /\ m \in 0 .. 1 /\ (t[5] + s) % 60 = t[5] + s - 60 * m
      /\ (t[5] + s) % 60 \in 0 .. 59
  <2> DEFINE n == t[5] + s
  <2>1. n \in 0 .. 119
    BY <1>1
  <2> HIDE DEF n
  <2>2. n \div 60 \in 0 .. 1 /\ n % 60 = n - 60 * (n \div 60) /\ n % 60 \in 0 .. 59
    BY <2>1, Sixtieth
  <2> QED
    BY <1>1, <2>2 DEF n
<1> HIDE DEF m
<1>3. /\ h \in 0 .. 1 /\ (t[4] + m) % 24 = t[4] + m - 24 * h
      /\ (t[4] + m) % 24 \in 0 .. 23
  <2> DEFINE n == t[4] + m
  <2>1. n \in 0 .. 47
    BY <1>2
  <2> HIDE DEF n
  <2>2. n \div 24 \in 0 .. 1 /\ n % 24 = n - 24 * (n \div 24) /\ n % 24 \in 0 .. 23
    BY <2>1, TwentyFourth
  <2> QED
    BY <1>2, <2>2 DEF n
<1> HIDE DEF h
<1>4. /\ kept[1] = t[1] /\ kept[2] = t[2] /\ kept[3] = t[3]
      /\ kept[4] = t[4] + m - 24 * h
      /\ kept[5] = t[5] + s - 60 * m
      /\ kept[6] = t[6] - 60 * s
      /\ kept \in Instants
  <2> DEFINE hh == (t[4] + m) % 24
             mm == (t[5] + s) % 60
             ss == t[6] % 60
  <2>1. kept = [t EXCEPT ![4] = hh, ![5] = mm, ![6] = ss]
    OBVIOUS
  <2>2. hh = t[4] + m - 24 * h /\ mm = t[5] + s - 60 * m /\ ss = t[6] - 60 * s
    BY <1>1, <1>2, <1>3
  <2>3. hh \in 0 .. 23 /\ mm \in 0 .. 59 /\ ss \in 0 .. 59
    BY <1>1, <1>2, <1>3
  <2> HIDE DEF kept, hh, mm, ss
  <2>4. /\ kept \in [1 .. 6 -> Int]
        /\ kept[1] = t[1] /\ kept[2] = t[2] /\ kept[3] = t[3]
        /\ kept[4] = hh /\ kept[5] = mm /\ kept[6] = ss
    BY <2>1, <2>3
  <2> QED
    BY <2>2, <2>3, <2>4 DEF Instants
<1>5. Carry(t) = IF h = 0 THEN kept ELSE DayAfter(kept)
  BY DEF Carry, s, m, h
<1> HIDE DEF kept
<1>6. ASSUME NEW u \in Instants,
             u[1] = t[1], u[2] = t[2], u[3] = t[3],
             \/ u[4] < t[4] /\ u[5] = t[5]
             \/ u[4] = t[4] /\ u[5] < t[5]
             \/ u[4] = t[4] /\ u[5] = t[5] /\ u[6] < t[6],
             h = 0
      PROVE  Earlier(u, kept)
  <2>1. t[4] + m \in 0 .. 23 /\ kept[4] = t[4] + m
    BY <1>2, <1>3, <1>4, <1>6
  <2>2. /\ u[1] = kept[1] /\ u[2] = kept[2] /\ u[3] = kept[3]
        /\ u[4] \in Int /\ u[5] \in 0 .. 59 /\ u[6] \in 0 .. 59
    BY <1>4, <1>6, InstantFields
  <2>3. \/ u[4] < kept[4]
        \/ u[4] = kept[4] /\ u[5] < kept[5]
        \/ u[4] = kept[4] /\ u[5] = kept[5] /\ u[6] < kept[6]
    <3>1. /\ kept[5] = t[5] + s - 60 * m /\ kept[6] = t[6] - 60 * s /\ kept[4] = t[4] + m
          /\ s \in 0 .. 1 /\ m \in 0 .. 1
      BY <1>1, <1>2, <1>4, <2>1
    <3>2. CASE u[4] < t[4] /\ u[5] = t[5]
      BY <3>1, <3>2, <2>2
    <3>3. CASE u[4] = t[4] /\ u[5] < t[5]
      BY <3>1, <3>3, <2>2
    <3>4. CASE u[4] = t[4] /\ u[5] = t[5] /\ u[6] < t[6]
      BY <3>1, <3>4, <2>2
    <3> QED
      BY <1>6, <3>2, <3>3, <3>4
  <2>4. LexEarlier(u, kept)
    BY <2>2, <2>3 DEF LexEarlier
  <2> QED
    BY <2>4, EarlierPlaces
<1>7. ASSUME NEW u \in Instants, u[1] = t[1], u[2] = t[2], u[3] = t[3]
      PROVE  Earlier(u, DayAfter(kept))
  <2>1. LexEarlier(u, DayAfter(kept))
    BY <1>4, <1>7 DEF LexEarlier, DayAfter, Instants
  <2> QED
    BY <2>1, EarlierPlaces
<1> QED
  BY <1>3, <1>4, <1>5, <1>6, <1>7, DayAfterInstant

LEMMA EarlierTransitive ==
  ASSUME NEW a \in Instants, NEW b \in Instants, NEW c \in Instants,
         Earlier(a, b), Earlier(b, c)
  PROVE  Earlier(a, c)
BY EarlierRank, InstantFields

LEMMA AfterInstant ==
  ASSUME type \in Types, NEW t \in Instants
  PROVE  After(t) \in Instants /\ Earlier(t, After(t))
<1> USE InstantFields
<1>1. CASE type = "hour"
  <2> DEFINE u == [t EXCEPT ![6] = @ + 30]
  <2>1. /\ u \in [1 .. 6 -> Int]
        /\ u[1] = t[1] /\ u[2] = t[2] /\ u[3] = t[3] /\ u[4] = t[4] /\ u[5] = t[5]
        /\ u[6] = t[6] + 30
    BY DEF Instants
  <2>2. After(t) = Carry(u)
    BY <1>1 DEF After, Next30s
  <2> HIDE DEF u
  <2> QED
    BY <2>1, <2>2, CarryInstant
<1>2. CASE type = "day"
  <2> DEFINE u == [t EXCEPT ![5] = @ + 30]
  <2>1. /\ u \in [1 .. 6 -> Int]
        /\ u[1] = t[1] /\ u[2] = t[2] /\ u[3] = t[3] /\ u[4] = t[4] /\ u[6] = t[6]
        /\ u[5] = t[5] + 30
    BY DEF Instants
  <2>2. After(t) = Carry(u)
    BY <1>2 DEF After, Next30min
  <2> HIDE DEF u
  <2> QED
    BY <2>1, <2>2, CarryInstant
<1>3. CASE type = "month"
  <2> DEFINE u == [t EXCEPT ![4] = @ + 12]
  <2>1. /\ u \in [1 .. 6 -> Int]
        /\ u[1] = t[1] /\ u[2] = t[2] /\ u[3] = t[3] /\ u[5] = t[5] /\ u[6] = t[6]
        /\ u[4] = t[4] + 12
    BY DEF Instants
  <2>2. After(t) = Carry(u)
    BY <1>3 DEF After, NextHalfDay
  <2> HIDE DEF u
  <2> QED
    BY <2>1, <2>2, CarryInstant
<1>4. CASE type = "year"
  <2>1. After(t) = DayAfter(DayAfter(DayAfter(t)))
    BY <1>4 DEF After, Next3Days
  <2> QED
    BY <2>1, DayAfterInstant, EarlierTransitive
<1> QED
  BY <1>1, <1>2, <1>3, <1>4 DEF Types

-----------------------------------------------------------------------------
(* The window of a query, and the periods in it *)

\* a and b differ, if at all, in the place DATE_FORMAT picks or behind it.
Alike(a, b, unit) == \A i \in 1 .. Place[unit] - 1 : a[i] = b[i]

InWindow(t, unit) == ~Earlier(t, DATE_SUB(now, unit)) /\ ~Earlier(now, t)

LEMMA PeriodPlaces ==
  ASSUME NEW a \in Instants, NEW unit \in Types
  PROVE  /\ Place[unit] \in 2 .. 5
         /\ Period(a, unit) = [i \in 1 .. Place[unit] |-> a[i]]
<1>1. Place[unit] \in 2 .. 5
  BY DEF Place, Types
<1>2. a \in [1 .. 6 -> Int]
  BY DEF Instants
<1> QED
  BY <1>1, <1>2 DEF Period

LEMMA SamePeriod ==
  ASSUME NEW a \in Instants, NEW b \in Instants, NEW unit \in Types
  PROVE  Period(a, unit) = Period(b, unit) <=>
           Alike(a, b, unit) /\ DATE_FORMAT(a, unit) = DATE_FORMAT(b, unit)
<1> DEFINE P == Place[unit]
<1>1. P \in 2 .. 5
  BY PeriodPlaces
<1>2. Alike(a, b, unit) /\ a[P] = b[P] <=> \A i \in 1 .. P : a[i] = b[i]
  BY <1>1 DEF Alike
<1>3. Period(a, unit) = [i \in 1 .. P |-> a[i]] /\ Period(b, unit) = [i \in 1 .. P |-> b[i]]
  BY PeriodPlaces
<1> HIDE DEF P
<1>4. Period(a, unit) = Period(b, unit) <=> \A i \in 1 .. P : a[i] = b[i]
  BY <1>3
<1> QED
  BY <1>2, <1>4 DEF DATE_FORMAT, P

\* The date of a is not after that of b.
DateNotAfter(a, b) ==
  \/ a[1] < b[1]
  \/ a[1] = b[1] /\ a[2] < b[2]
  \/ a[1] = b[1] /\ a[2] = b[2] /\ a[3] <= b[3]

MonthNotAfter(a, b) == a[1] < b[1] \/ (a[1] = b[1] /\ a[2] <= b[2])

LEMMA MonthBeforePlaces ==
  ASSUME NEW n \in Instants
  PROVE  /\ MonthBefore(n) \in [1 .. 6 -> Int]
         /\ MonthBefore(n)[2] \in 1 .. 12
         /\ \A i \in 3 .. 6 : MonthBefore(n)[i] = n[i]
BY InstantFields DEF Instants, MonthBefore

\* Nothing lies between a month and the month before.
LEMMA NoMonthBetween ==
  ASSUME NEW t \in Instants, NEW n \in Instants,
         MonthNotAfter(MonthBefore(n), t), MonthNotAfter(t, n)
  PROVE  \/ t[1] = n[1] /\ t[2] = n[2]
         \/ t[1] = MonthBefore(n)[1] /\ t[2] = MonthBefore(n)[2]
<1>1. CASE n[2] > 1
  <2>1. MonthBefore(n)[1] = n[1] /\ MonthBefore(n)[2] = n[2] - 1
    BY <1>1, InstantFields DEF MonthBefore, Instants
  <2> QED
    BY <2>1, InstantFields DEF MonthNotAfter
<1>2. CASE n[2] = 1
  <2>1. MonthBefore(n)[1] = n[1] - 1 /\ MonthBefore(n)[2] = 12
    BY <1>2, InstantFields DEF MonthBefore, Instants
  <2> QED
    BY <1>2, <2>1, InstantFields DEF MonthNotAfter
<1> QED
  BY <1>1, <1>2, InstantFields

\* Nothing lies between a day and the day before.
LEMMA NoDayBetween ==
  ASSUME NEW t \in Instants, NEW n \in Instants,
         DateNotAfter(DayBefore(n), t), DateNotAfter(t, n)
  PROVE  \/ t[1] = n[1] /\ t[2] = n[2] /\ t[3] = n[3]
         \/ t[1] = DayBefore(n)[1] /\ t[2] = DayBefore(n)[2] /\ t[3] = DayBefore(n)[3]
<1> DEFINE d == DayBefore(n)
           m == MonthBefore(n)
<1>1. CASE n[3] > 1
  <2>1. d[1] = n[1] /\ d[2] = n[2] /\ d[3] = n[3] - 1
    BY <1>1, InstantFields DEF DayBefore, Instants
  <2> HIDE DEF d
  <2>2. DateNotAfter(d, t)
    BY DEF d
  <2>3. \/ t[1] = n[1] /\ t[2] = n[2] /\ t[3] = n[3]
        \/ t[1] = d[1] /\ t[2] = d[2] /\ t[3] = d[3]
    BY <2>1, <2>2, InstantFields DEF DateNotAfter
  <2> QED
    BY <2>3 DEF d
<1>2. CASE n[3] = 1
  <2>1. d[1] = m[1] /\ d[2] = m[2] /\ d[3] = DaysIn(m[1], m[2])
    BY <1>2, MonthBeforePlaces, InstantFields DEF DayBefore, Instants
  <2>2. d \in Instants
    BY DayBeforeInstant
  <2> HIDE DEF d, m
  <2>3. DateNotAfter(d, t)
    BY DEF d
  <2>4. MonthNotAfter(m, t) /\ MonthNotAfter(t, n)
    BY <2>1, <2>2, <2>3, InstantFields DEF DateNotAfter, MonthNotAfter
  <2>5. \/ t[1] = n[1] /\ t[2] = n[2]
        \/ t[1] = m[1] /\ t[2] = m[2]
    BY <2>4, NoMonthBetween DEF m
  <2>6. CASE t[1] = n[1] /\ t[2] = n[2]
    BY <1>2, <2>6, InstantFields DEF DateNotAfter
  <2>7. CASE t[1] = m[1] /\ t[2] = m[2]
    <3>1. t[3] <= DaysIn(m[1], m[2]) /\ t[3] \in Int
      BY <2>7, InstantFields
    <3>2. d[3] <= t[3]
      BY <2>1, <2>2, <2>3, <2>7, InstantFields DEF DateNotAfter
    <3>3. t[1] = d[1] /\ t[2] = d[2] /\ t[3] = d[3]
      BY <2>1, <2>2, <2>7, <3>1, <3>2, InstantFields
    <3> QED
      BY <3>3 DEF d
  <2> QED
    BY <2>5, <2>6, <2>7
<1> QED
  BY <1>1, <1>2, InstantFields

\* What is in the window is in the hour (day, month, year) of now or in that in
\* which the window begins.
LEMMA WindowHasTwoHalves ==
  ASSUME NEW t \in Instants, now \in Instants, NEW unit \in Types, InWindow(t, unit)
  PROVE  \/ Alike(t, now, unit) /\ t[Place[unit]] <= now[Place[unit]]
         \/ /\ Alike(t, DATE_SUB(now, unit), unit)
            /\ t[Place[unit]] >= DATE_SUB(now, unit)[Place[unit]]
<1> DEFINE u == DATE_SUB(now, unit)
           d == DayBefore(now)
<1>1. u \in Instants /\ ~LexEarlier(t, u) /\ ~LexEarlier(now, t)
  BY DateSubInstant, EarlierPlaces DEF InWindow
<1>2. d \in Instants /\ d[4] = now[4] /\ d[5] = now[5] /\ d[6] = now[6]
  BY DayBeforeInstant
<1>3. DateNotAfter(t, now)
  BY <1>1, InstantFields DEF LexEarlier, DateNotAfter
<1>4. CASE unit = "hour"
  <2>1. Place[unit] = 5
    BY <1>4 DEF Place
  <2>2. u = IF now[4] > 0 THEN [now EXCEPT ![4] = @ - 1] ELSE [d EXCEPT ![4] = 23]
    BY <1>4 DEF DATE_SUB
  <2> HIDE DEF u, d
  <2>3. \/ /\ t[1] = now[1] /\ t[2] = now[2] /\ t[3] = now[3] /\ t[4] = now[4]
           /\ t[5] <= now[5]
        \/ /\ t[1] = u[1] /\ t[2] = u[2] /\ t[3] = u[3] /\ t[4] = u[4]
           /\ t[5] >= u[5]
    <3>1. CASE now[4] > 0
      <4>1. u[1] = now[1] /\ u[2] = now[2] /\ u[3] = now[3] /\ u[4] = now[4] - 1
        BY <2>2, <3>1 DEF Instants
      <4> QED
        BY <1>1, <4>1, InstantFields DEF LexEarlier
    <3>2. CASE now[4] = 0
      <4>1. u[1] = d[1] /\ u[2] = d[2] /\ u[3] = d[3] /\ u[4] = 23
        BY <1>2, <2>2, <3>2 DEF Instants
      <4>2. DateNotAfter(d, t)
        BY <1>1, <1>2, <4>1, InstantFields DEF LexEarlier, DateNotAfter
      <4>3. \/ t[1] = now[1] /\ t[2] = now[2] /\ t[3] = now[3]
            \/ t[1] = d[1] /\ t[2] = d[2] /\ t[3] = d[3]
        BY <1>3, <4>2, NoDayBetween DEF d
      <4> QED
        BY <1>1, <3>2, <4>1, <4>3, InstantFields DEF LexEarlier
    <3> QED
      BY <3>1, <3>2, InstantFields
  <2> QED
    BY <2>1, <2>3 DEF Alike, u
<1>5. CASE unit = "day"
  <2>1. Place[unit] = 4
    BY <1>5 DEF Place
  <2>2. u = d
    BY <1>5 DEF DATE_SUB
  <2> HIDE DEF u, d
  <2>3. DateNotAfter(d, t)
    BY <1>1, <2>2, InstantFields DEF LexEarlier, DateNotAfter
  <2>4. \/ t[1] = now[1] /\ t[2] = now[2] /\ t[3] = now[3]
        \/ t[1] = u[1] /\ t[2] = u[2] /\ t[3] = u[3]
    BY <1>3, <2>2, <2>3, NoDayBetween DEF d
  <2>5. \/ t[1] = now[1] /\ t[2] = now[2] /\ t[3] = now[3] /\ t[4] <= now[4]
        \/ t[1] = u[1] /\ t[2] = u[2] /\ t[3] = u[3] /\ t[4] >= u[4]
    BY <1>1, <2>4, InstantFields DEF LexEarlier
  <2> QED
    BY <2>1, <2>5 DEF Alike, u
<1>6. CASE unit = "month"
  <2> DEFINE m == MonthBefore(now)
  <2>1. Place[unit] = 3
    BY <1>6 DEF Place
  <2>2. u[1] = m[1] /\ u[2] = m[2]
    BY <1>6, MonthBeforePlaces DEF DATE_SUB, Clamp
  <2> HIDE DEF u, m
  <2>3. MonthNotAfter(m, t) /\ MonthNotAfter(t, now)
    BY <1>1, <2>2, InstantFields DEF LexEarlier, MonthNotAfter
  <2>4. \/ t[1] = now[1] /\ t[2] = now[2]
        \/ t[1] = u[1] /\ t[2] = u[2]
    BY <2>2, <2>3, NoMonthBetween DEF m
  <2>5. \/ t[1] = now[1] /\ t[2] = now[2] /\ t[3] <= now[3]
        \/ t[1] = u[1] /\ t[2] = u[2] /\ t[3] >= u[3]
    BY <1>1, <2>4, InstantFields DEF LexEarlier
  <2> QED
    BY <2>1, <2>5 DEF Alike, u
<1>7. CASE unit = "year"
  <2>1. Place[unit] = 2
    BY <1>7 DEF Place
  <2>2. u[1] = now[1] - 1
    BY <1>7, InstantFields DEF DATE_SUB, Clamp, Instants
  <2> HIDE DEF u
  <2>3. \/ t[1] = now[1] /\ t[2] <= now[2]
        \/ t[1] = u[1] /\ t[2] >= u[2]
    BY <1>1, <2>2, InstantFields DEF LexEarlier
  <2> QED
    BY <2>1, <2>3 DEF Alike, u
<1> QED
  BY <1>4, <1>5, <1>6, <1>7 DEF Types

\* The window begins in the place now has, or in the last day of a month too
\* short to have it.
LEMMA WindowBegins ==
  ASSUME now \in Instants, NEW unit \in Types
  PROVE  LET u == DATE_SUB(now, unit)
         IN \/ DATE_FORMAT(u, unit) = DATE_FORMAT(now, unit)
            \/ unit = "month" /\ u[3] = DaysIn(u[1], u[2])
<1>1. CASE unit = "hour"
  BY <1>1, DayBeforeInstant DEF DATE_SUB, DATE_FORMAT, Place, Instants
<1>2. CASE unit = "day"
  BY <1>2, DayBeforeInstant DEF DATE_SUB, DATE_FORMAT, Place
<1>3. CASE unit = "month"
  <2> DEFINE m == MonthBefore(now)
  <2>1. m \in [1 .. 6 -> Int] /\ m[3] = now[3]
    BY MonthBeforePlaces
  <2> HIDE DEF m
  <2>2. \/ Clamp(m)[3] = now[3]
        \/ Clamp(m)[3] = DaysIn(Clamp(m)[1], Clamp(m)[2])
    BY <2>1 DEF Clamp
  <2>3. DATE_SUB(now, unit) = Clamp(m)
    BY <1>3 DEF DATE_SUB, m
  <2> QED
    BY <1>3, <2>2, <2>3 DEF DATE_FORMAT, Place
<1>4. CASE unit = "year"
  BY <1>4 DEF DATE_SUB, DATE_FORMAT, Place, Clamp, Instants
<1> QED
  BY <1>1, <1>2, <1>3, <1>4 DEF Types

\* Behind the place of the window's first period, a point is of one period.
LEMMA OnePeriod ==
  ASSUME NEW a \in Instants, NEW b \in Instants, now \in Instants, NEW unit \in Types,
         InWindow(a, unit), InWindow(b, unit),
         DATE_FORMAT(a, unit) = DATE_FORMAT(b, unit),
         DATE_FORMAT(a, unit) # DATE_FORMAT(DATE_SUB(now, unit), unit)
  PROVE  Period(a, unit) = Period(b, unit)
<1> DEFINE u == DATE_SUB(now, unit)
           P == Place[unit]
<1>1. u \in Instants /\ P \in 2 .. 5
  BY DateSubInstant, PeriodPlaces
<1>2. a[P] = b[P] /\ a[P] # u[P] /\ a[P] \in Int /\ u[P] \in Int /\ now[P] \in Int
  BY <1>1 DEF DATE_FORMAT, Instants
<1>3. /\ (Alike(a, now, unit) /\ a[P] <= now[P]) \/ (Alike(a, u, unit) /\ a[P] >= u[P])
      /\ (Alike(b, now, unit) /\ b[P] <= now[P]) \/ (Alike(b, u, unit) /\ b[P] >= u[P])
  BY WindowHasTwoHalves
<1>4. \/ u[P] = now[P]
      \/ unit = "month" /\ u[3] = DaysIn(u[1], u[2])
  BY WindowBegins DEF DATE_FORMAT
<1> HIDE DEF u
<1>5. ASSUME unit = "month", u[3] = DaysIn(u[1], u[2]),
             NEW c \in Instants, c[P] = a[P]
      PROVE  ~(Alike(c, u, unit) /\ c[P] >= u[P])
  <2>1. P = 3
    BY <1>5 DEF Place
  <2> SUFFICES ASSUME Alike(c, u, unit), c[P] >= u[P]
               PROVE  FALSE
    OBVIOUS
  <2>2. c[1] = u[1] /\ c[2] = u[2]
    BY <2>1 DEF Alike
  <2>3. c[3] <= DaysIn(u[1], u[2])
    BY <2>2, InstantFields
  <2> QED
    BY <1>2, <1>5, <2>1, <2>3, InstantFields
<1>6. CASE u[P] = now[P]
  <2>1. \/ Alike(a, now, unit) /\ Alike(b, now, unit)
        \/ Alike(a, u, unit) /\ Alike(b, u, unit)
    BY <1>2, <1>3, <1>6
  <2>2. Alike(a, b, unit)
    BY <2>1 DEF Alike
  <2> QED
    BY <2>2, SamePeriod
<1>7. CASE unit = "month" /\ u[3] = DaysIn(u[1], u[2])
  <2>1. Alike(a, now, unit) /\ Alike(b, now, unit)
    BY <1>2, <1>3, <1>5, <1>7
  <2>2. Alike(a, b, unit)
    BY <2>1 DEF Alike
  <2> QED
    BY <2>2, SamePeriod
<1> QED
  BY <1>4, <1>6, <1>7

\* A point is of two periods at most: the one in now's half of the window and
\* the one in the other.
PeriodWith(t, ctx, unit) ==
  [i \in 1 .. Place[unit] |-> IF i = Place[unit] THEN ctx ELSE t[i]]

LEMMA TwoPeriods ==
  ASSUME NEW a \in Instants, now \in Instants, NEW unit \in Types, InWindow(a, unit)
  PROVE  Period(a, unit) \in {PeriodWith(now, DATE_FORMAT(a, unit), unit),
                              PeriodWith(DATE_SUB(now, unit), DATE_FORMAT(a, unit), unit)}
<1>1. Place[unit] \in 2 .. 5 /\ Period(a, unit) = [i \in 1 .. Place[unit] |-> a[i]]
  BY PeriodPlaces
<1>2. Alike(a, now, unit) \/ Alike(a, DATE_SUB(now, unit), unit)
  BY WindowHasTwoHalves
<1>3. ASSUME NEW t, Alike(a, t, unit)
      PROVE  Period(a, unit) = PeriodWith(t, DATE_FORMAT(a, unit), unit)
  BY <1>1, <1>3 DEF Alike, PeriodWith, DATE_FORMAT
<1> QED
  BY <1>2, <1>3

\* Instants of two periods are in the order of their periods.
LEMMA PeriodsInOrder ==
  ASSUME NEW a \in Instants, NEW b \in Instants, NEW unit \in Types,
         Period(a, unit) # Period(b, unit)
  PROVE  Earlier(a, b) <=> Chronological(Period(a, unit), Period(b, unit))
<1> DEFINE P == Place[unit]
           m == Period(a, unit)
           n == Period(b, unit)
<1>1. P \in 2 .. 5
  BY PeriodPlaces
<1>2. m = [i \in 1 .. P |-> a[i]] /\ n = [i \in 1 .. P |-> b[i]]
  BY PeriodPlaces
<1>3. PICK k \in 1 .. P : a[k] # b[k]
  BY <1>2
<1> HIDE DEF m, n, P
<1>4. \A i \in 1 .. P : i \in 1 .. 6 /\ a[i] \in Int /\ b[i] \in Int
  BY <1>1 DEF Instants
<1>5. ASSUME Earlier(a, b)
      PROVE  Chronological(m, n)
  <2>1. PICK i \in 1 .. 6 : a[i] < b[i] /\ \A j \in 1 .. i - 1 : a[j] = b[j]
    BY <1>5 DEF Earlier
  <2>2. i \in 1 .. P
    BY <1>1, <1>3, <2>1
  <2>3. DOMAIN m = 1 .. P /\ m[i] = a[i] /\ n[i] = b[i]
    BY <1>2, <2>2
  <2>4. \A j \in 1 .. i - 1 : m[j] = n[j]
    BY <1>1, <1>2, <2>1, <2>2
  <2> QED
    BY <2>1, <2>2, <2>3, <2>4 DEF Chronological
<1>6. ASSUME Chronological(m, n)
      PROVE  Earlier(a, b)
  <2>1. DOMAIN m = 1 .. P
    BY <1>2
  <2>2. PICK i \in 1 .. P : m[i] < n[i] /\ \A j \in 1 .. i - 1 : m[j] = n[j]
    BY <1>6, <2>1 DEF Chronological
  <2>3. a[i] < b[i]
    BY <1>2, <2>2
  <2>4. ASSUME NEW j \in 1 .. i - 1
        PROVE  a[j] = b[j]
    <3>1. j \in 1 .. P
      BY <1>1
    <3> QED
      BY <1>2, <2>2, <3>1
  <2> QED
    BY <1>4, <2>3, <2>4 DEF Earlier
<1> QED
  BY <1>5, <1>6 DEF m, n

-----------------------------------------------------------------------------
(* The invariant *)

\* Now and the dates of the rows are instants, there are finitely many rows,
\* and none is of the future.
HistoryInv ==
  /\ type \in Types
  /\ climate \in Int
  /\ now \in Instants
  /\ rows \subseteq [at : Instants, t : Int]
  /\ IsFiniteSet(rows)
  /\ \A r \in rows : ~Earlier(now, r.at)

LEMMA InitHistory == Init => HistoryInv
BY SpansAssumption, ClimatesAssumption, FS_EmptySet DEF Init, HistoryInv

LEMMA StepHistory == HistoryInv /\ [Next]_vars => HistoryInv'
<1> SUFFICES ASSUME HistoryInv, [Next]_vars
             PROVE  HistoryInv'
  OBVIOUS
<1>1. CASE Save
  <2>1. type' = type /\ climate' = climate
    BY <1>1 DEF Save
  <2>2. now' \in Instants /\ Earlier(now, now')
    BY <1>1, AfterInstant DEF Save, HistoryInv
  <2>3. Temperature(now') \in Int
    <3>1. /\ now'[2] \in Int /\ now'[3] \in Int /\ now'[4] \in Int /\ now'[5] \in Int
          /\ climate \in Int
      BY <2>2, InstantFields DEF HistoryInv
    <3> QED
      BY <3>1 DEF Temperature
  <2> DEFINE kept == {r \in rows : ~Earlier(r.at, DATE_SUB(DATE_SUB(now', type), type))}
             new == [at |-> now', t |-> Temperature(now')]
  <2>4. rows' = kept \cup {new}
    BY <1>1 DEF Save
  <2>5. kept \subseteq rows /\ new \in [at : Instants, t : Int] /\ new.at = now'
    BY <2>2, <2>3
  <2> HIDE DEF kept, new
  <2>6. IsFiniteSet(rows')
    BY <2>4, <2>5, FS_Subset, FS_AddElement DEF HistoryInv
  <2>7. ASSUME NEW r \in rows'
        PROVE  ~Earlier(now', r.at)
    <3>1. CASE r = new
      BY <2>2, <2>5, <3>1, EarlierRank, InstantFields
    <3>2. CASE r \in rows
      <4>1. r.at \in Instants /\ ~Earlier(now, r.at)
        BY <3>2 DEF HistoryInv
      <4> QED
        BY <2>2, <4>1, EarlierRank, InstantFields DEF HistoryInv
    <3> QED
      BY <2>4, <2>5, <3>1, <3>2
  <2> QED
    BY <2>1, <2>2, <2>4, <2>5, <2>6, <2>7 DEF HistoryInv
<1>2. CASE End \/ UNCHANGED vars
  BY <1>2 DEF End, vars, HistoryInv
<1> QED
  BY <1>1, <1>2 DEF Next

\* Whatever the clock has gone through, month ends and leap days included, the
\* table holds finitely many rows, each with a date that exists and is not in
\* the future (BeforeCreate dates them).
THEOREM RowsAreDated == Spec => []HistoryInv
<1>1. HistoryInv /\ [Next]_vars => HistoryInv'
  BY StepHistory
<1> QED
  BY <1>1, InitHistory, PTL DEF Spec

-----------------------------------------------------------------------------
(* What is drawn *)

\* The rows of one point.
LEMMA PointRows ==
  ASSUME HistoryInv, NEW ctx \in DOMAIN Points(_search2(rows))
  PROVE  LET p == Points(_search2(rows))
         IN /\ p[ctx] # {} /\ IsFiniteSet(p[ctx]) /\ p[ctx] \subseteq rows
            /\ \A r \in p[ctx] : /\ r.at \in Instants /\ r.t \in Int
                                 /\ InWindow(r.at, type)
                                 /\ DATE_FORMAT(r.at, type) = ctx
<1> DEFINE p == Points(_search2(rows))
<1>1. DOMAIN p = {DATE_FORMAT(r.at, type) : r \in _search2(rows)}
  BY DEF Points
<1>2. p[ctx] = {r \in _search2(rows) : DATE_FORMAT(r.at, type) = ctx}
  BY <1>1 DEF Points
<1>3. _search2(rows) \subseteq rows
  BY DEF _search2
<1>4. p[ctx] \subseteq rows /\ IsFiniteSet(p[ctx])
  BY <1>2, <1>3, FS_Subset DEF HistoryInv
<1>5. \A r \in _search2(rows) : InWindow(r.at, type)
  BY <1>3 DEF _search2, InWindow, HistoryInv
<1>6. p[ctx] # {}
  BY <1>1, <1>2
<1> QED
  BY <1>2, <1>4, <1>5, <1>6 DEF HistoryInv

\* The points are finitely many.
LEMMA PointsFinite ==
  ASSUME HistoryInv
  PROVE  IsFiniteSet(DOMAIN Points(_search2(rows)))
<1> DEFINE s == _search2(rows)
           f == [r \in s |-> DATE_FORMAT(r.at, type)]
           D == {DATE_FORMAT(r.at, type) : r \in s}
<1>1. IsFiniteSet(s)
  BY FS_Subset DEF _search2, HistoryInv
<1>2. f \in Surjection(s, D)
  BY DEF Surjection
<1> HIDE DEF f
<1>3. IsFiniteSet(D)
  BY <1>1, <1>2, FS_Surjection
<1> QED
  BY <1>3 DEF Points

LEMMA AverageIsInt ==
  ASSUME NEW rs, IsFiniteSet(rs), rs # {}, \A r \in rs : r.t \in Int
  PROVE  Average(rs) \in Int
<1>1. Total(rs) \in Int
  BY TotalIsInt
<1>2. Cardinality(rs) \in Nat \ {0}
  BY OneLess
<1> DEFINE sum == Total(rs)
           n == Cardinality(rs)
           magnitude == (2 * (IF sum < 0 THEN -sum ELSE sum) + n) \div (2 * n)
<1>3. Average(rs) = IF sum < 0 THEN -magnitude ELSE magnitude
  BY DEF Average, Total
<1> HIDE DEF sum, n
<1>4. magnitude \in Int
  <2> DEFINE x == 2 * (IF sum < 0 THEN -sum ELSE sum) + n
             y == 2 * n
  <2>1. x \in Int /\ y \in Nat \ {0}
    BY <1>1, <1>2 DEF sum, n
  <2> HIDE DEF x, y
  <2>2. x \div y \in Int
    BY <2>1
  <2> QED
    BY <2>2 DEF x, y
<1> HIDE DEF magnitude
<1> QED
  BY <1>3, <1>4

\* Averages between the least and the greatest, which exist.
LEMMA Extremes ==
  ASSUME HistoryInv, NEW row, NEW ctx \in DOMAIN Points(_search2(rows))
  PROVE  LET p == Points(_search2(rows))
         IN /\ Average(p[ctx]) \in Int
            /\ Highest(p, row) \in Int /\ Average(p[ctx]) <= Highest(p, row)
            /\ Lowest(p, row) \in Int /\ Lowest(p, row) <= Average(p[ctx])
<1> DEFINE p == Points(_search2(rows))
           D == DOMAIN p
           f == [c \in D |-> Average(p[c])]
           A == {Average(p[c]) : c \in D}
<1>1. \A c \in D : Average(p[c]) \in Int
  BY PointRows, AverageIsInt
<1>2. IsFiniteSet(D) /\ D # {}
  BY PointsFinite
<1> HIDE DEF p
<1>3. \A c \in D : f[c] \in Int /\ f[c] = Average(p[c])
  BY <1>1
<1> HIDE DEF D, f
<1>4. PICK h \in D : \A c \in D : f[c] <= f[h]
  BY <1>2, <1>3, GreatestOf
<1>5. PICK l \in D : \A c \in D : f[l] <= f[c]
  BY <1>2, <1>3, LeastOf
<1>6. f[h] \in A /\ \A x \in A : f[h] >= x
  BY <1>3, <1>4
<1>7. f[l] \in A /\ \A x \in A : f[l] =< x
  BY <1>3, <1>5
<1>8. Highest(p, row) = Max(A) /\ Lowest(p, row) = Min(A)
  BY DEF Highest, Lowest, D
<1>9. Average(p[ctx]) \in A /\ A \subseteq Int
  BY <1>3 DEF D, p
<1> HIDE DEF A
<1>10. Max(A) \in A /\ \A x \in A : Max(A) >= x
  BY <1>6 DEF Max
<1>11. Min(A) \in A /\ \A x \in A : Min(A) =< x
  BY <1>7 DEF Min
<1>12. /\ Average(p[ctx]) \in Int
       /\ Highest(p, row) \in Int /\ Average(p[ctx]) <= Highest(p, row)
       /\ Lowest(p, row) \in Int /\ Lowest(p, row) <= Average(p[ctx])
  BY <1>8, <1>9, <1>10, <1>11
<1> QED
  BY <1>12 DEF p

\* The greater axis value is above, the smaller one of no negative value below.
LEMMA AxisAbove ==
  ASSUME NEW v \in Int
  PROVE  v <= 10 * AxisMax(v)
BY DEF AxisMax, Remainder, ParseInt

LEMMA AxisBelow ==
  ASSUME NEW v \in Nat
  PROVE  10 * AxisMin(v) <= v
BY DEF AxisMin, Remainder, ParseInt

\* The axes the page computes from the greatest and least value reach around
\* every point of the chart, as far as none is negative.
THEOREM ChartReachesItsPoints == Spec => []AxesReachPoints
<1>1. ASSUME HistoryInv
      PROVE  AxesReachPoints
  <2> DEFINE p == Points(_search2(rows))
  <2> SUFFICES ASSUME NEW row \in Picks(p), NEW ctx \in DOMAIN p
               PROVE  /\ Average(p[ctx]) <= 10 * AxisMax(Highest(p, row))
                      /\ Lowest(p, row) >= 0 =>
                           Average(p[ctx]) >= 10 * AxisMin(Lowest(p, row))
    BY DEF AxesReachPoints
  <2>1. /\ Average(p[ctx]) \in Int
        /\ Highest(p, row) \in Int /\ Average(p[ctx]) <= Highest(p, row)
        /\ Lowest(p, row) \in Int /\ Lowest(p, row) <= Average(p[ctx])
    BY <1>1, Extremes
  <2>2. \A v \in Int : AxisMax(v) \in Int /\ AxisMin(v) \in Int
    BY DEF AxisMax, AxisMin, Remainder, ParseInt
  <2> HIDE DEF p
  <2>3. Highest(p, row) <= 10 * AxisMax(Highest(p, row))
    BY <2>1, AxisAbove
  <2>4. Lowest(p, row) >= 0 => 10 * AxisMin(Lowest(p, row)) <= Lowest(p, row)
    BY <2>1, AxisBelow
  <2> QED
    BY <2>1, <2>2, <2>3, <2>4
<1> QED
  BY <1>1, RowsAreDated, PTL

\* The row that Picks has of a point is one of its rows.
LEMMA PickedRow ==
  ASSUME HistoryInv, NEW row \in Picks(Points(_search2(rows))),
         NEW ctx \in DOMAIN Points(_search2(rows))
  PROVE  row[ctx] \in Points(_search2(rows))[ctx]
<1> DEFINE p == Points(_search2(rows))
           P == p[ctx]
           f == [r \in P |-> Rank(r.at)]
           Ends(first, r) == \A q \in P : IF first THEN ~Earlier(q.at, r.at)
                                                   ELSE ~Earlier(r.at, q.at)
<1>1. P # {} /\ IsFiniteSet(P) /\ \A r \in P : r.at \in Instants
  BY PointRows
<1>2. PICK first \in BOOLEAN : row[ctx] = CHOOSE r \in P : Ends(first, r)
  BY DEF Picks
<1> HIDE DEF P
<1>3. \A r \in P : f[r] = Rank(r.at) /\ f[r] \in Int
  BY <1>1, InstantFields
<1> HIDE DEF f
<1>4. \E r \in P : Ends(first, r)
  <2>1. CASE first
    <3>1. PICK r \in P : \A q \in P : f[r] <= f[q]
      BY <1>1, <1>3, LeastOf
    <3>2. Ends(first, r)
      BY <1>1, <1>3, <2>1, <3>1, EarlierRank
    <3> QED
      BY <3>2
  <2>2. CASE ~first
    <3>1. PICK r \in P : \A q \in P : f[q] <= f[r]
      BY <1>1, <1>3, GreatestOf
    <3>2. Ends(first, r)
      BY <1>1, <1>3, <2>2, <3>1, EarlierRank
    <3> QED
      BY <3>2
  <2> QED
    BY <2>1, <2>2
<1> HIDE DEF Ends
<1>5. row[ctx] \in P
  BY <1>2, <1>4
<1> QED
  BY <1>5 DEF P

\* An answer to any of the four queries is the last hour, day, month or year:
\* behind the point the window begins with, each point is one period, the
\* points are in the order of time and no period with a row is missing; the
\* first point is of two periods at most.
THEOREM AnswersAreHistory == Spec => []AnswerIsHistory
<1> DEFINE p == Points(_search2(rows))
           start == DATE_FORMAT(DATE_SUB(now, type), type)
           whole == DOMAIN p \ {start}
           last == {r \in rows : ~Earlier(r.at, DATE_SUB(now, type))}
<1>1. ASSUME HistoryInv, NEW ctx \in whole, NEW r \in p[ctx]
      PROVE  Of(p[ctx]) = {Period(r.at, type)}
  <2>1. \A q \in p[ctx] : Period(q.at, type) = Period(r.at, type)
    <3> SUFFICES ASSUME NEW q \in p[ctx]
                 PROVE  Period(q.at, type) = Period(r.at, type)
      OBVIOUS
    <3>1. /\ q.at \in Instants /\ InWindow(q.at, type) /\ DATE_FORMAT(q.at, type) = ctx
          /\ r.at \in Instants /\ InWindow(r.at, type) /\ DATE_FORMAT(r.at, type) = ctx
      BY <1>1, PointRows
    <3>2. now \in Instants /\ type \in Types
      BY <1>1 DEF HistoryInv
    <3> QED
      BY <1>1, <3>1, <3>2, OnePeriod
  <2> HIDE DEF p
  <2> QED
    BY <1>1, <2>1 DEF Of
<1>2. ASSUME HistoryInv, NEW ctx \in whole
      PROVE  Cardinality(Of(p[ctx])) = 1
  <2>1. PICK r \in p[ctx] : TRUE
    BY <1>2, PointRows
  <2>2. Of(p[ctx]) = {Period(r.at, type)}
    BY <1>1, <1>2
  <2> QED
    BY <2>2, FS_Singleton
<1>3. ASSUME HistoryInv, NEW ctx \in DOMAIN p \ whole
      PROVE  Cardinality(Of(p[ctx])) <= 2
  <2> DEFINE m == PeriodWith(now, ctx, type)
             n == PeriodWith(DATE_SUB(now, type), ctx, type)
  <2>1. \A r \in p[ctx] : Period(r.at, type) \in {m, n}
    <3> SUFFICES ASSUME NEW r \in p[ctx]
                 PROVE  Period(r.at, type) \in {m, n}
      OBVIOUS
    <3>1. r.at \in Instants /\ InWindow(r.at, type) /\ DATE_FORMAT(r.at, type) = ctx
      BY <1>3, PointRows
    <3> QED
      BY <1>3, <3>1, TwoPeriods DEF HistoryInv
  <2> HIDE DEF p, m, n
  <2>2. Of(p[ctx]) \subseteq {m, n}
    BY <2>1 DEF Of
  <2>3. IsFiniteSet({m, n}) /\ Cardinality({m, n}) <= 2
    <3>1. IsFiniteSet({m}) /\ Cardinality({m}) = 1 /\ {m} \cup {n} = {m, n}
      BY FS_Singleton
    <3> QED
      BY <3>1, FS_AddElement
  <2>4. Cardinality(Of(p[ctx])) <= Cardinality({m, n})
    BY <2>2, <2>3, FS_Subset
  <2>5. IsFiniteSet(Of(p[ctx]))
    BY <2>2, <2>3, FS_Subset
  <2> QED
    BY <2>3, <2>4, <2>5, FS_CardinalityType
<1>4. UNION {Of(p[ctx]) : ctx \in DOMAIN p} = Of(last)
  <2>1. \A ctx \in DOMAIN p : p[ctx] = {r \in last : DATE_FORMAT(r.at, type) = ctx}
    BY DEF Points, _search2
  <2>2. \A r \in last : DATE_FORMAT(r.at, type) \in DOMAIN p
    BY DEF Points, _search2
  <2> HIDE DEF p, last
  <2>3. \A r \in last : \E ctx \in DOMAIN p : r \in p[ctx]
    BY <2>1, <2>2
  <2>4. \A ctx \in DOMAIN p : p[ctx] \subseteq last
    BY <2>1
  <2> QED
    BY <2>3, <2>4 DEF Of
<1>5. ASSUME HistoryInv, NEW row \in Picks(p), NEW a \in whole, NEW b \in whole
      PROVE  Ordered(p, a, b, row) <=>
               a = b \/ \E m \in Of(p[a]), n \in Of(p[b]) : Chronological(m, n)
  <2> DEFINE x == row[a]
             y == row[b]
  <2>1. x \in p[a] /\ y \in p[b]
    BY <1>5, PickedRow
  <2>2. Of(p[a]) = {Period(x.at, type)} /\ Of(p[b]) = {Period(y.at, type)}
    BY <1>1, <1>5, <2>1
  <2>3. /\ x.at \in Instants /\ DATE_FORMAT(x.at, type) = a
        /\ y.at \in Instants /\ DATE_FORMAT(y.at, type) = b
    BY <1>5, <2>1, PointRows
  <2>4. a # b => Period(x.at, type) # Period(y.at, type)
    BY <1>5, <2>3, SamePeriod DEF HistoryInv
  <2>5. a # b => (Earlier(x.at, y.at) <=>
                    Chronological(Period(x.at, type), Period(y.at, type)))
    BY <1>5, <2>3, <2>4, PeriodsInOrder DEF HistoryInv
  <2>6. Ordered(p, a, b, row) <=> a = b \/ Earlier(x.at, y.at)
    BY DEF Ordered
  <2> HIDE DEF p, x, y
  <2> QED
    BY <2>2, <2>5, <2>6
<1>6. ASSUME HistoryInv
      PROVE  AnswerIsHistory
  <2>1. AnswerIsHistory <=>
          /\ \A ctx \in whole : Cardinality(Of(p[ctx])) = 1
          /\ \A ctx \in DOMAIN p \ whole : Cardinality(Of(p[ctx])) <= 2
          /\ UNION {Of(p[ctx]) : ctx \in DOMAIN p} = Of(last)
          /\ \A row \in Picks(p), a, b \in whole :
               Ordered(p, a, b, row) <=>
                 a = b \/ \E m \in Of(p[a]), n \in Of(p[b]) : Chronological(m, n)
    BY DEF AnswerIsHistory
  <2> HIDE DEF p, whole, last
  <2> QED
    BY <1>2, <1>3, <1>4, <1>5, <1>6, <2>1
<1> QED
  BY <1>6, RowsAreDated, PTL
=============================================================================

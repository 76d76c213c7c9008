--------------------------- MODULE RpSizes_proofs ---------------------------
(***************************************************************************)
(* The block the program holds has room for what it asked for, is aligned  *)
(* as promised and is found again by free, for all size classes, span and  *)
(* page sizes the library accepts.                                         *)
(***************************************************************************)
EXTENDS RpSizes, TLAPS, WellFoundedInduction, FiniteSetTheorems

---------------------------------------------------------------------------
(* Arithmetic *)

\* A set of numbers has a least one
LEMMA LeastNumber ==
  ASSUME NEW S \in SUBSET Nat, S # {}
  PROVE  \E n \in S : \A m \in S : n <= m
<1>. DEFINE R == OpToRel(<, Nat)
<1>1. IsWellFoundedOn(R, Nat)
  BY NatLessThanWellFounded
<1>2. \A x, y \in Nat : x < y => <<x, y>> \in R
  BY DEF OpToRel
<1>. HIDE DEF R
<1>3. PICK n \in S : \A y \in S : <<y, n>> \notin R
  BY <1>1, WFMin
<1>4. \A m \in S : ~(m < n)
  BY <1>2, <1>3
<1>. QED BY <1>4

LEMMA Division ==
  ASSUME NEW n \in Nat, NEW u \in Nat \ {0}
  PROVE  /\ n \div u \in Nat /\ n % u \in 0..(u - 1)
         /\ n = u * (n \div u) + (n % u)
         /\ u * (n \div u) <= n /\ n < u * (n \div u) + u
OBVIOUS

LEMMA Multiple ==
  ASSUME NEW k \in Nat, NEW u \in Nat \ {0}
  PROVE  (u * k) % u = 0 /\ (u * k) \div u = k
OBVIOUS

LEMMA Product ==
  ASSUME NEW a \in Nat, NEW b \in Nat
  PROVE  a * b \in Nat /\ a * b = b * a /\ (a # 0 /\ b # 0 => a * b # 0)
OBVIOUS

LEMMA ProductGrows ==
  ASSUME NEW u \in Nat, NEW a \in Nat, NEW b \in Nat, a <= b
  PROVE  u * a <= u * b
OBVIOUS

\* As many whole units as fit below n
LEMMA UnitsBelow ==
  ASSUME NEW n \in Nat, NEW u \in Nat \ {0}, NEW k \in Nat
  PROVE  u * k <= n <=> k <= n \div u
<1>1. n \div u \in Nat /\ u * (n \div u) <= n /\ n < u * (n \div u) + u
  BY Division
<1>2. ASSUME k <= n \div u PROVE u * k <= n
  BY <1>1, <1>2, ProductGrows
<1>3. ASSUME k > n \div u PROVE u * k > n
  <2>1. u * (n \div u + 1) <= u * k
    BY <1>1, <1>3, ProductGrows
  <2>2. u * (n \div u + 1) = u * (n \div u) + u
    BY <1>1
  <2>. QED BY <1>1, <2>1, <2>2
<1>. QED BY <1>1, <1>2, <1>3

\* Rounding up reaches the next multiple
LEMMA Rounded ==
  ASSUME NEW n \in Nat, NEW u \in Nat \ {0}
  PROVE  /\ RoundUp(n, u) \in Nat /\ RoundUp(n, u) % u = 0
         /\ n <= RoundUp(n, u) /\ RoundUp(n, u) < n + u
         /\ RoundUp(n, u) \div u \in Nat
         /\ u * (RoundUp(n, u) \div u) = RoundUp(n, u)
         /\ n % u = 0 => RoundUp(n, u) = n
<1>. DEFINE k == (n + u - 1) \div u
<1>1. n + u - 1 \in Nat
  OBVIOUS
<1>2. k \in Nat /\ u * k <= n + u - 1 /\ n + u - 1 < u * k + u
  BY <1>1, Division
<1>3. RoundUp(n, u) = u * k
  BY DEF RoundUp
<1>. HIDE DEF k
<1>4. u * k \in Nat
  BY <1>2, Product
<1>5. (u * k) % u = 0 /\ (u * k) \div u = k
  BY <1>2, Multiple
<1>6. ASSUME n % u = 0 PROVE u * k = n
  <2>1. n \div u \in Nat /\ n = u * (n \div u)
    BY <1>6, Division
  <2>2. ~(k > n \div u)
    <3>. SUFFICES ASSUME k > n \div u PROVE FALSE
      OBVIOUS
    <3>1. u * (n \div u + 1) <= u * k /\ u * (n \div u + 1) = u * (n \div u) + u
      BY <1>2, <2>1, ProductGrows
    <3>. QED BY <1>2, <1>4, <2>1, <3>1
  <2>3. ~(k < n \div u)
    <3>. SUFFICES ASSUME k < n \div u PROVE FALSE
      OBVIOUS
    <3>1. u * (k + 1) <= u * (n \div u) /\ u * (k + 1) = u * k + u
      BY <1>2, <2>1, ProductGrows
    <3>. QED BY <1>2, <1>4, <2>1, <3>1
  <2>. QED BY <1>2, <2>1, <2>2, <2>3
<1>. QED BY <1>2, <1>3, <1>4, <1>5, <1>6

\* Divisibility
Divides(u, n) == n % u = 0

LEMMA DividesProduct ==
  ASSUME NEW u \in Nat \ {0}, NEW n \in Nat
  PROVE  Divides(u, n) <=> \E k \in Nat : n = u * k
<1>1. ASSUME Divides(u, n) PROVE \E k \in Nat : n = u * k
  <2>1. n \div u \in Nat /\ n = u * (n \div u)
    BY <1>1, Division DEF Divides
  <2>. QED BY <2>1
<1>2. ASSUME NEW k \in Nat, n = u * k PROVE Divides(u, n)
  BY <1>2, Multiple DEF Divides
<1>. QED BY <1>1, <1>2

LEMMA DividesSum ==
  ASSUME NEW u \in Nat \ {0}, NEW m \in Nat, NEW n \in Nat, Divides(u, m), Divides(u, n)
  PROVE  Divides(u, m + n)
<1>1. PICK k \in Nat : m = u * k
  BY DividesProduct
<1>2. PICK l \in Nat : n = u * l
  BY DividesProduct
<1>3. m + n = u * (k + l) /\ k + l \in Nat /\ m + n \in Nat
  BY <1>1, <1>2
<1>. QED BY <1>3, DividesProduct

LEMMA DividesMultiple ==
  ASSUME NEW u \in Nat \ {0}, NEW n \in Nat, NEW k \in Nat, Divides(u, n)
  PROVE  Divides(u, k * n)
<1>1. PICK l \in Nat : n = u * l
  BY DividesProduct
<1>2. k * n = u * (k * l) /\ k * l \in Nat /\ k * n \in Nat
  BY <1>1
<1>. QED BY <1>2, DividesProduct

LEMMA DividesThrough ==
  ASSUME NEW u \in Nat \ {0}, NEW v \in Nat \ {0}, NEW n \in Nat, Divides(u, v), Divides(v, n)
  PROVE  Divides(u, n)
<1>1. PICK k \in Nat : n = v * k
  BY DividesProduct
<1>2. k * v = n
  BY <1>1
<1>. QED BY <1>2, DividesMultiple

\* Of two that divide a number one way, the divisor is not larger
LEMMA DividesAtMost ==
  ASSUME NEW u \in Nat \ {0}, NEW n \in Nat \ {0}, Divides(u, n)
  PROVE  u <= n
<1>1. PICK k \in Nat : n = u * k
  BY DividesProduct
<1>2. k # 0
  BY <1>1
<1>3. u * 1 <= u * k
  BY <1>2, ProductGrows
<1>. QED BY <1>1, <1>3

\* Between two multiples there is room for one unit
LEMMA MultiplesApart ==
  ASSUME NEW u \in Nat \ {0}, NEW m \in Nat, NEW n \in Nat,
         Divides(u, m), Divides(u, n), m < n
  PROVE  m + u <= n
<1>1. PICK k \in Nat : m = u * k
  BY DividesProduct
<1>2. PICK l \in Nat : n = u * l
  BY DividesProduct
<1>3. ~(l <= k)
  BY <1>1, <1>2, ProductGrows
<1>4. u * (k + 1) <= u * l
  BY <1>3, ProductGrows
<1>. QED BY <1>1, <1>2, <1>4

\* Rounded up, a number stays below the multiples it was below
LEMMA RoundedBelow ==
  ASSUME NEW n \in Nat, NEW u \in Nat \ {0}, NEW m \in Nat, n <= m, Divides(u, m)
  PROVE  RoundUp(n, u) <= m
<1>1. RoundUp(n, u) \in Nat /\ Divides(u, RoundUp(n, u)) /\ RoundUp(n, u) < n + u
  BY Rounded DEF Divides
<1>2. ~(m < RoundUp(n, u))
  BY <1>1, MultiplesApart
<1>. QED BY <1>1, <1>2

---------------------------------------------------------------------------
(* Parameters *)

Room == SpanSize - HeaderSize

LEMMA Params ==
  /\ SpanSize \in Nat \ {0} /\ PageSize \in Nat \ {0} /\ HeaderSize \in Nat \ {0}
  /\ SmallGranularity \in Nat \ {0} /\ SmallClasses \in Nat \ {0}
  /\ MediumGranularity \in Nat \ {0} /\ MediumClasses \in Nat \ {0}
  /\ LargeClasses \in Nat \ {0}
  /\ SmallLimit \in Nat
  /\ Divides(SmallGranularity, HeaderSize) /\ Divides(HeaderSize, SmallLimit)
  /\ Divides(HeaderSize, MediumGranularity)
  /\ \A a \in Alignments : a \in Nat \ {0} /\ a < SpanSize /\ Divides(a, SpanSize)
  /\ \A a, b \in Alignments \cup {HeaderSize, PageSize, SmallGranularity} :
       Divides(a, b) \/ Divides(b, a)
  /\ \A size \in Sizes : size \in Nat
<1>1. SmallClasses - 1 \in Nat
  BY SizesParams
<1>2. SmallLimit \in Nat
  BY <1>1, SizesParams, Product DEF SmallLimit
<1>. QED BY <1>2, SizesParams DEF Divides

\* A span has room for two of the first medium block, besides its header
LEMMA SpanRoom ==
  /\ Room \in Nat /\ HeaderSize < SpanSize
  /\ 2 * (SmallLimit + MediumGranularity) <= Room
  /\ \A n \in Nat : n <= Room \div 2 <=> 2 * n <= Room
<1>1. Room \in Int
  BY Params DEF Room
<1>2. SmallLimit + MediumGranularity <= Room \div 2
  BY SizesParams DEF Room
<1>3. SmallLimit + MediumGranularity \in Nat \ {0}
  BY Params
<1>4. Room \in Nat \ {0}
  BY <1>1, <1>2, <1>3
<1>5. \A n \in Nat : n <= Room \div 2 <=> 2 * n <= Room
  BY <1>4
<1>. QED BY <1>2, <1>3, <1>4, <1>5, Params DEF Room

---------------------------------------------------------------------------
(* Size classes *)

Classes == 0..(SmallClasses + MediumClasses - 1)

LEMMA SmallSizes ==
  ASSUME NEW i \in 0..(SmallClasses - 1)
  PROVE  /\ ClassSize(i) = IF i = 0 THEN SmallGranularity ELSE i * SmallGranularity
         /\ ClassSize(i) \in Nat \ {0} /\ Divides(SmallGranularity, ClassSize(i))
         /\ i # 0 => ClassSize(i) <= SmallLimit
<1>0. i < SmallClasses /\ i \in Nat /\ SmallGranularity \in Nat \ {0} /\ SmallClasses - 1 \in Nat
  BY Params
<1>1. ClassSize(i) = IF i = 0 THEN SmallGranularity ELSE i * SmallGranularity
  BY <1>0 DEF ClassSize
<1>2. i * SmallGranularity \in Nat /\ (i # 0 => i * SmallGranularity # 0)
  BY <1>0, Product
<1>3. Divides(SmallGranularity, SmallGranularity)
  BY <1>0 DEF Divides
<1>4. Divides(SmallGranularity, i * SmallGranularity)
  BY <1>0, <1>3, DividesMultiple
<1>5. i # 0 => SmallGranularity * i <= SmallGranularity * (SmallClasses - 1)
  BY <1>0, ProductGrows
<1>6. i * SmallGranularity = SmallGranularity * i
  BY <1>0
<1>. QED BY <1>0, <1>1, <1>2, <1>3, <1>4, <1>5, <1>6 DEF SmallLimit

LEMMA MediumSizes ==
  ASSUME NEW i \in SmallClasses..(SmallClasses + MediumClasses - 1)
  PROVE  /\ ClassSize(i) = SmallLimit + (i - SmallClasses + 1) * MediumGranularity
         /\ ClassSize(i) \in Nat \ {0} /\ Divides(HeaderSize, ClassSize(i))
         /\ Divides(SmallGranularity, ClassSize(i))
         /\ ClassSize(i) >= SmallLimit + MediumGranularity
<1>. USE Params
<1>. DEFINE j == i - SmallClasses + 1
<1>1. ClassSize(i) = SmallLimit + j * MediumGranularity
  BY DEF ClassSize
<1>2. j \in Nat \ {0}
  OBVIOUS
<1>. HIDE DEF j
<1>3. j * MediumGranularity \in Nat /\ j * MediumGranularity # 0
  BY <1>2, Product
<1>4. Divides(HeaderSize, j * MediumGranularity)
  BY <1>2, DividesMultiple
<1>5. Divides(HeaderSize, SmallLimit + j * MediumGranularity)
  BY <1>3, <1>4, DividesSum
<1>6. MediumGranularity * 1 <= MediumGranularity * j /\ MediumGranularity * j = j * MediumGranularity
  BY <1>2, ProductGrows
<1>7. SmallLimit + j * MediumGranularity \in Nat \ {0}
  BY <1>3
<1>8. Divides(SmallGranularity, SmallLimit + j * MediumGranularity)
  BY <1>5, <1>7, DividesThrough
<1>. QED BY <1>1, <1>3, <1>5, <1>6, <1>7, <1>8 DEF j

LEMMA ClassSizes ==
  ASSUME NEW i \in Classes
  PROVE  ClassSize(i) \in Nat \ {0} /\ Divides(SmallGranularity, ClassSize(i))
<1>1. i < SmallClasses => i \in 0..(SmallClasses - 1)
  BY Params DEF Classes
<1>2. i >= SmallClasses => i \in SmallClasses..(SmallClasses + MediumClasses - 1)
  BY Params DEF Classes
<1>. QED BY <1>1, <1>2, SmallSizes, MediumSizes, Params DEF Classes

\* Classes grow
LEMMA ClassesGrow ==
  ASSUME NEW i \in Classes, NEW j \in Classes, i <= j
  PROVE  ClassSize(i) <= ClassSize(j)
<1>. USE Params DEF Classes
<1>1. CASE j < SmallClasses
  <2>1. i \in 0..(SmallClasses - 1) /\ j \in 0..(SmallClasses - 1)
    BY <1>1
  <2>2. SmallGranularity * i <= SmallGranularity * j
    BY <2>1, ProductGrows
  <2>3. j # 0 => SmallGranularity * 1 <= SmallGranularity * j
    BY <2>1, ProductGrows
  <2>. QED BY <2>1, <2>2, <2>3, SmallSizes
<1>2. CASE i < SmallClasses /\ j >= SmallClasses
  <2>1. i \in 0..(SmallClasses - 1) /\ j \in SmallClasses..(SmallClasses + MediumClasses - 1)
    BY <1>2
  <2>2. SmallGranularity <= HeaderSize /\ HeaderSize <= MediumGranularity
    BY DividesAtMost
  <2>3. ClassSize(i) <= SmallLimit \/ ClassSize(i) = SmallGranularity
    BY <2>1, SmallSizes
  <2>4. ClassSize(j) >= SmallLimit + MediumGranularity /\ ClassSize(j) \in Nat
    BY <2>1, MediumSizes
  <2>5. ClassSize(i) \in Nat
    BY <2>1, SmallSizes
  <2>. QED BY <2>2, <2>3, <2>4, <2>5
<1>3. CASE i >= SmallClasses
  <2>1. i \in SmallClasses..(SmallClasses + MediumClasses - 1)
        /\ j \in SmallClasses..(SmallClasses + MediumClasses - 1)
    BY <1>3
  <2>2. MediumGranularity * (i - SmallClasses + 1) <= MediumGranularity * (j - SmallClasses + 1)
    BY <2>1, ProductGrows
  <2>3. ClassSize(i) = SmallLimit + (i - SmallClasses + 1) * MediumGranularity
        /\ ClassSize(j) = SmallLimit + (j - SmallClasses + 1) * MediumGranularity
    BY <2>1, MediumSizes
  <2>. QED BY <2>1, <2>2, <2>3
<1>. QED BY <1>1, <1>2, <1>3

\* The classes that are set up are the first ones, the small ones and at least
\* one more, and two blocks of each fit a span
LEMMA ClassesUsed ==
  /\ ClassCount \in Nat /\ ClassCount > SmallClasses
  /\ Class = 0..(ClassCount - 1) /\ Class \subseteq Classes
  /\ \A i \in Class : 2 * ClassSize(i) <= Room
<1>. USE Params
<1>. DEFINE Unused == {n \in Nat : n \notin Class}
<1>1. \A i \in Classes : i \in Class <=> i < SmallClasses \/ ClassSize(i) <= Room \div 2
  BY DEF Class, Classes, Room
<1>2. Class \subseteq Classes /\ SmallClasses \in Classes
  BY DEF Class, Classes
<1>3. ClassSize(SmallClasses) = SmallLimit + MediumGranularity
  <2>1. SmallClasses \in SmallClasses..(SmallClasses + MediumClasses - 1)
    OBVIOUS
  <2>2. SmallClasses - SmallClasses + 1 = 1 /\ 1 * MediumGranularity = MediumGranularity
    OBVIOUS
  <2>. QED BY <2>1, <2>2, MediumSizes
<1>4. SmallClasses \in Class
  BY <1>1, <1>2, <1>3, SpanRoom
<1>5. ASSUME NEW i \in Class PROVE 2 * ClassSize(i) <= Room
  <2>1. i \in Classes /\ ClassSize(i) \in Nat
    BY <1>2, ClassSizes
  <2>2. CASE i < SmallClasses
    <3>1. i <= SmallClasses
      BY <2>1, <2>2 DEF Classes
    <3>2. ClassSize(i) <= ClassSize(SmallClasses)
      BY <1>2, <2>1, <3>1, ClassesGrow
    <3>3. ClassSize(i) <= SmallLimit + MediumGranularity
      BY <1>3, <3>2
    <3>. QED BY <2>1, <3>3, SpanRoom
  <2>3. CASE ~(i < SmallClasses)
    BY <1>1, <2>1, <2>3, SpanRoom
  <2>. QED BY <2>2, <2>3
<1>6. ASSUME NEW i \in Class, NEW j \in Nat, j <= i PROVE j \in Class
  <2>1. i \in Classes /\ j \in Classes
    BY <1>2, <1>6 DEF Classes
  <2>2. ClassSize(j) <= ClassSize(i) /\ ClassSize(j) \in Nat /\ ClassSize(i) \in Nat
    BY <1>6, <2>1, ClassesGrow, ClassSizes
  <2>3. 2 * ClassSize(j) <= Room
    BY <1>5, <2>2, SpanRoom
  <2>. QED BY <1>1, <2>1, <2>2, <2>3, SpanRoom
<1>7. PICK n \in Unused : \A m \in Unused : n <= m
  <2>1. SmallClasses + MediumClasses \in Unused
    BY <1>2 DEF Classes
  <2>2. Unused \in SUBSET Nat
    OBVIOUS
  <2>. HIDE DEF Unused
  <2>. QED BY <2>1, <2>2, LeastNumber
<1>8. n \in Nat /\ n \notin Class /\ \A m \in 0..(n - 1) : m \in Class
  BY <1>7
<1>9. Class = 0..(n - 1)
  <2>1. \A i \in Class : i \in Nat /\ i < n
    BY <1>2, <1>6, <1>8 DEF Classes
  <2>2. \A i : i \in Class <=> i \in 0..(n - 1)
    BY <1>8, <2>1
  <2>. QED BY <2>2
<1>10. n > SmallClasses
  BY <1>4, <1>9
<1>11. Cardinality(0..(n - 1)) = n
  BY <1>8, <1>10, FS_Interval
<1>. QED BY <1>2, <1>5, <1>8, <1>9, <1>10, <1>11 DEF ClassCount

\* The larger the class, the fewer of its blocks in a span
LEMMA BlocksToSpan ==
  ASSUME NEW i \in Class
  PROVE  /\ BlockCount(i) \in Nat /\ BlockCount(i) >= 2
         /\ ClassSize(i) * BlockCount(i) <= Room
         /\ \A j \in Class : i <= j => BlockCount(j) <= BlockCount(i)
<1>1. \A j \in Class : /\ j \in Classes /\ ClassSize(j) \in Nat \ {0} /\ 2 * ClassSize(j) <= Room
                       /\ BlockCount(j) = Room \div ClassSize(j)
  BY ClassesUsed, ClassSizes DEF BlockCount, Room
<1>2. Room \in Nat
  BY SpanRoom
<1>3. \A j \in Class : BlockCount(j) \in Nat /\ ClassSize(j) * BlockCount(j) <= Room
  BY <1>1, <1>2, Division
<1>4. BlockCount(i) >= 2
  <2>1. ClassSize(i) * 2 <= Room
    BY <1>1
  <2>. QED BY <1>1, <1>2, <2>1, UnitsBelow
<1>5. ASSUME NEW j \in Class, i <= j PROVE BlockCount(j) <= BlockCount(i)
  <2>1. ClassSize(i) <= ClassSize(j)
    BY <1>1, <1>5, ClassesGrow
  <2>2. BlockCount(j) * ClassSize(i) <= BlockCount(j) * ClassSize(j)
    BY <1>1, <1>3, <2>1, ProductGrows
  <2>3. /\ BlockCount(j) * ClassSize(i) = ClassSize(i) * BlockCount(j)
        /\ BlockCount(j) * ClassSize(j) = ClassSize(j) * BlockCount(j)
    BY <1>1, <1>3, Product
  <2>4. ClassSize(i) * BlockCount(j) <= Room
    <3>1. ClassSize(i) * BlockCount(j) \in Nat /\ ClassSize(j) * BlockCount(j) \in Nat
      BY <1>1, <1>3, Product
    <3>. QED BY <1>2, <1>3, <2>2, <2>3, <3>1
  <2>. QED BY <1>1, <1>2, <1>3, <2>4, UnitsBelow
<1>. QED BY <1>3, <1>4, <1>5

---------------------------------------------------------------------------
(* Merging *)

\* The table while classes are set up is as its definition says: there is a
\* function that satisfies the recursive equation
LEMMA TablesExist ==
  Adjusted = [n \in 0..ClassCount |->
                IF n = 0 THEN [k \in Class |-> 0] ELSE AdjustSizeClass(Adjusted[n - 1], n - 1)]
<1>. DEFINE First == [k \in Class |-> 0]
            Step(f, n) == IF n = 0 THEN First ELSE AdjustSizeClass(f[n - 1], n - 1)
            Exists(m) == \E f : f = [n \in 0..m |-> Step(f, n)]
            Undefined == {m \in Nat : ~Exists(m)}
<1>1. ASSUME NEW m \in Undefined, \A l \in Undefined : m <= l PROVE FALSE
  <2>1. CASE m = 0
    <3>. DEFINE f == [n \in 0..m |-> First]
    <3>1. f = [n \in 0..m |-> Step(f, n)]
      BY <2>1
    <3>. HIDE DEF f
    <3>2. Exists(m)
      BY <3>1
    <3>. QED BY <3>2
  <2>2. CASE m # 0
    <3>1. m - 1 \in Nat /\ Exists(m - 1)
      <4>. HIDE DEF Exists
      <4>. QED BY <1>1, <2>2
    <3>2. PICK f : f = [n \in 0..(m - 1) |-> Step(f, n)]
      BY <3>1
    <3>. DEFINE g == [n \in 0..m |-> IF n = m THEN AdjustSizeClass(f[m - 1], m - 1) ELSE f[n]]
    <3>3. ASSUME NEW n \in 0..m PROVE g[n] = Step(g, n)
      <4>1. CASE n = m
        <5>1. g[n - 1] = f[m - 1]
          BY <2>2, <4>1
        <5>. QED BY <2>2, <4>1, <5>1
      <4>2. CASE n # m
        <5>1. n \in 0..(m - 1)
          BY <4>2
        <5>2. f[n] = Step(f, n)
          BY <3>2, <5>1
        <5>3. n # 0 => g[n - 1] = f[n - 1]
          BY <5>1
        <5>. QED BY <4>2, <5>1, <5>2, <5>3
      <4>. QED BY <4>1, <4>2
    <3>4. Exists(m)
      <4>1. g = [n \in 0..m |-> Step(g, n)]
        BY <3>3
      <4>. QED BY <4>1
    <3>. QED BY <3>4
  <2>. QED BY <2>1, <2>2
<1>2. Undefined = {}
  <2>1. Undefined \in SUBSET Nat
    OBVIOUS
  <2>. HIDE DEF Undefined
  <2>. QED BY <1>1, <2>1, LeastNumber
<1>3. ClassCount \in Nat
  BY ClassesUsed
<1>4. Exists(ClassCount)
  <2>. HIDE DEF Exists
  <2>. QED BY <1>2, <1>3
<1>5. Adjusted = CHOOSE f : f = [n \in 0..ClassCount |-> Step(f, n)]
  BY DEF Adjusted
<1>. QED BY <1>4, <1>5

\* In table T of the first n classes each class k has the record of a class
\* with as many blocks, the largest such one if any is a medium class
Merged(T, n) ==
  /\ T \in [Class -> Class]
  /\ \A k \in Class : k < n =>
       /\ T[k] \in k..(n - 1) /\ BlockCount(T[k]) = BlockCount(k)
       /\ T[k] # k => T[k] >= SmallClasses
       /\ \A i \in SmallClasses..(n - 1) :
            k <= i /\ BlockCount(i) = BlockCount(k) => i <= T[k]

\* Setting up class n leaves such a table.  Only adjacent classes are compared,
\* but between two with as many blocks there are no others
LEMMA MergedStep ==
  ASSUME NEW T, NEW n \in Class, Merged(T, n)
  PROVE  Merged(AdjustSizeClass(T, n), n + 1)
<1>. DEFINE U == AdjustSizeClass(T, n)
<1>1. n \in Nat /\ Class = 0..(ClassCount - 1) /\ ClassCount \in Nat /\ SmallClasses \in Nat
  BY ClassesUsed, Params
<1>2. T \in [Class -> Class] /\ \A k \in Class : T[k] \in Class
  BY DEF Merged
<1>3. \A k \in Class : U[k] = IF k = n THEN n
                              ELSE IF /\ n >= SmallClasses /\ k < n
                                      /\ \A l \in k..(n - 1) : BlockCount(T[l]) = BlockCount(n)
                              THEN n ELSE T[k]
  BY DEF AdjustSizeClass
<1>4. U \in [Class -> Class]
  BY <1>2 DEF AdjustSizeClass
<1>5. \A k \in Class : k < n => BlockCount(T[k]) = BlockCount(k)
  BY DEF Merged
<1>6. \A k \in Class : BlockCount(k) \in Nat /\ \A j \in Class : k <= j => BlockCount(j) <= BlockCount(k)
  BY BlocksToSpan
<1>7. ASSUME NEW k \in Class, k < n
      PROVE  (\A l \in k..(n - 1) : BlockCount(T[l]) = BlockCount(n)) <=> BlockCount(k) = BlockCount(n)
  <2>1. \A l \in k..(n - 1) : l \in Class /\ l < n /\ k <= l /\ l <= n
    BY <1>1, <1>7
  <2>2. k \in k..(n - 1)
    BY <1>1, <1>7
  <2>3. \A l \in k..(n - 1) : BlockCount(l) <= BlockCount(k) /\ BlockCount(n) <= BlockCount(l)
    BY <1>6, <2>1
  <2>4. \A l \in k..(n - 1) : BlockCount(T[l]) = BlockCount(l)
    BY <1>5, <2>1
  <2>5. \A l \in k..(n - 1) : BlockCount(l) \in Nat
    BY <1>6, <2>1
  <2>. QED BY <1>6, <2>2, <2>3, <2>4, <2>5
<1>. HIDE DEF U
<1>8. ASSUME NEW k \in Class, k < n + 1
      PROVE  /\ U[k] \in k..((n + 1) - 1) /\ BlockCount(U[k]) = BlockCount(k)
             /\ U[k] # k => U[k] >= SmallClasses
             /\ \A i \in SmallClasses..((n + 1) - 1) :
                  k <= i /\ BlockCount(i) = BlockCount(k) => i <= U[k]
  <2>1. CASE k = n
    BY <1>1, <1>3, <2>1
  <2>2. CASE k < n /\ n >= SmallClasses /\ BlockCount(k) = BlockCount(n)
    <3>1. U[k] = n
      BY <1>3, <1>7, <2>2
    <3>. QED BY <1>1, <2>2, <3>1
  <2>3. CASE k < n /\ ~(n >= SmallClasses /\ BlockCount(k) = BlockCount(n))
    <3>1. U[k] = T[k]
      BY <1>1, <1>3, <1>7, <2>3
    <3>2. /\ T[k] \in k..(n - 1) /\ BlockCount(T[k]) = BlockCount(k)
          /\ T[k] # k => T[k] >= SmallClasses
          /\ \A i \in SmallClasses..(n - 1) :
               k <= i /\ BlockCount(i) = BlockCount(k) => i <= T[k]
      BY <2>3 DEF Merged
    <3>. QED BY <1>1, <2>3, <3>1, <3>2
  <2>. QED BY <1>1, <1>8, <2>1, <2>2, <2>3
<1>. QED BY <1>4, <1>8 DEF Merged, U

\* The table of all classes
LEMMA SizeClassMerged == Merged(SizeClass, ClassCount)
<1>. DEFINE Wrong == {n \in Nat : n <= ClassCount /\ ~Merged(Adjusted[n], n)}
<1>1. ClassCount \in Nat /\ ClassCount > SmallClasses /\ Class = 0..(ClassCount - 1)
      /\ SmallClasses \in Nat
  BY ClassesUsed, Params
<1>2. ASSUME NEW n \in Wrong, \A m \in Wrong : n <= m PROVE FALSE
  <2>1. CASE n = 0
    <3>1. Adjusted[n] = [k \in Class |-> 0]
      BY <1>1, <2>1, TablesExist
    <3>2. 0 \in Class /\ \A k \in Class : ~(k < 0)
      BY <1>1
    <3>. QED BY <2>1, <3>1, <3>2 DEF Merged
  <2>2. CASE n # 0
    <3>1. n - 1 \in Nat /\ n - 1 \notin Wrong /\ n - 1 \in Class /\ n \in 0..ClassCount
      BY <1>1, <1>2, <2>2
    <3>2. Merged(Adjusted[n - 1], n - 1)
      BY <1>1, <3>1
    <3>3. Adjusted[n] = AdjustSizeClass(Adjusted[n - 1], n - 1)
      BY <2>2, <3>1, TablesExist
    <3>4. (n - 1) + 1 = n
      BY <3>1
    <3>. QED BY <3>1, <3>2, <3>3, <3>4, MergedStep
  <2>. QED BY <2>1, <2>2
<1>3. Wrong = {}
  <2>1. Wrong \in SUBSET Nat
    OBVIOUS
  <2>. HIDE DEF Wrong
  <2>. QED BY <1>2, <2>1, LeastNumber
<1>. QED BY <1>1, <1>3 DEF SizeClass

---------------------------------------------------------------------------
(* Blocks of a size class *)

\* Of the classes with as many blocks to a span, the medium one with the
\* largest; small classes keep their size
LargestOfItsCount(unit) ==
  unit > SmallLimit =>
    /\ Room \div unit >= 2
    /\ \A i \in Class : BlockCount(i) = Room \div unit => ClassSize(i) <= unit

LEMMA ClassRecord ==
  ASSUME NEW k \in Class
  PROVE  /\ SizeClass[k] \in Class /\ k <= SizeClass[k]
         /\ SizeClass[k] = k \/ SizeClass[k] >= SmallClasses
         /\ ClassSize(k) <= ClassSize(SizeClass[k])
         /\ LargestOfItsCount(ClassSize(SizeClass[k]))
<1>. DEFINE c == SizeClass[k]
<1>1. /\ Class = 0..(ClassCount - 1) /\ ClassCount \in Nat /\ Class \subseteq Classes
      /\ SmallClasses \in Nat \ {0} /\ ClassCount > SmallClasses
  BY ClassesUsed, Params
<1>2. /\ c \in k..(ClassCount - 1) /\ BlockCount(c) = BlockCount(k)
      /\ c # k => c >= SmallClasses
      /\ \A i \in SmallClasses..(ClassCount - 1) :
           k <= i /\ BlockCount(i) = BlockCount(k) => i <= c
  BY <1>1, SizeClassMerged DEF Merged
<1>. HIDE DEF c
<1>3. c \in Class /\ k <= c /\ k \in Nat /\ c \in Nat
  BY <1>1, <1>2
<1>4. ClassSize(k) <= ClassSize(c) /\ ClassSize(c) \in Nat \ {0}
  BY <1>1, <1>3, ClassesGrow, ClassSizes
<1>5. BlockCount(c) = Room \div ClassSize(c) /\ BlockCount(c) >= 2
  BY <1>3, BlocksToSpan DEF BlockCount, Room
<1>6. ASSUME ClassSize(c) > SmallLimit, NEW i \in Class, BlockCount(i) = BlockCount(c)
      PROVE  ClassSize(i) <= ClassSize(c)
  <2>1. CASE i <= c
    BY <1>1, <1>3, <2>1, ClassesGrow
  <2>2. CASE i > c /\ i >= SmallClasses
    <3>1. i \in SmallClasses..(ClassCount - 1) /\ k <= i
      BY <1>1, <1>3, <2>2
    <3>. QED BY <1>1, <1>2, <1>3, <1>6, <2>2, <3>1
  <2>3. CASE i > c /\ i < SmallClasses
    <3>1. c \in 0..(SmallClasses - 1) /\ i # 0 /\ i \in 0..(SmallClasses - 1)
      BY <1>1, <1>3, <2>3
    <3>2. ClassSize(c) <= ClassSize(i) /\ ClassSize(i) <= SmallLimit
      BY <1>1, <1>3, <2>3, <3>1, ClassesGrow, SmallSizes
    <3>3. ClassSize(i) \in Nat /\ SmallLimit \in Nat
      BY <1>1, ClassSizes, Params
    <3>. QED BY <1>4, <1>6, <3>2, <3>3
  <2>. QED BY <1>1, <1>3, <2>1, <2>2, <2>3
<1>7. LargestOfItsCount(ClassSize(c))
  BY <1>5, <1>6 DEF LargestOfItsCount
<1>. QED BY <1>2, <1>3, <1>4, <1>7 DEF c

\* The class of a small size has the next multiple of the granularity
LEMMA SmallClassServes ==
  ASSUME NEW size \in Nat, size <= SmallLimit
  PROVE  /\ ClassOf(size) \in 0..(SmallClasses - 1)
         /\ size <= ClassSize(ClassOf(size))
         /\ size # 0 /\ Divides(SmallGranularity, size) => ClassSize(ClassOf(size)) = size
<1>. DEFINE k == ClassOf(size)
<1>1. SmallGranularity \in Nat \ {0} /\ SmallClasses - 1 \in Nat /\ SmallLimit \in Nat
  BY Params
<1>2. k = RoundUp(size, SmallGranularity) \div SmallGranularity
  <2>1. ClassOf(size) = SmallClass(size)
    BY DEF ClassOf
  <2>2. SmallClass(size) \in Nat
    <3>1. size + SmallGranularity - 1 \in Nat
      BY <1>1
    <3>. QED BY <1>1, <3>1, Division DEF SmallClass
  <2>3. RoundUp(size, SmallGranularity) = SmallGranularity * SmallClass(size)
    BY DEF RoundUp, SmallClass
  <2>. QED BY <1>1, <2>1, <2>2, <2>3, Multiple
<1>. HIDE DEF k
<1>3. /\ k \in Nat /\ SmallGranularity * k = RoundUp(size, SmallGranularity)
      /\ size <= SmallGranularity * k
      /\ Divides(SmallGranularity, size) => SmallGranularity * k = size
  BY <1>1, <1>2, Rounded DEF Divides
<1>4. k <= SmallClasses - 1
  <2>1. Divides(SmallGranularity, SmallLimit)
    BY <1>1, DividesProduct DEF SmallLimit
  <2>2. RoundUp(size, SmallGranularity) <= SmallLimit
    BY <1>1, <2>1, RoundedBelow
  <2>3. SmallGranularity * k <= SmallLimit
    BY <1>3, <2>2
  <2>4. SmallLimit \div SmallGranularity = SmallClasses - 1
    BY <1>1, Multiple DEF SmallLimit
  <2>. QED BY <1>1, <1>3, <2>3, <2>4, UnitsBelow
<1>5. k \in 0..(SmallClasses - 1)
  BY <1>1, <1>3, <1>4
<1>6. ClassSize(k) = (IF k = 0 THEN SmallGranularity ELSE k * SmallGranularity)
      /\ SmallGranularity * k = k * SmallGranularity
  BY <1>1, <1>3, <1>5, SmallSizes
<1>7. size <= ClassSize(k) /\ (size # 0 /\ Divides(SmallGranularity, size) => ClassSize(k) = size)
  BY <1>1, <1>3, <1>6
<1>. QED BY <1>5, <1>7 DEF k

\* The class of a medium size, before classes are merged and after
LEMMA MediumClassServes ==
  ASSUME NEW size \in Nat, size > SmallLimit, size <= MediumLimit
  PROVE  /\ ClassOf(size) \in Class /\ ClassOf(size) >= SmallClasses
         /\ size <= ClassSize(ClassOf(size))
<1>. DEFINE j == (size - (SmallLimit + 1)) \div MediumGranularity
            i == SmallClasses + j
<1>1. /\ MediumGranularity \in Nat \ {0} /\ SmallLimit \in Nat /\ SmallClasses \in Nat
      /\ ClassCount \in Nat /\ ClassCount > SmallClasses /\ Class = 0..(ClassCount - 1)
      /\ Class \subseteq Classes
  BY Params, ClassesUsed
<1>2. size - (SmallLimit + 1) \in Nat
  BY <1>1
<1>3. /\ j \in Nat /\ MediumGranularity * j <= size - (SmallLimit + 1)
      /\ size - (SmallLimit + 1) < MediumGranularity * j + MediumGranularity
  BY <1>1, <1>2, Division
<1>4. ClassOf(size) = SizeClass[i]
  BY <1>1 DEF ClassOf, MediumClass
<1>. HIDE DEF j
<1>5. i < ClassCount
  <2>. DEFINE n == ClassCount - SmallClasses
  <2>1. ClassCount - 1 \in SmallClasses..(SmallClasses + MediumClasses - 1) /\ n \in Nat
    BY <1>1 DEF Classes
  <2>2. MediumLimit = SmallLimit + n * MediumGranularity
    <3>1. MediumLimit = SmallLimit + ((ClassCount - 1) - SmallClasses + 1) * MediumGranularity
      BY <2>1, MediumSizes DEF MediumLimit
    <3>2. (ClassCount - 1) - SmallClasses + 1 = n
      BY <1>1
    <3>. QED BY <3>1, <3>2
  <2>. HIDE DEF n
  <2>3. n * MediumGranularity = MediumGranularity * n /\ MediumGranularity * n \in Nat
    BY <1>1, <2>1, Product
  <2>4. ~(n <= j)
    <3>1. n <= j => MediumGranularity * n <= MediumGranularity * j
      BY <1>1, <1>3, <2>1, ProductGrows
    <3>2. MediumGranularity * j \in Nat
      BY <1>1, <1>3, Product
    <3>. QED BY <1>1, <1>3, <2>2, <2>3, <3>1, <3>2
  <2>. QED BY <1>1, <1>3, <2>1, <2>4 DEF n
<1>6. i \in Class /\ i \in SmallClasses..(SmallClasses + MediumClasses - 1)
  BY <1>1, <1>3, <1>5 DEF Classes
<1>7. size <= ClassSize(i)
  <2>1. ClassSize(i) = SmallLimit + (i - SmallClasses + 1) * MediumGranularity
    BY <1>6, MediumSizes
  <2>2. i - SmallClasses + 1 = j + 1
    BY <1>1, <1>3
  <2>3. (j + 1) * MediumGranularity = MediumGranularity * j + MediumGranularity
    BY <1>1, <1>3
  <2>. QED BY <1>1, <1>3, <2>1, <2>2, <2>3
<1>. HIDE DEF i
<1>8. /\ SizeClass[i] \in Class /\ i <= SizeClass[i] /\ ClassSize(i) <= ClassSize(SizeClass[i])
      /\ ClassSize(i) \in Nat /\ ClassSize(SizeClass[i]) \in Nat
  BY <1>1, <1>6, ClassRecord, ClassSizes
<1>9. SizeClass[i] >= SmallClasses
  BY <1>1, <1>6, <1>8
<1>. QED BY <1>4, <1>7, <1>8, <1>9

LEMMA ClassServes ==
  ASSUME NEW size \in Nat, size <= MediumLimit
  PROVE  ClassOf(size) \in Class /\ size <= ClassSize(ClassOf(size))
<1>1. CASE size <= SmallLimit
  <2>1. ClassOf(size) \in 0..(SmallClasses - 1) /\ size <= ClassSize(ClassOf(size))
    BY <1>1, SmallClassServes
  <2>2. 0..(SmallClasses - 1) \subseteq Class
    BY ClassesUsed, Params
  <2>. QED BY <2>1, <2>2
<1>2. CASE ~(size <= SmallLimit)
  BY <1>2, MediumClassServes, Params
<1>. QED BY <1>1, <1>2

\* Where blocks of a class start, so do multiples of what divides header and
\* block; the classes of multiples of the header are such multiples
LEMMA HeaderMultiples ==
  ASSUME NEW size \in Nat \ {0}, size <= MediumLimit, Divides(HeaderSize, size)
  PROVE  Divides(HeaderSize, ClassSize(SizeClass[ClassOf(size)]))
<1>. DEFINE k == ClassOf(size)
            c == SizeClass[k]
<1>1. k \in Class
  BY ClassServes
<1>. HIDE DEF k
<1>2. c \in Class /\ (c = k \/ c >= SmallClasses)
  BY <1>1, ClassRecord
<1>. HIDE DEF c
<1>3. c \in Classes /\ c \in Nat /\ SmallClasses \in Nat
  BY <1>2, ClassesUsed, Params DEF Classes
<1>4. CASE c >= SmallClasses
  <2>1. c \in SmallClasses..(SmallClasses + MediumClasses - 1)
    BY <1>3, <1>4 DEF Classes
  <2>. QED BY <2>1, MediumSizes DEF c, k
<1>5. CASE c < SmallClasses
  <2>1. c = k
    BY <1>2, <1>3, <1>5
  <2>2. size <= SmallLimit
    <3>1. size > SmallLimit => k >= SmallClasses
      BY MediumClassServes DEF k
    <3>. QED BY <1>3, <1>5, <2>1, <3>1, Params
  <2>3. Divides(SmallGranularity, size)
    BY Params, DividesThrough
  <2>4. ClassSize(k) = size
    BY <2>2, <2>3, SmallClassServes DEF k
  <2>. QED BY <2>1, <2>4 DEF c, k
<1>. QED BY <1>3, <1>4, <1>5

---------------------------------------------------------------------------
(* Blocks that are handed out *)

\* The extent of a block is what its span's header says, and its pointer is
\* in it and in the first span
InSpan(b) ==
  /\ b \in BlockRec
  /\ b.start <= b.p /\ b.p <= b.end /\ b.p < SpanSize
  /\ Divides(SmallGranularity, b.start)
  /\ b.kind = "large" => b.start = HeaderSize /\ b.end = b.unit * SpanSize
  /\ b.kind = "huge" => b.start = HeaderSize /\ b.end = b.unit * PageSize
  /\ b.kind = "class" =>
       /\ b.unit # 0 /\ b.p < b.end /\ b.end = b.start + b.unit /\ b.end <= SpanSize
       /\ \E idx \in Nat : b.start = HeaderSize + idx * b.unit
       /\ ~b.flagged => b.p = b.start
       /\ LargestOfItsCount(b.unit)

\* A block as it is allocated
Fresh(b, size) == InSpan(b) /\ b.p = b.start /\ b.start + size <= b.end

\* What is computed from the pointer of a block is its extent
LEMMA FoundAgain ==
  ASSUME NEW b, InSpan(b)
  PROVE  /\ BlockStart(b) = b.start /\ BlockEnd(b) = b.end /\ FreedFrom(b) = b.start
         /\ UsableSize(b) = b.end - b.p /\ UsableSize(b) \in Nat
<1>. USE Params
<1>1. /\ b.kind \in {"class", "large", "huge"} /\ b.unit \in Nat /\ b.start \in Nat
      /\ b.end \in Nat /\ b.p \in Nat /\ b.flagged \in BOOLEAN
  BY DEF InSpan, BlockRec
<1>2. BlockStart(b) = b.start
  <2>1. CASE b.kind = "class"
    <3>1. PICK idx \in Nat : b.start = HeaderSize + idx * b.unit
      BY <2>1 DEF InSpan
    <3>. DEFINE d == b.p - HeaderSize
                k == d \div b.unit
    <3>2. b.unit \in Nat \ {0} /\ b.start <= b.p /\ b.p < b.start + b.unit
      BY <1>1, <2>1 DEF InSpan
    <3>3. idx * b.unit \in Nat /\ idx * b.unit = b.unit * idx
      BY <1>1, <3>1, Product
    <3>4. d \in Nat /\ b.unit * idx <= d /\ d < b.unit * idx + b.unit
      BY <1>1, <3>1, <3>2, <3>3
    <3>. HIDE DEF d
    <3>5. k \in Nat /\ b.unit * k <= d /\ d < b.unit * k + b.unit
      BY <3>2, <3>4, Division
    <3>6. idx <= k
      BY <3>2, <3>4, UnitsBelow
    <3>7. ~(idx < k)
      <4>1. b.unit * (idx + 1) = b.unit * idx + b.unit
        BY <3>1, <3>2
      <4>2. idx + 1 <= k => b.unit * (idx + 1) <= d
        BY <3>2, <3>4, UnitsBelow
      <4>. HIDE DEF k
      <4>. QED BY <3>1, <3>2, <3>3, <3>4, <3>5, <4>1, <4>2
    <3>8. k = idx
      BY <3>5, <3>6, <3>7
    <3>9. BlockStart(b) = HeaderSize + k * b.unit
      BY <2>1 DEF BlockStart, d
    <3>. QED BY <3>1, <3>8, <3>9
  <2>2. CASE b.kind # "class"
    BY <1>1, <2>2 DEF InSpan, BlockStart
  <2>. QED BY <2>1, <2>2
<1>3. BlockEnd(b) = b.end
  <2>1. CASE b.kind = "class"
    BY <1>2, <2>1 DEF InSpan, BlockEnd
  <2>2. CASE b.kind = "large"
    BY <2>2 DEF InSpan, BlockEnd
  <2>3. CASE b.kind = "huge"
    BY <2>3 DEF InSpan, BlockEnd
  <2>. QED BY <1>1, <2>1, <2>2, <2>3
<1>4. FreedFrom(b) = b.start
  BY <1>2 DEF FreedFrom, InSpan
<1>5. UsableSize(b) = b.end - b.p /\ b.p <= b.end
  BY <1>3 DEF UsableSize, InSpan
<1>. QED BY <1>1, <1>2, <1>3, <1>4, <1>5

LEMMA ClassBlocksFresh ==
  ASSUME NEW size \in Nat, size <= MediumLimit
  PROVE  /\ ClassBlocks(size) # {}
         /\ \A b \in ClassBlocks(size) :
              /\ Fresh(b, size) /\ b.kind = "class"
              /\ b.unit = ClassSize(SizeClass[ClassOf(size)])
<1>. DEFINE c == SizeClass[ClassOf(size)]
            u == ClassSize(c)
            n == BlockCount(c)
<1>1. /\ c \in Class /\ u \in Nat \ {0} /\ size <= u /\ LargestOfItsCount(u)
      /\ Divides(SmallGranularity, u)
  <2>1. ClassOf(size) \in Class /\ size <= ClassSize(ClassOf(size))
    BY ClassServes
  <2>2. /\ c \in Class /\ LargestOfItsCount(u) /\ ClassSize(ClassOf(size)) <= u
    BY <2>1, ClassRecord
  <2>3. ClassOf(size) \in Classes /\ c \in Classes
    BY <2>1, <2>2, ClassesUsed
  <2>4. u \in Nat \ {0} /\ Divides(SmallGranularity, u) /\ ClassSize(ClassOf(size)) \in Nat
    BY <2>3, ClassSizes
  <2>5. size <= u
    BY <2>1, <2>2, <2>4
  <2>. QED BY <2>2, <2>4, <2>5
<1>2. n \in Nat /\ n >= 2 /\ u * n <= Room
  BY <1>1, BlocksToSpan
<1>3. ClassBlocks(size) = {NewBlock("class", u, HeaderSize + idx * u, HeaderSize + (idx + 1) * u)
                             : idx \in {i \in 0..(n - 1) : i < Slots \/ i = n - 1}}
  BY DEF ClassBlocks
<1>4. \A idx \in {i \in 0..(n - 1) : i < Slots \/ i = n - 1} : idx \in Nat /\ idx < n
  BY <1>2
<1>5. n - 1 \in {i \in 0..(n - 1) : i < Slots \/ i = n - 1}
  BY <1>2
<1>u. u = ClassSize(SizeClass[ClassOf(size)])
  OBVIOUS
<1>. HIDE DEF u, n
<1>6. ASSUME NEW idx \in Nat, idx < n
      PROVE  Fresh(NewBlock("class", u, HeaderSize + idx * u, HeaderSize + (idx + 1) * u), size)
  <2>. DEFINE start == HeaderSize + idx * u
              b == NewBlock("class", u, start, HeaderSize + (idx + 1) * u)
  <2>0. HeaderSize \in Nat \ {0} /\ SpanSize \in Nat /\ SmallGranularity \in Nat \ {0} /\ Room \in Nat
        /\ Divides(SmallGranularity, HeaderSize)
    BY Params, SpanRoom
  <2>1. idx * u \in Nat /\ (idx + 1) * u = idx * u + u
    BY <1>1, <1>6
  <2>2. (idx + 1) * u <= Room
    <3>1. u * (idx + 1) <= u * n /\ u * (idx + 1) = (idx + 1) * u
      BY <1>1, <1>2, <1>6, ProductGrows
    <3>. QED BY <1>1, <1>2, <2>0, <2>1, <3>1
  <2>3. start \in Nat /\ HeaderSize + (idx + 1) * u = start + u /\ start + u <= SpanSize
    BY <1>1, <2>0, <2>1, <2>2 DEF Room
  <2>4. Divides(SmallGranularity, start)
    <3>1. Divides(SmallGranularity, idx * u)
      BY <1>1, <1>6, <2>0, DividesMultiple
    <3>. QED BY <2>0, <2>1, <3>1, DividesSum
  <2>5. b = [kind |-> "class", unit |-> u, start |-> start, end |-> start + u,
             p |-> start, flagged |-> FALSE]
    BY <2>3 DEF NewBlock
  <2>6. \E i \in Nat : start = HeaderSize + i * u
    BY <1>6
  <2>. HIDE DEF start, b
  <2>7. b \in BlockRec
    BY <1>1, <2>3, <2>5 DEF BlockRec
  <2>8. InSpan(b)
    BY <1>1, <2>0, <2>3, <2>4, <2>5, <2>6, <2>7 DEF InSpan
  <2>. QED BY <1>1, <2>3, <2>5, <2>8 DEF Fresh, b, start
<1>7. ClassBlocks(size) # {}
  BY <1>3, <1>5
<1>8. ASSUME NEW b \in ClassBlocks(size) PROVE Fresh(b, size) /\ b.kind = "class" /\ b.unit = u
  BY <1>3, <1>4, <1>6 DEF NewBlock
<1>. QED BY <1>7, <1>8, <1>u

LEMMA SpanBlockFresh ==
  ASSUME NEW size \in Nat, NEW m \in Nat, m >= SpansFor(size)
  PROVE  Fresh(NewBlock("large", m, HeaderSize, m * SpanSize), size)
<1>1. /\ HeaderSize \in Nat \ {0} /\ SpanSize \in Nat \ {0} /\ HeaderSize < SpanSize
      /\ Divides(SmallGranularity, HeaderSize)
  BY Params, SpanRoom
<1>2. /\ SpansFor(size) \in Nat /\ size + HeaderSize <= SpanSize * SpansFor(size)
      /\ SpanSize * SpansFor(size) \in Nat
  <2>1. size + HeaderSize \in Nat
    BY <1>1
  <2>. QED BY <1>1, <2>1, Rounded DEF SpansFor
<1>3. m * SpanSize \in Nat /\ size + HeaderSize <= m * SpanSize
  <2>1. SpanSize * SpansFor(size) <= SpanSize * m
    BY <1>1, <1>2, ProductGrows
  <2>2. SpanSize * m = m * SpanSize /\ m * SpanSize \in Nat
    BY <1>1, Product
  <2>. QED BY <1>1, <1>2, <2>1, <2>2
<1>. DEFINE b == NewBlock("large", m, HeaderSize, m * SpanSize)
<1>4. b = [kind |-> "large", unit |-> m, start |-> HeaderSize, end |-> m * SpanSize,
           p |-> HeaderSize, flagged |-> FALSE]
  BY DEF NewBlock
<1>. HIDE DEF b
<1>5. InSpan(b)
  BY <1>1, <1>3, <1>4 DEF InSpan, BlockRec
<1>. QED BY <1>1, <1>3, <1>4, <1>5 DEF Fresh, b

LEMMA HugeBlockFresh ==
  ASSUME NEW size \in Nat
  PROVE  Fresh(HugeBlock(PagesFor(size)), size)
<1>1. /\ HeaderSize \in Nat \ {0} /\ SpanSize \in Nat \ {0} /\ HeaderSize < SpanSize
      /\ PageSize \in Nat \ {0} /\ Divides(SmallGranularity, HeaderSize)
  BY Params, SpanRoom
<1>. DEFINE m == PagesFor(size)
<1>2. m \in Nat /\ size + HeaderSize <= m * PageSize /\ m * PageSize \in Nat
  <2>1. size + HeaderSize \in Nat
    BY <1>1
  <2>2. m \in Nat /\ size + HeaderSize <= PageSize * m
    BY <1>1, <2>1, Rounded DEF PagesFor
  <2>. QED BY <1>1, <2>2, Product
<1>. DEFINE b == HugeBlock(m)
<1>3. b = [kind |-> "huge", unit |-> m, start |-> HeaderSize, end |-> m * PageSize,
           p |-> HeaderSize, flagged |-> FALSE]
  BY DEF HugeBlock, NewBlock
<1>. HIDE DEF b, m
<1>4. InSpan(b)
  BY <1>1, <1>2, <1>3 DEF InSpan, BlockRec
<1>. QED BY <1>1, <1>2, <1>3, <1>4 DEF Fresh, b, m

\* _rpmalloc_allocate always has a block, and it has room for the size
LEMMA BlocksFresh ==
  ASSUME NEW size \in Nat
  PROVE  Blocks(size) # {} /\ \A b \in Blocks(size) : Fresh(b, size)
<1>1. CASE size <= MediumLimit
  <2>1. Blocks(size) = ClassBlocks(size)
    BY <1>1 DEF Blocks
  <2>. QED BY <1>1, <2>1, ClassBlocksFresh
<1>2. CASE ~(size <= MediumLimit) /\ size <= LargeLimit
  <2>. DEFINE n == SpansFor(size)
              top == Greatest(n, Least(LargeClasses, IF n > 2 THEN n + n \div 2 ELSE n))
  <2>1. Blocks(size) = {NewBlock("large", m, HeaderSize, m * SpanSize) : m \in n..top}
    BY <1>2 DEF Blocks, LargeBlocks
  <2>2. n \in Nat
    <3>1. size + HeaderSize \in Nat /\ SpanSize \in Nat \ {0}
      BY Params
    <3>. QED BY <3>1, Rounded DEF SpansFor
  <2>3. top \in Nat /\ n <= top
    <3>1. n \div 2 \in Nat
      BY <2>2
    <3>2. LargeClasses \in Nat
      BY Params
    <3>. HIDE DEF n
    <3>. QED BY <2>2, <3>1, <3>2 DEF Greatest, Least
  <2>4. \A m \in n..top : m \in Nat /\ m >= n
    BY <2>2, <2>3
  <2>5. n \in n..top
    BY <2>2, <2>3
  <2>. HIDE DEF top
  <2>. QED BY <2>1, <2>4, <2>5, SpanBlockFresh
<1>3. CASE ~(size <= MediumLimit) /\ ~(size <= LargeLimit)
  <2>1. Blocks(size) = {HugeBlock(PagesFor(size))}
    BY <1>3 DEF Blocks
  <2>. QED BY <2>1, HugeBlockFresh
<1>. QED BY <1>1, <1>2, <1>3

---------------------------------------------------------------------------
(* Aligned blocks *)

\* A block good for a size and an alignment
Good(b, align, size) == InSpan(b) /\ Divides(align, b.p) /\ b.p + size <= b.end

\* Of two alignments one divides the other; the smaller the larger
LEMMA SmallerDivides ==
  ASSUME NEW m \in Alignments \cup {HeaderSize, PageSize, SmallGranularity},
         NEW n \in Alignments \cup {HeaderSize, PageSize, SmallGranularity}, m <= n
  PROVE  m \in Nat \ {0} /\ n \in Nat \ {0} /\ Divides(m, n)
<1>1. m \in Nat \ {0} /\ n \in Nat \ {0}
  BY Params
<1>2. Divides(m, n) \/ Divides(n, m)
  BY Params
<1>3. ASSUME Divides(n, m) PROVE m = n
  BY <1>1, <1>3, DividesAtMost
<1>. QED BY <1>1, <1>2, <1>3

\* With room for the alignment there is an aligned pointer before the size
LEMMA AlignedPartGood ==
  ASSUME NEW size \in Nat, NEW align \in Alignments, NEW b, Fresh(b, size + align)
  PROVE  Good(AlignedPart(b, align), align, size)
<1>1. align \in Nat \ {0} /\ align < SpanSize /\ SpanSize \in Nat
  BY Params
<1>2. /\ b \in BlockRec /\ b.p \in Nat /\ b.start \in Nat /\ b.end \in Nat /\ b.unit \in Nat
      /\ b.kind \in {"class", "large", "huge"} /\ b.p = b.start /\ b.start + (size + align) <= b.end
      /\ InSpan(b)
  BY DEF Fresh, InSpan, BlockRec
<1>3. CASE b.p % align = 0
  <2>1. AlignedPart(b, align) = b
    BY <1>3 DEF AlignedPart
  <2>. QED BY <1>1, <1>2, <1>3, <2>1 DEF Good, Divides
<1>4. CASE b.p % align # 0
  <2>. DEFINE k == b.p \div align
              q == k * align + align
              c == AlignedPart(b, align)
  <2>1. k \in Nat /\ b.p = align * k + (b.p % align) /\ b.p % align \in 1..(align - 1)
    <3>1. k \in Nat /\ b.p = align * k + (b.p % align) /\ b.p % align \in 0..(align - 1)
      BY <1>1, <1>2, Division
    <3>. HIDE DEF k
    <3>. QED BY <1>1, <1>4, <3>1
  <2>2. c = [b EXCEPT !.p = q, !.flagged = TRUE]
    BY <1>4 DEF AlignedPart
  <2>. HIDE DEF k
  <2>3. q = align * k + align /\ q = align * (k + 1) /\ q \in Nat /\ align * k \in Nat
    BY <1>1, <2>1
  <2>4. Divides(align, q)
    <3>1. k + 1 \in Nat
      BY <2>1
    <3>. QED BY <1>1, <2>3, <3>1, DividesProduct
  <2>5. b.p < q /\ q < b.p + align
    BY <1>1, <1>2, <2>1, <2>3
  <2>6. q + size < b.end
    BY <1>1, <1>2, <2>3, <2>5
  <2>7. q < SpanSize
    <3>1. CASE b.kind = "class"
      <4>1. b.end <= SpanSize
        BY <1>2, <3>1 DEF InSpan
      <4>. QED BY <1>1, <1>2, <2>3, <2>6, <4>1
    <3>2. CASE b.kind # "class"
      <4>1. b.p = HeaderSize
        BY <1>2, <3>2 DEF InSpan
      <4>2. HeaderSize < align
        <5>1. align <= HeaderSize => Divides(align, HeaderSize)
          BY SmallerDivides
        <5>. QED BY <1>1, <1>4, <4>1, <5>1, Params DEF Divides
      <4>3. k = 0
        <5>1. k # 0 => align * 1 <= align * k
          BY <1>1, <2>1, ProductGrows
        <5>. QED BY <1>1, <1>2, <2>1, <2>3, <4>1, <4>2, <5>1
      <4>. QED BY <1>1, <2>3, <4>3
    <3>. QED BY <3>1, <3>2
  <2>. HIDE DEF q, c
  <2>8. /\ c \in BlockRec /\ c.p = q /\ c.flagged = TRUE /\ c.kind = b.kind /\ c.unit = b.unit
        /\ c.start = b.start /\ c.end = b.end
    BY <1>2, <2>2, <2>3 DEF BlockRec
  <2>9. InSpan(c)
    BY <1>2, <2>3, <2>5, <2>6, <2>7, <2>8 DEF InSpan
  <2>. QED BY <1>2, <2>3, <2>4, <2>6, <2>8, <2>9 DEF Good, c
<1>. QED BY <1>3, <1>4

\* A mapping that suits starts at a multiple of the span size
LEMMA SuitedAtSpan ==
  ASSUME NEW pages \in Nat, NEW base \in Bases(pages), NEW b, b.p \in Nat, NEW size,
         Suits(b, base, size)
  PROVE  base = 0
<1>1. SpanSize \in Nat \ {0} /\ PageSize \in Nat \ {0}
  BY Params
<1>. DEFINE k == b.p \div SpanSize
<1>2. k \in Nat
  BY <1>1, Division
<1>3. k * SpanSize = base
  BY DEF Suits
<1>. HIDE DEF k
<1>4. base \in 0..(SpanSize - 1)
  BY <1>1 DEF Bases
<1>5. k # 0 => SpanSize * 1 <= SpanSize * k
  BY <1>1, <1>2, ProductGrows
<1>. QED BY <1>1, <1>2, <1>3, <1>4, <1>5

LEMMA MappedExtent ==
  ASSUME NEW pages \in Nat, NEW base \in Nat, NEW align \in Nat \ {0}
  PROVE  /\ MappedAt(base, pages, align) \in BlockRec
         /\ MappedAt(base, pages, align).kind = "huge"
         /\ MappedAt(base, pages, align).unit = pages
         /\ MappedAt(base, pages, align).start = base + HeaderSize
         /\ MappedAt(base, pages, align).end = base + pages * PageSize
         /\ MappedAt(base, pages, align).p = RoundUp(base + HeaderSize, align)
<1>1. HeaderSize \in Nat /\ PageSize \in Nat
  BY Params
<1>2. pages * PageSize \in Nat /\ base + HeaderSize \in Nat
  BY <1>1, Product
<1>3. RoundUp(base + HeaderSize, align) \in Nat
  BY <1>2, Rounded
<1>. DEFINE ptr == RoundUp(base + HeaderSize, align)
            start == base + HeaderSize
            end == base + pages * PageSize
            fresh == NewBlock("huge", pages, start, end)
<1>4. start \in Nat /\ end \in Nat /\ ptr \in Nat
  BY <1>1, <1>2, <1>3
<1>5. MappedAt(base, pages, align) = [fresh EXCEPT !.p = ptr]
  BY DEF MappedAt
<1>. HIDE DEF ptr, start, end
<1>6. /\ fresh \in BlockRec /\ fresh.kind = "huge" /\ fresh.unit = pages
      /\ fresh.start = start /\ fresh.end = end
  BY <1>4 DEF NewBlock, BlockRec
<1>. HIDE DEF fresh
<1>7. /\ MappedAt(base, pages, align) \in BlockRec
      /\ MappedAt(base, pages, align).kind = "huge"
      /\ MappedAt(base, pages, align).unit = pages
      /\ MappedAt(base, pages, align).start = start
      /\ MappedAt(base, pages, align).end = end
      /\ MappedAt(base, pages, align).p = ptr
  BY <1>4, <1>5, <1>6 DEF BlockRec
<1>. QED BY <1>7 DEF ptr, start, end

\* For an alignment beyond a page the search ends: the largest mapping tried
\* has a span's worth of pages more than the size needs, and is aligned
LEMMA MappedForGood ==
  ASSUME NEW size \in Nat, NEW align \in Alignments, align > PageSize
  PROVE  MappedFor(align, size) # {} /\ \A b \in MappedFor(align, size) : Good(b, align, size)
<1>1. /\ align \in Nat \ {0} /\ align < SpanSize /\ SpanSize \in Nat \ {0} /\ PageSize \in Nat \ {0}
      /\ HeaderSize \in Nat \ {0} /\ HeaderSize < SpanSize /\ Divides(align, SpanSize)
      /\ Divides(SmallGranularity, HeaderSize)
  BY Params, SpanRoom
<1>2. Divides(PageSize, SpanSize)
  <2>1. Divides(PageSize, SpanSize) \/ Divides(SpanSize, PageSize)
    BY SizesParams DEF Divides
  <2>2. Divides(SpanSize, PageSize) => SpanSize <= PageSize
    BY <1>1, DividesAtMost
  <2>. QED BY <1>1, <2>1, <2>2
<1>. DEFINE needed == 1 + RoundUp(size, PageSize) \div PageSize
            extra == align \div PageSize
            num == IF extra > needed THEN 1 + extra ELSE needed
            spans == SpanSize \div PageSize
            limit == Greatest(2 * spans, 2 * num)
            ptr == RoundUp(HeaderSize, align)
            SuitsAt(base, pages) == Suits(MappedAt(base, pages, align), base, size)
            MayRetry(pages) == \E base \in Bases(pages) : ~SuitsAt(base, pages)
            MayTry(pages) == \A m \in num..(pages - 1) : MayRetry(m)
            Suited(pages) == {base \in Bases(pages) : SuitsAt(base, pages)}
            Tried == {n \in num..limit : MayTry(n)}
<1>3. MappedFor(align, size) =
        (UNION {{MappedAt(base, pages, align) : base \in Suited(pages)} : pages \in Tried})
          \cup {b \in {None} : MayTry(limit + 1)}
  BY DEF MappedFor
<1>4. ptr \in Nat /\ Divides(align, ptr) /\ HeaderSize <= ptr
  BY <1>1, Rounded DEF Divides
<1>5. ptr < SpanSize
  <2>1. CASE align <= HeaderSize
    <3>1. ptr <= HeaderSize
      BY <1>1, <2>1, SmallerDivides, RoundedBelow
    <3>. QED BY <1>1, <1>4, <3>1
  <2>2. CASE ~(align <= HeaderSize)
    <3>1. ptr <= align
      BY <1>1, <2>2, SmallerDivides, RoundedBelow
    <3>. QED BY <1>1, <1>4, <3>1
  <2>. QED BY <2>1, <2>2
<1>6. needed \in Nat /\ size <= PageSize * needed /\ PageSize * needed \in Nat
  <2>. DEFINE k == RoundUp(size, PageSize) \div PageSize
  <2>1. k \in Nat /\ size <= PageSize * k
    BY <1>1, Rounded
  <2>2. needed = 1 + k
    OBVIOUS
  <2>. HIDE DEF k
  <2>3. PageSize * (1 + k) = PageSize + PageSize * k /\ PageSize * k \in Nat
    BY <1>1, <2>1
  <2>. QED BY <1>1, <2>1, <2>2, <2>3
<1>7. extra \in Nat /\ spans \in Nat /\ PageSize * spans = SpanSize
  <2>1. extra \in Nat
    BY <1>1, Division
  <2>2. spans \in Nat /\ SpanSize = PageSize * spans + (SpanSize % PageSize)
    BY <1>1, Division
  <2>3. SpanSize % PageSize = 0
    BY <1>2 DEF Divides
  <2>. HIDE DEF extra, spans
  <2>. QED BY <1>1, <2>1, <2>2, <2>3
<1>. HIDE DEF ptr, needed, extra, spans
<1>8. num \in Nat /\ num >= needed /\ limit \in Nat /\ limit >= num + spans /\ limit >= num
  BY <1>6, <1>7 DEF Greatest
<1>. HIDE DEF num, limit
<1>10. ASSUME NEW base \in Bases(limit) PROVE SuitsAt(base, limit)
  <2>1. PageSize * needed <= PageSize * num /\ PageSize * (num + spans) <= PageSize * limit
    BY <1>1, <1>6, <1>7, <1>8, ProductGrows
  <2>2. /\ PageSize * (num + spans) = PageSize * num + PageSize * spans
        /\ PageSize * limit = limit * PageSize /\ limit * PageSize \in Nat /\ PageSize * num \in Nat
    BY <1>1, <1>7, <1>8
  <2>3. size + SpanSize <= limit * PageSize
    BY <1>1, <1>6, <1>7, <2>1, <2>2
  <2>4. base = 0
    BY <1>1, <1>10, <2>2, <2>3 DEF Bases
  <2>. DEFINE b == MappedAt(0, limit, align)
  <2>5. b.p = ptr /\ b.end = limit * PageSize
    <3>0. 0 \in Nat
      OBVIOUS
    <3>1. b.p = RoundUp(0 + HeaderSize, align) /\ b.end = 0 + limit * PageSize
      <4>1. limit \in Nat /\ align \in Nat \ {0}
        BY <1>1, <1>8
      <4>. QED BY <3>0, <4>1, MappedExtent, Zenon
    <3>2. 0 + HeaderSize = HeaderSize
      BY <1>1
    <3>. HIDE DEF b
    <3>. QED BY <2>2, <3>1, <3>2 DEF ptr
  <2>. HIDE DEF b
  <2>6. ptr \div SpanSize = 0
    BY <1>1, <1>4, <1>5
  <2>7. Suits(b, 0, size)
    BY <1>1, <1>4, <1>5, <2>2, <2>3, <2>5, <2>6 DEF Suits
  <2>. QED BY <2>4, <2>7 DEF b
<1>11. \A pages \in Nat : 0 \in Bases(pages)
  BY <1>1 DEF Bases
<1>. HIDE DEF SuitsAt
<1>12. MappedFor(align, size) # {}
  <2>. DEFINE All == {n \in num..limit : ~MayRetry(n)}
  <2>1. limit \in All /\ All \in SUBSET Nat
    BY <1>8, <1>10
  <2>2. PICK n \in All : \A m \in All : n <= m
    <3>. HIDE DEF All
    <3>. QED BY <2>1, LeastNumber
  <2>3. n \in num..limit /\ ~MayRetry(n) /\ n \in Nat
    BY <1>8, <2>2
  <2>4. \A m \in num..(n - 1) : m \in num..limit /\ ~(n <= m)
    BY <1>8, <2>3
  <2>5. 0 \in Suited(n)
    BY <1>11, <2>3
  <2>. HIDE DEF MayRetry, Suited
  <2>6. MayTry(n)
    BY <2>2, <2>4
  <2>7. n \in Tried
    BY <2>3, <2>6
  <2>. HIDE DEF Tried
  <2>8. MappedAt(0, n, align) \in {MappedAt(base, n, align) : base \in Suited(n)}
    BY <2>5
  <2>9. MappedAt(0, n, align) \in MappedFor(align, size)
    BY <1>3, <2>7, <2>8
  <2>. QED BY <2>9
<1>13. ~MayTry(limit + 1)
  BY <1>8, <1>10
<1>14. ASSUME NEW pages \in Tried, NEW base \in Suited(pages)
       PROVE  Good(MappedAt(base, pages, align), align, size)
  <2>. DEFINE b == MappedAt(base, pages, align)
  <2>1. pages \in Nat /\ base \in Bases(pages) /\ Suits(b, base, size)
    BY <1>8, <1>14 DEF SuitsAt
  <2>2. base \in Nat
    BY <1>1, <2>1 DEF Bases
  <2>3. /\ b \in BlockRec /\ b.kind = "huge" /\ b.unit = pages /\ b.start = base + HeaderSize
        /\ b.end = base + pages * PageSize /\ b.p = RoundUp(base + HeaderSize, align)
        /\ pages * PageSize \in Nat
    <3>1. pages * PageSize \in Nat
      BY <1>1, <2>1, Product
    <3>. QED BY <1>1, <2>1, <2>2, <3>1, MappedExtent
  <2>. HIDE DEF b
  <2>4. b.p \in Nat
    BY <2>3 DEF BlockRec
  <2>5. base = 0
    BY <2>1, <2>4, SuitedAtSpan
  <2>6. b.start = HeaderSize /\ b.end = pages * PageSize /\ b.p = ptr
    <3>1. 0 + HeaderSize = HeaderSize
      BY <1>1
    <3>. QED BY <2>3, <2>5, <3>1 DEF ptr
  <2>7. ptr + size <= b.end
    BY <2>1, <2>6 DEF Suits
  <2>8. InSpan(b)
    BY <1>1, <1>4, <1>5, <2>3, <2>6, <2>7 DEF InSpan
  <2>. QED BY <1>4, <2>6, <2>7, <2>8 DEF Good, b
<1>. HIDE DEF Tried, Suited, MayTry
<1>15. ASSUME NEW b \in MappedFor(align, size) PROVE Good(b, align, size)
  <2>1. b \in UNION {{MappedAt(base, pages, align) : base \in Suited(pages)} : pages \in Tried}
    BY <1>3, <1>13
  <2>2. PICK pages \in Tried : b \in {MappedAt(base, pages, align) : base \in Suited(pages)}
    BY <2>1
  <2>3. PICK base \in Suited(pages) : b = MappedAt(base, pages, align)
    BY <2>2
  <2>. QED BY <1>14, <2>3
<1>. QED BY <1>12, <1>15

\* Blocks of the classes that sizes rounded up to the header's get are aligned
\* as the header is
LEMMA NaturallyAligned ==
  ASSUME NEW size \in Nat, NEW align \in Alignments, align <= HeaderSize,
         size + HeaderSize < MediumLimit
  PROVE  LET multiple == IF size = 0 THEN HeaderSize ELSE RoundUp(size, HeaderSize)
         IN  Blocks(multiple) # {} /\ \A b \in Blocks(multiple) : Good(b, align, size)
<1>. DEFINE multiple == IF size = 0 THEN HeaderSize ELSE RoundUp(size, HeaderSize)
<1>1. /\ HeaderSize \in Nat \ {0} /\ align \in Nat \ {0} /\ Divides(align, HeaderSize)
      /\ MediumLimit \in Nat
  <2>1. Divides(align, HeaderSize)
    BY SmallerDivides
  <2>2. ClassCount - 1 \in Classes
    BY ClassesUsed, Params
  <2>3. MediumLimit \in Nat
    BY <2>2, ClassSizes DEF MediumLimit
  <2>. QED BY <2>1, <2>3, Params
<1>2. /\ multiple \in Nat \ {0} /\ Divides(HeaderSize, multiple) /\ size <= multiple
      /\ multiple <= MediumLimit
  <2>1. Divides(HeaderSize, HeaderSize)
    BY <1>1 DEF Divides
  <2>2. /\ RoundUp(size, HeaderSize) \in Nat /\ Divides(HeaderSize, RoundUp(size, HeaderSize))
        /\ size <= RoundUp(size, HeaderSize) /\ RoundUp(size, HeaderSize) < size + HeaderSize
    BY <1>1, Rounded DEF Divides
  <2>. QED BY <1>1, <2>1, <2>2
<1>. HIDE DEF multiple
<1>3. Blocks(multiple) = ClassBlocks(multiple)
  BY <1>2 DEF Blocks
<1>. DEFINE u == ClassSize(SizeClass[ClassOf(multiple)])
<1>4. /\ ClassBlocks(multiple) # {}
      /\ \A b \in ClassBlocks(multiple) : Fresh(b, multiple) /\ b.kind = "class" /\ b.unit = u
  BY <1>2, ClassBlocksFresh
<1>5. Divides(HeaderSize, u)
  BY <1>2, HeaderMultiples
<1>. HIDE DEF u
<1>6. ASSUME NEW b \in ClassBlocks(multiple) PROVE Good(b, align, size)
  <2>1. /\ InSpan(b) /\ b.p = b.start /\ b.start + multiple <= b.end /\ b.unit = u
        /\ b.kind = "class"
    BY <1>4 DEF Fresh
  <2>2. b.start \in Nat /\ b.end \in Nat /\ u \in Nat
    BY <2>1 DEF InSpan, BlockRec
  <2>3. PICK idx \in Nat : b.start = HeaderSize + idx * u
    BY <2>1 DEF InSpan
  <2>4. Divides(HeaderSize, idx * u) /\ idx * u \in Nat
    BY <1>1, <1>5, <2>2, <2>3, DividesMultiple, Product
  <2>5. Divides(HeaderSize, HeaderSize)
    BY <1>1 DEF Divides
  <2>6. Divides(HeaderSize, b.start)
    BY <1>1, <2>3, <2>4, <2>5, DividesSum
  <2>7. Divides(align, b.start)
    BY <1>1, <2>2, <2>6, DividesThrough
  <2>. QED BY <1>2, <2>1, <2>2, <2>7 DEF Good
<1>7. Blocks(multiple) # {} /\ \A b \in Blocks(multiple) : Good(b, align, size)
  BY <1>3, <1>4, <1>6
<1>. QED BY <1>7 DEF multiple

\* _rpmalloc_allocate with the alignment every block has
LEMMA BlocksGood ==
  ASSUME NEW size \in Nat
  PROVE  \A b \in Blocks(size) : Good(b, SmallGranularity, size)
BY BlocksFresh DEF Fresh, Good, InSpan

\* _rpmalloc_aligned_allocate always has a block
LEMMA AlignedBlocksFit ==
  ASSUME NEW size \in Nat, NEW align \in Alignments
  PROVE  /\ AlignedBlocks(align, size) # {}
         /\ \A b \in AlignedBlocks(align, size) : Good(b, Greatest(align, SmallGranularity), size)
<1>0. align \in Nat \ {0} /\ SmallGranularity \in Nat \ {0} /\ HeaderSize \in Nat /\ PageSize \in Nat
  BY Params
<1>. DEFINE multiple == IF size = 0 THEN HeaderSize ELSE RoundUp(size, HeaderSize)
            Natural == /\ align <= HeaderSize /\ size + HeaderSize < MediumLimit
                       /\ multiple <= size + align
<1>1. CASE align <= SmallGranularity
  <2>1. AlignedBlocks(align, size) = Blocks(size)
    BY <1>1 DEF AlignedBlocks
  <2>2. Greatest(align, SmallGranularity) = SmallGranularity
    BY <1>0, <1>1 DEF Greatest
  <2>. QED BY <2>1, <2>2, BlocksFresh, BlocksGood
<1>2. ASSUME ~(align <= SmallGranularity)
      PROVE  Greatest(align, SmallGranularity) = align
  BY <1>0, <1>2 DEF Greatest
<1>3. CASE ~(align <= SmallGranularity) /\ Natural
  <2>1. AlignedBlocks(align, size) = Blocks(multiple)
    BY <1>3 DEF AlignedBlocks
  <2>. QED BY <1>2, <1>3, <2>1, NaturallyAligned
<1>4. CASE ~(align <= SmallGranularity) /\ ~Natural /\ align <= PageSize
  <2>1. AlignedBlocks(align, size) = {AlignedPart(b, align) : b \in Blocks(size + align)}
    BY <1>4 DEF AlignedBlocks
  <2>2. size + align \in Nat
    BY <1>0
  <2>3. Blocks(size + align) # {} /\ \A b \in Blocks(size + align) : Fresh(b, size + align)
    BY <2>2, BlocksFresh
  <2>. QED BY <1>2, <1>4, <2>1, <2>3, AlignedPartGood
<1>5. CASE ~(align <= SmallGranularity) /\ ~Natural /\ ~(align <= PageSize)
  <2>1. AlignedBlocks(align, size) = MappedFor(align, size)
    BY <1>5 DEF AlignedBlocks
  <2>2. align > PageSize
    BY <1>0, <1>5
  <2>. QED BY <1>2, <1>5, <2>1, <2>2, MappedForGood
<1>. QED BY <1>1, <1>3, <1>4, <1>5

\* and never gives up
LEMMA AlignedBlocksGood ==
  ASSUME NEW size \in Nat, NEW align \in Alignments
  PROVE  /\ AlignedBlocks(align, size) # {} /\ None \notin AlignedBlocks(align, size)
         /\ \A b \in AlignedBlocks(align, size) : Good(b, Greatest(align, SmallGranularity), size)
BY AlignedBlocksFit, NoneIsNoBlock DEF Good, InSpan

---------------------------------------------------------------------------
(* The invariant *)

\* The block of the program is as it was promised
IInv ==
  /\ asked \in Nat /\ copied \in Nat
  /\ alignment \in Alignments \cup {SmallGranularity}
  /\ outcome \in {"ok", "unpreserved", "failed"}
  /\ block # None => Good(block, alignment, asked)

\* What realloc owes the program in a step
Preserved ==
  block # None /\ block' # None =>
    /\ outcome' = "ok" => copied' >= Least(asked, asked')
    /\ copied' <= block.end - block.p
    /\ copied' <= block'.end - block'.p

LEMMA InitInv == ASSUME Init PROVE IInv
BY Params DEF Init, IInv

LEMMA ReturnedInv ==
  ASSUME NEW size \in Nat, NEW align \in Alignments \cup {SmallGranularity}, NEW b,
         Good(b, Greatest(align, SmallGranularity), size), Returned(b, align, size),
         copied' \in Nat, outcome' \in {"ok", "unpreserved", "failed"}
  PROVE  IInv'
<1>1. alignment' = Greatest(align, SmallGranularity) /\ block' = b /\ asked' = size
  BY DEF Returned
<1>2. alignment' \in Alignments \cup {SmallGranularity}
  BY <1>1 DEF Greatest
<1>3. Good(block', alignment', asked')
  BY <1>1
<1>. QED BY <1>1, <1>2, <1>3 DEF IInv, Good, InSpan

LEMMA NotDoneInv ==
  ASSUME IInv, NotDone("failed")
  PROVE  IInv' /\ Preserved
<1>1. UNCHANGED <<block, asked, alignment>> /\ copied' = 0 /\ outcome' = "failed"
  BY DEF NotDone
<1>2. IInv'
  BY <1>1 DEF IInv, Good, InSpan
<1>3. block # None => block.p \in Nat /\ block.end \in Nat /\ block.p <= block.end
  BY DEF IInv, Good, InSpan, BlockRec
<1>. QED BY <1>1, <1>2, <1>3 DEF Preserved

LEMMA AllocateInv ==
  ASSUME IInv, NEW size \in Sizes, Allocate(size)
  PROVE  IInv' /\ Preserved
<1>1. PICK b \in Blocks(size) : Returned(b, SmallGranularity, size)
  BY DEF Allocate
<1>2. copied' = 0 /\ outcome' = "ok" /\ block = None
  BY DEF Allocate, Moved
<1>3. size \in Nat /\ Good(b, SmallGranularity, size)
  BY Params, BlocksGood
<1>4. Greatest(SmallGranularity, SmallGranularity) = SmallGranularity
  BY DEF Greatest
<1>5. IInv'
  BY <1>1, <1>2, <1>3, <1>4, ReturnedInv
<1>. QED BY <1>2, <1>5 DEF Preserved

LEMMA AlignedAllocateInv ==
  ASSUME IInv, NEW size \in Sizes, NEW align \in Alignments, AlignedAllocate(align, size)
  PROVE  IInv' /\ Preserved
<1>1. size \in Nat /\ None \notin AlignedBlocks(align, size)
  BY Params, AlignedBlocksGood
<1>2. PICK b \in AlignedBlocks(align, size) : Returned(b, align, size)
  BY <1>1 DEF AlignedAllocate
<1>3. copied' = 0 /\ outcome' = "ok" /\ block = None
  BY <1>1 DEF AlignedAllocate, Moved
<1>4. Good(b, Greatest(align, SmallGranularity), size)
  BY <1>1, AlignedBlocksGood
<1>5. IInv'
  BY <1>1, <1>2, <1>3, <1>4, ReturnedInv
<1>. QED BY <1>3, <1>5 DEF Preserved

\* The size the old block is taken to have
LEMMA OldSizes ==
  ASSUME IInv, block # None, NEW given \in {0, asked}
  PROVE  /\ OldSize(block, given) \in Nat /\ asked <= OldSize(block, given)
         /\ OldSize(block, given) <= block.end - block.p
         /\ UsableSize(block) = block.end - block.p
         /\ InSpan(block) /\ asked \in Nat /\ block.p + asked <= block.end
         /\ block.start \in Nat /\ block.p \in Nat /\ block.end \in Nat /\ block.start <= block.p
         /\ block.unit \in Nat /\ block.kind \in {"class", "large", "huge"} /\ block.p <= block.end
<1>1. InSpan(block) /\ asked \in Nat /\ block.p + asked <= block.end
  BY DEF IInv, Good
<1>2. /\ block.start \in Nat /\ block.p \in Nat /\ block.end \in Nat /\ block.start <= block.p
      /\ block.unit \in Nat /\ block.kind \in {"class", "large", "huge"} /\ block.p <= block.end
  BY <1>1 DEF InSpan, BlockRec
<1>3. UsableSize(block) = block.end - block.p
  BY <1>1, FoundAgain
<1>. QED BY <1>1, <1>2, <1>3 DEF OldSize

\* A block that is kept has room for the size.  The mistaken mask asks for too
\* many spans at times, never for too few
LEMMA KeptHolds ==
  ASSUME NEW b, InSpan(b), NEW size \in Nat, NEW oldsize, KeepsBlock(b, size, oldsize)
  PROVE  b.start + size <= b.end
<1>1. /\ b.kind \in {"class", "large", "huge"} /\ b.unit \in Nat /\ b.start \in Nat /\ b.end \in Nat
      /\ SpanSize \in Nat \ {0} /\ PageSize \in Nat \ {0} /\ HeaderSize \in Nat \ {0}
  BY Params DEF InSpan, BlockRec
<1>2. CASE b.kind = "class"
  <2>1. b.end = b.start + b.unit
    BY <1>2 DEF InSpan
  <2>2. b.unit >= size
    BY <1>2 DEF KeepsBlock
  <2>. QED BY <1>1, <2>1, <2>2
<1>3. CASE b.kind = "large"
  <2>1. b.end = b.unit * SpanSize /\ b.start = HeaderSize /\ b.unit * SpanSize = SpanSize * b.unit
    BY <1>1, <1>3 DEF InSpan
  <2>2. b.unit >= SpansReallocated(size)
    BY <1>3 DEF KeepsBlock
  <2>. DEFINE total == size + HeaderSize
              k == total \div SpanSize
  <2>3. total \in Nat /\ total # 0
    BY <1>1
  <2>4. SpansReallocated(size) = k + (IF total = SpanSize THEN 0 ELSE 1)
    BY <2>3 DEF SpansReallocated
  <2>. HIDE DEF total
  <2>5. k \in Nat /\ total < SpanSize * k + SpanSize
    BY <1>1, <2>3, Division
  <2>6. CASE total = SpanSize
    <3>1. SpanSize * 1 <= SpanSize <=> 1 <= SpanSize \div SpanSize
      BY <1>1, UnitsBelow
    <3>2. 1 <= k
      BY <1>1, <2>6, <3>1
    <3>. HIDE DEF k
    <3>3. 1 <= b.unit
      BY <1>1, <2>2, <2>4, <2>5, <2>6, <3>2
    <3>4. SpanSize * 1 <= SpanSize * b.unit
      BY <1>1, <3>3, ProductGrows
    <3>. QED BY <1>1, <2>1, <2>6, <3>4 DEF total
  <2>7. CASE total # SpanSize
    <3>. HIDE DEF k
    <3>1. SpanSize * (k + 1) <= SpanSize * b.unit
      BY <1>1, <2>2, <2>4, <2>5, <2>7, ProductGrows
    <3>2. SpanSize * (k + 1) = SpanSize * k + SpanSize /\ SpanSize * k \in Nat
          /\ SpanSize * b.unit \in Nat
      BY <1>1, <2>5
    <3>3. total < SpanSize * b.unit
      BY <1>1, <2>3, <2>5, <3>1, <3>2
    <3>. QED BY <1>1, <2>1, <3>2, <3>3 DEF total
  <2>. QED BY <2>6, <2>7
<1>4. CASE b.kind = "huge"
  <2>1. b.end = b.unit * PageSize /\ b.start = HeaderSize /\ b.unit * PageSize = PageSize * b.unit
    BY <1>1, <1>4 DEF InSpan
  <2>2. b.unit >= PagesFor(size)
    BY <1>4 DEF KeepsBlock
  <2>3. size + HeaderSize \in Nat
    BY <1>1
  <2>4. PagesFor(size) \in Nat /\ size + HeaderSize <= PageSize * PagesFor(size)
        /\ PageSize * PagesFor(size) \in Nat
    BY <1>1, <2>3, Rounded DEF PagesFor
  <2>5. PageSize * PagesFor(size) <= PageSize * b.unit /\ PageSize * b.unit \in Nat
    BY <1>1, <2>2, <2>4, ProductGrows
  <2>. QED BY <1>1, <2>1, <2>4, <2>5
<1>. QED BY <1>1, <1>2, <1>3, <1>4

\* realloc may give the pointer back to the start of the block
LEMMA FromStart ==
  ASSUME NEW b, InSpan(b), NEW size \in Nat, b.start + size <= b.end
  PROVE  /\ Good([b EXCEPT !.p = b.start], SmallGranularity, size)
         /\ [b EXCEPT !.p = b.start].p = b.start /\ [b EXCEPT !.p = b.start].end = b.end
<1>. DEFINE c == [b EXCEPT !.p = b.start]
<1>1. /\ b \in BlockRec /\ b.start \in Nat /\ b.p \in Nat /\ b.end \in Nat /\ b.unit \in Nat
      /\ b.start <= b.p /\ b.p < SpanSize /\ SpanSize \in Nat /\ b.p <= b.end
  BY Params DEF InSpan, BlockRec
<1>2. /\ c \in BlockRec /\ c.p = b.start /\ c.kind = b.kind /\ c.unit = b.unit /\ c.start = b.start
      /\ c.end = b.end /\ c.flagged = b.flagged
  BY <1>1 DEF BlockRec
<1>. HIDE DEF c
<1>3. InSpan(c)
  BY <1>1, <1>2 DEF InSpan
<1>4. Divides(SmallGranularity, b.start)
  BY DEF InSpan
<1>5. Good(c, SmallGranularity, size)
  BY <1>2, <1>3, <1>4 DEF Good
<1>. QED BY <1>2, <1>5 DEF c

LEMMA ReallocateInv ==
  ASSUME IInv, NEW size \in Sizes, NEW given \in {0, asked}, NEW noPreserve \in BOOLEAN,
         NEW growOrFail \in BOOLEAN, Reallocate(size, given, noPreserve, growOrFail)
  PROVE  IInv' /\ Preserved
<1>. DEFINE oldsize == OldSize(block, given)
            new_size == NewSize(size, oldsize)
            start == BlockStart(block)
<1>1. block # None /\ size \in Nat
  BY Params DEF Reallocate
<1>2. /\ oldsize \in Nat /\ asked <= oldsize /\ oldsize <= block.end - block.p
      /\ InSpan(block) /\ asked \in Nat /\ block.p + asked <= block.end
      /\ block.start \in Nat /\ block.p \in Nat /\ block.end \in Nat /\ block.start <= block.p
  BY <1>1, OldSizes
<1>3. start = block.start
  BY <1>2, FoundAgain
<1>4. new_size \in Nat /\ size <= new_size
  BY <1>1, <1>2 DEF NewSize, Greatest
<1>5. Greatest(SmallGranularity, SmallGranularity) = SmallGranularity
  BY DEF Greatest
<1>6. \/ /\ KeepsBlock(block, size, oldsize)
         /\ Returned([block EXCEPT !.p = start], SmallGranularity, size)
         /\ IF start = block.p THEN Stayed ELSE Moved(oldsize, noPreserve)
      \/ NotDone("failed")
      \/ /\ \E b \in Blocks(new_size) : Returned(b, SmallGranularity, size)
         /\ Moved(Least(oldsize, new_size), noPreserve)
  BY DEF Reallocate
<1>. HIDE DEF oldsize, new_size, start
<1>7. CASE /\ KeepsBlock(block, size, oldsize)
           /\ Returned([block EXCEPT !.p = start], SmallGranularity, size)
           /\ IF start = block.p THEN Stayed ELSE Moved(oldsize, noPreserve)
  <2>. DEFINE b == [block EXCEPT !.p = block.start]
  <2>1. block.start + size <= block.end
    BY <1>1, <1>2, <1>7, KeptHolds
  <2>2. Good(b, SmallGranularity, size) /\ b.p = block.start /\ b.end = block.end
    BY <1>1, <1>2, <2>1, FromStart
  <2>3. Returned(b, SmallGranularity, size)
    BY <1>3, <1>7
  <2>4. block' = b /\ asked' = size
    BY <2>3 DEF Returned
  <2>. HIDE DEF b
  <2>5. \/ start = block.p /\ copied' = block.end - block.p /\ outcome' = "ok"
        \/ copied' = oldsize /\ outcome' = "ok"
        \/ copied' = 0 /\ outcome' = "unpreserved"
    BY <1>7 DEF Stayed, Moved
  <2>6. copied' \in Nat /\ outcome' \in {"ok", "unpreserved", "failed"}
    BY <1>2, <2>5
  <2>7. IInv'
    BY <1>1, <1>5, <2>2, <2>3, <2>6, ReturnedInv
  <2>8. Preserved
    BY <1>1, <1>2, <1>3, <2>2, <2>4, <2>5 DEF Preserved, Least
  <2>. QED BY <2>7, <2>8
<1>8. CASE NotDone("failed")
  BY <1>8, NotDoneInv
<1>9. CASE /\ \E b \in Blocks(new_size) : Returned(b, SmallGranularity, size)
           /\ Moved(Least(oldsize, new_size), noPreserve)
  <2>1. PICK b \in Blocks(new_size) : Returned(b, SmallGranularity, size)
    BY <1>9
  <2>2. Good(b, SmallGranularity, new_size)
    BY <1>4, BlocksGood
  <2>3. /\ InSpan(b) /\ b.p \in Nat /\ b.end \in Nat /\ b.p + new_size <= b.end
        /\ Divides(SmallGranularity, b.p)
    BY <2>2 DEF Good, InSpan, BlockRec
  <2>4. Good(b, SmallGranularity, size)
    BY <1>1, <1>4, <2>3 DEF Good
  <2>5. block' = b /\ asked' = size
    BY <2>1 DEF Returned
  <2>6. \/ copied' = Least(oldsize, new_size) /\ outcome' = "ok"
        \/ copied' = 0 /\ outcome' = "unpreserved"
    BY <1>9 DEF Moved
  <2>7. copied' \in Nat /\ outcome' \in {"ok", "unpreserved", "failed"}
    BY <1>2, <1>4, <2>6 DEF Least
  <2>8. IInv'
    BY <1>1, <1>5, <2>1, <2>4, <2>7, ReturnedInv
  <2>9. Preserved
    BY <1>1, <1>2, <1>4, <2>3, <2>5, <2>6 DEF Preserved, Least
  <2>. QED BY <2>8, <2>9
<1>. QED BY <1>6, <1>7, <1>8, <1>9

LEMMA AlignedReallocateInv ==
  ASSUME IInv, NEW size \in Sizes, NEW align \in Alignments, NEW given \in {0, asked},
         NEW noPreserve \in BOOLEAN, NEW growOrFail \in BOOLEAN,
         AlignedReallocate(align, size, given, noPreserve, growOrFail)
  PROVE  IInv' /\ Preserved
<1>. DEFINE oldsize == OldSize(block, given)
<1>1. block # None /\ size \in Nat /\ align > SmallGranularity
  BY Params DEF AlignedReallocate
<1>2. /\ oldsize \in Nat /\ asked <= oldsize /\ oldsize <= block.end - block.p
      /\ UsableSize(block) = block.end - block.p
      /\ InSpan(block) /\ asked \in Nat /\ block.p + asked <= block.end
      /\ block.start \in Nat /\ block.p \in Nat /\ block.end \in Nat /\ block.start <= block.p
  BY <1>1, OldSizes
<1>3. Greatest(align, SmallGranularity) = align
  BY <1>1, Params DEF Greatest
<1>4. None \notin AlignedBlocks(align, size)
      /\ \A b \in AlignedBlocks(align, size) : Good(b, align, size)
  BY <1>1, <1>3, AlignedBlocksGood
<1>5. \/ /\ UsableSize(block) >= size /\ block.p % align = 0
         /\ Returned(block, align, size) /\ Stayed
      \/ NotDone("failed")
      \/ /\ \E b \in AlignedBlocks(align, size) : Returned(b, align, size)
         /\ Moved(Least(oldsize, size), noPreserve)
  BY <1>4 DEF AlignedReallocate
<1>. HIDE DEF oldsize
<1>6. CASE /\ UsableSize(block) >= size /\ block.p % align = 0
           /\ Returned(block, align, size) /\ Stayed
  <2>1. Good(block, align, size)
    BY <1>1, <1>2, <1>6 DEF Good, Divides
  <2>2. copied' = block.end - block.p /\ outcome' = "ok" /\ block' = block /\ asked' = size
    BY <1>6 DEF Stayed, Returned
  <2>3. copied' \in Nat
    BY <1>2, <2>2
  <2>4. IInv'
    BY <1>1, <1>3, <1>6, <2>1, <2>2, <2>3, ReturnedInv
  <2>5. Preserved
    BY <1>1, <1>2, <2>2 DEF Preserved, Least
  <2>. QED BY <2>4, <2>5
<1>7. CASE NotDone("failed")
  BY <1>7, NotDoneInv
<1>8. CASE /\ \E b \in AlignedBlocks(align, size) : Returned(b, align, size)
           /\ Moved(Least(oldsize, size), noPreserve)
  <2>1. PICK b \in AlignedBlocks(align, size) : Returned(b, align, size)
    BY <1>8
  <2>2. Good(b, align, size)
    BY <1>4
  <2>3. b.p \in Nat /\ b.end \in Nat /\ b.p + size <= b.end
    BY <2>2 DEF Good, InSpan, BlockRec
  <2>4. block' = b /\ asked' = size
    BY <2>1 DEF Returned
  <2>5. \/ copied' = Least(oldsize, size) /\ outcome' = "ok"
        \/ copied' = 0 /\ outcome' = "unpreserved"
    BY <1>8 DEF Moved
  <2>6. copied' \in Nat /\ outcome' \in {"ok", "unpreserved", "failed"}
    BY <1>1, <1>2, <2>5 DEF Least
  <2>7. IInv'
    BY <1>1, <1>3, <2>1, <2>2, <2>6, ReturnedInv
  <2>8. Preserved
    BY <1>1, <1>2, <2>3, <2>4, <2>5 DEF Preserved, Least
  <2>. QED BY <2>7, <2>8
<1>. QED BY <1>5, <1>6, <1>7, <1>8

LEMMA FreeInv ==
  ASSUME IInv, Free
  PROVE  IInv' /\ Preserved
<1>1. block' = None /\ asked' = 0 /\ alignment' = Greatest(SmallGranularity, SmallGranularity)
      /\ copied' = 0 /\ outcome' = "ok"
  BY DEF Free, Returned, Moved
<1>. QED BY <1>1 DEF IInv, Preserved, Greatest

\* A step keeps the invariant, and what realloc owes
LEMMA NextInv ==
  ASSUME IInv, Next
  PROVE  IInv' /\ Preserved
BY AllocateInv, AlignedAllocateInv, ReallocateInv, AlignedReallocateInv, FreeInv DEF Next

LEMMA StutterInv == ASSUME IInv, UNCHANGED vars PROVE IInv'
BY DEF IInv, vars, Good, InSpan

THEOREM SizesInvariant == Spec => []IInv
<1>1. IInv /\ [Next]_vars => IInv'
  BY NextInv, StutterInv
<1>. QED BY InitInv, <1>1, PTL DEF Spec

---------------------------------------------------------------------------
(* What the runs check *)

\* Every variable keeps to its range, and a block to the memory it is cut
\* from, for any sizes of span, page and classes
THEOREM SizesTypes == Spec => []TypeOK
<1>1. IInv => TypeOK
  <2>. SUFFICES ASSUME IInv PROVE TypeOK
    OBVIOUS
  <2>1. ASSUME block # None
        PROVE  /\ HeaderSize <= block.start /\ block.start <= block.p
               /\ block.p <= block.end /\ block.end <= MemoryEnd(block)
    <3>1. InSpan(block)
      BY <2>1 DEF IInv, Good
    <3>2. /\ block.kind \in {"class", "large", "huge"} /\ block.unit \in Nat
          /\ block.start \in Nat /\ block.end \in Nat /\ HeaderSize \in Nat
      BY <3>1, Params DEF InSpan, BlockRec
    <3>3. CASE block.kind = "class"
      <4>1. PICK idx \in Nat : block.start = HeaderSize + idx * block.unit
        BY <3>1, <3>3 DEF InSpan
      <4>2. idx * block.unit \in Nat
        BY <3>2, Product
      <4>. QED BY <3>1, <3>2, <3>3, <4>1, <4>2 DEF InSpan, MemoryEnd
    <3>4. CASE block.kind = "large"
      BY <3>1, <3>2, <3>4 DEF InSpan, MemoryEnd
    <3>5. CASE block.kind = "huge"
      BY <3>1, <3>2, <3>5 DEF InSpan, MemoryEnd
    <3>. QED BY <3>2, <3>3, <3>4, <3>5
  <2>. QED BY <2>1 DEF IInv, TypeOK, Good, InSpan
<1>. QED BY <1>1, SizesInvariant, PTL

\* A block holds what was asked for, and its usable size ends where it ends
THEOREM RequestHeld == Spec => []BlockHoldsRequest
<1>1. IInv => BlockHoldsRequest
  <2>. SUFFICES ASSUME IInv, block # None PROVE BlockHoldsRequest
    BY DEF BlockHoldsRequest
  <2>1. InSpan(block) /\ block.p + asked <= block.end /\ asked \in Nat
    BY DEF IInv, Good
  <2>2. UsableSize(block) = block.end - block.p
    BY <2>1, FoundAgain
  <2>3. block.p \in Nat /\ block.end \in Nat /\ (block.kind = "class" => block.end <= SpanSize)
    BY <2>1 DEF InSpan, BlockRec
  <2>. QED BY <2>1, <2>2, <2>3 DEF BlockHoldsRequest
<1>. QED BY <1>1, SizesInvariant, PTL

\* From any pointer the program was given, free and realloc find the block
THEOREM BlockFound == Spec => []FreeFindsBlock
<1>1. IInv => FreeFindsBlock
  BY FoundAgain DEF IInv, Good, InSpan, FreeFindsBlock
<1>. QED BY <1>1, SizesInvariant, PTL

\* Every alignment below the span size is met, wherever the system places
\* mappings smaller than a span, and kept by what realloc leaves in place
THEOREM AlignmentKept == Spec => []AlignedAsPromised
<1>1. IInv => AlignedAsPromised
  BY DEF IInv, Good, Divides, AlignedAsPromised
<1>. QED BY <1>1, SizesInvariant, PTL

\* A medium block is the largest of which as many fit a span
THEOREM MergedAllTheWay == Spec => []MergedFully
<1>1. IInv => MergedFully
  BY DEF IInv, Good, InSpan, LargestOfItsCount, MergedFully, Room
<1>. QED BY <1>1, SizesInvariant, PTL

\* realloc loses none of the contents and reads and writes no other block
THEOREM ContentsKept == Spec => ReallocPreserves
<1>1. IInv /\ [Next]_vars => [Preserved]_vars
  BY NextInv
<1>. QED BY <1>1, SizesInvariant, PTL DEF Spec, ReallocPreserves, Preserved
=============================================================================

-------------------------- MODULE PathRoutingProofs --------------------------
(***************************************************************************)
(* What PathRouting's runs check on one small map, for every map, floor    *)
(* and trail.                                                              *)
(*                                                                         *)
(* The lines.  The steps of Bresenham's algorithm keep a balance between   *)
(* the columns and the rows still to go, so that a line ends at its second *)
(* point; and a line along one direction visits the points of that         *)
(* direction.  So the line between two corners of a path covers the points *)
(* of the path between them, and costs what their steps cost.              *)
(*                                                                         *)
(* The search.  previous leads every reached point back to the start, each *)
(* time nearer by at least the step (Tree); no entry of the queue promises *)
(* less than its point allows (Queued); and a point that no longer waits   *)
(* for its neighbours has left none farther than through it (Explored).    *)
(* The heuristic drops by no more than a step costs, so a shorter walk     *)
(* would show in the queue.                                                *)
(***************************************************************************)
EXTENDS PathRouting, FiniteSetTheorems, WellFoundedInduction, TLAPS

-----------------------------------------------------------------------------
(* Numbers and recursive functions *)

\* A set of natural numbers has a least element.
LEMMA LeastNumber ==
    ASSUME NEW T, T \subseteq Nat, T # {}
    PROVE  \E x \in T : \A y \in T : x <= y
<1>1. PICK x \in T : \A y \in T : ~ (<<y, x>> \in OpToRel(<, Nat))
    BY NatLessThanWellFounded, WFMin
<1>2. \A y \in T : ~ (y < x)
    BY <1>1 DEF OpToRel
<1> QED
    BY <1>2

\* A set of natural numbers that holds 0, and with a number the next, holds them all.
LEMMA SetInduction ==
    ASSUME NEW T, T \subseteq Nat, 0 \in T, \A n \in T : n + 1 \in T
    PROVE  T = Nat
<1> SUFFICES ASSUME Nat \ T # {} PROVE FALSE
    OBVIOUS
<1>1. PICK x \in Nat \ T : \A y \in Nat \ T : x <= y
    BY LeastNumber
<1>2. x - 1 \in Nat /\ x - 1 \notin T
    BY <1>1
<1> QED
    BY <1>1, <1>2

\* f has a first value, and next makes a value of its number and of the value before.
Stepwise(f, S, first, next, N) ==
    f \in [0..N -> S] /\ f[0] = first /\ \A n \in 1..N : f[n] = next[<<n, f[n - 1]>>]

\* What is made step by step, from a first value and of each the next, exists.
LEMMA StepsExist ==
    ASSUME NEW S, NEW first \in S, NEW next, \A n \in Nat, v \in S : next[<<n, v>>] \in S
    PROVE  \A N \in Nat : \E f : Stepwise(f, S, first, next, N)
<1> DEFINE Exist(k) == \E f : Stepwise(f, S, first, next, k)
           T == {k \in Nat : Exist(k)}
<1>1. 0 \in T
    <2> DEFINE f == [n \in 0..0 |-> first]
    <2>1. f \in [0..0 -> S] /\ f[0] = first /\ 1..0 = {}
        OBVIOUS
    <2> HIDE DEF f
    <2>2. Stepwise(f, S, first, next, 0)
        BY <2>1 DEF Stepwise
    <2> QED
        BY <2>2
<1>2. ASSUME NEW k \in T PROVE k + 1 \in T
    <2>1. k \in Nat /\ Exist(k)
        OBVIOUS
    <2>2. PICK f : Stepwise(f, S, first, next, k)
        BY <2>1
    <2>3. f \in [0..k -> S] /\ f[0] = first /\ \A n \in 1..k : f[n] = next[<<n, f[n - 1]>>]
        BY <2>2 DEF Stepwise
    <2> DEFINE w == next[<<k + 1, f[k]>>]
               g == [n \in 0..k + 1 |-> IF n = k + 1 THEN w ELSE f[n]]
    <2>4. w \in S
        BY <2>1, <2>3
    <2>5. g[k + 1] = next[<<k + 1, f[k]>>] /\ \A n \in 0..k : g[n] = f[n]
        BY <2>1
    <2>6. g \in [0..k + 1 -> S]
        BY <2>1, <2>3, <2>4
    <2> HIDE DEF w, g
    <2>7. \A n \in 1..k + 1 : g[n] = next[<<n, g[n - 1]>>]
        <3> SUFFICES ASSUME NEW n \in 1..k + 1 PROVE g[n] = next[<<n, g[n - 1]>>]
            OBVIOUS
        <3>1. CASE n = k + 1
            <4>1. n - 1 = k /\ k \in 0..k
                BY <2>1, <3>1
            <4> QED
                BY <2>5, <3>1, <4>1
        <3>2. CASE n # k + 1
            <4>1. n \in 1..k /\ n \in 0..k /\ n - 1 \in 0..k
                BY <2>1, <3>2
            <4> QED
                BY <2>3, <2>5, <4>1
        <3> QED
            BY <3>1, <3>2
    <2>8. g[0] = first
        BY <2>1, <2>3, <2>5
    <2>9. Stepwise(g, S, first, next, k + 1)
        BY <2>6, <2>7, <2>8 DEF Stepwise
    <2> QED
        BY <2>1, <2>9
<1> HIDE DEF T
<1>3. T = Nat
    <2>1. T \subseteq Nat
        BY DEF T
    <2> QED
        BY <1>1, <1>2, <2>1, SetInduction
<1> QED
    BY <1>3 DEF T

-----------------------------------------------------------------------------
(* Lines *)

Points == Int \X Int

\* The number of columns and of rows between two points, and the greater of them.
across(p, q) == absolute(q[1] - p[1])
down(p, q) == absolute(q[2] - p[2])
Far(p, q) == Max({across(p, q), -(-down(p, q))})
right(p, q) == IF p[1] < q[1] THEN 1 ELSE -1
below(p, q) == IF p[2] < q[2] THEN 1 ELSE -1

\* What follows a step of linePoints.
After(p, q, s) ==
    [x |-> IF 2 * s.error >= -down(p, q) THEN s.x + right(p, q) ELSE s.x,
     y |-> IF 2 * s.error <= across(p, q) THEN s.y + below(p, q) ELSE s.y,
     error |-> s.error + (IF 2 * s.error >= -down(p, q) THEN -down(p, q) ELSE 0)
                       + (IF 2 * s.error <= across(p, q) THEN across(p, q) ELSE 0)]
LineRule(p, q, f, n) ==
    IF n = 0 THEN [x |-> p[1], y |-> p[2], error |-> across(p, q) + -down(p, q)]
    ELSE After(p, q, f[n - 1])
LineSteps(p, q) == CHOOSE f : f = [n \in 0..Far(p, q) |-> LineRule(p, q, f, n)]

\* The points of forEachLinePoint are those of its steps.
LEMMA LineIs ==
    ASSUME NEW p, NEW q
    PROVE  linePoints(p, q) =
             [n \in 1..Far(p, q) + 1 |-> <<LineSteps(p, q)[n - 1].x, LineSteps(p, q)[n - 1].y>>]
BY DEF linePoints, LineSteps, Far, LineRule, After, right, below, across, down

\* The numbers are naturals, and Far is the greater.
LEMMA FarFacts ==
    ASSUME NEW p \in Points, NEW q \in Points
    PROVE  /\ across(p, q) \in Nat /\ down(p, q) \in Nat /\ Far(p, q) \in Nat
           /\ across(p, q) >= down(p, q) => Far(p, q) = across(p, q)
           /\ down(p, q) >= across(p, q) => Far(p, q) = down(p, q)
<1> DEFINE a == across(p, q)
           b == down(p, q)
           m == Max({a, b})
<1>1. a \in Nat /\ b \in Nat
    BY DEF Points, across, down, absolute
<1> HIDE DEF a, b, m
<1>2. -(-b) = b
    BY <1>1
<1>3. m \in {a, b} /\ \A x \in {a, b} : m >= x
    <2>1. \E x \in {a, b} : \A y \in {a, b} : x >= y
        <3>1. CASE a >= b
            BY <1>1, <3>1
        <3>2. CASE b >= a
            BY <1>1, <3>2
        <3> QED
            BY <1>1, <3>1, <3>2
    <2> QED
        BY <2>1 DEF Max, m
<1>4. Far(p, q) = m
    BY <1>2 DEF Far, a, b, m
<1>5. m \in Nat
    BY <1>1, <1>3
<1>6. ASSUME a >= b PROVE m = a
    BY <1>1, <1>3, <1>6
<1>7. ASSUME b >= a PROVE m = b
    BY <1>1, <1>3, <1>7
<1> QED
    BY <1>1, <1>4, <1>5, <1>6, <1>7 DEF a, b

Step == [x : Int, y : Int, error : Int]

\* The steps of a line: the first at p, and each the one after that before it.
LEMMA StepsFacts ==
    ASSUME NEW p \in Points, NEW q \in Points
    PROVE  LET s == LineSteps(p, q) IN
           /\ s[0] = [x |-> p[1], y |-> p[2], error |-> across(p, q) + -down(p, q)]
           /\ \A n \in 0..Far(p, q) : n # 0 => s[n] = After(p, q, s[n - 1])
<1> DEFINE first == [x |-> p[1], y |-> p[2], error |-> across(p, q) + -down(p, q)]
           next == [z \in Nat \X Step |-> After(p, q, z[2])]
           N == Far(p, q)
           s == LineSteps(p, q)
<1>1. first \in Step
    BY FarFacts DEF Step, Points
<1>2. \A n \in Nat, v \in Step : next[<<n, v>>] = After(p, q, v)
    OBVIOUS
<1>3. \A v \in Step : After(p, q, v) \in Step
    BY FarFacts DEF Step, After, right, below
<1>4. N \in Nat
    BY FarFacts
<1> HIDE DEF first, next, N
<1>5. \A n \in Nat, v \in Step : next[<<n, v>>] \in Step
    BY <1>2, <1>3
<1>6. PICK f : Stepwise(f, Step, first, next, N)
    BY <1>1, <1>4, <1>5, StepsExist
<1>7. f \in [0..N -> Step] /\ f[0] = first /\ \A n \in 1..N : f[n] = next[<<n, f[n - 1]>>]
    BY <1>6 DEF Stepwise
<1>8. \A n \in 0..N : f[n] = LineRule(p, q, f, n)
    <2> SUFFICES ASSUME NEW n \in 0..N PROVE f[n] = LineRule(p, q, f, n)
        OBVIOUS
    <2>1. CASE n = 0
        BY <1>7, <2>1 DEF LineRule, first
    <2>2. CASE n # 0
        <3>1. n \in 1..N /\ n \in Nat /\ n - 1 \in 0..N
            BY <1>4, <2>2
        <3>2. f[n - 1] \in Step
            BY <1>7, <3>1
        <3>3. f[n] = After(p, q, f[n - 1])
            BY <1>2, <1>7, <3>1, <3>2
        <3> QED
            BY <2>2, <3>3 DEF LineRule
    <2> QED
        BY <2>1, <2>2
<1>9. f = [n \in 0..N |-> LineRule(p, q, f, n)]
    <2> DEFINE G(n) == LineRule(p, q, f, n)
    <2>1. \A n \in 0..N : f[n] = G(n)
        BY <1>8
    <2>2. f = [n \in 0..N |-> f[n]]
        BY <1>7
    <2> HIDE DEF G
    <2>3. f = [n \in 0..N |-> G(n)]
        BY <2>1, <2>2
    <2> QED
        BY <2>3 DEF G
<1>10. s = [n \in 0..N |-> LineRule(p, q, s, n)]
    BY <1>9 DEF LineSteps, N
<1> HIDE DEF s
<1>11. \A n \in 0..N : s[n] = LineRule(p, q, s, n)
    BY <1>10
<1>12. s[0] = first
    <2>1. 0 \in 0..N
        BY <1>4
    <2> QED
        BY <1>11, <2>1 DEF LineRule, first
<1>13. \A n \in 0..N : n # 0 => s[n] = After(p, q, s[n - 1])
    BY <1>11 DEF LineRule
<1> QED
    BY <1>12, <1>13 DEF first, N, s

\* A point that lies n steps from p in the direction d.
Along(p, d, n) == <<p[1] + n * d[1], p[2] + n * d[2]>>
Directions == {-1, 0, 1} \X {-1, 0, 1} \ {<<0, 0>>}

\* A straight or a diagonal line is the points along it.
LEMMA StraightLine ==
    ASSUME NEW p \in Points, NEW d \in Directions, NEW n \in Nat \ {0}
    PROVE  linePoints(p, Along(p, d, n)) = [k \in 1..n + 1 |-> Along(p, d, k - 1)]
<1> DEFINE q == Along(p, d, n)
           s == LineSteps(p, q)
           a == across(p, q)
           b == down(p, q)
<1>1. d[1] \in {-1, 0, 1} /\ d[2] \in {-1, 0, 1} /\ (d[1] # 0 \/ d[2] # 0)
      /\ p[1] \in Int /\ p[2] \in Int
    BY DEF Directions, Points
<1>2. /\ d[1] = 0 => q[1] = p[1]
      /\ d[1] = 1 => q[1] = p[1] + n
      /\ d[1] = -1 => q[1] = p[1] - n
    BY <1>1 DEF Along
<1>3. /\ d[2] = 0 => q[2] = p[2]
      /\ d[2] = 1 => q[2] = p[2] + n
      /\ d[2] = -1 => q[2] = p[2] - n
    BY <1>1 DEF Along
<1>4. q \in Points
    BY <1>1 DEF Along, Points
<1> HIDE DEF q
<1>5. /\ (d[1] = 0 => a = 0) /\ (d[1] # 0 => a = n)
      /\ (d[2] = 0 => b = 0) /\ (d[2] # 0 => b = n)
    BY <1>1, <1>2, <1>3 DEF across, down, absolute
<1>6. Far(p, q) = n
    BY <1>1, <1>4, <1>5, FarFacts
<1>7. (d[1] # 0 => right(p, q) = d[1]) /\ (d[2] # 0 => below(p, q) = d[2])
    BY <1>1, <1>2, <1>3 DEF right, below
<1> DEFINE At(k) == k <= n => s[k] = [x |-> p[1] + k * d[1], y |-> p[2] + k * d[2], error |-> a - b]
           T == {k \in Nat : At(k)}
<1>8. s[0] = [x |-> p[1], y |-> p[2], error |-> a + -b]
      /\ \A k \in 0..n : k # 0 => s[k] = After(p, q, s[k - 1])
    BY <1>4, <1>6, StepsFacts
<1> HIDE DEF a, b, s
<1>9. a \in Nat /\ b \in Nat /\ a + -b = a - b
    BY <1>1, <1>5
<1>10. At(0)
    <2>1. p[1] + 0 * d[1] = p[1] /\ p[2] + 0 * d[2] = p[2]
        BY <1>1
    <2> QED
        BY <1>8, <1>9, <2>1
<1>11. ASSUME NEW k \in Nat, At(k), k + 1 <= n PROVE At(k + 1)
    <2> DEFINE x == p[1] + k * d[1]
               y == p[2] + k * d[2]
    <2>1. s[k] = [x |-> x, y |-> y, error |-> a - b]
        BY <1>11
    <2>2. s[k + 1] = After(p, q, s[k])
        BY <1>8, <1>11
    <2>3. p[1] + (k + 1) * d[1] = x + d[1] /\ p[2] + (k + 1) * d[2] = y + d[2]
        BY <1>1
    <2>4. x \in Int /\ y \in Int
        BY <1>1
    <2> HIDE DEF x, y
    <2>5. After(p, q, s[k]) = [x |-> IF 2 * (a - b) >= -b THEN x + right(p, q) ELSE x,
                               y |-> IF 2 * (a - b) <= a THEN y + below(p, q) ELSE y,
                               error |-> a - b + (IF 2 * (a - b) >= -b THEN -b ELSE 0)
                                               + (IF 2 * (a - b) <= a THEN a ELSE 0)]
        BY <2>1 DEF After, a, b
    <2>6. CASE d[1] # 0 /\ d[2] # 0
        <3>1. a = n /\ b = n
            BY <1>5, <2>6
        <3> QED
            BY <1>7, <2>2, <2>3, <2>4, <2>5, <2>6, <3>1
    <2>7. CASE d[1] # 0 /\ d[2] = 0
        <3>1. a = n /\ b = 0
            BY <1>5, <2>7
        <3>2. x + right(p, q) = x + d[1] /\ y = y + d[2]
            BY <1>7, <2>4, <2>7
        <3>3. 2 * (a - b) >= -b /\ ~ (2 * (a - b) <= a)
            BY <3>1
        <3>4. a - b + -b + 0 = a - b
            BY <3>1
        <3> QED
            BY <2>2, <2>3, <2>5, <3>2, <3>3, <3>4
    <2>8. CASE d[1] = 0 /\ d[2] # 0
        <3>1. a = 0 /\ b = n
            BY <1>5, <2>8
        <3>2. y + below(p, q) = y + d[2] /\ x = x + d[1]
            BY <1>7, <2>4, <2>8
        <3>3. ~ (2 * (a - b) >= -b) /\ 2 * (a - b) <= a
            BY <3>1
        <3>4. a - b + 0 + a = a - b
            BY <3>1
        <3> QED
            BY <2>2, <2>3, <2>5, <3>2, <3>3, <3>4
    <2> QED
        BY <1>1, <2>6, <2>7, <2>8
<1>12. \A k \in Nat : At(k)
    <2>1. 0 \in T
        BY <1>10
    <2>2. ASSUME NEW k \in T PROVE k + 1 \in T
        <3>1. k \in Nat /\ At(k)
            OBVIOUS
        <3>2. CASE k + 1 <= n
            BY <1>11, <3>1, <3>2
        <3>3. CASE ~ (k + 1 <= n)
            BY <3>1, <3>3
        <3> QED
            BY <3>2, <3>3
    <2>3. T \subseteq Nat
        OBVIOUS
    <2>4. T = Nat
        <3> HIDE DEF T
        <3> QED
            BY <2>1, <2>2, <2>3, SetInduction
    <2> QED
        BY <2>4
<1>13. linePoints(p, q) = [k \in 1..n + 1 |-> <<s[k - 1].x, s[k - 1].y>>]
    BY <1>6, LineIs DEF s
<1>14. \A k \in 1..n + 1 : <<s[k - 1].x, s[k - 1].y>> = Along(p, d, k - 1)
    <2> SUFFICES ASSUME NEW k \in 1..n + 1 PROVE <<s[k - 1].x, s[k - 1].y>> = Along(p, d, k - 1)
        OBVIOUS
    <2>1. k - 1 \in Nat /\ k - 1 <= n
        OBVIOUS
    <2> DEFINE j == k - 1
    <2> HIDE DEF j
    <2>2. j \in Nat /\ j <= n
        BY <2>1 DEF j
    <2>3. At(j)
        BY <1>12, <2>2
    <2>4. s[j] = [x |-> p[1] + j * d[1], y |-> p[2] + j * d[2], error |-> a - b]
        BY <2>2, <2>3
    <2>5. s[j].x = p[1] + j * d[1] /\ s[j].y = p[2] + j * d[2]
        BY <2>4
    <2> QED
        BY <2>5 DEF Along, j
<1> HIDE DEF At, T
<1> QED
    BY <1>13, <1>14 DEF q

\* The steps of a line on which there are a columns and b rows to cross: x and y of them have
\* been crossed after k steps, and e is the error.
Balance(a, b, k, x, y, e) ==
    /\ x \in Nat /\ y \in Nat /\ e \in Int /\ y <= k
    /\ e = a - b - x * b + y * a
    /\ a >= b => x = k /\ -b <= 2 * e /\ 2 * e <= 3 * a - 2 * b
    /\ b > a => y = k /\ 2 * e <= a /\ 2 * a - 3 * b <= 2 * e

\* A step keeps the balance.
LEMMA BalanceKept ==
    ASSUME NEW a \in Nat, NEW b \in Nat, NEW k \in Nat, NEW x, NEW y, NEW e,
           Balance(a, b, k, x, y, e)
    PROVE  Balance(a, b, k + 1,
                   IF 2 * e >= -b THEN x + 1 ELSE x,
                   IF 2 * e <= a THEN y + 1 ELSE y,
                   e + (IF 2 * e >= -b THEN -b ELSE 0) + (IF 2 * e <= a THEN a ELSE 0))
<1> DEFINE u == x * b
           v == y * a
<1>1. x \in Nat /\ y \in Nat /\ e \in Int /\ y <= k
    BY DEF Balance
<1>2. u \in Nat /\ v \in Nat /\ (x + 1) * b = u + b /\ (y + 1) * a = v + a
    BY <1>1
<1>3. e = a - b - u + v
    BY DEF Balance
<1>4. a >= b => x = k /\ -b <= 2 * e /\ 2 * e <= 3 * a - 2 * b
    BY DEF Balance
<1>5. b > a => y = k /\ 2 * e <= a /\ 2 * a - 3 * b <= 2 * e
    BY DEF Balance
<1> DEFINE x1 == IF 2 * e >= -b THEN x + 1 ELSE x
           y1 == IF 2 * e <= a THEN y + 1 ELSE y
           e1 == e + (IF 2 * e >= -b THEN -b ELSE 0) + (IF 2 * e <= a THEN a ELSE 0)
           u1 == IF 2 * e >= -b THEN u + b ELSE u
           v1 == IF 2 * e <= a THEN v + a ELSE v
<1>6. x1 * b = u1 /\ y1 * a = v1
    BY <1>2
<1> HIDE DEF u, v
<1>7. x1 \in Nat /\ y1 \in Nat /\ e1 \in Int /\ y1 <= k + 1
    BY <1>1
<1>8. e1 = a - b - u1 + v1
    BY <1>1, <1>2, <1>3
<1>9. a >= b => x1 = k + 1 /\ -b <= 2 * e1 /\ 2 * e1 <= 3 * a - 2 * b
    BY <1>1, <1>4
<1>10. b > a => y1 = k + 1 /\ 2 * e1 <= a /\ 2 * a - 3 * b <= 2 * e1
    BY <1>1, <1>5
<1> HIDE DEF x1, y1, e1, u1, v1
<1>11. Balance(a, b, k + 1, x1, y1, e1)
    BY <1>6, <1>7, <1>8, <1>9, <1>10 DEF Balance
<1> QED
    BY <1>11 DEF x1, y1, e1

\* At the end of the longer side both are crossed.
LEMMA BalanceAtEnd ==
    ASSUME NEW a \in Nat, NEW b \in Nat, NEW n \in Nat, NEW x, NEW y, NEW e,
           a >= b => n = a, b > a => n = b, Balance(a, b, n, x, y, e)
    PROVE  x = a /\ y = b
<1>1. x \in Nat /\ y \in Nat /\ e \in Int /\ e = a - b - x * b + y * a
    BY DEF Balance
<1>2. CASE a >= b
    <2>1. x = a /\ -b <= 2 * e /\ 2 * e <= 3 * a - 2 * b
        BY <1>2 DEF Balance
    <2> DEFINE z == y - b
               w == z * a
    <2>2. z \in Int /\ w \in Int
        BY <1>1
    <2>3. w = y * a - b * a
        BY <1>1
    <2>4. a * b = b * a
        OBVIOUS
    <2>5. e = a - b + w
        BY <1>1, <2>1, <2>3, <2>4
    <2>6. (z >= 1 => w >= a) /\ (z <= -1 => w <= -a)
        <3>1. ASSUME z >= 1 PROVE w >= a
            BY <2>2, <3>1
        <3>2. ASSUME z <= -1 PROVE w <= -a
            BY <2>2, <3>2
        <3> QED
            BY <3>1, <3>2
    <2>7. CASE a = 0
        BY <1>1, <1>2, <2>1, <2>7 DEF Balance
    <2>8. CASE a # 0
        <3> HIDE DEF w
        <3>1. 2 * w <= a /\ b - 2 * a <= 2 * w
            BY <2>1, <2>2, <2>5
        <3>2. ~ (z >= 1)
            BY <2>2, <2>6, <2>8, <3>1
        <3>3. CASE z <= -1
            <4>1. b = 0
                BY <2>2, <2>6, <3>1, <3>3
            <4>2. y <= -1
                BY <1>1, <3>3, <4>1
            <4> QED
                BY <1>1, <4>2
        <3>4. CASE z = 0
            BY <1>1, <2>1, <3>4
        <3> QED
            BY <2>2, <3>2, <3>3, <3>4
    <2> QED
        BY <2>7, <2>8
<1>3. CASE b > a
    <2>1. y = b /\ 2 * e <= a /\ 2 * a - 3 * b <= 2 * e
        BY <1>3 DEF Balance
    <2> DEFINE z == x - a
               w == z * b
    <2>2. z \in Int /\ w \in Int
        BY <1>1
    <2>3. w = x * b - a * b
        BY <1>1
    <2>4. a * b = b * a
        OBVIOUS
    <2>5. e = a - b - w
        BY <1>1, <2>1, <2>3, <2>4
    <2>6. (z >= 1 => w >= b) /\ (z <= -1 => w <= -b)
        <3>1. ASSUME z >= 1 PROVE w >= b
            BY <2>2, <3>1
        <3>2. ASSUME z <= -1 PROVE w <= -b
            BY <2>2, <3>2
        <3> QED
            BY <3>1, <3>2
    <2> HIDE DEF w
    <2>7. a - 2 * b <= 2 * w /\ 2 * w <= b
        BY <2>1, <2>2, <2>5
    <2>8. ~ (z >= 1)
        BY <1>3, <2>2, <2>6, <2>7
    <2>9. CASE z <= -1
        <3>1. a = 0
            BY <2>2, <2>6, <2>7, <2>9
        <3>2. x <= -1
            BY <1>1, <2>9, <3>1
        <3> QED
            BY <1>1, <3>2
    <2>10. CASE z = 0
        BY <1>1, <2>1, <2>10
    <2> QED
        BY <2>2, <2>8, <2>9, <2>10
<1> QED
    BY <1>2, <1>3

\* A line starts at the one point and ends at the other.
LEMMA LineEnds ==
    ASSUME NEW p \in Points, NEW q \in Points
    PROVE  /\ linePoints(p, q)[1] = p
           /\ linePoints(p, q)[Far(p, q) + 1] = q
           /\ DOMAIN linePoints(p, q) = 1..Far(p, q) + 1
<1> DEFINE a == across(p, q)
           b == down(p, q)
           n == Far(p, q)
           s == LineSteps(p, q)
           r == right(p, q)
           l == below(p, q)
           Is(k, x, y) == /\ s[k].x = p[1] + x * r /\ s[k].y = p[2] + y * l
                          /\ Balance(a, b, k, x, y, s[k].error)
           At(k) == k <= n => \E x, y : Is(k, x, y)
           T == {k \in Nat : At(k)}
<1>1. a \in Nat /\ b \in Nat /\ n \in Nat /\ (a >= b => n = a) /\ (b > a => n = b)
    BY FarFacts
<1>2. p = <<p[1], p[2]>> /\ q = <<q[1], q[2]>>
      /\ p[1] \in Int /\ p[2] \in Int /\ q[1] \in Int /\ q[2] \in Int
    BY DEF Points
<1>3. r \in {1, -1} /\ l \in {1, -1}
    BY DEF right, below
<1>4. p[1] + a * r = q[1]
    <2>1. CASE p[1] < q[1]
        <3>1. a = q[1] - p[1] /\ r = 1
            BY <1>2, <2>1 DEF across, absolute, right
        <3> HIDE DEF a, r
        <3> QED
            BY <1>2, <3>1
    <2>2. CASE ~ (p[1] < q[1])
        <3>1. a = p[1] - q[1] /\ r = -1
            BY <1>2, <2>2 DEF across, absolute, right
        <3> HIDE DEF a, r
        <3> QED
            BY <1>2, <3>1
    <2> QED
        BY <2>1, <2>2
<1>5. p[2] + b * l = q[2]
    <2>1. CASE p[2] < q[2]
        <3>1. b = q[2] - p[2] /\ l = 1
            BY <1>2, <2>1 DEF down, absolute, below
        <3> HIDE DEF b, l
        <3> QED
            BY <1>2, <3>1
    <2>2. CASE ~ (p[2] < q[2])
        <3>1. b = p[2] - q[2] /\ l = -1
            BY <1>2, <2>2 DEF down, absolute, below
        <3> HIDE DEF b, l
        <3> QED
            BY <1>2, <3>1
    <2> QED
        BY <2>1, <2>2
<1>6. s[0] = [x |-> p[1], y |-> p[2], error |-> a + -b]
      /\ \A k \in 0..n : k # 0 => s[k] = After(p, q, s[k - 1])
    BY StepsFacts
<1>7. \A v : After(p, q, v) =
        [x |-> IF 2 * v.error >= -b THEN v.x + r ELSE v.x,
         y |-> IF 2 * v.error <= a THEN v.y + l ELSE v.y,
         error |-> v.error + (IF 2 * v.error >= -b THEN -b ELSE 0)
                           + (IF 2 * v.error <= a THEN a ELSE 0)]
    BY DEF After
<1>8. linePoints(p, q) = [k \in 1..n + 1 |-> <<s[k - 1].x, s[k - 1].y>>]
    BY LineIs
<1> HIDE DEF a, b, n, s, r, l
<1>9. Is(0, 0, 0)
    <2>1. s[0].x = p[1] + 0 * r /\ s[0].y = p[2] + 0 * l
        BY <1>2, <1>3, <1>6
    <2>2. s[0].error = a - b - 0 * b + 0 * a /\ s[0].error = a - b
        BY <1>1, <1>6
    <2>3. Balance(a, b, 0, 0, 0, s[0].error)
        BY <1>1, <2>2 DEF Balance
    <2> QED
        BY <2>1, <2>3
<1>10. ASSUME NEW k \in Nat, k + 1 <= n, NEW x, NEW y, Is(k, x, y)
       PROVE  \E x1, y1 : Is(k + 1, x1, y1)
    <2> DEFINE e == s[k].error
               x1 == IF 2 * e >= -b THEN x + 1 ELSE x
               y1 == IF 2 * e <= a THEN y + 1 ELSE y
               e1 == e + (IF 2 * e >= -b THEN -b ELSE 0) + (IF 2 * e <= a THEN a ELSE 0)
    <2>1. Balance(a, b, k, x, y, e)
        BY <1>10
    <2>2. Balance(a, b, k + 1, x1, y1, e1)
        BY <1>1, <2>1, BalanceKept
    <2>3. s[k + 1] = After(p, q, s[k])
        BY <1>6, <1>10
    <2>4. x \in Nat /\ y \in Nat
        BY <2>1 DEF Balance
    <2>5. s[k].x = p[1] + x * r /\ s[k].y = p[2] + y * l
        BY <1>10
    <2>6. (x + 1) * r = x * r + r /\ (y + 1) * l = y * l + l
        BY <1>3, <2>4
    <2>7. x * r \in Int /\ y * l \in Int /\ r \in Int /\ l \in Int
        BY <1>3, <2>4
    <2>8. s[k + 1] = [x |-> IF 2 * e >= -b THEN s[k].x + r ELSE s[k].x,
                      y |-> IF 2 * e <= a THEN s[k].y + l ELSE s[k].y,
                      error |-> e1]
        BY <1>7, <2>3
    <2>9. s[k + 1].x = p[1] + x1 * r
        <3>1. CASE 2 * e >= -b
            BY <1>2, <2>5, <2>6, <2>7, <2>8, <3>1
        <3>2. CASE ~ (2 * e >= -b)
            BY <2>5, <2>8, <3>2
        <3> QED
            BY <3>1, <3>2
    <2>10. s[k + 1].y = p[2] + y1 * l
        <3>1. CASE 2 * e <= a
            BY <1>2, <2>5, <2>6, <2>7, <2>8, <3>1
        <3>2. CASE ~ (2 * e <= a)
            BY <2>5, <2>8, <3>2
        <3> QED
            BY <3>1, <3>2
    <2>11. s[k + 1].error = e1
        BY <2>8
    <2> HIDE DEF x1, y1, e1
    <2>12. Is(k + 1, x1, y1)
        BY <2>2, <2>9, <2>10, <2>11
    <2> QED
        BY <2>12
<1> HIDE DEF Is
<1>11. T = Nat
    <2>1. 0 \in T
        BY <1>9
    <2>2. ASSUME NEW k \in T PROVE k + 1 \in T
        <3>1. k \in Nat /\ At(k)
            OBVIOUS
        <3>2. CASE k + 1 <= n
            <4>1. k <= n
                BY <1>1, <3>1, <3>2
            <4>2. PICK x, y : Is(k, x, y)
                BY <3>1, <4>1
            <4>3. \E x1, y1 : Is(k + 1, x1, y1)
                BY <1>10, <3>1, <3>2, <4>2
            <4> QED
                BY <3>1, <4>3
        <3>3. CASE ~ (k + 1 <= n)
            BY <3>1, <3>3
        <3> QED
            BY <3>2, <3>3
    <2>3. T \subseteq Nat
        OBVIOUS
    <2> HIDE DEF T
    <2> QED
        BY <2>1, <2>2, <2>3, SetInduction
<1>12. PICK x, y : Is(n, x, y)
    <2>1. At(n)
        BY <1>1, <1>11
    <2> QED
        BY <1>1, <2>1
<1>13. x = a /\ y = b
    BY <1>1, <1>12, BalanceAtEnd DEF Is
<1>14. <<s[n].x, s[n].y>> = q
    BY <1>2, <1>4, <1>5, <1>12, <1>13 DEF Is
<1>15. linePoints(p, q)[1] = <<s[0].x, s[0].y>>
    BY <1>1, <1>8
<1>16. linePoints(p, q)[n + 1] = <<s[n].x, s[n].y>>
    BY <1>1, <1>8
<1>17. <<s[0].x, s[0].y>> = p
    BY <1>2, <1>6
<1>18. DOMAIN linePoints(p, q) = 1..n + 1
    BY <1>8
<1> QED
    BY <1>14, <1>15, <1>16, <1>17, <1>18 DEF n

-----------------------------------------------------------------------------
(* The pixel a search starts or ends at *)

\* What Min picks from a set of natural numbers.
LEMMA LeastOf ==
    ASSUME NEW S, S \subseteq Nat, S # {}
    PROVE  Min(S) \in S /\ \A n \in S : Min(S) <= n
BY LeastNumber DEF Min

\* Of some pixels, one is the first by rows.
LEMMA FirstByRows ==
    ASSUME NEW S, S \subseteq Nat \X Nat, S # {}
    PROVE  \E q \in S : \A r \in S : q[2] < r[2] \/ (q[2] = r[2] /\ q[1] <= r[1])
<1> DEFINE rows == {q[2] : q \in S}
<1>1. rows \subseteq Nat /\ rows # {}
    OBVIOUS
<1> HIDE DEF rows
<1>2. PICK y \in rows : \A z \in rows : y <= z
    BY <1>1, LeastNumber
<1> DEFINE columns == {q[1] : q \in {q \in S : q[2] = y}}
<1>3. columns \subseteq Nat /\ columns # {}
    BY <1>2 DEF rows
<1> HIDE DEF columns
<1>4. PICK x \in columns : \A z \in columns : x <= z
    BY <1>3, LeastNumber
<1>5. PICK q \in S : q[2] = y /\ q[1] = x
    BY <1>4 DEF columns
<1>6. ASSUME NEW r \in S PROVE q[2] < r[2] \/ (q[2] = r[2] /\ q[1] <= r[1])
    <2>1. r[2] \in rows /\ y <= r[2] /\ r[2] \in Nat /\ y \in Nat
        BY <1>1, <1>2 DEF rows
    <2>2. CASE r[2] = y
        <3>1. r[1] \in columns
            BY <2>2 DEF columns
        <3> QED
            BY <1>4, <1>5, <2>2, <3>1
    <2>3. CASE r[2] # y
        BY <1>5, <2>1, <2>3
    <2> QED
        BY <2>2, <2>3
<1> QED
    BY <1>5, <1>6

\* A pixel of the floor is the nearest to itself, and if any is found it is one of the floor.
LEMMA NearestFacts ==
    ASSUME floor \subseteq Pixels, NEW p \in Points
    PROVE  /\ p \in floor => nearestTraversablePoint(p) = p
           /\ nearestTraversablePoint(p) \in floor \cup {None}
<1> DEFINE around(r) == {q \in floor : /\ absolute(q[1] - p[1]) <= r
                                       /\ absolute(q[2] - p[2]) <= r}
           near == {r \in 0..3 : around(r) # {}}
           before(q, r) == q[2] < r[2] \/ (q[2] = r[2] /\ q[1] <= r[1])
           first(S) == CHOOSE q \in S : \A r \in S : before(q, r)
<1>1. nearestTraversablePoint(p) = IF near = {} THEN None ELSE first(around(Min(near)))
    BY DEF nearestTraversablePoint
<1>2. floor \subseteq Nat \X Nat
    BY SizeAssumption DEF SizeAssumption, Pixels
<1>3. ASSUME NEW S, S \subseteq floor, S # {} PROVE first(S) \in S
    <2>1. \E q \in S : \A r \in S : before(q, r)
        BY <1>2, <1>3, FirstByRows
    <2> QED
        BY <2>1
<1>4. near # {} => Min(near) \in near /\ \A r \in near : Min(near) <= r
    <2>1. near \subseteq Nat
        OBVIOUS
    <2> HIDE DEF near
    <2> QED
        BY <2>1, LeastOf
<1>5. nearestTraversablePoint(p) \in floor \cup {None}
    <2>1. CASE near = {}
        BY <1>1, <2>1
    <2>2. CASE near # {}
        <3> DEFINE S == around(Min(near))
        <3>1. S # {} /\ S \subseteq floor
            BY <1>4, <2>2
        <3> HIDE DEF S, first
        <3>2. first(S) \in floor
            BY <1>3, <3>1
        <3> QED
            BY <1>1, <2>2, <3>2 DEF S
    <2> QED
        BY <2>1, <2>2
<1>6. ASSUME p \in floor PROVE nearestTraversablePoint(p) = p
    <2>1. p[1] \in Int /\ p[2] \in Int /\ p = <<p[1], p[2]>>
        BY DEF Points
    <2>2. around(0) = {p}
        <3>1. absolute(p[1] - p[1]) = 0 /\ absolute(p[2] - p[2]) = 0
            BY <2>1 DEF absolute
        <3>2. ASSUME NEW q \in around(0) PROVE q = p
            <4>1. q = <<q[1], q[2]>> /\ q[1] \in Int /\ q[2] \in Int
                BY <1>2
            <4>2. q[1] = p[1] /\ q[2] = p[2]
                BY <2>1, <4>1 DEF absolute
            <4> QED
                BY <2>1, <4>1, <4>2
        <3> QED
            BY <1>6, <3>1, <3>2
    <2>3. 0 \in near
        BY <2>2
    <2>4. Min(near) = 0
        <3>1. Min(near) \in 0..3 /\ Min(near) <= 0
            BY <1>4, <2>3
        <3> QED
            BY <3>1
    <2>5. nearestTraversablePoint(p) = first(around(0))
        <3> HIDE DEF near, first, around
        <3> QED
            BY <1>1, <2>3, <2>4
    <2>6. first({p}) \in {p}
        <3> HIDE DEF first
        <3> QED
            BY <1>3, <1>6
    <2> HIDE DEF first, around
    <2> QED
        BY <2>2, <2>5, <2>6
<1> QED
    BY <1>5, <1>6

-----------------------------------------------------------------------------
(* The corners of a path *)

\* A neighbour is one step away, in the direction to it.
LEMMA OneStep ==
    ASSUME NEW p \in Points, NEW q \in Points, distanceSquared(q, p) \in {1, 2}
    PROVE  direction(p, q) \in Directions /\ q = Along(p, direction(p, q), 1)
<1> DEFINE x == q[1] - p[1]
           y == q[2] - p[2]
<1>1. p[1] \in Int /\ p[2] \in Int /\ q[1] \in Int /\ q[2] \in Int /\ q = <<q[1], q[2]>>
    BY DEF Points
<1>2. x \in Int /\ y \in Int
    BY <1>1
<1>3. x * x + y * y \in {1, 2}
    BY DEF distanceSquared
<1>4. direction(p, q) = <<sign(x), sign(y)>>
    BY DEF direction
<1>5. q[1] = p[1] + x /\ q[2] = p[2] + y
    BY <1>1
<1> HIDE DEF x, y
<1>6. \A n \in Int : (n >= 2 => n * n >= 4) /\ (n <= -2 => n * n >= 4) /\ n * n >= 0
    OBVIOUS
<1>7. x \in {-1, 0, 1} /\ y \in {-1, 0, 1}
    <2> DEFINE u == x * x
               v == y * y
    <2>1. u \in Int /\ v \in Int /\ u >= 0 /\ v >= 0 /\ u + v <= 2
        BY <1>2, <1>3, <1>6
    <2>2. (x >= 2 => u >= 4) /\ (x <= -2 => u >= 4) /\ (y >= 2 => v >= 4) /\ (y <= -2 => v >= 4)
        BY <1>2, <1>6
    <2> HIDE DEF u, v
    <2> QED
        BY <1>2, <2>1, <2>2
<1>8. x # 0 \/ y # 0
    BY <1>3
<1>9. sign(x) = x /\ sign(y) = y
    BY <1>7 DEF sign
<1>10. <<x, y>> \in Directions
    BY <1>7, <1>8 DEF Directions
<1> QED
    BY <1>1, <1>2, <1>4, <1>5, <1>9, <1>10 DEF Along

\* Points of the floor, each a neighbour of the one before.
Walk(points) ==
    /\ points \in Seq(Points) /\ Len(points) >= 1
    /\ \A i \in 1..Len(points) : points[i] \in floor
    /\ \A i \in 1..Len(points) - 1 : distanceSquared(points[i + 1], points[i]) \in {1, 2}

\* The points of a stretch of a walk in one direction.
LEMMA StretchGoes ==
    ASSUME NEW points, Walk(points), NEW m \in 1..Len(points), NEW i \in 1..Len(points), m < i,
           \A j \in m..i - 1 : direction(points[j], points[j + 1])
                                   = direction(points[m], points[m + 1])
    PROVE  LET d == direction(points[m], points[m + 1]) IN
           /\ d \in Directions /\ points[m] \in Points
           /\ \A k \in 0..i - m : /\ m + k \in 1..Len(points)
                                  /\ points[m + k] = Along(points[m], d, k)
<1> DEFINE d == direction(points[m], points[m + 1])
           p == points[m]
           At(k) == m + k <= i => points[m + k] = Along(p, d, k)
           T == {k \in Nat : At(k)}
<1>1. Len(points) \in Nat /\ m \in Nat /\ i \in Nat /\ i <= Len(points) /\ m >= 1
    BY DEF Walk
<1>2. \A j \in 1..Len(points) : points[j] \in Points /\ points[j] \in floor
    BY DEF Walk
<1>3. \A j \in m..i - 1 : j \in 1..Len(points) - 1 /\ j \in 1..Len(points) /\ j + 1 \in 1..Len(points)
    BY <1>1
<1>4. ASSUME NEW j \in m..i - 1
      PROVE  d \in Directions /\ points[j + 1] = Along(points[j], d, 1)
    <2>1. points[j] \in Points /\ points[j + 1] \in Points
        BY <1>2, <1>3
    <2>2. distanceSquared(points[j + 1], points[j]) \in {1, 2}
        BY <1>3 DEF Walk
    <2>3. direction(points[j], points[j + 1]) = d
        OBVIOUS
    <2> HIDE DEF d
    <2> QED
        BY <2>1, <2>2, <2>3, OneStep
<1>5. d \in Directions
    <2>1. m \in m..i - 1
        BY <1>1
    <2> QED
        BY <1>4, <2>1
<1>6. p \in Points
    BY <1>2
<1> HIDE DEF d, p
<1>7. p[1] \in Int /\ p[2] \in Int /\ p = <<p[1], p[2]>> /\ d[1] \in Int /\ d[2] \in Int
    BY <1>5, <1>6 DEF Points, Directions
<1>8. T = Nat
    <2>1. 0 \in T
        <3>1. Along(p, d, 0) = <<p[1], p[2]>>
            BY <1>7 DEF Along
        <3>2. m + 0 = m
            BY <1>1
        <3> QED
            BY <1>7, <3>1, <3>2 DEF p
    <2>2. ASSUME NEW k \in T PROVE k + 1 \in T
        <3>1. k \in Nat /\ At(k)
            OBVIOUS
        <3>2. CASE m + (k + 1) <= i
            <4>1. m + k \in m..i - 1 /\ m + k <= i /\ m + k + 1 = m + (k + 1)
                BY <1>1, <3>1, <3>2
            <4>2. points[m + k] = Along(p, d, k)
                BY <3>1, <4>1
            <4>3. points[m + (k + 1)] = Along(Along(p, d, k), d, 1)
                BY <1>4, <4>1, <4>2
            <4>4. Along(Along(p, d, k), d, 1) = Along(p, d, k + 1)
                <5>1. \A x, y \in Int : x + k * y + 1 * y = x + (k + 1) * y
                    BY <3>1
                <5> QED
                    BY <1>7, <5>1 DEF Along
            <4> QED
                BY <3>1, <4>3, <4>4
        <3>3. CASE ~ (m + (k + 1) <= i)
            BY <3>1, <3>3
        <3> QED
            BY <3>2, <3>3
    <2>3. T \subseteq Nat
        OBVIOUS
    <2> HIDE DEF T
    <2> QED
        BY <2>1, <2>2, <2>3, SetInduction
<1>9. \A k \in 0..i - m : points[m + k] = Along(p, d, k) /\ m + k \in 1..Len(points)
    <2> SUFFICES ASSUME NEW k \in 0..i - m
                 PROVE  points[m + k] = Along(p, d, k) /\ m + k \in 1..Len(points)
        OBVIOUS
    <2>1. k \in Nat /\ m + k <= i /\ m + k \in 1..Len(points)
        BY <1>1
    <2> QED
        BY <1>8, <2>1
<1> QED
    BY <1>5, <1>6, <1>9 DEF d, p

\* The line along such a stretch stays on the floor.
LEMMA StretchIsClear ==
    ASSUME NEW points, Walk(points), NEW m \in 1..Len(points), NEW i \in 1..Len(points), m < i,
           \A j \in m..i - 1 : direction(points[j], points[j + 1])
                                   = direction(points[m], points[m + 1])
    PROVE  ToSet(linePoints(points[m], points[i])) \subseteq floor
<1> DEFINE d == direction(points[m], points[m + 1])
           p == points[m]
           n == i - m
           line == linePoints(p, points[i])
<1>1. m \in Nat /\ i \in Nat /\ n \in Nat \ {0} /\ m + n = i
    BY DEF Walk
<1>2. \A j \in 1..Len(points) : points[j] \in floor
    BY DEF Walk
<1>3. d \in Directions /\ p \in Points
      /\ \A k \in 0..n : points[m + k] = Along(p, d, k) /\ m + k \in 1..Len(points)
    BY StretchGoes
<1> HIDE DEF d, p
<1>4. points[i] = Along(p, d, n)
    BY <1>1, <1>3
<1> HIDE DEF n
<1>5. line = [k \in 1..n + 1 |-> Along(p, d, k - 1)]
    BY <1>1, <1>3, <1>4, StraightLine
<1> HIDE DEF line
<1>6. ASSUME NEW k \in DOMAIN line PROVE line[k] \in floor
    <2>1. k - 1 \in 0..n
        BY <1>1, <1>5
    <2>2. line[k] = points[m + (k - 1)]
        BY <1>3, <1>5, <2>1
    <2> QED
        BY <1>2, <1>3, <2>1, <2>2
<1> QED
    BY <1>6 DEF ToSet, line, p

-----------------------------------------------------------------------------
(* The length of a route *)

\* What a step in a direction costs.
Price(d) == IF d[1] = 0 \/ d[2] = 0 THEN Straight ELSE Diagonal

\* The cost of a step is that of its direction.
LEMMA CostIs ==
    ASSUME NEW p, NEW q
    PROVE  cost(p, q) = Price(direction(p, q))
<1> DEFINE d == direction(p, q)
<1>1. d = <<d[1], d[2]>>
    BY DEF direction
<1> HIDE DEF d
<1>2. ToSet(d) = {d[1], d[2]}
    BY <1>1 DEF ToSet
<1>3. 0 \in ToSet(d) <=> d[1] = 0 \/ d[2] = 0
    BY <1>2
<1> QED
    BY <1>3 DEF cost, Price, d

\* It is that of a straight or of a diagonal step.
LEMMA PriceType == \A d : Price(d) \in {1000, 1415}
BY DEF Price, Straight, Diagonal

\* A leg costs as much as its columns or its rows, whichever are more.
LEMMA LegType ==
    ASSUME NEW p \in Points, NEW q \in Points
    PROVE  leg(p, q) = Far(p, q) * cost(p, q) /\ leg(p, q) \in Nat
<1> DEFINE m == Far(p, q)
           c == cost(p, q)
<1>1. m \in Nat /\ down(p, q) \in Nat
    BY FarFacts
<1>2. c \in Nat
    BY CostIs, PriceType
<1>3. -(-down(p, q)) = down(p, q)
    BY <1>1
<1>4. Max({absolute(q[1] - p[1]), absolute(q[2] - p[2])}) = m
    BY <1>3 DEF Far, across, down
<1> HIDE DEF m, c
<1>5. leg(p, q) = m * c
    BY <1>4 DEF leg, c
<1>6. m * c \in Nat
    BY <1>1, <1>2
<1> QED
    BY <1>5, <1>6 DEF m, c

\* The length of a leg is a number.
LEMMA LegIsInt == \A p, q \in Points : leg(p, q) \in Int
<1> SUFFICES ASSUME NEW p \in Points, NEW q \in Points PROVE leg(p, q) \in Int
    OBVIOUS
<1>1. leg(p, q) \in Nat
    BY LegType
<1> QED
    BY <1>1

\* A leg along a direction has the length of its steps.
LEMMA LegAlong ==
    ASSUME NEW p \in Points, NEW d \in Directions, NEW n \in Nat \ {0}
    PROVE  leg(p, Along(p, d, n)) = n * Price(d)
<1> DEFINE q == Along(p, d, n)
<1>1. d[1] \in {-1, 0, 1} /\ d[2] \in {-1, 0, 1} /\ (d[1] # 0 \/ d[2] # 0)
      /\ p[1] \in Int /\ p[2] \in Int /\ d = <<d[1], d[2]>>
    BY DEF Directions, Points
<1>2. /\ d[1] = 0 => q[1] - p[1] = 0
      /\ d[1] = 1 => q[1] - p[1] = n
      /\ d[1] = -1 => q[1] - p[1] = -n
    BY <1>1 DEF Along
<1>3. /\ d[2] = 0 => q[2] - p[2] = 0
      /\ d[2] = 1 => q[2] - p[2] = n
      /\ d[2] = -1 => q[2] - p[2] = -n
    BY <1>1 DEF Along
<1>4. q \in Points
    BY <1>1 DEF Along, Points
<1> HIDE DEF q
<1>5. sign(q[1] - p[1]) = d[1] /\ sign(q[2] - p[2]) = d[2]
    BY <1>1, <1>2, <1>3 DEF sign
<1>6. direction(p, q) = d
    BY <1>1, <1>5 DEF direction
<1>7. /\ (d[1] = 0 => across(p, q) = 0) /\ (d[1] # 0 => across(p, q) = n)
      /\ (d[2] = 0 => down(p, q) = 0) /\ (d[2] # 0 => down(p, q) = n)
    BY <1>1, <1>2, <1>3 DEF across, down, absolute
<1>8. Far(p, q) = n
    BY <1>1, <1>4, <1>7, FarFacts
<1> QED
    BY <1>4, <1>6, <1>8, LegType, CostIs DEF q

UpToRule(r, f, k) == IF k = 1 THEN 0 ELSE f[k - 1] + leg(r[k - 1], r[k])
UpTo(r) == CHOOSE f : f = [k \in 1..Len(r) |-> UpToRule(r, f, k)]

\* The length of a route is that up to its last point.
LEMMA LengthIs ==
    ASSUME NEW r
    PROVE  length(r) = UpTo(r)[Len(r)]
BY DEF length, UpTo, UpToRule

\* It grows from corner to corner by the legs.
LEMMA UpToFacts ==
    ASSUME NEW r \in Seq(Points), Len(r) >= 1
    PROVE  /\ UpTo(r)[1] = 0
           /\ \A k \in 2..Len(r) : UpTo(r)[k] = UpTo(r)[k - 1] + leg(r[k - 1], r[k])
           /\ \A k \in 1..Len(r) : UpTo(r)[k] \in Int
<1> DEFINE next == [z \in Nat \X Int |-> IF z[1] + 1 \in 2..Len(r)
                                         THEN z[2] + leg(r[z[1]], r[z[1] + 1]) ELSE z[2]]
           N == Len(r) - 1
           c == UpTo(r)
<1>1. N \in Nat /\ Len(r) \in Nat /\ Len(r) = N + 1
    OBVIOUS
<1>2. \A i \in 1..Len(r) : r[i] \in Points
    OBVIOUS
<1>3. ASSUME NEW n \in Nat, NEW v \in Int
      PROVE  /\ next[<<n, v>>] \in Int
             /\ n + 1 \in 2..Len(r) => next[<<n, v>>] = v + leg(r[n], r[n + 1])
    <2>1. next[<<n, v>>] = IF n + 1 \in 2..Len(r) THEN v + leg(r[n], r[n + 1]) ELSE v
        OBVIOUS
    <2>2. ASSUME n + 1 \in 2..Len(r) PROVE leg(r[n], r[n + 1]) \in Int
        <3>1. n \in 1..Len(r) /\ n + 1 \in 1..Len(r)
            BY <2>2, <1>1
        <3> QED
            BY <3>1, <1>2, LegIsInt
    <2> HIDE DEF next
    <2> QED
        BY <2>1, <2>2
<1> HIDE DEF next, N
<1>4. \A n \in Nat, v \in Int : next[<<n, v>>] \in Int
    BY <1>3
<1>5. PICK g : Stepwise(g, Int, 0, next, N)
    <2>1. 0 \in Int
        OBVIOUS
    <2> QED
        BY <1>1, <1>4, <2>1, StepsExist
<1>6. g \in [0..N -> Int] /\ g[0] = 0 /\ \A n \in 1..N : g[n] = next[<<n, g[n - 1]>>]
    BY <1>5 DEF Stepwise
<1> DEFINE f == [i \in 1..N + 1 |-> g[i - 1]]
<1>7. f[1] = 0
    BY <1>1, <1>6
<1>8. ASSUME NEW i \in 2..N + 1 PROVE f[i] = f[i - 1] + leg(r[i - 1], r[i])
    <2>1. i - 1 \in 1..N /\ i - 1 \in Nat /\ i - 2 \in 0..N /\ i - 1 - 1 = i - 2
          /\ i - 1 + 1 = i /\ i \in 2..Len(r) /\ i - 1 \in 1..N + 1
        BY <1>1
    <2>2. f[i] = g[i - 1] /\ f[i - 1] = g[i - 2]
        BY <1>1, <2>1
    <2>3. g[i - 1] = next[<<i - 1, g[i - 2]>>] /\ g[i - 2] \in Int
        BY <1>6, <2>1
    <2>4. next[<<i - 1, g[i - 2]>>] = g[i - 2] + leg(r[i - 1], r[i])
        BY <1>3, <2>1, <2>3
    <2> QED
        BY <2>2, <2>3, <2>4
<1>9. f = [i \in 1..N + 1 |-> f[i]]
    OBVIOUS
<1>10. \A i \in 1..N + 1 : f[i] \in Int
    BY <1>1, <1>6
<1> HIDE DEF f
<1>11. \A i \in 1..N + 1 : f[i] = UpToRule(r, f, i)
    <2> SUFFICES ASSUME NEW i \in 1..N + 1 PROVE f[i] = UpToRule(r, f, i)
        OBVIOUS
    <2>1. i = 1 \/ (i # 1 /\ i \in 2..N + 1)
        BY <1>1
    <2> QED
        BY <1>7, <1>8, <2>1 DEF UpToRule
<1>12. f = [i \in 1..N + 1 |-> UpToRule(r, f, i)]
    <2> DEFINE G(i) == UpToRule(r, f, i)
    <2>1. \A i \in 1..N + 1 : f[i] = G(i)
        BY <1>11
    <2> HIDE DEF G
    <2>2. f = [i \in 1..N + 1 |-> G(i)]
        BY <1>9, <2>1
    <2> QED
        BY <2>2 DEF G
<1>13. c = [i \in 1..N + 1 |-> UpToRule(r, c, i)]
    BY <1>1, <1>12 DEF UpTo
<1> HIDE DEF c
<1>14. \A i \in 1..N + 1 : c[i] = UpToRule(r, c, i)
    BY <1>13
<1>15. c[1] = 0
    BY <1>1, <1>14 DEF UpToRule
<1>16. \A i \in 2..N + 1 : c[i] = c[i - 1] + leg(r[i - 1], r[i])
    BY <1>1, <1>14 DEF UpToRule
<1> DEFINE At(k) == k + 1 <= N + 1 => c[k + 1] \in Int
           T == {k \in Nat : At(k)}
<1>17. T = Nat
    <2>1. 0 \in T
        BY <1>15
    <2>2. ASSUME NEW k \in T PROVE k + 1 \in T
        <3>1. CASE k + 1 + 1 <= N + 1
            <4>1. k \in Nat /\ k + 2 \in 2..N + 1 /\ k + 1 + 1 = k + 2 /\ k + 2 - 1 = k + 1
                  /\ k + 1 <= N + 1
                BY <1>1, <3>1
            <4>2. k + 1 \in 1..Len(r) /\ k + 2 \in 1..Len(r)
                BY <1>1, <4>1
            <4>3. c[k + 1] \in Int
                BY <4>1
            <4>4. leg(r[k + 1], r[k + 2]) \in Int
                BY <4>2, <1>2, LegIsInt
            <4>5. c[k + 2] = c[k + 1] + leg(r[k + 1], r[k + 2])
                BY <1>16, <4>1
            <4> QED
                BY <4>1, <4>3, <4>4, <4>5
        <3>2. CASE ~ (k + 1 + 1 <= N + 1)
            BY <3>2
        <3> QED
            BY <3>1, <3>2
    <2>3. T \subseteq Nat
        OBVIOUS
    <2> HIDE DEF T
    <2> QED
        BY <2>1, <2>2, <2>3, SetInduction
<1>18. ASSUME NEW k \in 1..N + 1 PROVE c[k] \in Int
    <2>1. k - 1 \in Nat /\ k - 1 + 1 = k /\ k <= N + 1
        BY <1>1
    <2>2. At(k - 1)
        BY <1>17, <2>1
    <2> QED
        BY <2>1, <2>2
<1> QED
    BY <1>1, <1>15, <1>16, <1>18 DEF c

\* A route that goes on from its end is longer by the leg there.
LEMMA LengthAppend ==
    ASSUME NEW s \in Seq(Points), Len(s) >= 1, NEW r \in Points
    PROVE  /\ length(s) \in Int
           /\ length(Append(s, r)) = length(s) + leg(s[Len(s)], r)
<1> DEFINE t == Append(s, r)
           n == Len(s)
           u == UpTo(s)
           v == UpTo(t)
<1>1. n \in Nat /\ n >= 1 /\ t \in Seq(Points) /\ Len(t) = n + 1 /\ t[n + 1] = r
      /\ \A k \in 1..n : t[k] = s[k]
    OBVIOUS
<1>2. u[1] = 0 /\ (\A k \in 2..n : u[k] = u[k - 1] + leg(s[k - 1], s[k])) /\ u[n] \in Int
    BY <1>1, UpToFacts
<1>3. v[1] = 0 /\ \A k \in 2..n + 1 : v[k] = v[k - 1] + leg(t[k - 1], t[k])
    <2>1. Len(t) >= 1
        BY <1>1
    <2> HIDE DEF t
    <2> QED
        BY <1>1, <2>1, UpToFacts
<1>4. length(s) = u[n] /\ length(t) = v[n + 1]
    BY <1>1, LengthIs
<1> HIDE DEF t, n, u, v
<1> DEFINE At(k) == k + 1 <= n => v[k + 1] = u[k + 1]
           T == {k \in Nat : At(k)}
<1>5. T = Nat
    <2>1. 0 \in T
        BY <1>2, <1>3
    <2>2. ASSUME NEW k \in T PROVE k + 1 \in T
        <3>1. CASE k + 1 + 1 <= n
            <4>1. k \in Nat /\ k + 2 \in 2..n /\ k + 2 \in 2..n + 1 /\ k + 1 + 1 = k + 2
                  /\ k + 2 - 1 = k + 1 /\ k + 1 <= n /\ k + 1 \in 1..n /\ k + 2 \in 1..n
                BY <1>1, <3>1
            <4>2. v[k + 1] = u[k + 1]
                BY <4>1
            <4>3. t[k + 1] = s[k + 1] /\ t[k + 2] = s[k + 2]
                BY <1>1, <4>1
            <4>4. v[k + 2] = v[k + 1] + leg(t[k + 1], t[k + 2])
                BY <1>3, <4>1
            <4>5. u[k + 2] = u[k + 1] + leg(s[k + 1], s[k + 2])
                BY <1>2, <4>1
            <4>6. v[k + 2] = u[k + 2]
                BY <4>2, <4>3, <4>4, <4>5
            <4> QED
                BY <4>1, <4>6
        <3>2. CASE ~ (k + 1 + 1 <= n)
            BY <3>2
        <3> QED
            BY <3>1, <3>2
    <2>3. T \subseteq Nat
        OBVIOUS
    <2> HIDE DEF T
    <2> QED
        BY <2>1, <2>2, <2>3, SetInduction
<1>6. v[n] = u[n]
    <2>1. n - 1 \in Nat /\ n - 1 + 1 = n
        BY <1>1
    <2>2. At(n - 1)
        BY <1>5, <2>1
    <2> QED
        BY <2>1, <2>2
<1>7. v[n + 1] = v[n] + leg(s[n], r)
    <2>1. n + 1 \in 2..n + 1 /\ n + 1 - 1 = n /\ n \in 1..n
        BY <1>1
    <2>2. v[n + 1] = v[n] + leg(t[n], t[n + 1])
        BY <1>3, <2>1
    <2> QED
        BY <1>1, <2>1, <2>2
<1> QED
    BY <1>2, <1>4, <1>6, <1>7 DEF t, n

\* A route of one point has no length.
LEMMA LengthOne ==
    ASSUME NEW r \in Points
    PROVE  length(<<r>>) = 0
<1> DEFINE s == <<r>>
<1>1. s \in Seq(Points) /\ Len(s) = 1 /\ Len(s) >= 1
    OBVIOUS
<1> HIDE DEF s
<1>2. UpTo(s)[1] = 0
    BY <1>1, UpToFacts, Zenon
<1>3. length(s) = UpTo(s)[Len(s)]
    BY LengthIs
<1> QED
    BY <1>1, <1>2, <1>3 DEF s

\* Two points are joined by a line that stays on the floor.
Clear(p, q) == ToSet(linePoints(p, q)) \subseteq floor

turns(points, i) == direction(points[i - 1], points[i]) # direction(points[i], points[i + 1])

\* The corners up to point i, from those up to the point before.
CornersAfter(points, i, s) == IF turns(points, i) THEN Append(s, points[i]) ELSE s
CornersRule(points, f, i) ==
    IF i = 1 THEN <<points[1]>> ELSE CornersAfter(points, i, f[i - 1])
Corners(points) == CHOOSE f : f = [i \in 1..Len(points) - 1 |-> CornersRule(points, f, i)]

\* simplifyPath keeps a short path, and of a longer one the corners and its end.
LEMMA SimplifyIs ==
    ASSUME NEW points
    PROVE  simplifyPath(points) =
             IF Len(points) <= 2 THEN points
             ELSE Append(Corners(points)[Len(points) - 1], points[Len(points)])
BY DEF simplifyPath, Corners, CornersRule, CornersAfter, turns

\* The corners up to a point, from those up to the point before it.
LEMMA CornersFacts ==
    ASSUME NEW points \in Seq(Points), Len(points) >= 2
    PROVE  LET c == Corners(points) IN
           /\ c[1] = <<points[1]>>
           /\ \A i \in 2..Len(points) - 1 : c[i] = CornersAfter(points, i, c[i - 1])
<1> DEFINE S == Seq(Points)
           first == <<points[1]>>
           next == [z \in Nat \X S |-> IF z[1] + 1 \in 1..Len(points)
                                       THEN CornersAfter(points, z[1] + 1, z[2]) ELSE z[2]]
           N == Len(points) - 2
           c == Corners(points)
<1>1. N \in Nat /\ Len(points) \in Nat /\ Len(points) - 1 = N + 1
    OBVIOUS
<1>2. \A i \in 1..Len(points) : points[i] \in Points
    OBVIOUS
<1>3. first \in S
    BY <1>1, <1>2
<1>4. ASSUME NEW n \in Nat, NEW v \in S
      PROVE  /\ next[<<n, v>>] \in S
             /\ n + 1 \in 1..Len(points) => next[<<n, v>>] = CornersAfter(points, n + 1, v)
    <2>1. next[<<n, v>>] = IF n + 1 \in 1..Len(points)
                           THEN CornersAfter(points, n + 1, v) ELSE v
        OBVIOUS
    <2>2. n + 1 \in 1..Len(points) => CornersAfter(points, n + 1, v) \in S
        BY <1>2 DEF CornersAfter
    <2> HIDE DEF next
    <2> QED
        BY <2>1, <2>2
<1> HIDE DEF first, next, S, N
<1>5. \A n \in Nat, v \in S : next[<<n, v>>] \in S
    BY <1>4
<1>6. PICK g : Stepwise(g, S, first, next, N)
    BY <1>1, <1>3, <1>5, StepsExist
<1>7. g \in [0..N -> S] /\ g[0] = first /\ \A n \in 1..N : g[n] = next[<<n, g[n - 1]>>]
    BY <1>6 DEF Stepwise
<1> DEFINE f == [i \in 1..N + 1 |-> g[i - 1]]
<1>8. f[1] = first
    BY <1>1, <1>7
<1>9. ASSUME NEW i \in 2..N + 1 PROVE f[i] = CornersAfter(points, i, f[i - 1])
    <2>1. i - 1 \in 1..N /\ i - 1 \in Nat /\ i - 2 \in 0..N /\ i - 1 - 1 = i - 2
          /\ i - 1 + 1 = i /\ i \in 1..Len(points) /\ i - 1 \in 1..N + 1
        BY <1>1
    <2>2. f[i] = g[i - 1] /\ f[i - 1] = g[i - 2]
        BY <1>1, <2>1
    <2>3. g[i - 1] = next[<<i - 1, g[i - 2]>>] /\ g[i - 2] \in S
        BY <1>7, <2>1
    <2>4. next[<<i - 1, g[i - 2]>>] = CornersAfter(points, i, g[i - 2])
        BY <1>4, <2>1, <2>3
    <2> QED
        BY <2>2, <2>3, <2>4
<1>10. f = [i \in 1..N + 1 |-> f[i]]
    OBVIOUS
<1> HIDE DEF f
<1>11. \A i \in 1..N + 1 : f[i] = CornersRule(points, f, i)
    <2> SUFFICES ASSUME NEW i \in 1..N + 1 PROVE f[i] = CornersRule(points, f, i)
        OBVIOUS
    <2>1. i = 1 \/ (i # 1 /\ i \in 2..N + 1)
        BY <1>1
    <2> QED
        BY <1>8, <1>9, <2>1 DEF CornersRule, first
<1>12. f = [i \in 1..N + 1 |-> CornersRule(points, f, i)]
    <2> DEFINE G(i) == CornersRule(points, f, i)
    <2>1. \A i \in 1..N + 1 : f[i] = G(i)
        BY <1>11
    <2> HIDE DEF G
    <2>2. f = [i \in 1..N + 1 |-> G(i)]
        BY <1>10, <2>1
    <2> QED
        BY <2>2 DEF G
<1>13. c = [i \in 1..N + 1 |-> CornersRule(points, c, i)]
    BY <1>1, <1>12 DEF Corners
<1> HIDE DEF c
<1>14. \A i \in 1..N + 1 : c[i] = CornersRule(points, c, i)
    BY <1>13
<1>15. c[1] = <<points[1]>>
    BY <1>1, <1>14 DEF CornersRule
<1>16. \A i \in 2..N + 1 : c[i] = CornersAfter(points, i, c[i - 1])
    BY <1>1, <1>14 DEF CornersRule
<1> QED
    BY <1>1, <1>15, <1>16 DEF c

\* A route from p to q, joined by clear lines.
Joins(s, p, q) ==
    /\ s \in Seq(Points) /\ Len(s) >= 1 /\ s[1] = p /\ s[Len(s)] = q
    /\ \A k \in 1..Len(s) - 1 : Clear(s[k], s[k + 1])

\* A route goes on from its end by a clear line.
LEMMA JoinsLonger ==
    ASSUME NEW s, NEW p, NEW q, Joins(s, p, q), NEW r \in Points, Clear(q, r)
    PROVE  Joins(Append(s, r), p, r)
<1> DEFINE t == Append(s, r)
           n == Len(s)
<1>1. s \in Seq(Points) /\ n \in Nat /\ n >= 1 /\ s[1] = p /\ s[n] = q
      /\ \A k \in 1..n - 1 : Clear(s[k], s[k + 1])
    BY DEF Joins
<1>2. t \in Seq(Points) /\ Len(t) = n + 1 /\ t[n + 1] = r /\ \A k \in 1..n : t[k] = s[k]
    BY <1>1
<1> HIDE DEF t, n
<1>3. ASSUME NEW k \in 1..Len(t) - 1 PROVE Clear(t[k], t[k + 1])
    <2>1. k \in 1..n
        BY <1>1, <1>2
    <2>2. CASE k = n
        BY <1>2, <2>1, <2>2, <1>1
    <2>3. CASE k # n
        <3>1. k \in 1..n - 1 /\ k + 1 \in 1..n
            BY <1>1, <2>1, <2>3
        <3> QED
            BY <1>1, <1>2, <2>1, <3>1
    <2> QED
        BY <2>2, <2>3
<1>4. Len(t) >= 1 /\ t[1] = p /\ t[Len(t)] = r
    BY <1>1, <1>2
<1> QED
    BY <1>2, <1>3, <1>4 DEF Joins, t

\* What Append does to a path.
LEMMA AppendFacts ==
    ASSUME NEW s \in Seq(Points), NEW r \in Points
    PROVE  LET t == Append(s, r) IN
           /\ t \in Seq(Points) /\ Len(t) = Len(s) + 1 /\ t[Len(s) + 1] = r
           /\ \A k \in 1..Len(s) : t[k] = s[k]
OBVIOUS

\* A second point after a first.
LEMMA AppendSecond ==
    ASSUME NEW p \in Points, NEW q \in Points
    PROVE  Append(<<p>>, q) = <<p, q>>
<1> DEFINE s == <<p>>
           t == Append(s, q)
           u == <<p, q>>
<1>1. s \in Seq(Points) /\ Len(s) = 1 /\ s[1] = p
    OBVIOUS
<1> HIDE DEF s
<1>2. t \in Seq(Points) /\ Len(t) = 2 /\ t[1] = p /\ t[2] = q
    <2> HIDE DEF u
    <2>1. /\ t \in Seq(Points) /\ Len(t) = Len(s) + 1 /\ t[Len(s) + 1] = q
          /\ \A k \in 1..Len(s) : t[k] = s[k]
        BY <1>1, AppendFacts
    <2> HIDE DEF t
    <2>2. t[1 + 1] = q /\ Len(t) = 1 + 1 /\ \A k \in 1..1 : t[k] = s[k]
        BY <1>1, <2>1
    <2> QED
        BY <1>1, <2>1, <2>2
<1>3. u \in Seq(Points) /\ Len(u) = 2 /\ u[1] = p /\ u[2] = q
    OBVIOUS
<1> HIDE DEF t, u
<1>4. \A i \in 1..2 : t[i] = u[i]
    BY <1>2, <1>3
<1>5. t = [i \in 1..2 |-> t[i]] /\ u = [i \in 1..2 |-> u[i]]
    BY <1>2, <1>3
<1>6. t = u
    BY <1>4, <1>5
<1> QED
    BY <1>6 DEF s, t, u

\* What a step of a walk costs.
Toll(points, i) == Price(direction(points[i], points[i + 1]))

\* low grows along a walk by no more than its steps cost, and high by no less.
Measured(points, low, high) ==
    /\ \A i \in 1..Len(points) : low[i] \in Int /\ high[i] \in Int
    /\ low[1] <= 0 /\ 0 <= high[1]
    /\ \A i \in 1..Len(points) - 1 : /\ low[i + 1] <= low[i] + Toll(points, i)
                                     /\ high[i] + Toll(points, i) <= high[i + 1]

\* The leg along a stretch of a walk in one direction costs what its steps do.
LEMMA StretchLeg ==
    ASSUME NEW points, Walk(points), NEW m \in 1..Len(points), NEW i \in 1..Len(points), m < i,
           \A j \in m..i - 1 : direction(points[j], points[j + 1])
                                   = direction(points[m], points[m + 1])
    PROVE  leg(points[m], points[i]) = (i - m) * Toll(points, m)
<1> DEFINE d == direction(points[m], points[m + 1])
           p == points[m]
           n == i - m
<1>1. n \in Nat \ {0} /\ m + n = i
    BY DEF Walk
<1>2. d \in Directions /\ p \in Points /\ \A k \in 0..n : points[m + k] = Along(p, d, k)
    BY StretchGoes
<1> HIDE DEF d, p, n
<1>3. points[i] = Along(p, d, n)
    BY <1>1, <1>2
<1>4. leg(p, points[i]) = n * Price(d)
    BY <1>1, <1>2, <1>3, LegAlong
<1> QED
    BY <1>4 DEF p, d, n, Toll

\* simplifyPath keeps the ends of a walk, joins its corners over the floor, and keeps its length.
LEMMA SimplifyFacts ==
    ASSUME NEW points, Walk(points), NEW low, NEW high, Measured(points, low, high)
    PROVE  LET r == simplifyPath(points) IN
           /\ Joins(r, points[1], points[Len(points)])
           /\ low[Len(points)] <= length(r) /\ length(r) <= high[Len(points)]
<1> DEFINE n == Len(points)
           c == Corners(points)
           L(i) == length(c[i])
           P(m) == Toll(points, m)
<1>1. points \in Seq(Points) /\ n \in Nat /\ n >= 1 /\ \A i \in 1..n : points[i] \in Points
    BY DEF Walk
<1>2. ASSUME NEW m \in Nat, NEW i \in Nat, 1 <= m, m < i, i <= n,
             \A j \in m..i - 1 : direction(points[j], points[j + 1])
                                     = direction(points[m], points[m + 1])
      PROVE  Clear(points[m], points[i]) /\ leg(points[m], points[i]) = (i - m) * P(m)
    <2>1. m \in 1..n /\ i \in 1..n
        BY <1>1, <1>2
    <2> QED
        BY <1>2, <2>1, StretchIsClear, StretchLeg DEF Clear
<1>3. \A m : P(m) \in {1000, 1415}
    BY PriceType DEF Toll
<1>4. /\ \A i \in 1..n : low[i] \in Int /\ high[i] \in Int
      /\ low[1] <= 0 /\ 0 <= high[1]
      /\ \A i \in 1..n - 1 : low[i + 1] <= low[i] + P(i) /\ high[i] + P(i) <= high[i + 1]
    BY DEF Measured
<1>5. CASE n = 1
    <2>1. points = <<points[1]>> /\ points[1] \in Points
        BY <1>1, <1>5
    <2>2. simplifyPath(points) = points
        <3>1. Len(points) <= 2
            BY <1>5
        <3> QED
            BY <3>1, SimplifyIs, Zenon
    <2>3. length(points) = 0
        <3> DEFINE q == points[1]
        <3>1. points = <<q>> /\ q \in Points
            BY <2>1
        <3> HIDE DEF q
        <3> QED
            BY <3>1, LengthOne
    <2> HIDE DEF P
    <2>4. low[n] <= 0 /\ 0 <= high[n]
        BY <1>4, <1>5
    <2>5. Joins(points, points[1], points[n])
        BY <1>1, <1>5 DEF Joins
    <2> QED
        BY <2>2, <2>3, <2>4, <2>5
<1>6. CASE n = 2
    <2> DEFINE p == points[1]
               q == points[2]
    <2>1. p \in Points /\ q \in Points /\ points = <<p, q>>
        BY <1>1, <1>6
    <2>2. simplifyPath(points) = points
        <3>1. Len(points) <= 2
            BY <1>6
        <3> QED
            BY <3>1, SimplifyIs, Zenon
    <2>3. Clear(p, q) /\ leg(p, q) = P(1)
        <3>1. \A j \in 1..2 - 1 : j = 1
            OBVIOUS
        <3> DEFINE dir(j) == direction(points[j], points[j + 1])
        <3>2. \A j \in 1..2 - 1 : dir(j) = dir(1)
            <4> HIDE DEF dir
            <4> QED
                BY <3>1
        <3>3. Clear(p, q) /\ leg(p, q) = (2 - 1) * P(1)
            BY <1>2, <1>6, <3>2
        <3> HIDE DEF P, p, q
        <3>4. (2 - 1) * P(1) = P(1)
            BY <1>3
        <3> QED
            BY <3>3, <3>4
    <2> HIDE DEF P, p, q
    <2>4. length(<<p>>) = 0 /\ Append(<<p>>, q) = points
        <3>1. length(<<p>>) = 0
            BY <2>1, LengthOne, Zenon
        <3>2. Append(<<p>>, q) = <<p, q>>
            BY <2>1, AppendSecond
        <3> QED
            BY <2>1, <3>1, <3>2
    <2>5. length(points) = P(1)
        <3> DEFINE s == <<p>>
        <3>1. s \in Seq(Points) /\ Len(s) >= 1 /\ s[Len(s)] = p
            BY <2>1
        <3>2. length(s) = 0 /\ Append(s, q) = points
            BY <2>4
        <3> HIDE DEF s
        <3>3. length(points) = length(s) + leg(p, q)
            BY <2>1, <3>1, <3>2, LengthAppend
        <3> QED
            BY <1>3, <2>3, <3>2, <3>3
    <2>6. low[2] <= P(1) /\ P(1) <= high[2]
        <3>1. low[1 + 1] <= low[1] + P(1) /\ high[1] + P(1) <= high[1 + 1]
            BY <1>4, <1>6
        <3>2. low[1] \in Int /\ high[1] \in Int /\ low[2] \in Int /\ high[2] \in Int
            BY <1>4, <1>6
        <3>3. P(1) \in Int
            BY <1>3
        <3> QED
            BY <1>4, <3>1, <3>2, <3>3
    <2>7. Joins(points, points[1], points[n])
        <3>1. \A k \in 1..n - 1 : k = 1
            BY <1>6
        <3>2. \A k \in 1..n - 1 : Clear(points[k], points[k + 1])
            BY <2>3, <3>1 DEF p, q
        <3> QED
            BY <1>1, <3>2 DEF Joins
    <2> QED
        BY <1>6, <2>2, <2>5, <2>6, <2>7
<1>7. CASE n >= 3
    <2> DEFINE Upto(i, m) == /\ m \in 1..i /\ Joins(c[i], points[1], points[m])
                             /\ \A j \in m..i : direction(points[j], points[j + 1])
                                                   = direction(points[m], points[m + 1])
               Fits(i, m) == /\ low[i + 1] <= L(i) + (i + 1 - m) * P(m)
                             /\ L(i) + (i + 1 - m) * P(m) <= high[i + 1]
               At(k) == k + 1 <= n - 1 => \E m : Upto(k + 1, m) /\ Fits(k + 1, m)
               T == {k \in Nat : At(k)}
    <2>1. c[1] = <<points[1]>> /\ \A i \in 2..n - 1 : c[i] = CornersAfter(points, i, c[i - 1])
        BY <1>1, <1>7, CornersFacts
    <2>2. \A i \in 1..n - 1 : /\ low[i] \in Int /\ low[i + 1] \in Int /\ P(i) \in {1000, 1415}
                              /\ high[i] \in Int /\ high[i + 1] \in Int
                              /\ low[i + 1] <= low[i] + P(i) /\ high[i] + P(i) <= high[i + 1]
        <3> HIDE DEF P, n
        <3> QED
            BY <1>1, <1>3, <1>4
    <2> HIDE DEF n, c, L, P, Fits
    <2>3. Upto(1, 1)
        <3>1. Joins(<<points[1]>>, points[1], points[1])
            BY <1>1 DEF Joins
        <3>2. \A j \in 1..1 : j = 1
            OBVIOUS
        <3> QED
            BY <2>1, <3>1, <3>2
    <2>4. Fits(1, 1)
        <3>1. L(1) = 0
            <4>1. points[1] \in Points
                BY <1>1
            <4> QED
                BY <2>1, <4>1, LengthOne DEF L
        <3>2. 1 \in 1..n - 1
            BY <1>1, <1>7
        <3>3. low[1 + 1] <= low[1] + P(1) /\ high[1] + P(1) <= high[1 + 1]
              /\ low[1] \in Int /\ high[1] \in Int /\ low[1 + 1] \in Int /\ high[1 + 1] \in Int
              /\ P(1) \in Int
            BY <2>2, <3>2
        <3>4. (1 + 1 - 1) * P(1) = P(1)
            BY <3>3
        <3> QED
            BY <1>4, <3>1, <3>3, <3>4 DEF Fits
    <2>5. ASSUME NEW i \in Nat, 1 <= i, i + 1 <= n - 1, NEW m, Upto(i, m), Fits(i, m)
          PROVE  \E o : Upto(i + 1, o) /\ Fits(i + 1, o)
        <3>1. c[i + 1] = CornersAfter(points, i + 1, c[i])
            <4>1. i + 1 \in 2..n - 1 /\ i + 1 - 1 = i
                BY <1>1, <2>5
            <4> QED
                BY <2>1, <4>1
        <3>2. m \in Nat /\ 1 <= m /\ m <= i
            BY <2>5
        <3>3. i + 1 - 1 = i /\ m < i + 1 /\ i + 1 <= n
            BY <1>1, <2>5, <3>2
        <3>4. /\ low[i + 1] \in Int /\ low[i + 1 + 1] \in Int /\ P(i + 1) \in Int
              /\ high[i + 1] \in Int /\ high[i + 1 + 1] \in Int
              /\ low[i + 1 + 1] <= low[i + 1] + P(i + 1)
              /\ high[i + 1] + P(i + 1) <= high[i + 1 + 1]
            <4>1. i + 1 \in 1..n - 1
                BY <2>5
            <4> QED
                BY <2>2, <4>1
        <3>5. low[i + 1] <= L(i) + (i + 1 - m) * P(m) /\ L(i) + (i + 1 - m) * P(m) <= high[i + 1]
            BY <2>5 DEF Fits
        <3>6. L(i) \in Int /\ \A p \in Points : length(Append(c[i], p)) = L(i) + leg(points[m], p)
            <4> DEFINE s == c[i]
            <4>1. s \in Seq(Points) /\ Len(s) >= 1 /\ s[Len(s)] = points[m]
                BY <2>5 DEF Joins
            <4> HIDE DEF s
            <4>2. length(s) \in Int
                <5>1. points[1] \in Points
                    BY <1>1
                <5> QED
                    BY <4>1, <5>1, LengthAppend
            <4>3. \A p \in Points : length(Append(s, p)) = length(s) + leg(points[m], p)
                BY <4>1, LengthAppend
            <4> QED
                BY <4>2, <4>3 DEF s, L
        <3>7. CASE turns(points, i + 1)
            <4>1. Clear(points[m], points[i + 1])
                  /\ leg(points[m], points[i + 1]) = (i + 1 - m) * P(m)
                BY <1>2, <2>5, <3>2, <3>3
            <4>2. c[i + 1] = Append(c[i], points[i + 1])
                BY <3>1, <3>7 DEF CornersAfter
            <4>3. points[i + 1] \in Points
                BY <1>1, <2>5, <3>3
            <4>4. Joins(c[i + 1], points[1], points[i + 1])
                BY <2>5, <4>1, <4>2, <4>3, JoinsLonger
            <4>5. \A j \in i + 1..i + 1 : j = i + 1
                OBVIOUS
            <4>6. Upto(i + 1, i + 1)
                BY <4>4, <4>5
            <4>7. Fits(i + 1, i + 1)
                <5> DEFINE x == (i + 1 - m) * P(m)
                <5>1. L(i + 1) = L(i) + x
                    BY <3>6, <4>1, <4>2, <4>3 DEF L
                <5>2. x \in Int
                    <6>1. P(m) \in {1000, 1415} /\ i + 1 - m \in Int
                        BY <1>3, <2>5, <3>2 DEF P
                    <6> QED
                        BY <6>1
                <5> HIDE DEF x
                <5>3. (i + 1 + 1 - (i + 1)) * P(i + 1) = P(i + 1)
                    <6>1. i + 1 + 1 - (i + 1) = 1
                        BY <2>5
                    <6> QED
                        BY <3>4, <6>1
                <5>4. low[i + 1] <= L(i) + x /\ L(i) + x <= high[i + 1]
                    BY <3>5 DEF x
                <5>5. low[i + 1 + 1] <= L(i + 1) + P(i + 1) /\ L(i + 1) + P(i + 1) <= high[i + 1 + 1]
                    BY <3>4, <3>6, <5>1, <5>2, <5>4
                <5> QED
                    BY <5>3, <5>5 DEF Fits
            <4> QED
                BY <4>6, <4>7
        <3>8. CASE ~ turns(points, i + 1)
            <4>1. c[i + 1] = c[i]
                BY <3>1, <3>8 DEF CornersAfter
            <4>2. direction(points[i], points[i + 1]) = direction(points[i + 1], points[i + 2])
                BY <3>3, <3>8 DEF turns
            <4>3. ASSUME NEW j \in m..i + 1
                  PROVE  direction(points[j], points[j + 1]) = direction(points[m], points[m + 1])
                <5>1. CASE j = i + 1
                    <6>1. i \in m..i /\ i + 1 + 1 = i + 2
                        BY <3>2
                    <6>2. direction(points[i], points[i + 1]) = direction(points[m], points[m + 1])
                        BY <2>5, <6>1
                    <6> QED
                        BY <4>2, <5>1, <6>1, <6>2
                <5>2. CASE j # i + 1
                    <6>1. j \in m..i
                        BY <3>2, <5>2
                    <6> QED
                        BY <2>5, <6>1
                <5> QED
                    BY <5>1, <5>2
            <4>4. m \in 1..i + 1
                BY <3>2
            <4>5. Upto(i + 1, m)
                BY <2>5, <4>1, <4>3, <4>4
            <4>6. P(i + 1) = P(m)
                <5>1. i + 1 \in m..i + 1
                    BY <3>2
                <5> DEFINE dir(j) == direction(points[j], points[j + 1])
                <5>2. dir(i + 1) = dir(m)
                    BY <4>3, <5>1
                <5> HIDE DEF dir
                <5>3. \A j : P(j) = Price(dir(j))
                    BY DEF P, dir, Toll
                <5> QED
                    BY <5>2, <5>3
            <4>7. Fits(i + 1, m)
                <5> DEFINE x == (i + 1 - m) * P(m)
                           y == (i + 1 + 1 - m) * P(m)
                <5>1. L(i + 1) = L(i)
                    BY <4>1 DEF L
                <5>2. x \in Int /\ y = x + P(m) /\ P(m) \in Int
                    <6>1. P(m) \in {1000, 1415} /\ i + 1 - m \in Int /\ i \in Int /\ m \in Int
                        BY <1>3, <2>5, <3>2 DEF P
                    <6> QED
                        BY <6>1
                <5> HIDE DEF x, y
                <5>3. low[i + 1] <= L(i) + x /\ L(i) + x <= high[i + 1]
                    BY <3>5 DEF x
                <5>4. low[i + 1 + 1] <= L(i) + y /\ L(i) + y <= high[i + 1 + 1]
                    BY <3>4, <3>6, <4>6, <5>2, <5>3
                <5> QED
                    BY <5>1, <5>4 DEF Fits, y
            <4> QED
                BY <4>5, <4>7
        <3> QED
            BY <3>7, <3>8
    <2> HIDE DEF Upto
    <2>6. T = Nat
        <3>1. 0 \in T
            <4>1. 0 + 1 = 1
                OBVIOUS
            <4> QED
                BY <2>3, <2>4, <4>1
        <3>2. ASSUME NEW k \in T PROVE k + 1 \in T
            <4>1. k \in Nat /\ At(k) /\ k + 1 \in Nat /\ 1 <= k + 1
                OBVIOUS
            <4>2. CASE k + 1 + 1 <= n - 1
                <5>1. k + 1 <= n - 1
                    BY <1>1, <4>1, <4>2
                <5>2. PICK m : Upto(k + 1, m) /\ Fits(k + 1, m)
                    BY <4>1, <5>1
                <5>3. \E o : Upto(k + 1 + 1, o) /\ Fits(k + 1 + 1, o)
                    BY <2>5, <4>1, <4>2, <5>2
                <5> QED
                    BY <4>1, <5>3
            <4>3. CASE ~ (k + 1 + 1 <= n - 1)
                BY <4>1, <4>3
            <4> QED
                BY <4>2, <4>3
        <3>3. T \subseteq Nat
            OBVIOUS
        <3> HIDE DEF T
        <3> QED
            BY <3>1, <3>2, <3>3, SetInduction
    <2>7. PICK m : Upto(n - 1, m) /\ Fits(n - 1, m)
        <3>1. n - 2 \in Nat /\ n - 2 + 1 = n - 1 /\ n - 2 + 1 <= n - 1
            BY <1>1, <1>7
        <3>2. At(n - 2)
            BY <2>6, <3>1
        <3> QED
            BY <3>1, <3>2
    <2>8. m \in 1..n - 1 /\ Joins(c[n - 1], points[1], points[m])
          /\ \A j \in m..n - 1 : direction(points[j], points[j + 1])
                                     = direction(points[m], points[m + 1])
        BY <2>7 DEF Upto
    <2>9. Clear(points[m], points[n]) /\ leg(points[m], points[n]) = (n - m) * P(m)
        <3>1. m \in Nat /\ 1 <= m /\ m < n /\ n <= n
            BY <1>1, <2>8
        <3> QED
            BY <1>1, <1>2, <2>8, <3>1
    <2>10. points[n] \in Points
        BY <1>1, <1>7
    <2>11. Joins(Append(c[n - 1], points[n]), points[1], points[n])
        BY <2>8, <2>9, <2>10, JoinsLonger
    <2>12. simplifyPath(points) = Append(c[n - 1], points[n])
        <3>1. ~ (n <= 2)
            BY <1>1, <1>7
        <3> QED
            BY <3>1, SimplifyIs DEF n, c
    <2>13. low[n] <= length(Append(c[n - 1], points[n]))
           /\ length(Append(c[n - 1], points[n])) <= high[n]
        <3> DEFINE s == c[n - 1]
        <3>1. s \in Seq(Points) /\ Len(s) >= 1 /\ s[Len(s)] = points[m]
            BY <2>8 DEF Joins
        <3> HIDE DEF s
        <3>2. length(Append(s, points[n])) = length(s) + (n - m) * P(m)
            BY <2>9, <2>10, <3>1, LengthAppend
        <3>3. n - 1 + 1 = n
            BY <1>1
        <3>4. low[n] <= length(s) + (n - m) * P(m) /\ length(s) + (n - m) * P(m) <= high[n]
            <4>1. /\ low[n - 1 + 1] <= length(s) + (n - 1 + 1 - m) * P(m)
                  /\ length(s) + (n - 1 + 1 - m) * P(m) <= high[n - 1 + 1]
                BY <2>7 DEF Fits, L, s
            <4>2. n - 1 + 1 - m = n - m
                BY <1>1, <2>8
            <4> DEFINE e == n - 1 + 1
                       k == n - 1 + 1 - m
            <4>3. low[e] <= length(s) + k * P(m) /\ length(s) + k * P(m) <= high[e]
                BY <4>1
            <4> HIDE DEF e, k
            <4> QED
                BY <3>3, <4>2, <4>3 DEF e, k
        <3> QED
            BY <3>2, <3>4 DEF s
    <2> QED
        BY <2>11, <2>12, <2>13 DEF n
<1> HIDE DEF c, L, P
<1>8. n = 1 \/ n = 2 \/ n >= 3
    <2>1. n \in Nat /\ n >= 1
        BY <1>1
    <2> HIDE DEF n
    <2> QED
        BY <2>1
<1> QED
    BY <1>5, <1>6, <1>7, <1>8

-----------------------------------------------------------------------------
(* The search *)

\* What a search knows: the points it reached, how far from the start they are at most, and of
\* each but the start the one before, which is nearer by the step between them.
Tree ==
    /\ from \in DOMAIN distance /\ distance[from] = 0 /\ DOMAIN distance \subseteq room
    /\ \A c \in DOMAIN distance : distance[c] \in Nat
    /\ \E b \in Nat : \A c \in DOMAIN distance : distance[c] <= b
    /\ DOMAIN previous = DOMAIN distance \ {from}
    /\ \A c \in DOMAIN previous :
           /\ previous[c] \in DOMAIN distance /\ c \in neighbours(previous[c])
           /\ distance[previous[c]] + edge(previous[c], c) <= distance[c]

\* The length of a step.
LEMMA EdgeType == \A c, n : edge(c, n) \in Nat /\ edge(c, n) >= 1 /\ edge(c, n) <= 1415
BY DEF edge, Straight, Diagonal

\* A point that was reached from another is next to it, and farther from the start.
LEMMA TreeFacts ==
    ASSUME floor \subseteq Pixels, Tree
    PROVE  /\ \A c \in DOMAIN distance : distance[c] \in Nat /\ c \in floor /\ c \in Pixels
           /\ \A c \in DOMAIN previous :
                  /\ c \in DOMAIN distance /\ previous[c] \in DOMAIN distance
                  /\ distance[previous[c]] < distance[c] /\ previous[c] \in Pixels
                  /\ distanceSquared(c, previous[c]) \in {1, 2}
<1>1. \A c \in DOMAIN distance : distance[c] \in Nat /\ c \in floor /\ c \in Pixels
    BY DEF Tree, room
<1>2. ASSUME NEW c \in DOMAIN previous
      PROVE  /\ c \in DOMAIN distance /\ previous[c] \in DOMAIN distance
             /\ distance[previous[c]] < distance[c] /\ previous[c] \in Pixels
             /\ distanceSquared(c, previous[c]) \in {1, 2}
    <2>1. c \in DOMAIN distance /\ previous[c] \in DOMAIN distance /\ c \in neighbours(previous[c])
          /\ distance[previous[c]] + edge(previous[c], c) <= distance[c]
        BY DEF Tree
    <2> DEFINE b == previous[c]
               w == edge(b, c)
    <2>2. w \in Nat /\ w >= 1
        BY EdgeType
    <2>3. b \in DOMAIN distance /\ distance[b] + w <= distance[c]
        BY <2>1
    <2>4. distanceSquared(c, b) \in {1, 2}
        BY <2>1 DEF neighbours
    <2> HIDE DEF w, b
    <2>5. distance[b] < distance[c]
        BY <1>1, <2>1, <2>2, <2>3
    <2> QED
        BY <1>1, <2>1, <2>3, <2>4, <2>5 DEF b
<1> QED
    BY <1>1, <1>2

PathRule(f, c) == IF c \in DOMAIN previous THEN Append(f[previous[c]], c) ELSE <<c>>
Path == CHOOSE f : f = [c \in Pixels |-> PathRule(f, c)]

\* restoreRoutedPath follows the paths from point to point.
LEMMA RestoredIs ==
    ASSUME NEW c
    PROVE  restored(c) = Path[c]
BY DEF restored, Path, PathRule

\* f is right for the points nearer than k, and for those not reached.
RightUpTo(f, k) == \A c \in Pixels : (c \in DOMAIN distance => distance[c] < k) => f[c] = PathRule(f, c)

\* These paths exist: following previous comes to an end, because it always comes nearer.
LEMMA PathFacts ==
    ASSUME floor \subseteq Pixels, Tree
    PROVE  \A c \in Pixels : Path[c] = PathRule(Path, c)
<1> DEFINE Exist(k) == \E f : f = [c \in Pixels |-> f[c]] /\ RightUpTo(f, k)
           T == {k \in Nat : Exist(k)}
<1>1. \A c \in DOMAIN previous :
          /\ c \in DOMAIN distance /\ previous[c] \in DOMAIN distance
          /\ distance[previous[c]] < distance[c] /\ previous[c] \in Pixels
    BY TreeFacts
<1>2. \A c \in DOMAIN distance : distance[c] \in Nat
    BY DEF Tree
<1>3. 0 \in T
    <2> DEFINE f == [c \in Pixels |-> <<c>>]
    <2>1. f = [c \in Pixels |-> f[c]]
        OBVIOUS
    <2>2. ASSUME NEW c \in Pixels, c \in DOMAIN distance => distance[c] < 0
          PROVE  f[c] = PathRule(f, c)
        <3>1. c \notin DOMAIN distance
            BY <1>2, <2>2
        <3>2. c \notin DOMAIN previous
            BY <1>1, <3>1
        <3> QED
            BY <3>2 DEF PathRule
    <2> HIDE DEF f
    <2>3. RightUpTo(f, 0)
        BY <2>2 DEF RightUpTo
    <2> QED
        BY <2>1, <2>3
<1>4. ASSUME NEW k \in T PROVE k + 1 \in T
    <2>1. k \in Nat /\ Exist(k)
        OBVIOUS
    <2>2. PICK f : f = [c \in Pixels |-> f[c]] /\ RightUpTo(f, k)
        BY <2>1
    <2> DEFINE new(c) == c \in DOMAIN distance /\ distance[c] = k
               g == [c \in Pixels |-> IF new(c) THEN PathRule(f, c) ELSE f[c]]
    <2>3. g = [c \in Pixels |-> g[c]]
        OBVIOUS
    <2>4. \A c \in Pixels : g[c] = IF new(c) THEN PathRule(f, c) ELSE f[c]
        OBVIOUS
    <2> HIDE DEF g
    <2>5. ASSUME NEW c \in Pixels, c \in DOMAIN distance => distance[c] < k + 1
          PROVE  g[c] = PathRule(g, c)
        <3>1. ASSUME c \in DOMAIN previous PROVE g[previous[c]] = f[previous[c]]
            <4>1. previous[c] \in DOMAIN distance /\ distance[previous[c]] # k
                BY <1>1, <1>2, <2>1, <2>5, <3>1
            <4>2. previous[c] \in Pixels
                BY <1>1, <3>1
            <4> QED
                BY <2>4, <4>1, <4>2
        <3>2. PathRule(g, c) = PathRule(f, c)
            BY <3>1 DEF PathRule
        <3>3. CASE new(c)
            BY <2>4, <3>2, <3>3
        <3>4. CASE ~ new(c)
            <4>1. c \in DOMAIN distance => distance[c] < k
                BY <1>2, <2>1, <2>5, <3>4
            <4>2. f[c] = PathRule(f, c)
                BY <2>2, <4>1 DEF RightUpTo
            <4> QED
                BY <2>4, <3>2, <3>4, <4>2
        <3> QED
            BY <3>3, <3>4
    <2>6. RightUpTo(g, k + 1)
        BY <2>5 DEF RightUpTo
    <2> QED
        BY <2>1, <2>3, <2>6
<1> HIDE DEF T
<1>5. T = Nat
    <2>1. T \subseteq Nat
        BY DEF T
    <2> QED
        BY <1>3, <1>4, <2>1, SetInduction
<1>6. PICK b \in Nat : \A c \in DOMAIN distance : distance[c] <= b
    BY DEF Tree
<1>7. Exist(b + 1)
    BY <1>5, <1>6 DEF T
<1>8. PICK f : f = [c \in Pixels |-> f[c]] /\ RightUpTo(f, b + 1)
    BY <1>7
<1>9. \A c \in Pixels : f[c] = PathRule(f, c)
    <2> SUFFICES ASSUME NEW c \in Pixels PROVE f[c] = PathRule(f, c)
        OBVIOUS
    <2>1. c \in DOMAIN distance => distance[c] < b + 1
        BY <1>2, <1>6
    <2> QED
        BY <1>8, <2>1 DEF RightUpTo
<1>10. f = [c \in Pixels |-> PathRule(f, c)]
    <2> DEFINE G(c) == PathRule(f, c)
    <2>1. \A c \in Pixels : f[c] = G(c)
        BY <1>9
    <2> HIDE DEF G
    <2>2. f = [c \in Pixels |-> G(c)]
        BY <1>8, <2>1
    <2> QED
        BY <2>2 DEF G
<1>11. Path = [c \in Pixels |-> PathRule(Path, c)]
    BY <1>10 DEF Path
<1> DEFINE p == Path
<1> HIDE DEF p
<1>12. p = [c \in Pixels |-> PathRule(p, c)]
    BY <1>11 DEF p
<1>13. \A c \in Pixels : p[c] = PathRule(p, c)
    BY <1>12
<1> QED
    BY <1>13 DEF p

\* A walk over points that were reached, which become farther by its steps at least.
Away(w) ==
    /\ \A i \in 1..Len(w) : w[i] \in DOMAIN distance
    /\ \A i \in 1..Len(w) - 1 : distance[w[i]] + edge(w[i], w[i + 1]) <= distance[w[i + 1]]

\* The way back from a point that was reached is a walk from the start to it.
LEMMA RestoredWalks ==
    ASSUME floor \subseteq Pixels, Tree, NEW last \in DOMAIN distance
    PROVE  LET w == restored(last) IN Walk(w) /\ Away(w) /\ w[1] = from /\ w[Len(w)] = last
<1> DEFINE Leads(w, c) == Walk(w) /\ Away(w) /\ w[1] = from /\ w[Len(w)] = c
           p == Path
           At(k) == \A c \in DOMAIN distance : distance[c] < k => Leads(p[c], c)
           T == {k \in Nat : At(k)}
<1>1. \A c \in DOMAIN distance : distance[c] \in Nat /\ c \in floor /\ c \in Pixels
    BY TreeFacts
<1>2. \A c \in Pixels : p[c] = PathRule(p, c)
    BY PathFacts
<1>3. \A c \in Pixels : c \in Points
    BY SizeAssumption DEF SizeAssumption, Pixels, Points
<1> HIDE DEF p
<1>4. ASSUME NEW k \in Nat, At(k), NEW c \in DOMAIN distance, distance[c] < k + 1
      PROVE  Leads(p[c], c)
    <2>1. CASE c \in DOMAIN previous
        <3> DEFINE b == previous[c]
                   w == p[b]
                   n == Len(w)
                   t == Append(w, c)
        <3>1. b \in DOMAIN distance /\ distance[b] < distance[c] /\ distanceSquared(c, b) \in {1, 2}
            BY <2>1, TreeFacts
        <3>2. distance[b] + edge(b, c) <= distance[c]
            BY <2>1 DEF Tree
        <3>3. distance[b] < k
            BY <1>1, <1>4, <3>1
        <3>4. Walk(w) /\ Away(w) /\ w[1] = from /\ w[n] = b
            BY <1>4, <3>1, <3>3
        <3>5. p[c] = t
            BY <1>1, <1>2, <2>1 DEF PathRule
        <3> HIDE DEF b, w, n, t
        <3>6. w \in Seq(Points) /\ n \in Nat /\ n >= 1 /\ (\A i \in 1..n : w[i] \in floor)
              /\ \A i \in 1..n - 1 : distanceSquared(w[i + 1], w[i]) \in {1, 2}
            BY <3>4 DEF Walk, n
        <3>7. t \in Seq(Points) /\ Len(t) = n + 1 /\ t[n + 1] = c /\ \A i \in 1..n : t[i] = w[i]
            BY <1>1, <1>3, <3>6 DEF t, n
        <3>8. ASSUME NEW i \in 1..Len(t) PROVE t[i] \in floor
            <4>1. i = n + 1 \/ i \in 1..n
                BY <3>6, <3>7
            <4> QED
                BY <1>1, <3>6, <3>7, <4>1
        <3>9. ASSUME NEW i \in 1..Len(t) - 1 PROVE distanceSquared(t[i + 1], t[i]) \in {1, 2}
            <4>1. i = n \/ (i \in 1..n - 1 /\ i \in 1..n /\ i + 1 \in 1..n)
                BY <3>6, <3>7
            <4>2. n \in 1..n
                BY <3>6
            <4>3. CASE i = n
                BY <3>1, <3>4, <3>7, <4>2, <4>3
            <4>4. CASE i \in 1..n - 1 /\ i \in 1..n /\ i + 1 \in 1..n
                BY <3>6, <3>7, <4>4
            <4> QED
                BY <4>1, <4>3, <4>4
        <3>10. Walk(t)
            BY <3>6, <3>7, <3>8, <3>9 DEF Walk
        <3>11. t[1] = from
            BY <3>4, <3>6, <3>7
        <3>12. /\ \A i \in 1..n : w[i] \in DOMAIN distance
               /\ \A i \in 1..n - 1 : distance[w[i]] + edge(w[i], w[i + 1]) <= distance[w[i + 1]]
            BY <3>4 DEF Away, n
        <3>13. ASSUME NEW i \in 1..Len(t) PROVE t[i] \in DOMAIN distance
            <4>1. i = n + 1 \/ i \in 1..n
                BY <3>6, <3>7
            <4> QED
                BY <3>7, <3>12, <4>1
        <3>14. ASSUME NEW i \in 1..Len(t) - 1
               PROVE  distance[t[i]] + edge(t[i], t[i + 1]) <= distance[t[i + 1]]
            <4>1. i = n \/ (i \in 1..n - 1 /\ i \in 1..n /\ i + 1 \in 1..n)
                BY <3>6, <3>7
            <4>2. CASE i = n
                <5>1. t[i] = b /\ t[i + 1] = c
                    <6>1. n \in 1..n
                        BY <3>6
                    <6> QED
                        BY <3>4, <3>7, <4>2, <6>1
                <5> QED
                    BY <3>2, <5>1
            <4>3. CASE i \in 1..n - 1 /\ i \in 1..n /\ i + 1 \in 1..n
                <5>1. t[i] = w[i] /\ t[i + 1] = w[i + 1]
                    BY <3>7, <4>3
                <5> QED
                    BY <3>12, <4>3, <5>1
            <4> QED
                BY <4>1, <4>2, <4>3
        <3>15. Away(t)
            BY <3>13, <3>14 DEF Away
        <3> QED
            BY <3>5, <3>7, <3>10, <3>11, <3>15
    <2>2. CASE c \notin DOMAIN previous
        <3>1. c = from
            BY <2>2 DEF Tree
        <3>2. p[c] = <<c>>
            BY <1>1, <1>2, <2>2 DEF PathRule
        <3>3. Walk(<<c>>)
            BY <1>1, <1>3 DEF Walk
        <3>4. Away(<<c>>)
            BY DEF Away
        <3> QED
            BY <3>1, <3>2, <3>3, <3>4
    <2> QED
        BY <2>1, <2>2
<1> HIDE DEF Leads
<1>5. T = Nat
    <2>1. 0 \in T
        BY <1>1
    <2>2. ASSUME NEW k \in T PROVE k + 1 \in T
        <3>1. k \in Nat /\ At(k)
            OBVIOUS
        <3>2. At(k + 1)
            BY <1>4, <3>1
        <3> HIDE DEF At
        <3> QED
            BY <3>1, <3>2
    <2>3. T \subseteq Nat
        OBVIOUS
    <2> HIDE DEF T
    <2> QED
        BY <2>1, <2>2, <2>3, SetInduction
<1>6. At(distance[last] + 1)
    BY <1>1, <1>5
<1>7. Leads(p[last], last)
    BY <1>1, <1>6
<1>8. restored(last) = p[last]
    BY RestoredIs DEF p
<1> QED
    BY <1>7, <1>8 DEF Leads

-----------------------------------------------------------------------------
(* The heuristic *)

\* The greater number has the greater square.
LEMMA SquaresGrow ==
    ASSUME NEW s \in Nat, NEW t \in Nat
    PROVE  (s <= t => s * s <= t * t) /\ (s * s < t * t => s < t)
<1>1. ASSUME NEW m \in Nat, NEW n \in Nat, m <= n PROVE m * m <= n * n
    <2> DEFINE d == n - m
    <2>1. d \in Nat /\ n = m + d
        BY <1>1
    <2> HIDE DEF d
    <2>2. m * d \in Nat /\ d * d \in Nat /\ m * m \in Nat
        BY <2>1
    <2>3. n * n = m * m + m * d + m * d + d * d
        BY <2>1
    <2> QED
        BY <2>2, <2>3
<1>2. ASSUME s * s < t * t PROVE s < t
    <2> SUFFICES ASSUME ~ (s < t) PROVE FALSE
        OBVIOUS
    <2>1. t * t <= s * s
        BY <1>1
    <2>2. s * s \in Nat /\ t * t \in Nat
        OBVIOUS
    <2> DEFINE u == s * s
               v == t * t
    <2>3. u \in Nat /\ v \in Nat /\ u < v /\ v <= u
        BY <1>2, <2>1, <2>2
    <2> HIDE DEF u, v
    <2> QED
        BY <2>3
<1> QED
    BY <1>1, <1>2

\* r is the length of a line on which there are d2 = x * x + y * y, rounded down.
IsRoot(r, d2) == r \in Nat /\ r * r <= 1000000 * d2 /\ (r + 1) * (r + 1) > 1000000 * d2

\* One more column makes a line longer by a pixel at most.
LEMMA StraightStep ==
    ASSUME NEW x \in Int, NEW y \in Int, NEW a \in {-1, 1}, NEW r, NEW s,
           IsRoot(r, (x + a) * (x + a) + y * y), IsRoot(s, x * x + y * y)
    PROVE  r <= 1000 + s
<1> DEFINE u == s + 1
           X == absolute(x)
           xx == x * x
           yy == y * y
           uu == u * u
           rr == r * r
<1>1. r \in Nat /\ s \in Nat /\ u \in Nat
    BY DEF IsRoot
<1>2. xx \in Nat /\ yy \in Nat /\ uu \in Nat /\ rr \in Nat
    <2>1. \A n \in Int : n * n \in Nat
        OBVIOUS
    <2> QED
        BY <1>1, <2>1
<1>3. X \in Nat /\ X * X = xx /\ a * x <= X /\ a * x \in Int
    <2>1. X \in Nat /\ (X = x \/ X = -x) /\ x <= X /\ -x <= X
        BY DEF absolute
    <2>2. X * X = xx
        <3>1. (-x) * (-x) = x * x
            OBVIOUS
        <3> HIDE DEF X
        <3> QED
            BY <2>1, <3>1
    <2>3. a * x = x \/ a * x = -x
        OBVIOUS
    <2> HIDE DEF X
    <2> QED
        BY <2>1, <2>2, <2>3
<1>4. (x + a) * (x + a) = xx + 2 * (a * x) + 1
    <2>1. a = 1 \/ a = -1
        OBVIOUS
    <2> QED
        BY <2>1
<1>5. rr <= 1000000 * (xx + 2 * (a * x) + 1 + yy)
    BY <1>4 DEF IsRoot
<1>6. uu > 1000000 * (xx + yy)
    BY DEF IsRoot
<1>7. 1000 * X < u
    <2> DEFINE t == 1000 * X
    <2>1. t * t = 1000000 * xx
        <3>1. \A k \in Int : (1000 * k) * (1000 * k) = 1000000 * (k * k)
            OBVIOUS
        <3>2. X \in Int /\ X * X = xx
            BY <1>3
        <3> HIDE DEF X, xx
        <3>3. t * t = 1000000 * (X * X)
            BY <3>1, <3>2
        <3> QED
            BY <3>2, <3>3
    <2>2. t * t < u * u
        <3> HIDE DEF xx, yy, t
        <3>1. uu > 1000000 * xx
            <4> HIDE DEF uu
            <4> QED
                BY <1>2, <1>6
        <3> QED
            BY <2>1, <3>1
    <2>3. t \in Nat
        BY <1>3
    <2> HIDE DEF t, u
    <2>4. t < u
        BY <1>1, <2>2, <2>3, SquaresGrow
    <2> QED
        BY <2>4 DEF t
<1> SUFFICES ASSUME ~ (r <= 1000 + s) PROVE FALSE
    OBVIOUS
<1>8. u + 1000 <= r
    BY <1>1
<1>9. uu + 2000 * u + 1000000 <= rr
    <2>1. (u + 1000) * (u + 1000) <= r * r
        BY <1>1, <1>8, SquaresGrow
    <2>2. (u + 1000) * (u + 1000) = uu + 2000 * u + 1000000
        BY <1>1
    <2> QED
        BY <2>1, <2>2
<1> DEFINE ax == a * x
<1> HIDE DEF xx, yy, uu, rr, ax, X, u
<1>10. ax \in Int /\ ax <= X
    BY <1>3 DEF ax
<1>11. rr <= 1000000 * xx + 2000000 * ax + 1000000 + 1000000 * yy
    BY <1>2, <1>5, <1>10 DEF ax
<1> QED
    BY <1>1, <1>2, <1>3, <1>6, <1>7, <1>9, <1>10, <1>11

\* One more column and row make it longer by a diagonal at most.
LEMMA DiagonalStep ==
    ASSUME NEW x \in Int, NEW y \in Int, NEW a \in {-1, 1}, NEW b \in {-1, 1}, NEW r, NEW s,
           IsRoot(r, (x + a) * (x + a) + (y + b) * (y + b)), IsRoot(s, x * x + y * y)
    PROVE  r <= 1415 + s
<1> DEFINE u == s + 1
           X == absolute(x)
           Y == absolute(y)
           xx == x * x
           yy == y * y
           uu == u * u
           rr == r * r
           ax == a * x
           by == b * y
<1>1. r \in Nat /\ s \in Nat /\ u \in Nat
    BY DEF IsRoot
<1>2. xx \in Nat /\ yy \in Nat /\ uu \in Nat /\ rr \in Nat
    <2>1. \A n \in Int : n * n \in Nat
        OBVIOUS
    <2> QED
        BY <1>1, <2>1
<1>3. ASSUME NEW n \in Int, NEW d \in {-1, 1}
      PROVE  /\ absolute(n) \in Nat /\ absolute(n) * absolute(n) = n * n
             /\ d * n <= absolute(n) /\ d * n \in Int
             /\ (n + d) * (n + d) = n * n + 2 * (d * n) + 1
    <2> DEFINE N == absolute(n)
    <2>1. N \in Nat /\ (N = n \/ N = -n) /\ n <= N /\ -n <= N
        BY DEF absolute
    <2>2. N * N = n * n
        <3>1. (-n) * (-n) = n * n
            OBVIOUS
        <3> HIDE DEF N
        <3> QED
            BY <2>1, <3>1
    <2>3. d * n = n \/ d * n = -n
        OBVIOUS
    <2>4. (n + d) * (n + d) = n * n + 2 * (d * n) + 1
        <3>1. d = 1 \/ d = -1
            OBVIOUS
        <3> QED
            BY <3>1
    <2>5. d * n <= N /\ d * n \in Int
        <3> HIDE DEF N
        <3> QED
            BY <2>1, <2>3
    <2> QED
        BY <2>1, <2>2, <2>4, <2>5
<1>4. /\ X \in Nat /\ X * X = xx /\ ax <= X /\ ax \in Int /\ (x + a) * (x + a) = xx + 2 * ax + 1
      /\ Y \in Nat /\ Y * Y = yy /\ by <= Y /\ by \in Int /\ (y + b) * (y + b) = yy + 2 * by + 1
    <2>1. X \in Nat /\ X * X = xx /\ ax <= X /\ ax \in Int /\ (x + a) * (x + a) = xx + 2 * ax + 1
        BY <1>3, Zenon
    <2>2. Y \in Nat /\ Y * Y = yy /\ by <= Y /\ by \in Int /\ (y + b) * (y + b) = yy + 2 * by + 1
        BY <1>3, Zenon
    <2> QED
        BY <2>1, <2>2, Zenon
<1> HIDE DEF X, Y, ax, by
<1>5. rr <= 1000000 * (xx + 2 * ax + 1 + (yy + 2 * by + 1))
    BY <1>4 DEF IsRoot
<1>6. uu > 1000000 * (xx + yy)
    BY DEF IsRoot
<1> DEFINE t == 1000000 * (X + Y)
           v == 1415 * u
           xy == X * Y
<1>7. 2 * xy <= xx + yy /\ xy \in Nat
    <2>1. (X - Y) * (X - Y) >= 0
        <3>1. \A n \in Int : n * n >= 0
            OBVIOUS
        <3>2. X - Y \in Int
            BY <1>4
        <3> QED
            BY <3>1, <3>2
    <2>2. (X - Y) * (X - Y) = X * X - 2 * xy + Y * Y
        BY <1>4
    <2>3. xy \in Nat
        BY <1>4
    <2> HIDE DEF xx, yy, xy
    <2>4. xx - 2 * xy + yy >= 0
        BY <1>4, <2>1, <2>2
    <2> QED
        BY <1>2, <2>3, <2>4
<1>8. t < v
    <2>1. t * t = 1000000000000 * (xx + 2 * xy + yy)
        <3>1. t * t = 1000000000000 * (X * X + 2 * xy + Y * Y)
            BY <1>4
        <3> QED
            BY <1>4, <3>1
    <2>2. v * v = 2002225 * uu
        BY <1>1
    <2> DEFINE tt == t * t
               vv == v * v
    <2>3. tt < vv
        <3> HIDE DEF xx, yy, uu, xy, t, v
        <3>1. tt = 1000000000000 * (xx + 2 * xy + yy) /\ vv = 2002225 * uu
            BY <2>1, <2>2
        <3> HIDE DEF tt, vv
        <3> QED
            BY <1>2, <1>6, <1>7, <3>1
    <2>4. t \in Nat /\ v \in Nat
        BY <1>1, <1>4
    <2> HIDE DEF t, v
    <2> QED
        BY <2>3, <2>4, SquaresGrow
<1> SUFFICES ASSUME ~ (r <= 1415 + s) PROVE FALSE
    OBVIOUS
<1>9. u + 1415 <= r
    BY <1>1
<1>10. uu + 2830 * u + 2002225 <= rr
    <2>1. (u + 1415) * (u + 1415) <= r * r
        BY <1>1, <1>9, SquaresGrow
    <2>2. (u + 1415) * (u + 1415) = uu + 2830 * u + 2002225
        BY <1>1
    <2> QED
        BY <2>1, <2>2
<1>11. 1000000 * (X + Y) < 1415 * u
    BY <1>8
<1> HIDE DEF xx, yy, uu, rr, u
<1>12. rr <= 1000000 * xx + 2000000 * ax + 1000000 + 1000000 * yy + 2000000 * by + 1000000
    BY <1>2, <1>4, <1>5
<1>13. ax + by <= X + Y
    BY <1>4
<1> HIDE DEF xy
<1> QED
    BY <1>1, <1>2, <1>4, <1>6, <1>10, <1>11, <1>12, <1>13

\* The rounded square root exists, up to the diagonal of the map.
LEMMA RootExists ==
    ASSUME NEW d2 \in 0..Width * Width + Height * Height
    PROVE  IsRoot(Root[d2], d2)
<1> DEFINE N == 1000000 * d2
           M == 1000 * (Width + Height)
           T == {m \in Nat : m * m > N}
<1>1. Width \in Nat /\ Height \in Nat
    BY SizeAssumption DEF SizeAssumption
<1>2. d2 \in Nat /\ d2 <= Width * Width + Height * Height
    BY <1>1
<1>3. N \in Nat /\ M \in Nat
    BY <1>1, <1>2
<1>4. N <= M * M
    <2> DEFINE ww == Width * Width
               hh == Height * Height
               wh == Width * Height
    <2>1. M * M = 1000000 * (ww + 2 * wh + hh)
        BY <1>1
    <2>2. ww \in Nat /\ hh \in Nat /\ wh \in Nat
        BY <1>1
    <2>3. d2 <= ww + hh
        BY <1>2
    <2> HIDE DEF ww, hh, wh
    <2> QED
        BY <1>2, <2>1, <2>2, <2>3
<1> HIDE DEF N, M
<1>5. N + 1 \in T
    <2>1. (N + 1) * (N + 1) = N * N + 2 * N + 1 /\ N * N \in Nat
        BY <1>3
    <2> QED
        BY <1>3, <2>1
<1>6. PICK m \in T : \A k \in T : m <= k
    <2>1. T \subseteq Nat /\ T # {}
        BY <1>5
    <2> HIDE DEF T
    <2> QED
        BY <2>1, LeastNumber
<1> DEFINE r == m - 1
<1>7. m \in Nat /\ m * m > N
    BY <1>6
<1>8. m # 0
    BY <1>3, <1>7
<1>9. r \in Nat /\ r + 1 = m
    BY <1>7, <1>8
<1> HIDE DEF r
<1>10. ~ (r * r > N)
    <2>1. r \notin T
        BY <1>6, <1>7, <1>9
    <2> QED
        BY <1>9, <2>1
<1>11. r * r <= N /\ (r + 1) * (r + 1) > N
    <2>1. r * r \in Nat
        BY <1>9
    <2> QED
        BY <1>3, <1>7, <1>9, <1>10, <2>1
<1>12. r <= M
    <2> SUFFICES ASSUME ~ (r <= M) PROVE FALSE
        OBVIOUS
    <2>1. M + 1 <= r
        BY <1>3, <1>9
    <2>2. (M + 1) * (M + 1) <= r * r
        BY <1>3, <1>9, <2>1, SquaresGrow
    <2>3. (M + 1) * (M + 1) = M * M + 2 * M + 1
        BY <1>3
    <2> DEFINE mm == M * M
               rr == r * r
    <2>4. mm \in Nat /\ rr \in Nat /\ rr <= N /\ N <= mm /\ mm + 2 * M + 1 <= rr
        BY <1>3, <1>4, <1>9, <1>11, <2>2, <2>3
    <2> HIDE DEF mm, rr
    <2> QED
        BY <1>3, <2>4
<1> DEFINE root == CHOOSE k \in 0..M : k * k <= N /\ (k + 1) * (k + 1) > N
<1>13. root \in 0..M /\ root * root <= N /\ (root + 1) * (root + 1) > N
    <2>1. r \in 0..M
        BY <1>3, <1>9, <1>12
    <2> QED
        BY <1>11, <2>1
<1>14. Root[d2] = root
    BY DEF Root, N, M
<1> HIDE DEF root
<1>15. root \in Nat
    BY <1>3, <1>13
<1> QED
    BY <1>13, <1>14, <1>15 DEF IsRoot, N

\* The heuristic is a rounded distance.
LEMMA HeuristicIsRoot ==
    ASSUME NEW p \in Pixels, NEW q \in Pixels
    PROVE  IsRoot(heuristic(p, q), distanceSquared(p, q))
<1>1. Width \in Nat /\ Height \in Nat
    BY SizeAssumption DEF SizeAssumption
<1>2. /\ p[1] \in Nat /\ p[2] \in Nat /\ q[1] \in Nat /\ q[2] \in Nat
      /\ p[1] <= Width - 1 /\ q[1] <= Width - 1 /\ p[2] <= Height - 1 /\ q[2] <= Height - 1
    BY <1>1 DEF Pixels
<1>3. ASSUME NEW m \in Nat, NEW n \in Nat, NEW w \in Nat, m <= w - 1, n <= w - 1
      PROVE  (m - n) * (m - n) \in Nat /\ (m - n) * (m - n) <= w * w
    <2> DEFINE d == absolute(m - n)
    <2>1. d \in Nat /\ d <= w /\ (d = m - n \/ d = -(m - n))
        BY <1>3 DEF absolute
    <2>2. d * d = (m - n) * (m - n)
        <3>1. \A k \in Int : (-k) * (-k) = k * k
            OBVIOUS
        <3>2. m - n \in Int
            OBVIOUS
        <3> HIDE DEF d
        <3>3. CASE d = m - n
            BY <3>3
        <3>4. CASE d = -(m - n)
            BY <3>1, <3>2, <3>4
        <3> QED
            BY <2>1, <3>3, <3>4
    <2> HIDE DEF d
    <2>3. d * d <= w * w /\ d * d \in Nat
        BY <2>1, SquaresGrow
    <2> QED
        BY <2>2, <2>3
<1> DEFINE u == (p[1] - q[1]) * (p[1] - q[1])
           v == (p[2] - q[2]) * (p[2] - q[2])
<1>4. u \in Nat /\ u <= Width * Width /\ v \in Nat /\ v <= Height * Height
    BY <1>1, <1>2, <1>3
<1>5. distanceSquared(p, q) = u + v
    BY DEF distanceSquared
<1> HIDE DEF u, v
<1>6. u + v \in 0..Width * Width + Height * Height
    <2> DEFINE ww == Width * Width
               hh == Height * Height
    <2>1. ww \in Nat /\ hh \in Nat
        BY <1>1
    <2>2. u <= ww /\ v <= hh
        BY <1>4
    <2> HIDE DEF ww, hh
    <2>3. u + v \in 0..ww + hh
        BY <1>4, <2>1, <2>2
    <2> QED
        BY <2>3 DEF ww, hh
<1> QED
    BY <1>5, <1>6, RootExists DEF heuristic

\* Nothing is left at the end.
LEMMA HeuristicAtEnd ==
    ASSUME NEW q \in Pixels
    PROVE  heuristic(q, q) = 0
<1>1. q[1] \in Int /\ q[2] \in Int
    BY SizeAssumption DEF SizeAssumption, Pixels
<1>2. distanceSquared(q, q) = 0
    <2>1. q[1] - q[1] = 0 /\ q[2] - q[2] = 0
        BY <1>1
    <2> QED
        BY <2>1 DEF distanceSquared
<1> DEFINE r == heuristic(q, q)
<1>3. IsRoot(r, 0)
    BY <1>2, HeuristicIsRoot
<1> HIDE DEF r
<1>4. r \in Nat /\ r * r <= 0
    BY <1>3 DEF IsRoot
<1>5. r = 0
    <2>1. r >= 1 => r * r >= 1
        BY <1>4
    <2> QED
        BY <1>4, <2>1
<1> QED
    BY <1>5 DEF r

\* A step to a neighbour shortens what is left by no more than its own length.
LEMMA HeuristicStep ==
    ASSUME NEW p \in Pixels, NEW n \in Pixels, NEW q \in Pixels, distanceSquared(n, p) \in {1, 2}
    PROVE  /\ heuristic(p, q) \in Nat /\ heuristic(n, q) \in Nat
           /\ heuristic(p, q) <= edge(p, n) + heuristic(n, q)
<1> DEFINE x == n[1] - q[1]
           y == n[2] - q[2]
           a == p[1] - n[1]
           b == p[2] - n[2]
           r == heuristic(p, q)
           s == heuristic(n, q)
<1>1. /\ p[1] \in Int /\ p[2] \in Int /\ n[1] \in Int /\ n[2] \in Int
      /\ q[1] \in Int /\ q[2] \in Int
    BY SizeAssumption DEF SizeAssumption, Pixels
<1>2. x \in Int /\ y \in Int /\ a \in Int /\ b \in Int /\ p[1] - q[1] = x + a /\ p[2] - q[2] = y + b
    BY <1>1
<1>3. n[1] - p[1] = -a /\ n[2] - p[2] = -b
    BY <1>1
<1>4. IsRoot(r, (x + a) * (x + a) + (y + b) * (y + b)) /\ IsRoot(s, x * x + y * y)
    <2>1. IsRoot(r, distanceSquared(p, q)) /\ IsRoot(s, distanceSquared(n, q))
        BY HeuristicIsRoot
    <2>2. distanceSquared(p, q) = (x + a) * (x + a) + (y + b) * (y + b)
        <3> HIDE DEF x, y, a, b
        <3> QED
            BY <1>2 DEF distanceSquared
    <2>3. distanceSquared(n, q) = x * x + y * y
        BY DEF distanceSquared
    <2> QED
        BY <2>1, <2>2, <2>3
<1>5. distanceSquared(n, p) = a * a + b * b
    <2>1. distanceSquared(n, p) = (-a) * (-a) + (-b) * (-b)
        <3> HIDE DEF a, b
        <3> QED
            BY <1>3 DEF distanceSquared
    <2>2. (-a) * (-a) = a * a /\ (-b) * (-b) = b * b
        <3> HIDE DEF a, b
        <3> QED
            BY <1>2
    <2> QED
        BY <2>1, <2>2
<1> HIDE DEF x, y, a, b, r, s
<1>6. a \in {-1, 0, 1} /\ b \in {-1, 0, 1}
    <2> DEFINE u == a * a
               v == b * b
    <2>1. \A k \in Int : (k >= 2 => k * k >= 4) /\ (k <= -2 => k * k >= 4) /\ k * k >= 0
        OBVIOUS
    <2>2. u \in Int /\ v \in Int /\ u >= 0 /\ v >= 0 /\ u + v <= 2
        BY <1>2, <1>5, <2>1
    <2>3. (a >= 2 => u >= 4) /\ (a <= -2 => u >= 4) /\ (b >= 2 => v >= 4) /\ (b <= -2 => v >= 4)
        BY <1>2, <2>1
    <2> HIDE DEF u, v
    <2> QED
        BY <1>2, <2>2, <2>3
<1>7. r \in Nat /\ s \in Nat
    BY <1>4 DEF IsRoot
<1>8. CASE a \in {-1, 1} /\ b \in {-1, 1}
    <2>1. r <= 1415 + s
        BY <1>2, <1>4, <1>8, DiagonalStep
    <2>2. a * a + b * b = 2
        BY <1>8
    <2>3. edge(p, n) = 1415
        BY <1>5, <2>2 DEF edge, Diagonal
    <2> QED
        BY <1>7, <2>1, <2>3 DEF r, s
<1>9. CASE a \in {-1, 1} /\ b = 0
    <2>1. (y + b) * (y + b) = y * y
        BY <1>2, <1>9
    <2>2. IsRoot(r, (x + a) * (x + a) + y * y)
        BY <1>4, <2>1
    <2>3. r <= 1000 + s
        BY <1>2, <1>4, <1>9, <2>2, StraightStep
    <2>4. a * a + b * b = 1
        BY <1>9
    <2>5. edge(p, n) = 1000
        BY <1>5, <2>4 DEF edge, Straight
    <2> QED
        BY <1>7, <2>3, <2>5 DEF r, s
<1>10. CASE a = 0 /\ b \in {-1, 1}
    <2>1. (x + a) * (x + a) + (y + b) * (y + b) = (y + b) * (y + b) + x * x
        <3>1. x + a = x
            BY <1>2, <1>10
        <3> DEFINE u == (y + b) * (y + b)
                   v == x * x
        <3>2. u \in Int /\ v \in Int
            BY <1>2
        <3>3. (x + a) * (x + a) = v
            BY <3>1
        <3> HIDE DEF u, v
        <3>4. v + u = u + v
            BY <3>2
        <3> QED
            BY <3>3, <3>4 DEF u, v
    <2>2. x * x + y * y = y * y + x * x
        <3>1. \A k, l \in Int : k + l = l + k
            OBVIOUS
        <3>2. x * x \in Int /\ y * y \in Int
            BY <1>2
        <3> QED
            BY <3>1, <3>2
    <2>3. IsRoot(r, (y + b) * (y + b) + x * x) /\ IsRoot(s, y * y + x * x)
        BY <1>4, <2>1, <2>2
    <2>4. r <= 1000 + s
        BY <1>2, <1>10, <2>3, StraightStep
    <2>5. a * a + b * b = 1
        BY <1>10
    <2>6. edge(p, n) = 1000
        BY <1>5, <2>5 DEF edge, Straight
    <2> QED
        BY <1>7, <2>4, <2>6 DEF r, s
<1>11. CASE a = 0 /\ b = 0
    BY <1>5, <1>11
<1> QED
    BY <1>6, <1>8, <1>9, <1>10, <1>11

-----------------------------------------------------------------------------
(* The shortest walks *)

\* A step in a direction and a neighbour of the search are the same, and cost the same.
LEMMA Touching ==
    ASSUME NEW c \in Pixels, NEW n \in Pixels
    PROVE  /\ touches(c, n) <=> distanceSquared(n, c) \in {1, 2}
           /\ touches(c, n) => cost(c, n) = edge(c, n)
<1> DEFINE x == n[1] - c[1]
           y == n[2] - c[2]
           d == direction(c, n)
           u == x * x
           v == y * y
<1>1. /\ c[1] \in Int /\ c[2] \in Int /\ n[1] \in Int /\ n[2] \in Int
      /\ c = <<c[1], c[2]>> /\ n = <<n[1], n[2]>>
    BY SizeAssumption DEF Pixels, SizeAssumption
<1>2. x \in Int /\ y \in Int
    BY <1>1
<1>3. d = <<sign(x), sign(y)>>
    BY DEF direction
<1>4. c = n <=> x = 0 /\ y = 0
    <2>1. ASSUME x = 0, y = 0 PROVE c = n
        <3>1. c[1] = n[1] /\ c[2] = n[2]
            BY <1>1, <2>1
        <3> QED
            BY <1>1, <3>1
    <2> QED
        BY <1>1, <2>1
<1>5. touches(c, n) <=> ~ (x = 0 /\ y = 0) /\ sign(x) = x /\ sign(y) = y
    BY <1>3, <1>4 DEF touches
<1>6. distanceSquared(n, c) = u + v
    BY DEF distanceSquared
<1>7. cost(c, n) = Price(d)
    BY CostIs
<1> HIDE DEF x, y, d
<1>8. /\ sign(x) = x <=> x \in {-1, 0, 1}
      /\ sign(y) = y <=> y \in {-1, 0, 1}
    BY <1>2 DEF sign
<1>9. /\ x \in {-1, 1} => u = 1
      /\ x = 0 => u = 0
      /\ x \notin {-1, 0, 1} => u >= 4
      /\ u \in Int
    <2>1. \A k \in Int : (k >= 2 => k * k >= 4) /\ (k <= -2 => k * k >= 4)
        OBVIOUS
    <2> QED
        BY <1>2, <2>1
<1>10. /\ y \in {-1, 1} => v = 1
       /\ y = 0 => v = 0
       /\ y \notin {-1, 0, 1} => v >= 4
       /\ v \in Int
    <2>1. \A k \in Int : (k >= 2 => k * k >= 4) /\ (k <= -2 => k * k >= 4)
        OBVIOUS
    <2> QED
        BY <1>2, <2>1
<1> HIDE DEF u, v
<1>11. touches(c, n) <=> u + v \in {1, 2}
    <2>1. x \in {-1, 1} \/ x = 0 \/ x \notin {-1, 0, 1}
        OBVIOUS
    <2>2. y \in {-1, 1} \/ y = 0 \/ y \notin {-1, 0, 1}
        OBVIOUS
    <2>3. u >= 0 /\ v >= 0
        BY <1>9, <1>10
    <2> QED
        BY <1>5, <1>8, <1>9, <1>10, <2>1, <2>2, <2>3
<1>12. ASSUME touches(c, n) PROVE cost(c, n) = edge(c, n)
    <2>1. x \in {-1, 0, 1} /\ y \in {-1, 0, 1} /\ ~ (x = 0 /\ y = 0)
        BY <1>5, <1>8, <1>12
    <2>2. d[1] = x /\ d[2] = y
        BY <1>3, <1>8, <2>1
    <2>3. CASE x = 0 \/ y = 0
        <3>1. u + v = 1
            BY <1>9, <1>10, <2>1, <2>3
        <3> QED
            BY <1>6, <1>7, <2>2, <2>3, <3>1 DEF Price, edge
    <2>4. CASE ~ (x = 0 \/ y = 0)
        <3>1. u + v = 2
            BY <1>9, <1>10, <2>1, <2>4
        <3> QED
            BY <1>6, <1>7, <2>2, <2>4, <3>1 DEF Price, edge
    <2> QED
        BY <2>3, <2>4
<1> QED
    BY <1>6, <1>11, <1>12

\* Lengths of walks to some pixels of the box.
Lengths == UNION {[d -> Nat] : d \in SUBSET room}

Ways(w, n) == {w[c] + cost(c, n) : c \in {c \in DOMAIN w : touches(c, n)}}
              \cup {w[c] : c \in DOMAIN w \cap {n}}

\* The lengths of the walks of one step more are the least of the ways there.
LEMMA FurtherIs ==
    ASSUME NEW w
    PROVE  further(w) = [n \in {n \in room : Ways(w, n) # {}} |-> Min(Ways(w, n))]
BY DEF further, Ways

\* A walk of one step more ends where one before it ended, or at a pixel next to it.
LEMMA FurtherFacts ==
    ASSUME NEW w \in Lengths
    PROVE  /\ further(w) \in Lengths
           /\ \A n \in DOMAIN further(w) :
                  \/ n \in DOMAIN w /\ further(w)[n] = w[n]
                  \/ \E c \in DOMAIN w : touches(c, n) /\ further(w)[n] = w[c] + cost(c, n)
           /\ \A n \in DOMAIN w : n \in DOMAIN further(w) /\ further(w)[n] <= w[n]
           /\ \A c \in DOMAIN w, n \in room :
                  touches(c, n) => n \in DOMAIN further(w) /\ further(w)[n] <= w[c] + cost(c, n)
<1> DEFINE v == further(w)
           D == {n \in room : Ways(w, n) # {}}
<1>1. DOMAIN w \subseteq room /\ \A c \in DOMAIN w : w[c] \in Nat
    BY DEF Lengths
<1>2. \A c, n : cost(c, n) \in Nat
    BY CostIs, PriceType
<1>3. \A n : Ways(w, n) \subseteq Nat
    BY <1>1, <1>2 DEF Ways
<1>4. v = [n \in D |-> Min(Ways(w, n))]
    BY FurtherIs
<1>5. ASSUME NEW n \in D
      PROVE  Min(Ways(w, n)) \in Ways(w, n) /\ \A k \in Ways(w, n) : Min(Ways(w, n)) <= k
    <2> DEFINE S == Ways(w, n)
    <2>1. S \subseteq Nat /\ S # {}
        BY <1>3
    <2> HIDE DEF S
    <2> QED
        BY <2>1, LeastOf DEF S
<1>6. DOMAIN v = D /\ \A n \in D : v[n] \in Ways(w, n) /\ \A k \in Ways(w, n) : v[n] <= k
    BY <1>4, <1>5
<1> HIDE DEF v
<1>7. D \subseteq room /\ \A n \in room : Ways(w, n) # {} => n \in D
    OBVIOUS
<1> HIDE DEF D
<1>8. v \in Lengths
    <2>1. \A n \in D : v[n] \in Nat
        BY <1>3, <1>6
    <2>2. v \in [D -> Nat]
        BY <1>4, <1>6, <2>1
    <2> QED
        BY <1>7, <2>2 DEF Lengths
<1>9. ASSUME NEW n \in DOMAIN v
      PROVE  \/ n \in DOMAIN w /\ v[n] = w[n]
             \/ \E c \in DOMAIN w : touches(c, n) /\ v[n] = w[c] + cost(c, n)
    <2>1. v[n] \in Ways(w, n)
        BY <1>6
    <2> QED
        BY <2>1 DEF Ways
<1>10. ASSUME NEW n \in DOMAIN w PROVE n \in DOMAIN v /\ v[n] <= w[n]
    <2>1. w[n] \in Ways(w, n)
        BY DEF Ways
    <2> QED
        BY <1>1, <1>6, <1>7, <2>1
<1>11. ASSUME NEW c \in DOMAIN w, NEW n \in room, touches(c, n)
       PROVE  n \in DOMAIN v /\ v[n] <= w[c] + cost(c, n)
    <2>1. w[c] + cost(c, n) \in Ways(w, n)
        BY <1>11 DEF Ways
    <2> QED
        BY <1>6, <1>7, <2>1
<1> QED
    BY <1>8, <1>9, <1>10, <1>11 DEF v

\* The room of a search is finite.
LEMMA RoomIsFinite ==
    ASSUME floor \subseteq Pixels
    PROVE  IsFiniteSet(room) /\ Cardinality(room) \in Nat
<1>1. IsFiniteSet(0..Width - 1) /\ IsFiniteSet(0..Height - 1)
    BY FS_Interval, SizeAssumption DEF SizeAssumption
<1>2. IsFiniteSet(Pixels)
    BY <1>1, FS_Product DEF Pixels
<1>3. room \in SUBSET Pixels
    BY DEF room
<1>4. IsFiniteSet(room)
    BY <1>2, <1>3, FS_Subset
<1> QED
    BY <1>4, FS_CardinalityType

WithinRule(f, k) == IF k = 0 THEN [c \in {from} |-> 0] ELSE further(f[k - 1])

\* The recursive definition of within, as a function.
LEMMA WithinIs == within = CHOOSE f : f = [k \in 0..Cardinality(room) |-> WithinRule(f, k)]
BY DEF within, WithinRule

\* It exists, and has the lengths of walks as its values.
LEMMA WithinFacts ==
    ASSUME floor \subseteq Pixels, from \in room
    PROVE  /\ within[0] = [c \in {from} |-> 0]
           /\ \A k \in 1..Cardinality(room) : within[k] = further(within[k - 1])
           /\ \A k \in 0..Cardinality(room) : within[k] \in Lengths
<1> DEFINE N == Cardinality(room)
           first == [c \in {from} |-> 0]
           next == [z \in Nat \X Lengths |-> further(z[2])]
           c == within
<1>1. N \in Nat
    BY RoomIsFinite
<1>2. first \in Lengths
    <2>1. first \in [{from} -> Nat] /\ {from} \in SUBSET room
        OBVIOUS
    <2> HIDE DEF first
    <2> QED
        BY <2>1 DEF Lengths
<1>3. \A n \in Nat, v \in Lengths : next[<<n, v>>] = further(v)
    OBVIOUS
<1>4. \A v \in Lengths : further(v) \in Lengths
    BY FurtherFacts
<1> HIDE DEF first, next, N
<1>5. \A n \in Nat, v \in Lengths : next[<<n, v>>] \in Lengths
    BY <1>3, <1>4
<1>6. PICK f : Stepwise(f, Lengths, first, next, N)
    BY <1>1, <1>2, <1>5, StepsExist
<1>7. /\ f \in [0..N -> Lengths] /\ f[0] = first
      /\ \A n \in 1..N : f[n] = next[<<n, f[n - 1]>>]
    BY <1>6 DEF Stepwise
<1>8. \A n \in 0..N : f[n] = WithinRule(f, n)
    <2> SUFFICES ASSUME NEW n \in 0..N PROVE f[n] = WithinRule(f, n)
        OBVIOUS
    <2>1. CASE n = 0
        BY <1>7, <2>1 DEF WithinRule, first
    <2>2. CASE n # 0
        <3>1. n \in 1..N /\ n \in Nat /\ n - 1 \in 0..N
            BY <1>1, <2>2
        <3>2. f[n - 1] \in Lengths
            BY <1>7, <3>1
        <3>3. f[n] = further(f[n - 1])
            BY <1>3, <1>7, <3>1, <3>2
        <3> QED
            BY <2>2, <3>3 DEF WithinRule
    <2> QED
        BY <2>1, <2>2
<1>9. f = [n \in 0..N |-> WithinRule(f, n)]
    <2> DEFINE G(n) == WithinRule(f, n)
    <2>1. \A n \in 0..N : f[n] = G(n)
        BY <1>8
    <2>2. f = [n \in 0..N |-> f[n]]
        BY <1>7
    <2> HIDE DEF G
    <2>3. f = [n \in 0..N |-> G(n)]
        BY <2>1, <2>2
    <2> QED
        BY <2>3 DEF G
<1>10. c = [n \in 0..N |-> WithinRule(c, n)]
    BY <1>9, WithinIs DEF N
<1> HIDE DEF c
<1>11. \A n \in 0..N : c[n] = WithinRule(c, n)
    BY <1>10
<1>12. c[0] = first
    <2>1. 0 \in 0..N
        BY <1>1
    <2> QED
        BY <1>11, <2>1 DEF WithinRule, first
<1>13. \A k \in 1..N : c[k] = further(c[k - 1])
    <2> SUFFICES ASSUME NEW k \in 1..N PROVE c[k] = further(c[k - 1])
        OBVIOUS
    <2>1. k \in 0..N /\ k # 0
        BY <1>1
    <2> QED
        BY <1>11, <2>1 DEF WithinRule
<1> DEFINE At(k) == k <= N => c[k] \in Lengths
           T == {k \in Nat : At(k)}
<1>14. T = Nat
    <2>1. 0 \in T
        BY <1>2, <1>12
    <2>2. ASSUME NEW k \in T PROVE k + 1 \in T
        <3>1. CASE k + 1 <= N
            <4>1. k \in Nat /\ k <= N /\ k + 1 \in 1..N /\ k + 1 - 1 = k
                BY <1>1, <3>1
            <4>2. c[k] \in Lengths /\ c[k + 1] = further(c[k])
                BY <1>13, <4>1
            <4> QED
                BY <1>4, <4>1, <4>2
        <3>2. CASE ~ (k + 1 <= N)
            BY <3>2
        <3> QED
            BY <3>1, <3>2
    <2>3. T \subseteq Nat
        OBVIOUS
    <2> HIDE DEF T
    <2> QED
        BY <2>1, <2>2, <2>3, SetInduction
<1>15. ASSUME NEW k \in 0..N PROVE c[k] \in Lengths
    <2>1. k \in Nat /\ k <= N
        BY <1>1
    <2>2. At(k)
        BY <1>14, <2>1
    <2> QED
        BY <2>1, <2>2
<1> QED
    BY <1>12, <1>13, <1>15 DEF c, N, first

-----------------------------------------------------------------------------
(* What the queue knows *)

\* No entry promises a route shorter than its point allows.
Queued ==
    \A e \in queue : /\ e.point \in DOMAIN distance /\ e.score \in Nat
                     /\ distance[e.point] + heuristic(e.point, to) <= e.score

\* A point that was reached is still to be expanded as far as it is known to be, or no
\* neighbour of it is farther than through it.
Open(c) == \E e \in queue : e.point = c /\ e.score = distance[c] + heuristic(c, to)
Closed(c) ==
    \A n \in neighbours(c) : n \in DOMAIN distance /\ distance[n] <= distance[c] + edge(c, n)
Explored == \A c \in DOMAIN distance : Open(c) \/ (c # to /\ Closed(c))

\* A walk of k steps to c is not shorter than what is known of c, or than the score of a point
\* that is still in the queue allows.
Known(k, c) ==
    \/ c \in DOMAIN distance /\ distance[c] <= within[k][c]
    \/ \E f \in queue : f.score <= within[k][c] + heuristic(c, to)

\* One step more.
LEMMA KnownNext ==
    ASSUME floor \subseteq Pixels, to \in floor, Tree, Queued, Explored,
           NEW k, NEW c, NEW n, NEW d \in Nat,
           c \in room, n \in room, touches(c, n),
           within[k][c] = d, Known(k, c)
    PROVE  \/ n \in DOMAIN distance /\ distance[n] <= d + cost(c, n)
           \/ \E f \in queue : f.score <= d + cost(c, n) + heuristic(n, to)
<1> DEFINE w == cost(c, n)
           hc == heuristic(c, to)
           hn == heuristic(n, to)
<1>1. c \in Pixels /\ n \in Pixels /\ to \in Pixels
    BY DEF room
<1>2. distanceSquared(n, c) \in {1, 2} /\ w = edge(c, n)
    BY <1>1, Touching
<1>3. w \in Nat /\ hc \in Nat /\ hn \in Nat /\ hc <= w + hn
    BY <1>1, <1>2, HeuristicStep, EdgeType
<1>4. \A e \in queue : e.score \in Nat
    BY DEF Queued
<1>5. n \in neighbours(c)
    BY <1>2 DEF neighbours, room
<1> HIDE DEF w, hc, hn
<1>6. ASSUME NEW f \in queue, f.score <= d + hc
      PROVE  \E e \in queue : e.score <= d + w + hn
    <2>1. f.score <= d + w + hn
        BY <1>3, <1>4, <1>6
    <2> QED
        BY <2>1
<1>7. CASE \E f \in queue : f.score <= within[k][c] + heuristic(c, to)
    BY <1>6, <1>7 DEF w, hc, hn
<1>8. CASE c \in DOMAIN distance /\ distance[c] <= within[k][c]
    <2>1. distance[c] \in Nat /\ distance[c] <= d
        BY <1>8 DEF Tree
    <2>2. CASE Open(c)
        <3>1. PICK f \in queue : f.score = distance[c] + hc
            BY <2>2 DEF Open, hc
        <3>2. f.score <= d + hc
            BY <1>3, <2>1, <3>1
        <3> QED
            BY <1>6, <3>2 DEF w, hn
    <2>3. CASE Closed(c)
        <3>1. n \in DOMAIN distance /\ distance[n] <= distance[c] + w
            BY <1>2, <1>5, <2>3 DEF Closed
        <3>2. distance[n] \in Nat
            BY <3>1 DEF Tree
        <3>3. distance[n] <= d + w
            BY <1>3, <2>1, <3>1, <3>2
        <3> QED
            BY <3>1, <3>3 DEF w
    <2> QED
        BY <1>8, <2>2, <2>3 DEF Explored
<1> QED
    BY <1>7, <1>8 DEF Known

\* No walk, of however many steps, is shorter than the search can tell.
LEMMA NoShortcut ==
    ASSUME floor \subseteq Pixels, to \in floor, Tree, Queued, Explored
    PROVE  \A k \in 0..Cardinality(room) : \A c \in DOMAIN within[k] : Known(k, c)
<1> DEFINE N == Cardinality(room)
           At(k) == k <= N => \A c \in DOMAIN within[k] : Known(k, c)
           T == {k \in Nat : At(k)}
<1>1. N \in Nat
    BY RoomIsFinite
<1>2. from \in room /\ from \in DOMAIN distance /\ distance[from] = 0
    BY DEF Tree
<1>3. /\ within[0] = [c \in {from} |-> 0]
      /\ \A k \in 1..N : within[k] = further(within[k - 1])
      /\ \A k \in 0..N : within[k] \in Lengths
    BY <1>2, WithinFacts
<1> HIDE DEF N
<1>4. ASSUME NEW k \in 0..N
      PROVE  DOMAIN within[k] \subseteq room /\ \A c \in DOMAIN within[k] : within[k][c] \in Nat
    <2>1. within[k] \in Lengths
        BY <1>3
    <2> QED
        BY <2>1 DEF Lengths
<1>5. 0 \in T
    <2>1. \A c \in DOMAIN within[0] : c = from /\ within[0][c] = 0
        BY <1>3
    <2>2. \A c \in DOMAIN within[0] : Known(0, c)
        BY <1>2, <2>1 DEF Known
    <2> QED
        BY <2>2
<1>6. ASSUME NEW k \in Nat, At(k), k + 1 <= N, NEW n \in DOMAIN within[k + 1]
      PROVE  Known(k + 1, n)
    <2> DEFINE v == within[k]
               u == within[k + 1]
    <2>1. k \in 0..N /\ k + 1 \in 1..N /\ k + 1 \in 0..N /\ k + 1 - 1 = k /\ k <= N
        BY <1>1, <1>6
    <2>2. u = further(v) /\ v \in Lengths
        BY <1>3, <2>1
    <2>3. \A c \in DOMAIN v : Known(k, c)
        BY <1>6, <2>1
    <2>4. n \in room /\ DOMAIN v \subseteq room /\ \A c \in DOMAIN v : v[c] \in Nat
        BY <1>4, <1>6, <2>1
    <2>5. \/ n \in DOMAIN v /\ u[n] = v[n]
          \/ \E c \in DOMAIN v : touches(c, n) /\ u[n] = v[c] + cost(c, n)
        BY <1>6, <2>2, FurtherFacts
    <2>6. CASE n \in DOMAIN v /\ u[n] = v[n]
        BY <2>3, <2>6 DEF Known
    <2>7. CASE \E c \in DOMAIN v : touches(c, n) /\ u[n] = v[c] + cost(c, n)
        <3>1. PICK c \in DOMAIN v : touches(c, n) /\ u[n] = v[c] + cost(c, n)
            BY <2>7
        <3>2. Known(k, c) /\ c \in room /\ v[c] \in Nat
            BY <2>3, <2>4
        <3> DEFINE d == v[c]
        <3>3. d \in Nat /\ within[k][c] = d
            BY <3>2
        <3> HIDE DEF d
        <3>4. \/ n \in DOMAIN distance /\ distance[n] <= d + cost(c, n)
              \/ \E f \in queue : f.score <= d + cost(c, n) + heuristic(n, to)
            BY <2>4, <3>1, <3>2, <3>3, KnownNext
        <3>5. u[n] = d + cost(c, n)
            BY <3>1 DEF d
        <3> HIDE DEF v
        <3>6. \/ n \in DOMAIN distance /\ distance[n] <= u[n]
              \/ \E f \in queue : f.score <= u[n] + heuristic(n, to)
            BY <3>4, <3>5, Zenon
        <3> QED
            BY <3>6 DEF Known
    <2> QED
        BY <2>5, <2>6, <2>7
<1>7. ASSUME NEW k \in T PROVE k + 1 \in T
    <2>1. k \in Nat /\ At(k)
        OBVIOUS
    <2>2. At(k + 1)
        BY <1>6, <2>1
    <2> HIDE DEF At
    <2> QED
        BY <2>1, <2>2
<1>8. T = Nat
    <2>1. T \subseteq Nat
        OBVIOUS
    <2> HIDE DEF T
    <2> QED
        BY <1>5, <1>7, <2>1, SetInduction
<1>9. ASSUME NEW k \in 0..N PROVE At(k)
    <2>1. k \in Nat /\ k <= N
        BY <1>1
    <2> QED
        BY <1>8, <2>1
<1> HIDE DEF T
<1> QED
    BY <1>1, <1>9 DEF N

\* What a walk of so many steps reaches, a longer one does, at no greater length.
LEMMA WithinGrows ==
    ASSUME floor \subseteq Pixels, from \in room, NEW j \in 0..Cardinality(room)
    PROVE  \A k \in j..Cardinality(room) : \A c \in DOMAIN within[j] :
               c \in DOMAIN within[k] /\ within[k][c] <= within[j][c]
<1> DEFINE N == Cardinality(room)
           u == within[j]
           More(v) == \A c \in DOMAIN u : c \in DOMAIN v /\ v[c] <= u[c]
           At(k) == j + k <= N => More(within[j + k])
           T == {k \in Nat : At(k)}
<1>1. N \in Nat
    BY RoomIsFinite
<1>2. /\ \A k \in 1..N : within[k] = further(within[k - 1])
      /\ \A k \in 0..N : within[k] \in Lengths
    BY WithinFacts
<1> HIDE DEF N
<1>3. \A v \in Lengths : \A c \in DOMAIN v : v[c] \in Nat
    BY DEF Lengths
<1>4. u \in Lengths
    BY <1>2 DEF N
<1>5. 0 \in T
    <2>1. \A c \in DOMAIN u : u[c] <= u[c]
        <3>1. \A c \in DOMAIN u : u[c] \in Nat
            BY <1>3, <1>4
        <3> HIDE DEF u
        <3> QED
            BY <3>1
    <2>2. j + 0 = j
        BY <1>1
    <2>3. More(within[j])
        BY <2>1
    <2> HIDE DEF More
    <2> QED
        BY <2>2, <2>3
<1>6. ASSUME NEW k \in Nat, At(k), j + (k + 1) <= N PROVE More(within[j + (k + 1)])
    <2> DEFINE v == within[j + k]
               w == within[j + (k + 1)]
    <2>1. j + k <= N /\ j + k \in 0..N /\ j + (k + 1) \in 1..N /\ j + (k + 1) - 1 = j + k
          /\ j + (k + 1) \in 0..N
        BY <1>1, <1>6
    <2>2. v \in Lengths /\ w = further(v) /\ w \in Lengths
        BY <1>2, <2>1
    <2>3. More(v)
        BY <1>6, <2>1
    <2> HIDE DEF u, v, w
    <2>4. \A c \in DOMAIN v : c \in DOMAIN w /\ w[c] <= v[c]
        BY <2>2, FurtherFacts
    <2>5. ASSUME NEW c \in DOMAIN u PROVE c \in DOMAIN w /\ w[c] <= u[c]
        <3>1. c \in DOMAIN v /\ v[c] <= u[c] /\ u[c] \in Nat
            BY <1>3, <1>4, <2>3
        <3>2. c \in DOMAIN w /\ w[c] <= v[c]
            BY <2>4, <3>1
        <3>3. v[c] \in Nat /\ w[c] \in Nat
            BY <1>3, <2>2, <3>1, <3>2
        <3> QED
            BY <3>1, <3>2, <3>3
    <2> QED
        BY <2>5 DEF w
<1>7. ASSUME NEW k \in T PROVE k + 1 \in T
    <2>1. k \in Nat /\ At(k)
        OBVIOUS
    <2>2. At(k + 1)
        BY <1>6, <2>1
    <2> HIDE DEF At
    <2> QED
        BY <2>1, <2>2
<1>8. T = Nat
    <2>1. T \subseteq Nat
        OBVIOUS
    <2> HIDE DEF T
    <2> QED
        BY <1>5, <1>7, <2>1, SetInduction
<1>9. ASSUME NEW k \in j..N PROVE More(within[k])
    <2>1. k - j \in Nat /\ j + (k - j) = k /\ k <= N
        BY <1>1
    <2>2. At(k - j)
        BY <1>8, <2>1
    <2> HIDE DEF More
    <2> QED
        BY <2>1, <2>2
<1> HIDE DEF T
<1> QED
    BY <1>9 DEF N

\* A walk that leads away from the start visits no point twice.
LEMMA AwayIsShort ==
    ASSUME floor \subseteq Pixels, Tree, NEW w, Walk(w), Away(w)
    PROVE  Len(w) <= Cardinality(room)
<1> DEFINE n == Len(w)
           h(i) == distance[w[i]]
           At(k) == \A i \in 1..n : i + (k + 1) <= n => h(i) < h(i + (k + 1))
           T == {k \in Nat : At(k)}
<1>1. n \in Nat /\ n >= 1 /\ w \in Seq(Points)
    BY DEF Walk
<1>2. \A i \in 1..n : w[i] \in DOMAIN distance
    BY DEF Away
<1>3. \A i \in 1..n : h(i) \in Nat
    BY <1>2 DEF Tree
<1>4. ASSUME NEW i \in 1..n - 1 PROVE h(i) < h(i + 1)
    <2> DEFINE c == edge(w[i], w[i + 1])
    <2>1. h(i) + c <= h(i + 1)
        BY DEF Away
    <2>2. c \in Nat /\ c >= 1
        BY EdgeType
    <2>3. i \in 1..n /\ i + 1 \in 1..n
        BY <1>1
    <2>4. h(i) \in Nat /\ h(i + 1) \in Nat
        BY <1>3, <2>3
    <2> HIDE DEF h, c
    <2> QED
        BY <2>1, <2>2, <2>4
<1> HIDE DEF n, h
<1>5. T = Nat
    <2>1. 0 \in T
        <3> SUFFICES ASSUME NEW i \in 1..n, i + (0 + 1) <= n PROVE h(i) < h(i + (0 + 1))
            OBVIOUS
        <3>1. i \in 1..n - 1 /\ i + (0 + 1) = i + 1
            BY <1>1
        <3> QED
            BY <1>4, <3>1
    <2>2. ASSUME NEW k \in T PROVE k + 1 \in T
        <3>1. k \in Nat /\ At(k)
            OBVIOUS
        <3>2. ASSUME NEW i \in 1..n, i + (k + 1 + 1) <= n PROVE h(i) < h(i + (k + 1 + 1))
            <4> DEFINE m == i + (k + 1)
            <4>1. m \in 1..n - 1 /\ m \in 1..n /\ m + 1 \in 1..n /\ m + 1 = i + (k + 1 + 1) /\ m <= n
                BY <1>1, <3>1, <3>2
            <4>2. h(i) < h(m)
                BY <3>1, <4>1
            <4> HIDE DEF m
            <4>3. h(m) < h(m + 1)
                BY <1>4, <4>1
            <4>4. h(i) \in Nat /\ h(m) \in Nat /\ h(m + 1) \in Nat
                BY <1>3, <4>1
            <4>5. h(i) < h(m + 1)
                BY <4>2, <4>3, <4>4
            <4> QED
                BY <4>1, <4>5
        <3>3. At(k + 1)
            BY <3>2
        <3> HIDE DEF At
        <3> QED
            BY <3>1, <3>3
    <2>3. T \subseteq Nat
        OBVIOUS
    <2> HIDE DEF T
    <2> QED
        BY <2>1, <2>2, <2>3, SetInduction
<1>6. ASSUME NEW i \in 1..n, NEW j \in 1..n, i < j PROVE w[i] # w[j]
    <2>1. j - i - 1 \in Nat /\ i + (j - i - 1 + 1) = j /\ j <= n
        BY <1>1, <1>6
    <2>2. At(j - i - 1)
        BY <1>5, <2>1
    <2>3. h(i) < h(j)
        BY <2>1, <2>2
    <2>4. h(i) \in Nat
        BY <1>3
    <2>5. w[i] = w[j] => h(i) = h(j)
        BY DEF h
    <2> QED
        BY <2>3, <2>4, <2>5
<1>7. w \in Injection(1..n, room)
    <2>1. w \in [1..n -> room]
        <3>1. \A i \in 1..n : w[i] \in room
            BY <1>2 DEF Tree
        <3>2. w = [i \in 1..n |-> w[i]]
            BY <1>1 DEF n
        <3> QED
            BY <3>1, <3>2
    <2>2. \A i, j \in 1..n : w[i] = w[j] => i = j
        <3> SUFFICES ASSUME NEW i \in 1..n, NEW j \in 1..n, w[i] = w[j], i # j PROVE FALSE
            OBVIOUS
        <3>1. i < j \/ j < i
            BY <1>1
        <3> QED
            BY <1>6, <3>1
    <2> QED
        BY <2>1, <2>2 DEF Injection, IsInjective
<1>8. Cardinality(1..n) <= Cardinality(room)
    BY <1>7, RoomIsFinite, FS_Injection
<1>9. Cardinality(1..n) = n
    <2>1. 1 \in Int /\ n \in Int /\ ~ (1 > n) /\ n - 1 + 1 = n
        BY <1>1
    <2> QED
        BY <2>1, FS_Interval
<1> QED
    BY <1>8, <1>9 DEF n

\* The route found is a shortest.
LEMMA FoundIsShortest ==
    ASSUME floor \subseteq Pixels, to \in floor, Tree, Queued, Explored,
           NEW e \in queue, e.point = to, \A f \in queue : e.score <= f.score
    PROVE  LET r == simplifyPath(restored(to)) IN
           Joins(r, from, to) /\ to \in DOMAIN shortest /\ length(r) = shortest[to]
<1> DEFINE w == restored(to)
           n == Len(w)
           r == simplifyPath(w)
           N == Cardinality(room)
           low == [i \in 1..n |-> within[i - 1][w[i]]]
           high == [i \in 1..n |-> distance[w[i]]]
<1>1. to \in DOMAIN distance
    BY DEF Queued
<1>2. Walk(w) /\ Away(w) /\ w[1] = from /\ w[n] = to
    BY <1>1, RestoredWalks
<1>3. N \in Nat /\ n \in Nat /\ n >= 1 /\ n <= N
    BY <1>2, RoomIsFinite, AwayIsShort DEF Walk
<1>4. from \in room /\ from \in DOMAIN distance /\ distance[from] = 0
    BY DEF Tree
<1>5. /\ within[0] = [c \in {from} |-> 0]
      /\ \A k \in 1..N : within[k] = further(within[k - 1])
      /\ \A k \in 0..N : within[k] \in Lengths
    BY <1>4, WithinFacts
<1>6. /\ \A i \in 1..n : w[i] \in DOMAIN distance
      /\ \A i \in 1..n - 1 : distance[w[i]] + edge(w[i], w[i + 1]) <= distance[w[i + 1]]
    BY <1>2 DEF Away
<1>7. \A i \in 1..n : w[i] \in room /\ w[i] \in Pixels /\ distance[w[i]] \in Nat
    BY <1>6 DEF Tree, room
<1> HIDE DEF N, w, n
<1>8. ASSUME NEW i \in 1..n - 1
      PROVE  /\ touches(w[i], w[i + 1]) /\ Toll(w, i) = cost(w[i], w[i + 1])
             /\ Toll(w, i) = edge(w[i], w[i + 1])
    <2>1. i \in 1..n /\ i + 1 \in 1..n
        BY <1>3
    <2>2. w[i] \in Pixels /\ w[i + 1] \in Pixels
        BY <1>7, <2>1
    <2>3. distanceSquared(w[i + 1], w[i]) \in {1, 2}
        BY <1>2 DEF Walk, n
    <2>4. touches(w[i], w[i + 1]) /\ cost(w[i], w[i + 1]) = edge(w[i], w[i + 1])
        BY <2>2, <2>3, Touching
    <2> QED
        BY <2>4, CostIs DEF Toll
<1> DEFINE At(k) == k + 1 <= n => w[k + 1] \in DOMAIN within[k]
           T == {k \in Nat : At(k)}
<1>9. ASSUME NEW k \in Nat, k + 2 <= n, w[k + 1] \in DOMAIN within[k]
      PROVE  /\ w[k + 2] \in DOMAIN within[k + 1]
             /\ within[k + 1][w[k + 2]] <= within[k][w[k + 1]] + cost(w[k + 1], w[k + 2])
    <2>1. k + 1 \in 1..N /\ k \in 0..N /\ k + 1 - 1 = k /\ k + 1 \in 1..n - 1 /\ k + 2 \in 1..n
          /\ k + 1 + 1 = k + 2
        BY <1>3, <1>9
    <2>2. within[k] \in Lengths /\ within[k + 1] = further(within[k])
        BY <1>5, <2>1
    <2>3. touches(w[k + 1], w[k + 2]) /\ w[k + 2] \in room
        BY <1>7, <1>8, <2>1
    <2> DEFINE v == within[k]
               u == within[k + 1]
               p == w[k + 1]
               q == w[k + 2]
    <2>4. v \in Lengths /\ u = further(v) /\ touches(p, q) /\ q \in room /\ p \in DOMAIN v
        BY <1>9, <2>2, <2>3
    <2> HIDE DEF v, u, p, q
    <2>5. q \in DOMAIN u /\ u[q] <= v[p] + cost(p, q)
        BY <2>4, FurtherFacts
    <2> QED
        BY <2>5 DEF v, u, p, q
<1>10. T = Nat
    <2>1. 0 \in T
        BY <1>2, <1>5
    <2>2. ASSUME NEW k \in T PROVE k + 1 \in T
        <3>1. CASE k + 1 + 1 <= n
            <4>1. k \in Nat /\ k + 1 <= n /\ k + 2 <= n /\ k + 1 + 1 = k + 2
                BY <1>3, <3>1
            <4>2. w[k + 1] \in DOMAIN within[k]
                BY <4>1
            <4>3. w[k + 2] \in DOMAIN within[k + 1]
                BY <1>9, <4>1, <4>2
            <4> QED
                BY <4>1, <4>3
        <3>2. CASE ~ (k + 1 + 1 <= n)
            BY <3>2
        <3> QED
            BY <3>1, <3>2
    <2>3. T \subseteq Nat
        OBVIOUS
    <2> HIDE DEF T
    <2> QED
        BY <2>1, <2>2, <2>3, SetInduction
<1>11. ASSUME NEW i \in 1..n
       PROVE  w[i] \in DOMAIN within[i - 1] /\ within[i - 1][w[i]] \in Nat /\ i - 1 \in 0..N
    <2>1. i - 1 \in Nat /\ i - 1 + 1 = i /\ i <= n /\ i - 1 \in 0..N
        BY <1>3
    <2>2. At(i - 1)
        BY <1>10, <2>1
    <2>3. w[i] \in DOMAIN within[i - 1]
        BY <2>1, <2>2
    <2>4. within[i - 1] \in Lengths
        BY <1>5, <2>1
    <2> QED
        BY <2>1, <2>3, <2>4 DEF Lengths
<1> HIDE DEF T
<1>12. Measured(w, low, high)
    <2>1. \A i \in 1..n : low[i] = within[i - 1][w[i]] /\ high[i] = distance[w[i]]
        OBVIOUS
    <2> HIDE DEF low, high
    <2>2. \A i \in 1..n : low[i] \in Int /\ high[i] \in Int
        BY <1>7, <1>11, <2>1
    <2>3. low[1] <= 0 /\ 0 <= high[1]
        <3>1. 1 \in 1..n /\ 1 - 1 = 0
            BY <1>3
        <3>2. low[1] = within[0][from] /\ high[1] = distance[from]
            BY <1>2, <2>1, <3>1
        <3> QED
            BY <1>4, <1>5, <3>2
    <2>4. ASSUME NEW i \in 1..n - 1
          PROVE  low[i + 1] <= low[i] + Toll(w, i) /\ high[i] + Toll(w, i) <= high[i + 1]
        <3>1. i \in 1..n /\ i + 1 \in 1..n /\ i - 1 \in Nat /\ i - 1 + 2 <= n
              /\ i - 1 + 2 = i + 1 /\ i - 1 + 1 = i /\ i + 1 - 1 = i
            BY <1>3
        <3>2. w[i - 1 + 1] \in DOMAIN within[i - 1]
            BY <1>11, <3>1
        <3>3. within[i - 1 + 1][w[i - 1 + 2]]
                  <= within[i - 1][w[i - 1 + 1]] + cost(w[i - 1 + 1], w[i - 1 + 2])
            BY <1>9, <3>1, <3>2
        <3>4. within[i][w[i + 1]] <= within[i - 1][w[i]] + cost(w[i], w[i + 1])
            BY <3>1, <3>3
        <3>5. low[i] = within[i - 1][w[i]] /\ low[i + 1] = within[i][w[i + 1]]
              /\ high[i] = distance[w[i]] /\ high[i + 1] = distance[w[i + 1]]
            BY <2>1, <3>1
        <3> QED
            BY <1>6, <1>8, <3>4, <3>5
    <2> QED
        BY <2>2, <2>3, <2>4 DEF Measured, n
<1>13. Joins(r, from, to) /\ low[n] <= length(r) /\ length(r) <= high[n]
    <2> HIDE DEF low, high
    <2> QED
        BY <1>2, <1>12, SimplifyFacts DEF n
<1>14. n \in 1..n /\ N \in 0..N /\ n - 1 \in 0..N /\ N \in n - 1..N
    BY <1>3
<1>15. low[n] = within[n - 1][to] /\ high[n] = distance[to]
    BY <1>2, <1>14
<1>16. to \in DOMAIN within[n - 1] /\ within[n - 1][to] \in Nat
    BY <1>2, <1>11, <1>14
<1>17. to \in DOMAIN within[N] /\ within[N][to] <= within[n - 1][to]
    BY <1>4, <1>14, <1>16, WithinGrows DEF N
<1>18. within[N][to] \in Nat
    <2>1. within[N] \in Lengths
        BY <1>5, <1>14
    <2> QED
        BY <1>17, <2>1 DEF Lengths
<1>19. distance[to] \in Nat /\ distance[to] <= within[N][to]
    <2>1. Known(N, to)
        BY <1>14, <1>17, NoShortcut DEF N
    <2>2. heuristic(to, to) = 0
        BY HeuristicAtEnd
    <2>3. \A f \in queue : f.score \in Nat
        BY DEF Queued
    <2>4. distance[to] \in Nat
        BY <1>1 DEF Tree
    <2>5. distance[to] <= e.score
        <3>1. distance[to] + heuristic(to, to) <= e.score
            BY DEF Queued
        <3> QED
            BY <2>2, <2>4, <3>1
    <2>6. CASE \E f \in queue : f.score <= within[N][to] + heuristic(to, to)
        <3>1. PICK f \in queue : f.score <= within[N][to] + heuristic(to, to)
            BY <2>6
        <3>2. f.score <= within[N][to] /\ e.score <= f.score /\ f.score \in Nat /\ e.score \in Nat
            BY <1>18, <2>2, <2>3, <3>1
        <3> QED
            BY <1>18, <2>4, <2>5, <3>2
    <2> QED
        BY <2>1, <2>4, <2>6 DEF Known
<1> HIDE DEF low, high, r
<1>20. length(r) = within[N][to]
    <2> DEFINE a == within[n - 1][to]
               b == within[N][to]
               c == distance[to]
               l == length(r)
    <2>1. a \in Nat /\ b \in Nat /\ c \in Nat /\ a <= l /\ l <= c /\ b <= a /\ c <= b
        BY <1>13, <1>15, <1>16, <1>17, <1>18, <1>19
    <2>2. l \in Int
        <3>1. r \in Seq(Points) /\ Len(r) >= 1 /\ from \in Points
            <4>1. from \in Points
                BY <1>4, SizeAssumption DEF room, Pixels, Points, SizeAssumption
            <4> QED
                BY <1>13, <4>1 DEF Joins
        <3> QED
            BY <3>1, LengthAppend
    <2> HIDE DEF a, b, c, l
    <2>3. l = b
        BY <2>1, <2>2
    <2> QED
        BY <2>3 DEF b, l
<1> QED
    BY <1>13, <1>17, <1>20 DEF r, w, shortest, N

\* Where the search gives up, no route exists.
LEMMA NoneIsMissed ==
    ASSUME floor \subseteq Pixels, to \in floor, Tree, Queued, Explored, queue = {}
    PROVE  to \notin DOMAIN shortest
<1> DEFINE N == Cardinality(room)
<1>1. N \in 0..N
    BY RoomIsFinite
<1> SUFFICES ASSUME to \in DOMAIN within[N] PROVE FALSE
    BY DEF shortest
<1>2. Known(N, to)
    BY <1>1, NoShortcut
<1>3. to \in DOMAIN distance
    BY <1>2 DEF Known
<1>4. Open(to)
    BY <1>3 DEF Explored
<1> QED
    BY <1>4 DEF Open

\* Of a pair of poses that was routed or drawn, the route runs from the pixel its search
\* starts at to that where it ends.
Pairwise ==
    \A i \in 1..Len(routes) :
        \/ routes[i] = <<>>
        \/ Joins(routes[i], nearestTraversablePoint(trail[i]), nearestTraversablePoint(trail[i + 1]))

Searching ==
    search => /\ index <= Len(trail)
              /\ from = nearestTraversablePoint(start) /\ to = nearestTraversablePoint(end)
              /\ to \in floor /\ Tree /\ Queued /\ Explored

RouteInv ==
    /\ floor \subseteq Pixels /\ trail \in Seq(Points)
    /\ index \in Nat /\ index >= 2
    /\ routes \in Seq(Seq(Points)) /\ Len(routes) = index - 2
    /\ painted \subseteq floor
    /\ Pairwise /\ Searching /\ SearchIsExact

-----------------------------------------------------------------------------
(* What a step that leaves the floor alone leaves alone *)

\* While the floor stays, so does what is near a pose, and what joins two points.
LEMMA SameFloor ==
    ASSUME floor' = floor
    PROVE  /\ \A p : nearestTraversablePoint(p)' = nearestTraversablePoint(p)
           /\ \A s, p, q : Joins(s, p, q)' = Joins(s, p, q)
<1>1. \A p : nearestTraversablePoint(p)' = nearestTraversablePoint(p)
    BY DEF nearestTraversablePoint
<1>2. \A p, q : Clear(p, q)' = Clear(p, q)
    BY DEF Clear
<1>3. \A s, p, q : Joins(s, p, q)' = Joins(s, p, q)
    BY <1>2 DEF Joins
<1> QED
    BY <1>1, <1>3

\* The next pair of poses gets a route from the one pixel to the other, or none.
LEMMA PairKept ==
    ASSUME RouteInv, floor' = floor, trail' = trail, index' = index + 1,
           NEW r, r = <<>> \/ Joins(r, nearestTraversablePoint(start), nearestTraversablePoint(end)),
           routes' = Append(routes, r)
    PROVE  /\ Pairwise' /\ index' \in Nat /\ index' >= 2
           /\ routes' \in Seq(Seq(Points)) /\ Len(routes') = index' - 2
<1>1. routes \in Seq(Seq(Points)) /\ Len(routes) = index - 2 /\ index \in Nat /\ index >= 2
    BY DEF RouteInv
<1>2. r \in Seq(Points)
    <2>1. CASE r = <<>>
        BY <2>1
    <2>2. CASE r # <<>>
        BY <2>2 DEF Joins
    <2> QED
        BY <2>1, <2>2
<1>3. /\ routes' \in Seq(Seq(Points)) /\ Len(routes') = index - 1
      /\ routes'[index - 1] = r /\ \A i \in 1..index - 2 : routes'[i] = routes[i]
    BY <1>1, <1>2
<1>4. ASSUME NEW i \in 1..Len(routes')
      PROVE  \/ routes'[i] = <<>>
             \/ Joins(routes'[i], nearestTraversablePoint(trail[i]),
                      nearestTraversablePoint(trail[i + 1]))
    <2>1. CASE i = index - 1
        <3>1. i + 1 = index
            BY <1>1, <2>1
        <3> QED
            BY <1>3, <2>1, <3>1 DEF start, end
    <2>2. CASE i # index - 1
        <3>1. i \in 1..index - 2 /\ i \in 1..Len(routes)
            BY <1>1, <1>3, <2>2
        <3>2. \/ routes[i] = <<>>
              \/ Joins(routes[i], nearestTraversablePoint(trail[i]),
                       nearestTraversablePoint(trail[i + 1]))
            BY <3>1 DEF RouteInv, Pairwise
        <3> QED
            BY <1>3, <3>1, <3>2
    <2> QED
        BY <2>1, <2>2
<1>5. Pairwise'
    BY <1>4, SameFloor DEF Pairwise
<1> QED
    BY <1>1, <1>3, <1>5

\* The poses of a pair are points.
LEMMA PosesArePoints ==
    ASSUME RouteInv, index <= Len(trail)
    PROVE  start \in Points /\ end \in Points
<1>1. trail \in Seq(Points) /\ index \in Nat /\ index >= 2
    BY DEF RouteInv
<1>2. index - 1 \in 1..Len(trail) /\ index \in 1..Len(trail)
    BY <1>1
<1> QED
    BY <1>1, <1>2 DEF start, end

\* drawLineNeighbors paints floor alone.
LEMMA BrushOnFloor ==
    ASSUME NEW p, NEW q
    PROVE  brush(p, q) \subseteq floor
BY DEF brush

\* What is drawn is painted on the floor.
LEMMA DrawPaints ==
    ASSUME RouteInv, floor' = floor, NEW r, draw(r)
    PROVE  painted' \subseteq floor'
<1>1. painted \subseteq floor
    BY DEF RouteInv
<1>2. UNION {brush(r[k], r[k + 1]) : k \in 1..Len(r) - 1} \subseteq floor
    BY BrushOnFloor
<1> QED
    BY <1>1, <1>2 DEF draw

\* A pair is skipped.
LEMMA SkipKeeps ==
    ASSUME RouteInv, skip, floor' = floor, trail' = trail
    PROVE  /\ floor' \subseteq Pixels /\ trail' \in Seq(Points)
           /\ Pairwise' /\ index' \in Nat /\ index' >= 2
           /\ routes' \in Seq(Seq(Points)) /\ Len(routes') = index' - 2
           /\ painted' \subseteq floor'
<1>1. <<>> = <<>> \/ Joins(<<>>, nearestTraversablePoint(start), nearestTraversablePoint(end))
    OBVIOUS
<1>2. routes' = Append(routes, <<>>) /\ index' = index + 1 /\ painted' = painted
    BY DEF skip
<1>3. floor \subseteq Pixels /\ trail \in Seq(Points) /\ painted \subseteq floor
    BY DEF RouteInv
<1>4. /\ Pairwise' /\ index' \in Nat /\ index' >= 2
      /\ routes' \in Seq(Seq(Points)) /\ Len(routes') = index' - 2
    BY <1>1, <1>2, PairKept
<1> QED
    BY <1>2, <1>3, <1>4

\* A pair is drawn.
LEMMA DrawKeeps ==
    ASSUME RouteInv, floor' = floor, trail' = trail, NEW r, draw(r),
           Joins(r, nearestTraversablePoint(start), nearestTraversablePoint(end))
    PROVE  /\ floor' \subseteq Pixels /\ trail' \in Seq(Points)
           /\ Pairwise' /\ index' \in Nat /\ index' >= 2
           /\ routes' \in Seq(Seq(Points)) /\ Len(routes') = index' - 2
           /\ painted' \subseteq floor'
<1>1. routes' = Append(routes, r) /\ index' = index + 1
    BY DEF draw
<1>2. floor \subseteq Pixels /\ trail \in Seq(Points)
    BY DEF RouteInv
<1>3. painted' \subseteq floor'
    BY DrawPaints
<1>4. /\ Pairwise' /\ index' \in Nat /\ index' >= 2
      /\ routes' \in Seq(Seq(Points)) /\ Len(routes') = index' - 2
    BY <1>1, PairKept
<1> QED
    BY <1>2, <1>3, <1>4

-----------------------------------------------------------------------------
(* The steps of a search *)

\* No pixel stands for the lack of one.
LEMMA NotNone ==
    ASSUME floor \subseteq Pixels
    PROVE  None \notin floor
BY SizeAssumption DEF SizeAssumption, Pixels, None

\* A pixel is in the box of a search that starts there.
LEMMA StartInBox ==
    ASSUME NEW p \in Pixels, NEW q \in Pixels
    PROVE  p \in box(p, q)
<1>1. /\ p[1] \in Nat /\ p[2] \in Nat /\ q[1] \in Nat /\ q[2] \in Nat
    BY SizeAssumption DEF SizeAssumption, Pixels
<1>2. \A i \in 1..2 : p[i] \in Nat /\ q[i] \in Nat
    <2> SUFFICES ASSUME NEW i \in 1..2 PROVE p[i] \in Nat /\ q[i] \in Nat
        OBVIOUS
    <2>1. i = 1 \/ i = 2
        OBVIOUS
    <2> QED
        BY <1>1, <2>1
<1>3. ASSUME NEW m \in Nat, NEW n \in Nat
      PROVE  Min({m, n}) \in Nat /\ Min({m, n}) <= m /\ Max({m, n}) \in Nat /\ m <= Max({m, n})
    <2>1. \E x \in {m, n} : \A y \in {m, n} : x <= y
        BY <1>3
    <2>2. \E x \in {m, n} : \A y \in {m, n} : x >= y
        BY <1>3
    <2>3. Min({m, n}) \in {m, n} /\ \A y \in {m, n} : Min({m, n}) <= y
        BY <2>1 DEF Min
    <2>4. Max({m, n}) \in {m, n} /\ \A y \in {m, n} : Max({m, n}) >= y
        BY <2>2 DEF Max
    <2> DEFINE u == Min({m, n})
               v == Max({m, n})
    <2> HIDE DEF u, v
    <2>5. u \in {m, n} /\ u <= m /\ v \in {m, n} /\ v >= m
        BY <2>3, <2>4 DEF u, v
    <2>6. u \in Nat /\ u <= m /\ v \in Nat /\ m <= v
        BY <1>3, <2>5
    <2> QED
        BY <2>6 DEF u, v
<1>4. ASSUME NEW i \in 1..2
      PROVE  p[i] >= Min({p[i], q[i]}) - Padding /\ p[i] <= Max({p[i], q[i]}) + Padding
    <2> DEFINE m == p[i]
               u == Min({p[i], q[i]})
               v == Max({p[i], q[i]})
    <2>1. u \in Nat /\ u <= m /\ v \in Nat /\ m <= v /\ m \in Nat
        BY <1>2, <1>3
    <2>2. Padding \in Nat
        BY SizeAssumption DEF SizeAssumption
    <2> HIDE DEF m, u, v
    <2>3. m >= u - Padding /\ m <= v + Padding
        BY <2>1, <2>2
    <2> QED
        BY <2>3 DEF m, u, v
<1> QED
    BY <1>4 DEF box

\* What a point is set to replaces what it was.
LEMMA OverFacts ==
    ASSUME NEW new, NEW old
    PROVE  /\ DOMAIN over(new, old) = DOMAIN new \cup DOMAIN old
           /\ \A n \in DOMAIN new : over(new, old)[n] = new[n]
           /\ \A n \in DOMAIN old : n \notin DOMAIN new => over(new, old)[n] = old[n]
BY DEF over

\* The heuristic is a natural number.
LEMMA HeuristicType ==
    ASSUME NEW p \in Pixels, NEW q \in Pixels
    PROVE  heuristic(p, q) \in Nat
BY HeuristicIsRoot DEF IsRoot

\* Expanding a point.
LEMMA ExpandKeeps ==
    ASSUME RouteInv, NEW e \in queue, Expand(e)
    PROVE  Tree' /\ Queued' /\ Explored'
<1> DEFINE c == e.point
           D == DOMAIN distance
           better == {n \in neighbours(c) : shorter(c, n)}
           new == [n \in better |-> distance[c] + edge(c, n)]
           back == [n \in better |-> c]
<1>1. search /\ c # to
    BY DEF Expand, First
<1>2. /\ distance' = over(new, distance)
      /\ previous' = over(back, previous)
      /\ queue' = (queue \ {e})
                  \cup {[point |-> n, score |-> new[n] + heuristic(n, to)] : n \in better}
      /\ from' = from /\ to' = to /\ floor' = floor
    BY DEF Expand
<1>3. Tree /\ Queued /\ Explored /\ floor \subseteq Pixels /\ to \in floor
    BY <1>1 DEF RouteInv, Searching
<1>4. c \in D
    BY <1>3 DEF Queued
<1>5. better \subseteq room /\ better \subseteq neighbours(c)
    BY DEF neighbours, room
<1>6. ASSUME NEW n \in neighbours(c), n \notin better
       PROVE  n \in D /\ ~ (distance[c] + edge(c, n) < distance[n])
    BY <1>6 DEF shorter
<1>7. \A n \in better : distanceSquared(n, c) \in {1, 2}
    BY DEF neighbours
<1>8. \A n \in better : n \notin D \/ distance[c] + edge(c, n) < distance[n]
    BY DEF shorter
<1>9. \A n \in neighbours(c) : n \in D \/ n \in better
    BY DEF shorter
<1>10. \A n \in D : distance[n] \in Nat
    BY <1>3 DEF Tree
<1>11. distance[c] \in Nat
    BY <1>4, <1>10
<1>12. ASSUME NEW n \in better
       PROVE  /\ new[n] \in Nat /\ new[n] = distance[c] + edge(c, n) /\ distance[c] < new[n]
              /\ new[n] <= distance[c] + 1415
              /\ n \in D => new[n] < distance[n]
    <2>1. new[n] = distance[c] + edge(c, n)
        OBVIOUS
    <2> DEFINE w == edge(c, n)
    <2>2. w \in Nat /\ w >= 1 /\ w <= 1415
        BY EdgeType
    <2> HIDE DEF w, new
    <2>3. new[n] = distance[c] + w
        BY <2>1 DEF w
    <2>4. n \in D => distance[c] + w < distance[n]
        BY <1>8 DEF w
    <2>5. new[n] \in Nat /\ distance[c] < new[n] /\ new[n] <= distance[c] + 1415
        BY <1>11, <2>2, <2>3
    <2>6. n \in D => new[n] < distance[n]
        BY <2>3, <2>4
    <2> QED
        BY <2>1, <2>5, <2>6
<1>13. c \notin better
    <2>1. c[1] \in Int /\ c[2] \in Int
        <3>1. c \in Pixels
            BY <1>3, <1>4 DEF Tree, room
        <3> QED
            BY <3>1, SizeAssumption DEF Pixels, SizeAssumption
    <2>2. distanceSquared(c, c) = 0
        <3>1. c[1] - c[1] = 0 /\ c[2] - c[2] = 0
            BY <2>1
        <3> QED
            BY <3>1 DEF distanceSquared
    <2> QED
        BY <1>7, <2>2
<1>14. from \notin better
    <2> SUFFICES ASSUME from \in better PROVE FALSE
        OBVIOUS
    <2>1. from \in D /\ distance[from] = 0
        BY <1>3 DEF Tree
    <2>2. new[from] \in Nat /\ new[from] < distance[from]
        BY <1>12, <2>1
    <2> QED
        BY <2>1, <2>2
<1>15. DOMAIN new = better /\ DOMAIN back = better /\ \A n \in better : back[n] = c
    OBVIOUS
<1> HIDE DEF c, D, new, back
<1>16. DOMAIN distance' = better \cup D
    BY <1>2, <1>15, OverFacts DEF D
<1>17. /\ \A n \in better : over(new, distance)[n] = new[n]
       /\ \A n \in D : n \notin better => over(new, distance)[n] = distance[n]
    BY <1>15 DEF D, over
<1>18. /\ \A n \in better : over(back, previous)[n] = back[n]
       /\ \A n \in DOMAIN previous : n \notin better => over(back, previous)[n] = previous[n]
    BY <1>15 DEF over
<1>19. \A n \in better : distance'[n] = new[n]
    BY <1>2, <1>17, Zenon
<1>20. \A n \in D : n \notin better => distance'[n] = distance[n]
    BY <1>2, <1>17, Zenon
<1>21. DOMAIN previous' = better \cup DOMAIN previous
    BY <1>2, <1>15, OverFacts
<1>22. \A n \in better : previous'[n] = c
    BY <1>2, <1>15, <1>18, Zenon
<1>23. \A n \in DOMAIN previous : n \notin better => previous'[n] = previous[n]
    BY <1>2, <1>18, Zenon
<1> HIDE DEF better
<1>24. \A n \in D : distance'[n] \in Nat /\ distance'[n] <= distance[n]
    <2> SUFFICES ASSUME NEW n \in D PROVE distance'[n] \in Nat /\ distance'[n] <= distance[n]
        OBVIOUS
    <2>1. CASE n \in better
        <3>1. new[n] \in Nat /\ new[n] < distance[n] /\ distance[n] \in Nat
            BY <1>10, <1>12, <2>1
        <3> QED
            BY <1>19, <2>1, <3>1
    <2>2. CASE n \notin better
        BY <1>10, <1>20, <2>2
    <2> QED
        BY <2>1, <2>2
<1>25. \A n \in DOMAIN distance' : distance'[n] \in Nat
    BY <1>12, <1>16, <1>19, <1>24
<1>26. \E b \in Nat : \A n \in DOMAIN distance' : distance'[n] <= b
    <2>1. PICK b \in Nat : \A n \in D : distance[n] <= b
        BY <1>3 DEF Tree, D
    <2>2. ASSUME NEW n \in DOMAIN distance' PROVE distance'[n] <= b + 1415
        <3>1. CASE n \in D
            <4>1. distance'[n] \in Nat /\ distance'[n] <= distance[n] /\ distance[n] \in Nat
                  /\ distance[n] <= b
                BY <1>10, <1>24, <2>1, <3>1
            <4> QED
                BY <4>1
        <3>2. CASE n \in better
            <4>1. distance'[n] = new[n] /\ new[n] \in Nat /\ new[n] <= distance[c] + 1415
                BY <1>12, <1>19, <3>2
            <4>2. distance[c] <= b
                BY <1>4, <2>1
            <4> QED
                BY <1>11, <4>1, <4>2
        <3> QED
            BY <1>16, <3>1, <3>2
    <2>3. b + 1415 \in Nat
        BY <2>1
    <2> QED
        BY <2>2, <2>3
<1>27. from \in DOMAIN distance' /\ distance'[from] = 0
    BY <1>3, <1>14, <1>16, <1>20 DEF Tree, D
<1>28. DOMAIN distance' \subseteq room /\ room' = room
    <2>1. DOMAIN distance' \subseteq room
        BY <1>3, <1>5, <1>16 DEF Tree, D
    <2>2. room' = room
        BY <1>2 DEF room
    <2> QED
        BY <2>1, <2>2
<1>29. \A p : neighbours(p)' = neighbours(p)
    BY <1>2 DEF neighbours
<1>30. DOMAIN previous' = DOMAIN distance' \ {from}
    BY <1>3, <1>14, <1>16, <1>21 DEF Tree, D
<1>31. ASSUME NEW n \in DOMAIN previous'
       PROVE  /\ previous'[n] \in DOMAIN distance' /\ n \in neighbours(previous'[n])
              /\ distance'[previous'[n]] + edge(previous'[n], n) <= distance'[n]
    <2>1. CASE n \in better
        <3>1. previous'[n] = c /\ distance'[c] = distance[c] /\ distance'[n] = new[n]
            BY <1>4, <1>13, <1>19, <1>20, <1>22, <2>1
        <3>2. new[n] = distance[c] + edge(c, n) /\ new[n] \in Nat
            BY <1>12, <2>1
        <3>3. new[n] <= new[n]
            BY <3>2
        <3> QED
            BY <1>4, <1>5, <1>16, <2>1, <3>1, <3>2, <3>3
    <2>2. CASE n \notin better
        <3>1. n \in DOMAIN previous /\ previous'[n] = previous[n]
            BY <1>21, <1>23, <2>2
        <3> DEFINE b == previous[n]
                   w == edge(b, n)
        <3>2. b \in D /\ n \in neighbours(b) /\ distance[b] + w <= distance[n] /\ n \in D
            BY <1>3, <3>1 DEF Tree, D
        <3>3. distance'[n] = distance[n]
            BY <1>20, <2>2, <3>2
        <3>4. distance'[b] \in Nat /\ distance'[b] <= distance[b] /\ distance[b] \in Nat
              /\ distance[n] \in Nat /\ w \in Nat
            BY <1>10, <1>24, <3>2, EdgeType
        <3>5. previous'[n] = b
            BY <3>1
        <3> HIDE DEF b
        <3>6. distance'[previous'[n]] + w <= distance'[n]
            <4> HIDE DEF w
            <4> QED
                BY <3>2, <3>3, <3>4, <3>5
        <3> QED
            BY <1>16, <3>2, <3>5, <3>6
    <2> QED
        BY <2>1, <2>2
<1>32. Tree'
    BY <1>2, <1>25, <1>26, <1>27, <1>28, <1>30, <1>31, <1>29 DEF Tree, edge
<1>33. \A n \in D : heuristic(n, to) \in Nat
    BY <1>3, HeuristicType DEF Tree, D, room
<1>34. \A n \in better : heuristic(n, to) \in Nat
    BY <1>3, <1>5, HeuristicType DEF room
<1>35. ASSUME NEW f \in queue'
       PROVE  /\ f.point \in DOMAIN distance' /\ f.score \in Nat
              /\ distance'[f.point] + heuristic(f.point, to) <= f.score
    <2>1. CASE f \in queue
        <3> DEFINE n == f.point
                   h == heuristic(n, to)
        <3>1. n \in D /\ f.score \in Nat /\ distance[n] + h <= f.score
            BY <1>3, <2>1 DEF Queued, D
        <3>2. h \in Nat /\ distance'[n] \in Nat /\ distance'[n] <= distance[n] /\ distance[n] \in Nat
            BY <1>10, <1>24, <1>33, <3>1
        <3> HIDE DEF h, n
        <3>3. distance'[n] + h <= f.score
            BY <3>1, <3>2
        <3> QED
            BY <1>16, <3>1, <3>3 DEF h, n
    <2>2. CASE f \notin queue
        <3>1. PICK n \in better : f = [point |-> n, score |-> new[n] + heuristic(n, to)]
            BY <1>2, <2>2
        <3> DEFINE h == heuristic(n, to)
        <3>2. f.point = n /\ f.score = new[n] + h
            BY <3>1
        <3>3. distance'[n] = new[n] /\ new[n] \in Nat /\ h \in Nat
            BY <1>12, <1>19, <1>34
        <3> HIDE DEF h
        <3>4. f.score \in Nat /\ distance'[n] + h <= f.score
            BY <3>2, <3>3
        <3> QED
            BY <1>16, <3>2, <3>4 DEF h
    <2> QED
        BY <2>1, <2>2
<1>36. Queued'
    BY <1>2, <1>35 DEF Queued, heuristic
<1>37. ASSUME NEW n \in better PROVE Open(n)'
    <2> DEFINE f == [point |-> n, score |-> new[n] + heuristic(n, to)]
    <2>1. f \in queue'
        BY <1>2
    <2>2. f.point = n /\ f.score = new[n] + heuristic(n, to)
        OBVIOUS
    <2>3. f.score = distance'[n] + heuristic(n, to)
        BY <1>19, <2>2
    <2> HIDE DEF f
    <2> QED
        BY <1>2, <2>1, <2>2, <2>3 DEF Open, heuristic
<1>38. Closed(c)'
    <2> SUFFICES ASSUME NEW n \in neighbours(c)
                 PROVE  n \in DOMAIN distance' /\ distance'[n] <= distance'[c] + edge(c, n)
        BY <1>29 DEF Closed, edge
    <2> DEFINE w == edge(c, n)
    <2>1. w \in Nat
        BY EdgeType
    <2>2. distance'[c] = distance[c]
        BY <1>4, <1>13, <1>20
    <2>3. CASE n \in better
        <3>1. distance'[n] = distance[c] + w /\ distance'[n] \in Nat
            BY <1>12, <1>19, <2>3
        <3> HIDE DEF w
        <3>2. distance'[n] <= distance'[c] + w
            BY <2>2, <3>1
        <3> QED
            BY <1>16, <2>3, <3>2 DEF w
    <2>4. CASE n \notin better
        <3>1. n \in D /\ ~ (distance[c] + w < distance[n])
            BY <1>6, <2>4
        <3>2. distance'[n] = distance[n] /\ distance[n] \in Nat
            BY <1>10, <1>20, <2>4, <3>1
        <3> HIDE DEF w
        <3>3. distance'[n] <= distance'[c] + w
            BY <1>11, <2>1, <2>2, <3>1, <3>2
        <3> QED
            BY <1>16, <3>1, <3>3 DEF w
    <2> QED
        BY <2>3, <2>4
<1>39. ASSUME NEW n \in D, n \notin better, n # c, Open(n) PROVE Open(n)'
    <2>1. PICK f \in queue : f.point = n /\ f.score = distance[n] + heuristic(n, to)
        BY <1>39 DEF Open
    <2>2. f \in queue'
        BY <1>2, <1>39, <2>1 DEF c
    <2>3. distance'[n] = distance[n]
        BY <1>20, <1>39
    <2> QED
        BY <1>2, <2>1, <2>2, <2>3 DEF Open, heuristic
<1>40. ASSUME NEW n \in D, n \notin better, Closed(n) PROVE Closed(n)'
    <2> SUFFICES ASSUME NEW m \in neighbours(n)
                 PROVE  m \in DOMAIN distance' /\ distance'[m] <= distance'[n] + edge(n, m)
        BY <1>29 DEF Closed, edge
    <2> DEFINE w == edge(n, m)
    <2>1. m \in D /\ distance[m] <= distance[n] + w
        BY <1>40 DEF Closed, D
    <2>2. /\ distance'[m] \in Nat /\ distance'[m] <= distance[m] /\ distance[m] \in Nat
          /\ distance[n] \in Nat /\ w \in Nat
        BY <1>10, <1>24, <2>1, EdgeType
    <2>3. distance'[n] = distance[n]
        BY <1>20, <1>40
    <2> HIDE DEF w
    <2>4. distance'[m] <= distance'[n] + w
        BY <2>1, <2>2, <2>3
    <2> QED
        BY <1>16, <2>1, <2>4 DEF w
<1>41. Explored'
    <2> SUFFICES ASSUME NEW n \in DOMAIN distance'
                 PROVE  Open(n)' \/ (n # to /\ Closed(n)')
        BY <1>2 DEF Explored
    <2>1. CASE n \in better
        BY <1>37, <2>1
    <2>2. CASE n = c
        BY <1>1, <1>38, <2>2 DEF c
    <2>3. CASE n \notin better /\ n # c
        <3>1. n \in D
            BY <1>16, <2>3
        <3>2. Open(n) \/ (n # to /\ Closed(n))
            BY <1>3, <3>1 DEF Explored, D
        <3> QED
            BY <1>39, <1>40, <2>3, <3>1, <3>2
    <2> QED
        BY <2>1, <2>2, <2>3
<1> QED
    BY <1>32, <1>36, <1>41

\* The shortest walks depend on the floor and on the ends of the search alone.
LEMMA SameShortest ==
    ASSUME floor' = floor, from' = from, to' = to
    PROVE  shortest' = shortest
<1>1. room' = room
    BY DEF room
<1>2. \A w : further(w)' = further(w)
    BY <1>1 DEF further, touches, cost, direction
<1>3. within' = within
    BY <1>1, <1>2 DEF within
<1> QED
    BY <1>1, <1>3 DEF shortest

\* A search begins with its start alone.
LEMMA SearchBegins ==
    ASSUME RouteInv, findRoutedPath, search'
    PROVE  RouteInv'
<1> DEFINE s == nearestTraversablePoint(start)
           t == nearestTraversablePoint(end)
<1>1. index <= Len(trail) /\ ~search
    BY DEF findRoutedPath, AtPair
<1>2. start \in Points /\ end \in Points
    BY <1>1, PosesArePoints
<1>3. floor \subseteq Pixels
    BY DEF RouteInv
<1>4. s \in floor \cup {None} /\ t \in floor \cup {None}
    BY <1>2, <1>3, NearestFacts
<1>5. floor' = floor /\ trail' = trail
    BY DEF findRoutedPath
<1>6. mayRoute(s, t)
    <2> SUFFICES ASSUME ~ mayRoute(s, t) PROVE FALSE
        OBVIOUS
    <2>1. noSearch
        BY DEF findRoutedPath
    <2> QED
        BY <1>1, <2>1 DEF noSearch
<1>7. /\ from' = s /\ to' = t
      /\ distance' = [c \in {s} |-> 0] /\ previous' = <<>>
      /\ queue' = {[point |-> s, score |-> heuristic(s, t)]}
      /\ UNCHANGED <<index, routes, painted>>
    BY <1>6 DEF findRoutedPath
<1>8. s \in floor /\ t \in floor
    BY <1>4, <1>6 DEF mayRoute
<1>9. start' = start /\ end' = end
    BY <1>5, <1>7 DEF start, end
<1>10. nearestTraversablePoint(start)' = s /\ nearestTraversablePoint(end)' = t
    BY <1>5, <1>9 DEF nearestTraversablePoint
<1> HIDE DEF s, t
<1>11. DOMAIN distance' = {s} /\ distance'[s] = 0 /\ DOMAIN previous' = {}
    BY <1>7
<1>12. \E e \in queue' : e.point = s
    BY <1>7
<1>13. s \in room'
    <2>1. s \in box(s, t)
        BY <1>3, <1>8, StartInBox
    <2> QED
        BY <1>5, <1>7, <1>8, <2>1 DEF room
<1>14. Tree'
    BY <1>7, <1>11, <1>13 DEF Tree
<1>15. heuristic(s, t) \in Nat /\ 0 + heuristic(s, t) = heuristic(s, t)
    <2> DEFINE h == heuristic(s, t)
    <2>1. h \in Nat
        BY <1>3, <1>8, HeuristicType
    <2> HIDE DEF h
    <2>2. 0 + h = h
        BY <2>1
    <2> QED
        BY <2>1, <2>2 DEF h
<1>16. \A e \in queue' : e.point = s /\ e.score = heuristic(s, t)
    BY <1>7
<1>17. Queued'
    <2> SUFFICES ASSUME NEW e \in queue'
                 PROVE  /\ e.point \in DOMAIN distance' /\ e.score \in Nat
                        /\ distance'[e.point] + heuristic(e.point, t) <= e.score
        BY <1>7 DEF Queued, heuristic
    <2>1. e.point = s /\ e.score = heuristic(s, t)
        BY <1>16
    <2> DEFINE h == heuristic(s, t)
    <2>2. h \in Nat /\ e.score = h /\ 0 + h <= h
        BY <1>15, <2>1
    <2> HIDE DEF h
    <2>3. distance'[s] + h <= h
        BY <1>11, <2>2
    <2> QED
        BY <1>11, <2>1, <2>2, <2>3 DEF h
<1>18. Explored'
    <2> SUFFICES ASSUME NEW c \in DOMAIN distance' PROVE Open(c)'
        BY DEF Explored
    <2>1. c = s
        BY <1>11
    <2> QED
        <3>1. PICK e \in queue' : e.point = s /\ e.score = heuristic(s, t)
            BY <1>16, <1>12
        <3>2. e.score = distance'[s] + heuristic(s, t)
            BY <1>11, <1>15, <3>1
        <3>3. e.point = c /\ e.score = distance'[c] + heuristic(c, t)
            BY <2>1, <3>1, <3>2
        <3> QED
            BY <1>7, <3>1, <3>3 DEF Open, heuristic
<1>19. Searching'
    BY <1>1, <1>5, <1>7, <1>8, <1>10, <1>14, <1>18, <1>17 DEF Searching
<1>20. Pairwise'
    BY <1>5, <1>7, SameFloor DEF RouteInv, Pairwise
<1>21. SearchIsExact'
    BY DEF SearchIsExact
<1> QED
    BY <1>5, <1>7, <1>19, <1>20, <1>21 DEF RouteInv

\* The first point expanded is the end: the route found joins the two ends.
LEMMA FoundKeeps ==
    ASSUME RouteInv, NEW e \in queue, RouteFound(e)
    PROVE  RouteInv'
<1> DEFINE w == restored(to)
           r == simplifyPath(w)
<1>1. search /\ e.point = to /\ draw(r) /\ searchEnds /\ floor' = floor /\ trail' = trail
    BY DEF RouteFound, First
<1>2. /\ from = nearestTraversablePoint(start) /\ to = nearestTraversablePoint(end)
      /\ to \in floor /\ Tree /\ Queued /\ Explored /\ floor \subseteq Pixels
    BY <1>1 DEF RouteInv, Searching
<1>3. \A f \in queue : e.score <= f.score
    BY DEF RouteFound, First
<1>4. Joins(r, from, to) /\ to \in DOMAIN shortest /\ length(r) = shortest[to]
    BY <1>1, <1>2, <1>3, FoundIsShortest
<1> HIDE DEF r
<1>5. /\ floor' \subseteq Pixels /\ trail' \in Seq(Points)
      /\ Pairwise' /\ index' \in Nat /\ index' >= 2
      /\ routes' \in Seq(Seq(Points)) /\ Len(routes') = index' - 2
      /\ painted' \subseteq floor'
    BY <1>1, <1>2, <1>4, DrawKeeps
<1>6. search' = FALSE /\ routes' = Append(routes, r)
          /\ from' = from /\ to' = to
    BY <1>1 DEF searchEnds, draw
<1>7. Searching'
    BY <1>6 DEF Searching
<1>8. SearchIsExact'
    <2>1. r # <<>>
        BY <1>4 DEF Joins
    <2>2. Last(routes') = r
        <3>1. routes \in Seq(Seq(Points)) /\ r \in Seq(Points)
            BY <1>4 DEF RouteInv, Joins
        <3> QED
            BY <1>6, <3>1 DEF Last
    <2>3. shortest' = shortest
        BY <1>1, <1>6, SameShortest
    <2>4. LET route == Last(routes') IN
          route # <<>> /\ to' \in DOMAIN shortest' /\ length(route) = shortest'[to']
        BY <1>4, <1>6, <2>1, <2>2, <2>3
    <2> QED
        BY <2>4 DEF SearchIsExact, length
<1> QED
    BY <1>5, <1>7, <1>8 DEF RouteInv

\* The queue is empty: what was reached has no way out.
LEMMA NoRouteKeeps ==
    ASSUME RouteInv, NoRoute
    PROVE  RouteInv'
<1>1. search /\ queue = {} /\ skip /\ searchEnds /\ floor' = floor /\ trail' = trail
    BY DEF NoRoute
<1>2. to \in floor /\ Tree /\ Queued /\ Explored /\ floor \subseteq Pixels
    BY <1>1 DEF RouteInv, Searching
<1>3. /\ floor' \subseteq Pixels /\ trail' \in Seq(Points)
      /\ Pairwise' /\ index' \in Nat /\ index' >= 2
      /\ routes' \in Seq(Seq(Points)) /\ Len(routes') = index' - 2
      /\ painted' \subseteq floor'
    BY <1>1, SkipKeeps
<1>4. search' = FALSE /\ from' = from /\ to' = to
    BY <1>1 DEF searchEnds
<1>5. Searching'
    BY <1>4 DEF Searching
<1>6. to \notin DOMAIN shortest
    BY <1>1, <1>2, NoneIsMissed
<1>7. shortest' = shortest
    BY <1>1, <1>4, SameShortest
<1>8. Last(routes') = <<>>
    <2>1. routes' = Append(routes, <<>>) /\ routes \in Seq(Seq(Points)) /\ <<>> \in Seq(Points)
        BY <1>1 DEF skip, RouteInv
    <2> QED
        BY <2>1 DEF Last
<1>9. SearchIsExact'
    BY <1>4, <1>6, <1>7, <1>8 DEF SearchIsExact
<1> QED
    BY <1>3, <1>5, <1>9 DEF RouteInv

\* The invariant holds before the first pair of poses.
LEMMA InvInit == Init => RouteInv
<1> SUFFICES ASSUME Init PROVE RouteInv
    OBVIOUS
<1>1. floor \in Floors /\ trail \in Trails /\ index = 2 /\ search = FALSE /\ from = None
      /\ routes = <<>> /\ painted = {}
    BY DEF Init
<1>2. floor \subseteq Pixels /\ trail \in Seq(Points)
    BY <1>1, TrailAssumption DEF TrailAssumption, Points
<1>3. Pairwise /\ Searching /\ SearchIsExact
    BY <1>1 DEF Pairwise, Searching, SearchIsExact
<1> QED
    BY <1>1, <1>2, <1>3 DEF RouteInv

\* Every step keeps it.
LEMMA InvStep == RouteInv /\ [Next]_vars => RouteInv'
<1> SUFFICES ASSUME RouteInv, [Next]_vars PROVE RouteInv'
    OBVIOUS
<1>1. CASE UNCHANGED vars
    <2>1. floor' = floor /\ trail' = trail /\ index' = index /\ UNCHANGED searchVars
          /\ routes' = routes /\ painted' = painted
        BY <1>1 DEF vars
    <2>2. Pairwise'
        BY <2>1, SameFloor DEF RouteInv, Pairwise
    <2>3. search' = search /\ from' = from /\ to' = to /\ distance' = distance
          /\ previous' = previous /\ queue' = queue
        BY <2>1 DEF searchVars
    <2>4. Tree' = Tree
        <3>1. room' = room
            BY <2>1, <2>3 DEF room
        <3>2. \A c : neighbours(c)' = neighbours(c)
            BY <2>1, <2>3 DEF neighbours
        <3> QED
            BY <2>3, <3>1, <3>2 DEF Tree, edge
    <2>5. Queued' = Queued /\ Explored' = Explored
        <3>1. Queued' = Queued
            BY <2>3 DEF Queued, heuristic
        <3>2. \A c : Open(c)' = Open(c)
            BY <2>3 DEF Open, heuristic
        <3>3. \A c : neighbours(c)' = neighbours(c)
            BY <2>1, <2>3 DEF neighbours
        <3>4. \A c : Closed(c)' = Closed(c)
            BY <2>3, <3>3 DEF Closed, edge
        <3> QED
            BY <2>3, <3>1, <3>2, <3>4 DEF Explored
    <2>6. nearestTraversablePoint(start)' = nearestTraversablePoint(start)
          /\ nearestTraversablePoint(end)' = nearestTraversablePoint(end)
        BY <2>1 DEF nearestTraversablePoint, start, end
    <2>7. Searching'
        BY <2>1, <2>3, <2>4, <2>5, <2>6 DEF RouteInv, Searching
    <2>8. SearchIsExact'
        <3>1. shortest' = shortest
            BY <2>1, <2>3, SameShortest
        <3> QED
            BY <2>1, <2>3, <3>1 DEF RouteInv, SearchIsExact, length
    <2> QED
        BY <2>1, <2>2, <2>7, <2>8 DEF RouteInv
<1>2. ASSUME skip, noSearch, AtPair, floor' = floor, trail' = trail PROVE RouteInv'
    <2>1. /\ floor' \subseteq Pixels /\ trail' \in Seq(Points)
          /\ Pairwise' /\ index' \in Nat /\ index' >= 2
          /\ routes' \in Seq(Seq(Points)) /\ Len(routes') = index' - 2
          /\ painted' \subseteq floor'
        BY <1>2, SkipKeeps
    <2>2. ~search' /\ from' = None
        BY <1>2 DEF noSearch, AtPair
    <2>3. Searching' /\ SearchIsExact'
        BY <2>2 DEF Searching, SearchIsExact
    <2> QED
        BY <2>1, <2>3 DEF RouteInv
<1>3. CASE Drawn
    BY <1>1, <1>3 DEF Drawn
<1>4. CASE SkipsPair
    BY <1>2, <1>4 DEF SkipsPair
<1>5. CASE DrawsDirectly
    <2> DEFINE r == <<start, end>>
    <2>1. /\ AtPair /\ isDirectPathTraversable(start, end) /\ draw(r) /\ noSearch
          /\ floor' = floor /\ trail' = trail
        BY <1>5 DEF DrawsDirectly
    <2>2. start \in Points /\ end \in Points
        BY <2>1, PosesArePoints DEF AtPair
    <2>3. Clear(start, end)
        BY <2>1 DEF isDirectPathTraversable, Clear
    <2>4. start \in floor /\ end \in floor
        <3> DEFINE line == linePoints(start, end)
                   n == Far(start, end)
        <3>1. line[1] = start /\ line[n + 1] = end /\ DOMAIN line = 1..n + 1 /\ n \in Nat
            BY <2>2, LineEnds, FarFacts
        <3>2. \A k \in DOMAIN line : line[k] \in floor
            BY <2>3 DEF Clear, ToSet
        <3> HIDE DEF line, n
        <3>3. 1 \in 1..n + 1 /\ n + 1 \in 1..n + 1
            BY <3>1
        <3> QED
            BY <3>1, <3>2, <3>3
    <2>5. nearestTraversablePoint(start) = start /\ nearestTraversablePoint(end) = end
        BY <2>2, <2>4, NearestFacts DEF RouteInv
    <2>6. Joins(r, start, end)
        BY <2>2, <2>3 DEF Joins
    <2> HIDE DEF r
    <2>7. /\ floor' \subseteq Pixels /\ trail' \in Seq(Points)
          /\ Pairwise' /\ index' \in Nat /\ index' >= 2
          /\ routes' \in Seq(Seq(Points)) /\ Len(routes') = index' - 2
          /\ painted' \subseteq floor'
        BY <2>1, <2>5, <2>6, DrawKeeps
    <2>8. ~search' /\ from' = None
        BY <2>1 DEF noSearch, AtPair
    <2>9. Searching' /\ SearchIsExact'
        BY <2>8 DEF Searching, SearchIsExact
    <2> QED
        BY <2>7, <2>9 DEF RouteInv
<1>6. CASE findRoutedPath
    <2>1. CASE mayRoute(nearestTraversablePoint(start), nearestTraversablePoint(end))
        <3>1. search'
            BY <1>6, <2>1 DEF findRoutedPath
        <3> QED
            BY <1>6, <3>1, SearchBegins
    <2>2. CASE ~ mayRoute(nearestTraversablePoint(start), nearestTraversablePoint(end))
        <3>1. skip /\ noSearch /\ AtPair /\ floor' = floor /\ trail' = trail
            BY <1>6, <2>2 DEF findRoutedPath
        <3> QED
            BY <1>2, <3>1
    <2> QED
        BY <2>1, <2>2
<1>7. ASSUME NEW e \in queue, RouteFound(e) PROVE RouteInv'
    BY <1>7, FoundKeeps
<1>8. ASSUME NEW e \in queue, Expand(e) PROVE RouteInv'
    <2>1. Tree' /\ Queued' /\ Explored'
        BY <1>8, ExpandKeeps
    <2>2. floor' = floor /\ trail' = trail /\ index' = index /\ search' = search
          /\ from' = from /\ to' = to /\ routes' = routes /\ painted' = painted /\ search
        BY <1>8 DEF Expand, First
    <2>3. Pairwise'
        BY <2>2, SameFloor DEF RouteInv, Pairwise
    <2>4. nearestTraversablePoint(start)' = nearestTraversablePoint(start)
          /\ nearestTraversablePoint(end)' = nearestTraversablePoint(end)
        BY <2>2 DEF nearestTraversablePoint, start, end
    <2>5. Searching'
        BY <2>1, <2>2, <2>4 DEF RouteInv, Searching
    <2>6. SearchIsExact'
        BY <2>2 DEF SearchIsExact
    <2> QED
        BY <2>2, <2>3, <2>5, <2>6 DEF RouteInv
<1>9. CASE NoRoute
    BY <1>9, NoRouteKeeps
<1> QED
    BY <1>1, <1>3, <1>4, <1>5, <1>6, <1>7, <1>8, <1>9 DEF Next

\* RouteInv is an invariant of drawRobotRuntime on every map, floor and trail.
THEOREM RouteInvariant == Spec => []RouteInv
BY InvInit, InvStep, PTL DEF Spec

\* Whatever the floor and the poses, every line that is drawn stays on the floor, and so does
\* what is painted: the trail never crosses a wall.
THEOREM RoutesStayClear == Spec => []RoutesAreClear
<1>1. RouteInv => RoutesAreClear
    <2> SUFFICES ASSUME RouteInv, NEW i \in 1..Len(routes), NEW k \in 1..Len(routes[i]) - 1
                 PROVE  Clear(routes[i][k], routes[i][k + 1])
        BY DEF RouteInv, RoutesAreClear, Clear
    <2>1. routes[i] # <<>>
        OBVIOUS
    <2>2. Joins(routes[i], nearestTraversablePoint(trail[i]), nearestTraversablePoint(trail[i + 1]))
        BY <2>1 DEF RouteInv, Pairwise
    <2> QED
        BY <2>2 DEF Joins
<1> QED
    BY <1>1, RouteInvariant, PTL

\* Whatever the floor and the poses, a segment starts where the one before it ended.
THEOREM TrailIsConnected == Spec => []TrailConnected
<1>1. RouteInv => TrailConnected
    <2> SUFFICES ASSUME RouteInv, NEW i \in 1..Len(routes) - 1,
                        routes[i] # <<>>, routes[i + 1] # <<>>
                 PROVE  Last(routes[i]) = Head(routes[i + 1])
        BY DEF TrailConnected
    <2>1. Len(routes) \in Nat
        BY DEF RouteInv
    <2>2. i \in 1..Len(routes) /\ i + 1 \in 1..Len(routes)
        BY <2>1
    <2>3. Joins(routes[i], nearestTraversablePoint(trail[i]), nearestTraversablePoint(trail[i + 1]))
        BY <2>2 DEF RouteInv, Pairwise
    <2>4. Joins(routes[i + 1], nearestTraversablePoint(trail[i + 1]),
                nearestTraversablePoint(trail[i + 1 + 1]))
        BY <2>2 DEF RouteInv, Pairwise
    <2>5. Last(routes[i]) = nearestTraversablePoint(trail[i + 1])
        BY <2>3 DEF Joins, Last
    <2>6. Head(routes[i + 1]) = nearestTraversablePoint(trail[i + 1])
        BY <2>4 DEF Joins
    <2> QED
        BY <2>5, <2>6
<1> QED
    BY <1>1, RouteInvariant, PTL

\* On every map, findRoutedPath finds a shortest route within its box, although it keeps stale
\* entries in its queue and expands a point again; and it misses no route that exists.
THEOREM SearchesAreExact == Spec => []SearchIsExact
<1>1. RouteInv => SearchIsExact
    BY DEF RouteInv
<1> QED
    BY <1>1, RouteInvariant, PTL
==============================================================================

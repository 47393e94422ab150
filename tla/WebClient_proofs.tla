--------------------------- MODULE WebClient_proofs ---------------------------
(* Proofs about the two components of BackOffice of which the web client has a  *)
(* part: SheetFormula, whose arithmetic it copies, and WebSession; and, with    *)
(* those, the types of all components.                                        *)
EXTENDS BackOffice_proofs, Integers, Sequences

LEMMA QuoteFollows ==
    scenario = "quote" /\ [OfficeNext]_officeVars => [Formulas!Next]_(Formulas!vars)
BY DEF OfficeNext, officeVars, quote, Formulas!vars

LEMMA BrowserFollows ==
    scenario = "web" /\ [OfficeNext]_officeVars => [Browser!Next]_(Browser!vars)
BY DEF OfficeNext, officeVars, web, Browser!vars, Browser!server

-----------------------------------------------------------------------------
(* SheetFormula: both properties are about sums over the components of a       *)
(* formula.  The folds that compute them are unfolded to partial sums, by an   *)
(* induction over a set of naturals, and a lemma about partial sums carries    *)
(* each fact from a component to the formula.                                 *)

\* Induction over the naturals, by the pigeonhole principle: were n missing, adding one would map
\* the numbers of S up to n to those above zero, of which there is one less, no two to the same.
LEMMA Induction ==
    ASSUME NEW S \in SUBSET Nat, 0 \in S, \A n \in S : n + 1 \in S
    PROVE  S = Nat
  <1> SUFFICES ASSUME NEW n \in Nat, n \notin S PROVE FALSE OBVIOUS
  <1> DEFINE T == {k \in S : k <= n}
             next == [k \in T |-> k + 1]
  <1>1. IsFiniteSet(T) BY FS_BoundedSetOfNaturals
  <1>2. IsFiniteSet(T \ {0}) /\ Cardinality(T \ {0}) < Cardinality(T)
    <2>1. 0 \in T /\ Cardinality(T) \in Nat BY <1>1, FS_CardinalityType
    <2> HIDE DEF T
    <2>2. /\ IsFiniteSet(T \ {0})
          /\ Cardinality(T \ {0}) = IF 0 \in T THEN Cardinality(T) - 1 ELSE Cardinality(T)
        BY <1>1, FS_RemoveElement, Zenon
    <2> QED BY <2>1, <2>2
  <1>3. next \in [T -> T \ {0}]
    <2>1. \A k \in T : k + 1 \in T \ {0} OBVIOUS
    <2> HIDE DEF T
    <2> QED BY <2>1
  <1>4. PICK j, k \in T : j # k /\ next[j] = next[k]
    <2> HIDE DEF T, next
    <2> QED BY <1>1, <1>2, <1>3, FS_PigeonHole
  <1> QED BY <1>4

\* A nonempty set of naturals has a least element, and a greatest one if it is bounded.
LEMMA Least ==
    ASSUME NEW T \in SUBSET Nat, T # {}
    PROVE  \E least \in T : \A k \in T : least <= k
  <1> SUFFICES ASSUME \A m \in T : \E k \in T : k < m PROVE FALSE OBVIOUS
  <1> DEFINE S == {n \in Nat : \A k \in T : n < k}
  <1>1. 0 \in S OBVIOUS
  <1>2. \A n \in S : n + 1 \in S OBVIOUS
  <1>3. S = Nat
    <2> HIDE DEF S
    <2>1. S \in SUBSET Nat BY DEF S
    <2> QED BY <1>1, <1>2, <2>1, Induction
  <1>4. PICK t \in T : t \in S
      BY <1>3
  <1> QED BY <1>4

\* So does a nonempty set of numbers up to n have a greatest.
LEMMA Greatest ==
    ASSUME NEW n \in Nat, NEW T \in SUBSET (1 .. n), T # {}
    PROVE  \E greatest \in T : \A k \in T : k <= greatest
  <1> DEFINE U == {n - k : k \in T}
  <1>1. PICK least \in U : \A k \in U : least <= k
    <2>1. \A k \in T : k \in 1 .. n /\ n - k \in Nat OBVIOUS
    <2>2. U \subseteq Nat /\ U # {} BY <2>1
    <2> HIDE DEF U
    <2> QED BY <2>2, Least
  <1> QED BY <1>1

\* A rounded quotient is next to the exact one: half a unit off at most.
LEMMA Rounded ==
    ASSUME NEW n \in Int, NEW d \in Nat \ {0}
    PROVE  /\ Formulas!Round(n, d) \in Int
           /\ 2 * d * Formulas!Round(n, d) <= 2 * n + d
           /\ 2 * n + d < 2 * d * Formulas!Round(n, d) + 2 * d
  BY DEF Formulas!Round

\* Max is the greatest of a set of positions.
LEMMA Maximum ==
    ASSUME NEW n \in Nat, NEW s \in SUBSET (1 .. n), s # {}
    PROVE  Formulas!Max(s) \in s /\ \A k \in s : k <= Formulas!Max(s)
  <1>1. \E m \in s : \A k \in s : m >= k
    <2>1. PICK m \in s : \A k \in s : k <= m
        BY Greatest
    <2>2. \A k \in s : m >= k BY <2>1
    <2> QED BY <2>2
  <1>2. Formulas!Max(s) \in s /\ \A k \in s : Formulas!Max(s) >= k BY <1>1 DEF Formulas!Max
  <1> QED BY <1>2

\* A fold of the community modules is a function on the subsets of the positions 1 .. n, of
\* which TLA+ chooses one that takes the values of its recursion: base at no position, and a step
\* from the greatest position of the others.
FoldSteps(V, n) == [V \X (1 .. n) -> V]
FoldStep(h, s, base, step) == IF s = {} THEN base
    ELSE step[<<h[s \ {Formulas!Max(s)}], Formulas!Max(s)>>]
Folds(h, n, V, base, step) ==
    /\ h \in [SUBSET (1 .. n) -> V]
    /\ \A s \in SUBSET (1 .. n) : h[s] = FoldStep(h, s, base, step)

\* There is such a function, built up from one for fewer positions.
LEMMA FoldExists ==
    ASSUME NEW n \in Nat, NEW V, NEW base \in V, NEW step \in FoldSteps(V, n)
    PROVE  \E h : Folds(h, n, V, base, step)
  <1> DEFINE S == {m \in Nat : m <= n => \E h : Folds(h, m, V, base, step)}
  <1> USE DEF Folds, FoldSteps
  <1>1. 0 \in S
    <2> DEFINE h0 == [s \in SUBSET (1 .. 0) |-> base]
    <2>1. 1 .. 0 = {} /\ SUBSET (1 .. 0) = {{}} OBVIOUS
    <2>2. h0 \in [SUBSET (1 .. 0) -> V] OBVIOUS
    <2>3. \A s \in SUBSET (1 .. 0) : h0[s] = FoldStep(h0, s, base, step) BY <2>1 DEF FoldStep
    <2> QED BY <2>2, <2>3
  <1>2. ASSUME NEW m \in S PROVE m + 1 \in S
    <2> HIDE DEF Folds
    <2>. m \in Nat /\ (m <= n => \E h : Folds(h, m, V, base, step)) BY <1>2
    <2> SUFFICES ASSUME m + 1 <= n PROVE \E h : Folds(h, m + 1, V, base, step) OBVIOUS
    <2>1. PICK g : Folds(g, m, V, base, step)
        OBVIOUS
    <2> USE DEF Folds
    <2> DEFINE h == [s \in SUBSET (1 .. m + 1) |->
                        IF m + 1 \in s THEN step[<<g[s \ {m + 1}], m + 1>>] ELSE g[s]]
    <2>2. ASSUME NEW s \in SUBSET (1 .. m + 1)
          PROVE  h[s] \in V /\ h[s] = FoldStep(h, s, base, step)
      <3>1. CASE m + 1 \in s
        <4>1. s \ {m + 1} \in SUBSET (1 .. m) /\ s \ {m + 1} \in SUBSET (1 .. m + 1) BY <1>2
        <4>2. h[s \ {m + 1}] = g[s \ {m + 1}] /\ g[s \ {m + 1}] \in V BY <4>1, <2>1
        <4>3. Formulas!Max(s) = m + 1
          <5>1. m + 1 \in Nat /\ s # {} BY <3>1
          <5>2. Formulas!Max(s) \in s /\ \A k \in s : k <= Formulas!Max(s) BY <5>1, Maximum
          <5>3. Formulas!Max(s) \in 1 .. m + 1 BY <5>2
          <5>4. m + 1 <= Formulas!Max(s) BY <5>2, <3>1
          <5> HIDE DEF S, h
          <5> QED BY <5>3, <5>4
        <4>4. h[s] = step[<<g[s \ {m + 1}], m + 1>>] /\ m + 1 \in 1 .. n BY <3>1, <1>2
        <4>5. h[s] \in V BY <4>2, <4>4
        <4>6. FoldStep(h, s, base, step) = step[<<h[s \ {m + 1}], m + 1>>]
            BY <3>1, <4>3 DEF FoldStep
        <4> QED BY <4>2, <4>4, <4>5, <4>6
      <3>2. CASE m + 1 \notin s
        <4>1. s \in SUBSET (1 .. m) /\ h[s] = g[s] BY <3>2, <1>2
        <4>2. s # {} => s \ {Formulas!Max(s)} \in SUBSET (1 .. m)
                  /\ m + 1 \notin s \ {Formulas!Max(s)}
            BY <4>1, <3>2
        <4>3. s # {} => h[s \ {Formulas!Max(s)}] = g[s \ {Formulas!Max(s)}] BY <4>2, <1>2
        <4>4. FoldStep(h, s, base, step) = FoldStep(g, s, base, step) BY <4>3 DEF FoldStep
        <4> QED BY <4>1, <4>4, <2>1
      <3> QED BY <3>1, <3>2
    <2>3. h \in [SUBSET (1 .. m + 1) -> V] BY <2>2
    <2> QED BY <2>2, <2>3
  <1>3. S = Nat
    <2>1. S \in SUBSET Nat OBVIOUS
    <2> HIDE DEF S
    <2> QED BY <1>1, <1>2, <2>1, Induction
  <1>4. \E h : Folds(h, n, V, base, step)
    <2> HIDE DEF Folds
    <2> QED BY <1>3
  <1> QED BY <1>4

\* Read along the positions, it is a sequence of partial results.
Partials(p, n, V, base, step) ==
    /\ p \in [0 .. n -> V] /\ p[0] = base
    /\ \A k \in 0 .. n - 1 : p[k + 1] = step[<<p[k], k + 1>>]

FollowsFold(h, n, V, base, step) ==
    /\ h[{}] = base
    /\ \A s \in SUBSET (1 .. n) :
          s # {} /\ h[s \ {Formulas!Max(s)}] \in V
              => h[s] = step[<<h[s \ {Formulas!Max(s)}], Formulas!Max(s)>>]

\* Whatever satisfies the recursion of a fold has partial results, the last of which is the fold.
LEMMA FoldPartials ==
    ASSUME NEW n \in Nat, NEW V, NEW base \in V, NEW step \in FoldSteps(V, n), NEW h,
           FollowsFold(h, n, V, base, step)
    PROVE  \E p : Partials(p, n, V, base, step) /\ p[n] = h[1 .. n]
  <1> USE DEF FoldSteps, FollowsFold
  <1> DEFINE p == [k \in 0 .. n |-> h[1 .. k]]
             S == {k \in Nat : k <= n => h[1 .. k] \in V}
  <1>1. ASSUME NEW k \in 0 .. n - 1, h[1 .. k] \in V
        PROVE  h[1 .. k + 1] = step[<<h[1 .. k], k + 1>>] /\ h[1 .. k + 1] \in V
    <2>1. 1 .. k + 1 \in SUBSET (1 .. n) /\ 1 .. k + 1 # {} /\ k + 1 \in 1 .. k + 1
              /\ k + 1 \in Nat
        OBVIOUS
    <2>2. Formulas!Max(1 .. k + 1) \in 1 .. k + 1 /\ \A j \in 1 .. k + 1 :
              j <= Formulas!Max(1 .. k + 1)
        BY <2>1, Maximum
    <2>3. Formulas!Max(1 .. k + 1) = k + 1 BY <2>1, <2>2
    <2>4. (1 .. k + 1) \ {k + 1} = 1 .. k OBVIOUS
    <2>5. h[1 .. k + 1] = step[<<h[1 .. k], k + 1>>] BY <2>1, <2>3, <2>4, <1>1
    <2>6. k + 1 \in 1 .. n OBVIOUS
    <2> QED BY <2>5, <2>6, <1>1
  <1>2. S = Nat
    <2>1. 0 \in S
      <3>1. 1 .. 0 = {} OBVIOUS
      <3> QED BY <3>1
    <2>2. ASSUME NEW k \in S PROVE k + 1 \in S
      <3>1. k \in Nat /\ (k + 1 <= n => k \in 0 .. n - 1 /\ h[1 .. k] \in V) BY <2>2
      <3>2. k + 1 <= n => h[1 .. k + 1] \in V BY <3>1, <1>1
      <3> HIDE DEF p
      <3> QED BY <3>1, <3>2
    <2>3. S \in SUBSET Nat OBVIOUS
    <2> HIDE DEF S
    <2> QED BY <2>1, <2>2, <2>3, Induction
  <1>3. \A k \in 0 .. n : h[1 .. k] \in V BY <1>2
  <1>4. p \in [0 .. n -> V] BY <1>3
  <1>5. p[0] = base /\ p[n] = h[1 .. n]
    <2>1. 1 .. 0 = {} OBVIOUS
    <2> QED BY <2>1
  <1>6. \A k \in 0 .. n - 1 : p[k + 1] = step[<<p[k], k + 1>>] BY <1>1, <1>3
  <1> HIDE DEF p
  <1> QED BY <1>4, <1>5, <1>6 DEF Partials

\* The partial sums of amounts.
Sum(p, n, f) ==
    /\ p \in [0 .. n -> Int] /\ p[0] = 0
    /\ \A k \in 0 .. n - 1 : p[k + 1] = p[k] + f[k + 1]

\* A total is the last of its partial sums.
LEMMA TotalSums ==
    ASSUME NEW n \in Nat, NEW f \in [1 .. n -> Int]
    PROVE  \E p : Sum(p, n, f) /\ Formulas!Total(f) = p[n]
  <1> DEFINE step == [v \in Int \X (1 .. n) |-> v[1] + f[v[2]]]
             zero == 0
             After(g) == [s \in SUBSET DOMAIN f |->
                            IF s = {} THEN 0 ELSE g[s \ {Formulas!Max(s)}] + f[Formulas!Max(s)]]
  <1>1. zero \in Int /\ step \in FoldSteps(Int, n) BY DEF FoldSteps
  <1>2. \A v \in Int, i \in 1 .. n : step[<<v, i>>] = v + f[i] OBVIOUS
  <1> HIDE DEF step
  <1>3. \A s \in SUBSET (1 .. n) : s # {} => Formulas!Max(s) \in 1 .. n BY Maximum
  <1>4. PICK h : h = After(h) /\ Formulas!Total(f) = h[1 .. n]
    <2> DEFINE fold == CHOOSE g : g = After(g)
    <2>1. Formulas!Total(f) = fold[1 .. n]
        BY DEF Formulas!Total, Formulas!FoldLeft, Formulas!MapThenFoldSet
    <2>2. PICK g : Folds(g, n, Int, zero, step)
      <3> HIDE DEF zero
      <3> QED BY <1>1, FoldExists
    <2>3. ASSUME NEW s \in SUBSET (1 .. n)
          PROVE  g[s] = IF s = {} THEN 0 ELSE g[s \ {Formulas!Max(s)}] + f[Formulas!Max(s)]
      <3>1. s # {} => s \ {Formulas!Max(s)} \in SUBSET (1 .. n) OBVIOUS
      <3> QED BY <3>1, <2>2, <1>2, <1>3 DEF Folds, FoldStep
    <2>4. g = After(g) BY <2>2, <2>3 DEF Folds
    <2>5. fold = After(fold)
      <3> HIDE DEF After
      <3> QED BY <2>4
    <2> HIDE DEF fold
    <2> QED BY <2>1, <2>5
  <1>5. \A s \in SUBSET (1 .. n) : h[s] = IF s = {} THEN 0
            ELSE h[s \ {Formulas!Max(s)}] + f[Formulas!Max(s)]
      BY <1>4
  <1>6. FollowsFold(h, n, Int, zero, step)
    <2>1. h[{}] = zero BY <1>5
    <2>2. \A s \in SUBSET (1 .. n) :
              s # {} /\ h[s \ {Formulas!Max(s)}] \in Int
                  => h[s] = step[<<h[s \ {Formulas!Max(s)}], Formulas!Max(s)>>]
        BY <1>5, <1>2, <1>3
    <2> QED BY <2>1, <2>2 DEF FollowsFold
  <1>7. PICK p : Partials(p, n, Int, zero, step) /\ p[n] = h[1 .. n]
    <2> HIDE DEF zero, After
    <2>1. \A z \in Int : \A st \in FoldSteps(Int, n) : \A g : FollowsFold(g, n, Int, z, st) =>
             \E p : Partials(p, n, Int, z, st) /\ p[n] = g[1 .. n]
        BY FoldPartials
    <2> QED BY <1>1, <1>6, <2>1
  <1>8. \A k \in 0 .. n - 1 : p[k + 1] = p[k] + f[k + 1]
    <2>1. \A k \in 0 .. n - 1 : p[k] \in Int /\ k + 1 \in 1 .. n BY <1>7 DEF Partials
    <2> QED BY <2>1, <1>7, <1>2 DEF Partials
  <1> QED BY <1>4, <1>7, <1>8 DEF Sum, Partials

\* Induction over the positions of a sequence.
LEMMA UpTo ==
    ASSUME NEW n \in Nat, NEW S \in SUBSET Nat, 0 \in S,
           \A k \in 0 .. n - 1 : k \in S => k + 1 \in S
    PROVE  \A k \in 0 .. n : k \in S
  <1> DEFINE T == {k \in Nat : k <= n => k \in S}
  <1>1. 0 \in T /\ \A k \in T : k + 1 \in T OBVIOUS
  <1>2. T \in SUBSET Nat OBVIOUS
  <1>3. T = Nat
    <2> HIDE DEF T
    <2> QED BY <1>1, <1>2, Induction
  <1> QED BY <1>3

\* A total of whole cents is a whole number of cents.
LEMMA TotalInt ==
    ASSUME NEW n \in Nat, NEW f \in [1 .. n -> Int]
    PROVE  Formulas!Total(f) \in Int
  BY TotalSums DEF Sum

\* Of amounts that are no larger, so is the total.
LEMMA TotalLeq ==
    ASSUME NEW n \in Nat, NEW f \in [1 .. n -> Int], NEW g \in [1 .. n -> Int],
           \A i \in 1 .. n : f[i] <= g[i]
    PROVE  Formulas!Total(f) <= Formulas!Total(g)
  <1>1. PICK p : Sum(p, n, f) /\ Formulas!Total(f) = p[n]
      BY TotalSums
  <1>2. PICK q : Sum(q, n, g) /\ Formulas!Total(g) = q[n]
      BY TotalSums
  <1> DEFINE S == {k \in 0 .. n : p[k] <= q[k]}
  <1>3. 0 \in S BY <1>1, <1>2 DEF Sum
  <1>4. \A k \in 0 .. n - 1 : k \in S => k + 1 \in S
    <2> SUFFICES ASSUME NEW k \in 0 .. n - 1, k \in S PROVE k + 1 \in S OBVIOUS
    <2>1. /\ p[k] \in Int /\ q[k] \in Int /\ f[k + 1] \in Int /\ g[k + 1] \in Int
          /\ f[k + 1] <= g[k + 1] /\ p[k] <= q[k]
        BY <1>1, <1>2 DEF Sum
    <2>2. p[k + 1] = p[k] + f[k + 1] /\ q[k + 1] = q[k] + g[k + 1] BY <1>1, <1>2 DEF Sum
    <2> QED BY <2>1, <2>2
  <1>5. n \in S
    <2>1. S \in SUBSET Nat OBVIOUS
    <2>2. n \in 0 .. n OBVIOUS
    <2> HIDE DEF S
    <2>3. \A k \in 0 .. n : k \in S BY <1>3, <1>4, <2>1, UpTo, Zenon
    <2> QED BY <2>2, <2>3
  <1> QED BY <1>1, <1>2, <1>5

\* Totals are linear: the total of a * f[i] + b * g[i] is that of the two totals.
Mix(a, x, b, y) == a * x + b * y

Linear(n, a, f, b, g, h) ==
    /\ n \in Nat /\ a \in Int /\ b \in Int
    /\ f \in [1 .. n -> Int] /\ g \in [1 .. n -> Int] /\ h \in [1 .. n -> Int]
    /\ \A i \in 1 .. n : h[i] = Mix(a, f[i], b, g[i])

LEMMA TotalLinear ==
    ASSUME NEW n, NEW a, NEW f, NEW b, NEW g, NEW h, Linear(n, a, f, b, g, h)
    PROVE  Formulas!Total(h) = Mix(a, Formulas!Total(f), b, Formulas!Total(g))
  <1> USE DEF Linear
  <1>1. PICK p : Sum(p, n, f) /\ Formulas!Total(f) = p[n]
      BY TotalSums
  <1>2. PICK q : Sum(q, n, g) /\ Formulas!Total(g) = q[n]
      BY TotalSums
  <1>3. PICK r : Sum(r, n, h) /\ Formulas!Total(h) = r[n]
      BY TotalSums
  <1> DEFINE S == {k \in 0 .. n : r[k] = Mix(a, p[k], b, q[k])}
  <1>4. 0 \in S
    <2>1. p[0] = 0 /\ q[0] = 0 /\ r[0] = 0 /\ Mix(a, 0, b, 0) = 0
        BY <1>1, <1>2, <1>3 DEF Sum, Mix
    <2> QED BY <2>1
  <1>5. \A k \in 0 .. n - 1 : k \in S => k + 1 \in S
    <2> SUFFICES ASSUME NEW k \in 0 .. n - 1, k \in S PROVE k + 1 \in S OBVIOUS
    <2>1. /\ p[k] \in Int /\ q[k] \in Int /\ f[k + 1] \in Int /\ g[k + 1] \in Int
          /\ h[k + 1] = Mix(a, f[k + 1], b, g[k + 1]) /\ r[k] = Mix(a, p[k], b, q[k])
        BY <1>1, <1>2 DEF Sum
    <2>2. /\ p[k + 1] = p[k] + f[k + 1] /\ q[k + 1] = q[k] + g[k + 1]
          /\ r[k + 1] = r[k] + h[k + 1]
        BY <1>1, <1>2, <1>3 DEF Sum
    <2>3. r[k + 1] = Mix(a, p[k + 1], b, q[k + 1])
      <3>1. Mix(a, p[k], b, q[k]) + Mix(a, f[k + 1], b, g[k + 1])
                = Mix(a, p[k] + f[k + 1], b, q[k] + g[k + 1])
        <4>1. PICK P \in Int, Q \in Int, F \in Int, G \in Int :
                 P = p[k] /\ Q = q[k] /\ F = f[k + 1] /\ G = g[k + 1]
            BY <2>1
        <4>2. Mix(a, P, b, Q) + Mix(a, F, b, G) = Mix(a, P + F, b, Q + G) BY DEF Mix
        <4> QED BY <4>1, <4>2
      <3> QED BY <2>1, <2>2, <3>1
    <2> QED BY <2>3
  <1>6. n \in S
    <2>1. S \in SUBSET Nat OBVIOUS
    <2>2. n \in 0 .. n OBVIOUS
    <2> HIDE DEF S
    <2>3. \A k \in 0 .. n : k \in S BY <1>4, <1>5, <2>1, UpTo, Zenon
    <2> QED BY <2>2, <2>3
  <1> QED BY <1>1, <1>2, <1>3, <1>6

\* The total of one for each member is how many there are.
LEMMA TotalCounts ==
    ASSUME NEW n \in Nat, NEW T \in SUBSET (1 .. n), NEW f \in [1 .. n -> Int],
           \A i \in 1 .. n : f[i] = IF i \in T THEN 1 ELSE 0
    PROVE  Formulas!Total(f) = Cardinality(T)
  <1>1. PICK p : Sum(p, n, f) /\ Formulas!Total(f) = p[n]
      BY TotalSums
  <1> DEFINE Low(k) == {i \in T : i <= k}
             S == {k \in 0 .. n : p[k] = Cardinality(Low(k))}
  <1>2. 0 \in S
    <2>1. Low(0) = {}
      <3>1. \A i \in T : ~(i <= 0) OBVIOUS
      <3> QED BY <3>1
    <2>2. Cardinality(Low(0)) = 0 BY <2>1, FS_EmptySet
    <2>3. p[0] = 0 /\ 0 \in 0 .. n BY <1>1 DEF Sum
    <2> HIDE DEF Low
    <2> QED BY <2>2, <2>3
  <1>3. \A k \in 0 .. n - 1 : k \in S => k + 1 \in S
    <2> SUFFICES ASSUME NEW k \in 0 .. n - 1, k \in S PROVE k + 1 \in S OBVIOUS
    <2>1. IsFiniteSet(Low(k)) /\ k + 1 \notin Low(k) BY FS_BoundedSetOfNaturals
    <2>2. Low(k + 1) = IF k + 1 \in T THEN Low(k) \cup {k + 1} ELSE Low(k)
      <3>1. \A i \in T : i <= k + 1 <=> i <= k \/ i = k + 1 OBVIOUS
      <3> QED BY <3>1
    <2>3. p[k + 1] = p[k] + f[k + 1] /\ p[k] = Cardinality(Low(k)) /\ p[k] \in Int
        BY <1>1 DEF Sum
    <2> HIDE DEF Low
    <2>4. Cardinality(Low(k) \cup {k + 1}) = Cardinality(Low(k)) + 1 BY <2>1, FS_AddElement
    <2> QED BY <2>2, <2>3, <2>4
  <1>4. n \in S
    <2>1. S \in SUBSET Nat OBVIOUS
    <2>2. n \in 0 .. n OBVIOUS
    <2> HIDE DEF S
    <2>3. \A k \in 0 .. n : k \in S BY <1>2, <1>3, <2>1, UpTo, Zenon
    <2> QED BY <2>2, <2>3
  <1>5. Low(n) = T
    <2>1. \A i \in T : i <= n OBVIOUS
    <2> QED BY <2>1
  <1> QED BY <1>1, <1>4, <1>5

\* Amounts that are zero but for the positions of T, and the total of each of them rounded.
Amounts(n, d, x, T) ==
    /\ n \in Nat /\ d \in Nat \ {0} /\ x \in [1 .. n -> Int] /\ T \in SUBSET (1 .. n)
    /\ \A i \in 1 .. n : i \notin T => x[i] = 0

RoundedSum(n, d, x) == Formulas!Total([i \in 1 .. n |-> Formulas!Round(x[i], d)])

\* A number r is next to x: half a unit off, of d, for each of m roundings.
Near(r, x, d, m) ==
    /\ r \in Int /\ x \in Int /\ m \in Nat
    /\ 2 * d * r <= 2 * x + d * m /\ 2 * x - d * m <= 2 * d * r

\* So is the total of what is rounded to the total of what is not.
LEMMA RoundsNear ==
    ASSUME NEW n, NEW d, NEW x, NEW T, Amounts(n, d, x, T)
    PROVE  Near(RoundedSum(n, d, x), Formulas!Total(x), d, Cardinality(T))
  <1> USE DEF Amounts
  <1> DEFINE r == [i \in 1 .. n |-> Formulas!Round(x[i], d)]
             o == [i \in 1 .. n |-> IF i \in T THEN 1 ELSE 0]
             low == [i \in 1 .. n |-> Mix(2, x[i], -d, o[i])]
             high == [i \in 1 .. n |-> Mix(2, x[i], d, o[i])]
             scaled == [i \in 1 .. n |-> Mix(2 * d, r[i], 0, r[i])]
  <1>1. \A i \in 1 .. n : Formulas!Round(x[i], d) \in Int
    <2>1. \A z \in Int : Formulas!Round(z, d) \in Int BY Rounded
    <2> QED BY <2>1
  <1>2. r \in [1 .. n -> Int] /\ o \in [1 .. n -> Int] BY <1>1
  <1>3. \A i \in 1 .. n : /\ 2 * d * r[i] <= 2 * x[i] + d * o[i]
                          /\ 2 * x[i] - d * o[i] <= 2 * d * r[i]
    <2> SUFFICES ASSUME NEW i \in 1 .. n
                 PROVE  /\ 2 * d * r[i] <= 2 * x[i] + d * o[i]
                        /\ 2 * x[i] - d * o[i] <= 2 * d * r[i]
        OBVIOUS
    <2>1. PICK X \in Int : X = x[i] /\ r[i] = Formulas!Round(X, d)
        OBVIOUS
    <2>2. PICK R \in Int : R = Formulas!Round(X, d) /\ 2 * d * R <= 2 * X + d
                   /\ 2 * X - d <= 2 * d * R
      <3>1. PICK R \in Int : R = Formulas!Round(X, d) /\ 2 * d * R <= 2 * X + d
                     /\ 2 * X + d < 2 * d * R + 2 * d
          BY Rounded
      <3>2. PICK m \in Int : m = 2 * d * R
          OBVIOUS
      <3>3. 2 * X - d <= m BY <3>1, <3>2
      <3> QED BY <3>1, <3>2, <3>3
    <2>3. CASE i \in T
      <3>1. o[i] = 1 BY <2>3
      <3> QED BY <3>1, <2>1, <2>2
    <2>4. CASE i \notin T
      <3>1. o[i] = 0 /\ X = 0 BY <2>4, <2>1
      <3>2. R = 0 BY <3>1, <2>2 DEF Formulas!Round
      <3> QED BY <3>1, <3>2, <2>1, <2>2
    <2> QED BY <2>3, <2>4
  <1>4. -d \in Int /\ d \in Int /\ 2 * d \in Int OBVIOUS
  <1> HIDE DEF r, o
  <1>5. /\ low \in [1 .. n -> Int] /\ high \in [1 .. n -> Int] /\ scaled \in [1 .. n -> Int]
        /\ \A i \in 1 .. n : low[i] <= scaled[i] /\ scaled[i] <= high[i]
    <2>1. \A i \in 1 .. n : x[i] \in Int /\ r[i] \in Int /\ o[i] \in Int BY <1>2
    <2>2. \A i \in 1 .. n : low[i] \in Int /\ high[i] \in Int /\ scaled[i] \in Int
      <3> SUFFICES ASSUME NEW i \in 1 .. n
                   PROVE  low[i] \in Int /\ high[i] \in Int /\ scaled[i] \in Int
          OBVIOUS
      <3>1. PICK X \in Int, R \in Int, O \in Int : X = x[i] /\ R = r[i] /\ O = o[i]
          BY <2>1
      <3>2. /\ Mix(2, X, -d, O) \in Int /\ Mix(2, X, d, O) \in Int
            /\ Mix(2 * d, R, 0, R) \in Int
          BY DEF Mix
      <3> QED BY <3>1, <3>2
    <2>3. \A i \in 1 .. n : low[i] <= scaled[i] /\ scaled[i] <= high[i]
      <3> SUFFICES ASSUME NEW i \in 1 .. n PROVE low[i] <= scaled[i] /\ scaled[i] <= high[i]
          OBVIOUS
      <3>1. PICK X \in Int, R \in Int, O \in Int : X = x[i] /\ R = r[i] /\ O = o[i]
          BY <2>1
      <3>2. 2 * d * R <= 2 * X + d * O /\ 2 * X - d * O <= 2 * d * R BY <3>1, <1>3
      <3>3. /\ Mix(2, X, -d, O) <= Mix(2 * d, R, 0, R)
            /\ Mix(2 * d, R, 0, R) <= Mix(2, X, d, O)
          BY <3>2 DEF Mix
      <3> QED BY <3>1, <3>3
    <2>4. /\ low \in [1 .. n -> Int] /\ high \in [1 .. n -> Int]
          /\ scaled \in [1 .. n -> Int]
        BY <2>2
    <2> QED BY <2>3, <2>4
  <1>6. Formulas!Total(low) <= Formulas!Total(scaled)
            /\ Formulas!Total(scaled) <= Formulas!Total(high)
    <2> HIDE DEF low, high, scaled
    <2> QED BY <1>5, TotalLeq
  <1>7. /\ Linear(n, 2, x, -d, o, low) /\ Linear(n, 2, x, d, o, high)
        /\ Linear(n, 2 * d, r, 0, r, scaled)
      BY <1>2, <1>4, <1>5 DEF Linear
  <1> HIDE DEF low, high, scaled
  <1>8. /\ Formulas!Total(low) = Mix(2, Formulas!Total(x), -d, Formulas!Total(o))
        /\ Formulas!Total(high) = Mix(2, Formulas!Total(x), d, Formulas!Total(o))
        /\ Formulas!Total(scaled) = Mix(2 * d, Formulas!Total(r), 0, Formulas!Total(r))
      BY <1>7, TotalLinear
  <1>9. Formulas!Total(o) = Cardinality(T) /\ Formulas!Total(o) \in Nat
    <2>1. IsFiniteSet(T) /\ Cardinality(T) \in Nat
      <3>1. IsFiniteSet(1 .. n) BY FS_Interval
      <3> QED BY <3>1, FS_Subset, FS_CardinalityType
    <2>2. \A i \in 1 .. n : o[i] = IF i \in T THEN 1 ELSE 0 BY DEF o
    <2>3. Formulas!Total(o) = Cardinality(T) BY <1>2, <2>2, TotalCounts
    <2> QED BY <2>1, <2>3
  <1>10. PICK X \in Int, R \in Int, O \in Nat : X = Formulas!Total(x) /\ R = Formulas!Total(r)
                  /\ O = Formulas!Total(o)
      BY <1>2, <1>9, TotalInt
  <1>11. /\ Mix(2, X, -d, O) <= Mix(2 * d, R, 0, R)
         /\ Mix(2 * d, R, 0, R) <= Mix(2, X, d, O)
      BY <1>10, <1>6, <1>8
  <1>12. 2 * d * R <= 2 * X + d * O /\ 2 * X - d * O <= 2 * d * R BY <1>11 DEF Mix
  <1> QED BY <1>9, <1>10, <1>12 DEF Near, RoundedSum, r

\* What a formula sums up along its components, and a formula none of which is wrong.
SumType == [cost : Int, total : Int, markup : Int]
Usable(f) == f \in Seq(Formulas!Parts) /\ \A i \in DOMAIN f : ~Formulas!Wrong(f[i])

\* An operation on a total, and the step of a component, stay whole numbers.
LEMMA AppliedType ==
    ASSUME NEW total \in Int, NEW c \in Formulas!Parts, ~Formulas!Wrong(c)
    PROVE  Formulas!Applied(total, c) \in Int
  <1>1. c.value \in Nat /\ c.op \in {"ADD", "SUBTRACT", "MULTIPLY", "DIVIDE"}
      BY DEF Formulas!Parts
  <1>2. c.op = "DIVIDE" => c.value \in Nat \ {0} BY <1>1 DEF Formulas!Wrong
  <1>3. total * c.value \in Int /\ total * 100 \in Int BY <1>1
  <1>4. Formulas!Round(total * c.value, 100) \in Int
    <2>1. \A t \in Int : Formulas!Round(t, 100) \in Int BY Rounded
    <2> QED BY <1>3, <2>1
  <1>5. c.op = "DIVIDE" => Formulas!Round(total * 100, c.value) \in Int BY <1>2, <1>3, Rounded
  <1> QED BY <1>1, <1>4, <1>5 DEF Formulas!Applied

LEMMA ComponentType ==
    ASSUME NEW sum \in SumType, NEW c \in Formulas!Parts, ~Formulas!Wrong(c)
    PROVE  Formulas!Component(sum, c) \in SumType /\ Formulas!Component(sum, c).cost = sum.cost
  <1>1. c.value \in Nat /\ Formulas!Applied(sum.total, c) \in Int
      BY AppliedType DEF Formulas!Parts, SumType
  <1>2. sum.cost * c.value \in Int /\ sum.total * c.value \in Int BY <1>1 DEF SumType
  <1>3. Formulas!Round(sum.cost * c.value, 100) \in Int
            /\ Formulas!Round(sum.total * c.value, 100) \in Int
      BY <1>2, Rounded
  <1> QED BY <1>1, <1>3 DEF Formulas!Component, SumType

\* The partial results of the loop of buildCalculationPlan.
SumStart(cost) == [cost |-> cost, total |-> cost, markup |-> 0]
SumRuns(p, cost, f) ==
    /\ p \in [0 .. Len(f) -> SumType] /\ p[0] = SumStart(cost)
    /\ \A k \in 0 .. Len(f) - 1 : p[k + 1] = Formulas!Component(p[k], f[k + 1])

\* The sums of a formula are the last of them.
LEMMA SumsRun ==
    ASSUME NEW cost \in Nat, NEW f, Usable(f)
    PROVE  \E p : SumRuns(p, cost, f) /\ Formulas!Sums(cost, f) = p[Len(f)]
  <1> DEFINE n == Len(f)
             step == [v \in SumType \X (1 .. n) |-> Formulas!Component(v[1], f[v[2]])]
             After(g) == [s \in SUBSET DOMAIN f |->
                            IF s = {} THEN SumStart(cost)
                                ELSE Formulas!Component(g[s \ {Formulas!Max(s)}],
                                         f[Formulas!Max(s)])]
  <1>n. n \in Nat /\ DOMAIN f = 1 .. n BY DEF Usable
  <1>1. SumStart(cost) \in SumType /\ step \in FoldSteps(SumType, n)
    <2>1. \A i \in 1 .. n : f[i] \in Formulas!Parts /\ ~Formulas!Wrong(f[i]) BY DEF Usable
    <2>2. \A v \in SumType \X (1 .. n) : Formulas!Component(v[1], f[v[2]]) \in SumType
        BY <2>1, ComponentType
    <2> QED BY <2>2 DEF FoldSteps, SumStart, SumType
  <1>2. \A v \in SumType, i \in 1 .. n : step[<<v, i>>] = Formulas!Component(v, f[i]) OBVIOUS
  <1> HIDE DEF step, n
  <1>3. \A s \in SUBSET (1 .. n) : s # {} => Formulas!Max(s) \in 1 .. n BY <1>n, Maximum
  <1>4. PICK h : h = After(h) /\ Formulas!Sums(cost, f) = h[1 .. n]
    <2> DEFINE fold == CHOOSE g : g = After(g)
    <2>1. Formulas!Sums(cost, f) = fold[1 .. n]
        BY <1>n DEF Formulas!Sums, Formulas!FoldLeft, Formulas!MapThenFoldSet, SumStart
    <2>2. PICK g : Folds(g, n, SumType, SumStart(cost), step)
        BY <1>1, <1>n, FoldExists
    <2>3. ASSUME NEW s \in SUBSET (1 .. n)
          PROVE  g[s] = IF s = {} THEN SumStart(cost)
                     ELSE Formulas!Component(g[s \ {Formulas!Max(s)}], f[Formulas!Max(s)])
      <3>1. s # {} => s \ {Formulas!Max(s)} \in SUBSET (1 .. n) OBVIOUS
      <3> QED BY <3>1, <2>2, <1>2, <1>3 DEF Folds, FoldStep
    <2>4. g = After(g) BY <2>2, <2>3, <1>n DEF Folds
    <2>5. fold = After(fold)
      <3> HIDE DEF After
      <3> QED BY <2>4
    <2> HIDE DEF fold
    <2> QED BY <2>1, <2>5
  <1>5. \A s \in SUBSET (1 .. n) :
              h[s] = IF s = {} THEN SumStart(cost)
                  ELSE Formulas!Component(h[s \ {Formulas!Max(s)}], f[Formulas!Max(s)])
      BY <1>4, <1>n
  <1>6. FollowsFold(h, n, SumType, SumStart(cost), step)
    <2>1. h[{}] = SumStart(cost) BY <1>5
    <2>2. \A s \in SUBSET (1 .. n) :
              s # {} /\ h[s \ {Formulas!Max(s)}] \in SumType
                  => h[s] = step[<<h[s \ {Formulas!Max(s)}], Formulas!Max(s)>>]
        BY <1>5, <1>2, <1>3
    <2> QED BY <2>1, <2>2 DEF FollowsFold
  <1>7. PICK p : Partials(p, n, SumType, SumStart(cost), step) /\ p[n] = h[1 .. n]
    <2> HIDE DEF After
    <2>1. \A z \in SumType : \A st \in FoldSteps(SumType, n) : \A g :
              FollowsFold(g, n, SumType, z, st) =>
             \E p : Partials(p, n, SumType, z, st) /\ p[n] = g[1 .. n]
        BY <1>n, FoldPartials
    <2> QED BY <1>1, <1>6, <2>1
  <1>8. \A k \in 0 .. n - 1 : p[k + 1] = Formulas!Component(p[k], f[k + 1])
    <2>1. \A k \in 0 .. n - 1 : p[k] \in SumType /\ k + 1 \in 1 .. n
        BY <1>7, <1>n DEF Partials
    <2> QED BY <2>1, <1>7, <1>2 DEF Partials
  <1> QED BY <1>4, <1>7, <1>8 DEF SumRuns, Partials, n

\* A fee as a function of the price: what it takes of the price, and beside it.
Affine == [price : Int, const : Int]

\* A fee on a base, the fees of a component, all the fees, eBay's payout and what is left of a
\* price are what their names say: two whole numbers, or one.
LEMMA TimesType ==
    ASSUME NEW base \in Affine, NEW c \in Formulas!Parts
    PROVE  Formulas!Times(base, c) \in Affine
  <1> DEFINE rate == IF c.op = "ADD" THEN c.value ELSE -c.value
  <1>1. rate \in Int /\ base.price \in Int /\ base.const \in Int BY DEF Formulas!Parts, Affine
  <1> HIDE DEF rate
  <1>2. base.price * rate \in Int /\ base.const * rate \in Int BY <1>1
  <1>3. (base.price * rate) \div 100 \in Int /\ (base.const * rate) \div 100 \in Int BY <1>2
  <1> QED BY <1>3 DEF Formulas!Times, Affine, rate

LEMMA FeeType ==
    ASSUME NEW cost \in Nat, NEW c \in Formulas!Parts
    PROVE  Formulas!Fee(cost, c) \in Affine /\ Formulas!NoFee \in Affine
  <1>1. Formulas!OfCost(cost) \in Affine /\ Formulas!OfPrice \in Affine
      BY DEF Formulas!OfCost, Formulas!OfPrice, Formulas!Unit, Affine
  <1> QED BY <1>1, TimesType DEF Formulas!Fee, Formulas!NoFee, Affine

LEMMA AllOfType ==
    ASSUME NEW n \in Nat, NEW fees \in [1 .. n -> Affine]
    PROVE  Formulas!AllOf(fees) \in Affine
  <1> DEFINE prices == [i \in DOMAIN fees |-> fees[i].price]
             consts == [i \in DOMAIN fees |-> fees[i].const]
  <1>1. prices \in [1 .. n -> Int] /\ consts \in [1 .. n -> Int] BY DEF Affine
  <1> HIDE DEF prices, consts
  <1>2. Formulas!Total(prices) \in Int /\ Formulas!Total(consts) \in Int BY <1>1, TotalInt
  <1> QED BY <1>2 DEF Formulas!AllOf, Affine, prices, consts

LEMMA PayoutType ==
    ASSUME NEW cost \in Nat, NEW f \in Seq(Formulas!Parts)
    PROVE  Formulas!Payout(cost, f) \in Affine
  <1> DEFINE ebay == [i \in DOMAIN f |-> IF Formulas!EbayFee(f[i])
          THEN Formulas!Fee(cost, f[i]) ELSE Formulas!NoFee]
  <1>1. ebay \in [1 .. Len(f) -> Affine] /\ Len(f) \in Nat
    <2>1. \A i \in 1 .. Len(f) : f[i] \in Formulas!Parts OBVIOUS
    <2>2. \A i \in 1 .. Len(f) : Formulas!Fee(cost, f[i]) \in Affine
              /\ Formulas!NoFee \in Affine
        BY <2>1, FeeType
    <2> QED BY <2>2
  <1> HIDE DEF ebay
  <1>2. Formulas!AllOf(ebay) \in Affine BY <1>1, AllOfType
  <1> QED BY <1>2 DEF Formulas!Payout, Affine, Formulas!Unit, ebay

LEMMA FeesType ==
    ASSUME NEW cost \in Nat, NEW f \in Seq(Formulas!Parts)
    PROVE  /\ Len(f) \in Nat /\ Formulas!Fees(cost, f) \in [1 .. Len(f) -> Affine]
           /\ Formulas!AllOf(Formulas!Fees(cost, f)) \in Affine
  <1>1. \A i \in 1 .. Len(f) : f[i] \in Formulas!Parts OBVIOUS
  <1>2. \A i \in 1 .. Len(f) : /\ Formulas!Fee(cost, f[i]) \in Affine
            /\ Formulas!NoFee \in Affine
                               /\ Formulas!Times(Formulas!Payout(cost, f), f[i]) \in Affine
      BY <1>1, FeeType, PayoutType, TimesType
  <1>3. Formulas!Fees(cost, f) \in [1 .. Len(f) -> Affine] /\ Len(f) \in Nat
      BY <1>2 DEF Formulas!Fees
  <1> QED BY <1>3, AllOfType

LEMMA MarginRateType ==
    ASSUME NEW f \in Seq(Formulas!Parts)
    PROVE  Formulas!MarginRate(f) \in Int
  <1> DEFINE rates == [i \in DOMAIN f |-> IF f[i].kind = "MARGIN" THEN f[i].value ELSE 0]
  <1>1. rates \in [1 .. Len(f) -> Int] /\ Len(f) \in Nat
    <2>1. \A i \in 1 .. Len(f) : f[i] \in Formulas!Parts OBVIOUS
    <2>2. \A i \in 1 .. Len(f) : f[i].value \in Int BY <2>1 DEF Formulas!Parts
    <2> QED BY <2>2
  <1> HIDE DEF rates
  <1> QED BY <1>1, TotalInt DEF Formulas!MarginRate, rates

LEMMA LeftType ==
    ASSUME NEW cost \in Nat, NEW f \in Seq(Formulas!Parts)
    PROVE  Formulas!Left(cost, f) \in Int
  BY FeesType, MarginRateType DEF Formulas!Left, Formulas!Unit, Affine

\* Components of a formula that are no fees have none.
LEMMA NoFeeElsewhere ==
    ASSUME NEW cost \in Nat, NEW f \in Seq(Formulas!Parts), NEW i \in 1 .. Len(f),
               ~Formulas!IsFee(f[i])
    PROVE  Formulas!Fees(cost, f)[i] = Formulas!NoFee
  BY DEF Formulas!Fees, Formulas!OwnFee, Formulas!PayoutFee

\* How many fees a formula has.
FeeCount(f) == Cardinality({i \in DOMAIN f : Formulas!IsFee(f[i])})

\* So all of a formula's fees are, next to half a cent each, what they would be unrounded.
LEMMA FeesNear ==
    ASSUME NEW cost \in Nat, NEW f \in Seq(Formulas!Parts), NEW price \in Nat
    PROVE  LET fees == Formulas!Fees(cost, f)
           IN  Near(Formulas!FeesAt(price, fees), Formulas!AllOf(fees).price * price
               + Formulas!AllOf(fees).const,
                    Formulas!Unit, FeeCount(f))
  <1> DEFINE fees == Formulas!Fees(cost, f)
             a == [i \in DOMAIN fees |-> fees[i].price]
             c == [i \in DOMAIN fees |-> fees[i].const]
             T == {i \in DOMAIN f : Formulas!IsFee(f[i])}
  <1>1. PICK n \in Nat : n = Len(f) /\ DOMAIN f = 1 .. n
      OBVIOUS
  <1>2. fees \in [1 .. n -> Affine] /\ Formulas!AllOf(fees) \in Affine BY <1>1, FeesType
  <1> DEFINE x == [i \in 1 .. n |-> fees[i].price * price + fees[i].const]
  <1>3. \A i \in 1 .. n : fees[i] = Formulas!NoFee \/ i \in T BY <1>1, NoFeeElsewhere
  <1> HIDE DEF fees
  <1>4. \A i \in 1 .. n : fees[i].price \in Int /\ fees[i].const \in Int BY <1>2 DEF Affine
  <1>5. a \in [1 .. n -> Int] /\ c \in [1 .. n -> Int] /\ x \in [1 .. n -> Int]
    <2>1. \A i \in 1 .. n : fees[i].price * price + fees[i].const \in Int BY <1>4
    <2> QED BY <1>2, <1>4, <2>1
  <1>6. Amounts(n, Formulas!Unit, x, T)
    <2>1. \A i \in 1 .. n : i \notin T => x[i] = 0 BY <1>3 DEF Formulas!NoFee
    <2>2. T \in SUBSET (1 .. n) /\ Formulas!Unit \in Nat \ {0} BY <1>1 DEF Formulas!Unit
    <2> HIDE DEF x, T
    <2> QED BY <1>5, <2>1, <2>2 DEF Amounts
  <1>7. Linear(n, price, a, 1, c, x)
    <2>1. \A i \in 1 .. n : x[i] = Mix(price, a[i], 1, c[i]) BY <1>2, <1>4 DEF Mix
    <2> HIDE DEF a, c, x
    <2> QED BY <1>5, <2>1 DEF Linear
  <1>8. Formulas!FeesAt(price, fees) = RoundedSum(n, Formulas!Unit, x)
    <2>1. [i \in 1 .. n |-> Formulas!Round(x[i], Formulas!Unit)]
            = [i \in DOMAIN fees
                |-> Formulas!Round(fees[i].price * price + fees[i].const, Formulas!Unit)]
        BY <1>2
    <2> QED BY <2>1 DEF Formulas!FeesAt, RoundedSum
  <1>9. Formulas!AllOf(fees) = [price |-> Formulas!Total(a), const |-> Formulas!Total(c)]
      BY DEF Formulas!AllOf
  <1> HIDE DEF a, c, x, T
  <1>10. Formulas!Total(x) = Formulas!AllOf(fees).price * price + Formulas!AllOf(fees).const
    <2>1. PICK A \in Int, C \in Int : A = Formulas!Total(a) /\ C = Formulas!Total(c)
        BY <1>5, TotalInt
    <2>2. Formulas!Total(x) = Mix(price, A, 1, C) BY <1>7, <2>1, TotalLinear
    <2> QED BY <1>9, <2>1, <2>2 DEF Mix
  <1>11. Near(RoundedSum(n, Formulas!Unit, x), Formulas!Total(x), Formulas!Unit, Cardinality(T))
      BY <1>6, RoundsNear
  <1> QED BY <1>8, <1>10, <1>11 DEF FeeCount, T, fees

\* The arithmetic of a price p, in cents: T and K are the summed costs and markup, A and C
\* what the fees take of the price and beside it, M the margin's rate, F the fees as rounded,
\* n how many they are, L what is left of the price, R the rounded price, G the margin.
Books(p, T, K, A, C, M, F, n, L, R, G) ==
    /\ p \in Nat /\ T \in Int /\ K \in Int /\ A \in Int /\ C \in Int /\ M \in Int
    /\ F \in Int /\ n \in Nat /\ L \in Nat \ {0} /\ R \in Int /\ G \in Int
    /\ L = 10000 - A - 100 * M
    /\ 2 * L * R <= 2 * (10000 * (T + K) + C) + L
    /\ 2 * (10000 * (T + K) + C) + L < 2 * L * R + 2 * L
    /\ p >= R /\ (p > 0 => p = R)
    /\ 20000 * F <= 2 * (A * p + C) + 10000 * n /\ 2 * (A * p + C) - 10000 * n <= 20000 * F
    /\ 200 * G <= 2 * (p * M) + 100 /\ 2 * (p * M) - 100 <= 200 * G

\* What PriceEarns says of these numbers: profit and target are next to each other.
Balanced(p, T, K, F, n, L, G) ==
    /\ 20000 * ((G + K) - (p - T - F)) <= L + 10000 * (n + 1)
    /\ p > 0 => 20000 * ((p - T - F) - (G + K)) <= L + 10000 * (n + 1)

\* The books balance.
LEMMA Earned ==
    ASSUME NEW p, NEW T, NEW K, NEW A, NEW C, NEW M, NEW F, NEW n, NEW L, NEW R, NEW G,
           Books(p, T, K, A, C, M, F, n, L, R, G)
    PROVE  Balanced(p, T, K, F, n, L, G)
  <1> USE DEF Books, Balanced
  <1> DEFINE ap == A * p
             mp == p * M
             lp == L * p
             lr == L * R
  <1>1. ap \in Int /\ mp \in Int /\ lp \in Int /\ lr \in Int OBVIOUS
  <1>2. lp = 10000 * p - ap - 100 * mp OBVIOUS
  <1>3. lr <= lp /\ (p > 0 => lp = lr)
    <2>1. L * (p - R) >= 0 OBVIOUS
    <2> QED BY <2>1
  <1>4. 2 * lr <= 2 * (10000 * (T + K) + C) + L
            /\ 2 * (10000 * (T + K) + C) + L < 2 * lr + 2 * L
      OBVIOUS
  <1>5. 20000 * F <= 2 * (ap + C) + 10000 * n /\ 2 * (ap + C) - 10000 * n <= 20000 * F OBVIOUS
  <1>6. 200 * G <= 2 * mp + 100 /\ 2 * mp - 100 <= 200 * G OBVIOUS
  <1> HIDE DEF ap, mp, lp, lr
  <1>7. 20000 * ((G + K) - (p - T - F)) <= L + 10000 * (n + 1)
      BY <1>1, <1>2, <1>3, <1>4, <1>5, <1>6
  <1>8. p > 0 => 20000 * ((p - T - F) - (G + K)) <= L + 10000 * (n + 1)
      BY <1>1, <1>2, <1>3, <1>4, <1>5, <1>6
  <1> QED BY <1>7, <1>8

\* A price is what was computed, or zero.
LEMMA PriceRounds ==
    ASSUME NEW x \in Int
    PROVE  Formulas!Max({0, x}) \in Nat /\ Formulas!Max({0, x}) >= x
               /\ (Formulas!Max({0, x}) > 0 => Formulas!Max({0, x}) = x)
  <1>1. \E m \in {0, x} : \A y \in {0, x} : m >= y
    <2>1. CASE x >= 0 BY <2>1
    <2>2. CASE ~(x >= 0) BY <2>2
    <2> QED BY <2>1, <2>2
  <1>2. Formulas!Max({0, x}) \in {0, x} /\ \A y \in {0, x} : Formulas!Max({0, x}) >= y
      BY <1>1 DEF Formulas!Max
  <1> QED BY <1>2

\* A formula that a cost does not break has sums, and something is left of the price.
LEMMA UsableWhenAccepted ==
    ASSUME NEW cost \in Nat, NEW f \in Seq(Formulas!Parts), ~Formulas!Refused(cost, f)
    PROVE  /\ Usable(f) /\ Formulas!Sums(cost, f) \in SumType
                  /\ Formulas!Sums(cost, f).total >= 0
           /\ Formulas!Left(cost, f) \in Nat \ {0}
  <1>1. Usable(f) BY DEF Formulas!Refused, Usable
  <1>2. Formulas!Sums(cost, f) \in SumType
    <2>1. PICK p : SumRuns(p, cost, f) /\ Formulas!Sums(cost, f) = p[Len(f)]
        BY <1>1, SumsRun
    <2>2. Len(f) \in 0 .. Len(f) OBVIOUS
    <2> QED BY <2>1, <2>2 DEF SumRuns
  <1>3. Formulas!Left(cost, f) \in Nat \ {0} BY LeftType DEF Formulas!Refused
  <1>4. Formulas!Sums(cost, f).total >= 0 BY <1>2 DEF Formulas!Refused, SumType
  <1> QED BY <1>1, <1>2, <1>3, <1>4

\* So the price of a formula brings the profit it aims at, up to rounding.
LEMMA PriceEarns ==
    ASSUME NEW cost \in Nat, NEW f \in Seq(Formulas!Parts), ~Formulas!Refused(cost, f)
    PROVE  LET p == Formulas!Price(cost, f) IN
           /\ p \in Nat
           /\ Formulas!Close(Formulas!TargetProfit(p, cost, f), Formulas!NetProfit(p, cost, f),
                  cost, f)
           /\ p > 0 => Formulas!Close(Formulas!NetProfit(p, cost, f),
                  Formulas!TargetProfit(p, cost, f), cost, f)
  <1>1. PICK T \in Int, K \in Int : T = Formulas!Sums(cost, f).total
                 /\ K = Formulas!Sums(cost, f).markup
      BY UsableWhenAccepted DEF SumType
  <1>2. PICK A \in Int, C \in Int :
            A = Formulas!AllOf(Formulas!Fees(cost, f)).price
                /\ C = Formulas!AllOf(Formulas!Fees(cost, f)).const
      BY FeesType DEF Affine
  <1>3. PICK M \in Int : M = Formulas!MarginRate(f)
      BY MarginRateType
  <1>4. PICK L \in Nat \ {0} : L = Formulas!Left(cost, f)
      BY UsableWhenAccepted
  <1>5. L = 10000 - A - 100 * M BY <1>2, <1>3, <1>4 DEF Formulas!Left, Formulas!Unit
  <1>6. PICK N \in Int : N = Formulas!Needed(cost, f) /\ N = 10000 * (T + K) + C
      BY <1>1, <1>2 DEF Formulas!Needed, Formulas!Unit
  <1>7. PICK R \in Int : /\ R = Formulas!Round(N, L) /\ 2 * L * R <= 2 * N + L
                         /\ 2 * N + L < 2 * L * R + 2 * L
      BY Rounded
  <1>8. PICK p \in Nat : p = Formulas!Price(cost, f) /\ p >= R /\ (p > 0 => p = R)
    <2>1. Formulas!Price(cost, f) = Formulas!Max({0, R}) BY <1>4, <1>6, <1>7 DEF Formulas!Price
    <2>2. Formulas!Max({0, R}) \in Nat /\ Formulas!Max({0, R}) >= R
              /\ (Formulas!Max({0, R}) > 0 => Formulas!Max({0, R}) = R)
        BY PriceRounds
    <2> QED BY <2>1, <2>2
  <1>9. PICK F \in Int, n \in Nat :
            /\ F = Formulas!FeesAt(p, Formulas!Fees(cost, f)) /\ n = FeeCount(f)
            /\ 20000 * F <= 2 * (A * p + C) + 10000 * n
            /\ 2 * (A * p + C) - 10000 * n <= 20000 * F
    <2>1. Near(Formulas!FeesAt(p, Formulas!Fees(cost, f)), A * p + C, Formulas!Unit,
              FeeCount(f))
        BY <1>2, FeesNear
    <2> QED BY <2>1 DEF Near, Formulas!Unit
  <1>10. PICK G \in Int : /\ G = Formulas!Round(p * M, 100)
                          /\ 200 * G <= 2 * (p * M) + 100 /\ 2 * (p * M) - 100 <= 200 * G
    <2>1. PICK x \in Int : x = p * M
        OBVIOUS
    <2>2. Formulas!Round(x, 100) \in Int /\ 200 * Formulas!Round(x, 100) <= 2 * x + 100
              /\ 2 * x - 100 <= 200 * Formulas!Round(x, 100)
        BY DEF Formulas!Round
    <2> QED BY <2>1, <2>2
  <1>11. /\ Formulas!NetProfit(p, cost, f) = p - T - F
         /\ Formulas!TargetProfit(p, cost, f) = G + K
      BY <1>1, <1>3, <1>9, <1>10 DEF Formulas!NetProfit, Formulas!TargetProfit
  <1>12. Books(p, T, K, A, C, M, F, n, L, R, G)
      BY <1>5, <1>6, <1>7, <1>8, <1>9, <1>10 DEF Books
  <1>13. Balanced(p, T, K, F, n, L, G) BY <1>12, Earned
  <1> QED BY <1>4, <1>8, <1>9, <1>11, <1>13, SameCounts
      DEF Formulas!Close, Formulas!Unit, FeeCount, Balanced

\* What fees take of the price does not depend on the cost of a row, and neither does what is
\* left of it: a formula that breaks there breaks at every cost.
LEMMA FeePriceSame ==
    ASSUME NEW a \in Nat, NEW b \in Nat, NEW c \in Formulas!Parts
    PROVE  Formulas!Fee(a, c).price = Formulas!Fee(b, c).price
  BY DEF Formulas!Fee, Formulas!Times, Formulas!OfCost, Formulas!OfPrice

LEMMA PayoutPriceSame ==
    ASSUME NEW a \in Nat, NEW b \in Nat, NEW f \in Seq(Formulas!Parts)
    PROVE  Formulas!Payout(a, f).price = Formulas!Payout(b, f).price
  <1> DEFINE ebay(cost) == [i \in DOMAIN f |-> IF Formulas!EbayFee(f[i])
          THEN Formulas!Fee(cost, f[i]) ELSE Formulas!NoFee]
             prices(cost) == [i \in DOMAIN ebay(cost) |-> ebay(cost)[i].price]
  <1>1. \A i \in DOMAIN f : f[i] \in Formulas!Parts OBVIOUS
  <1>2. \A i \in DOMAIN f : ebay(a)[i].price = ebay(b)[i].price BY <1>1, FeePriceSame
  <1>3. prices(a) = prices(b) BY <1>2
  <1>4. \A cost : Formulas!Payout(cost, f).price = Formulas!Unit - Formulas!Total(prices(cost))
      BY DEF Formulas!Payout, Formulas!AllOf
  <1> HIDE DEF prices
  <1> QED BY <1>3, <1>4

LEMMA LeftSame ==
    ASSUME NEW a \in Nat, NEW b \in Nat, NEW f \in Seq(Formulas!Parts)
    PROVE  Formulas!Left(a, f) = Formulas!Left(b, f)
  <1> DEFINE prices(cost) == [i \in DOMAIN Formulas!Fees(cost, f)
          |-> Formulas!Fees(cost, f)[i].price]
  <1>1. \A i \in DOMAIN f : f[i] \in Formulas!Parts OBVIOUS
  <1>2. \A cost : DOMAIN Formulas!Fees(cost, f) = DOMAIN f BY DEF Formulas!Fees
  <1>3. ASSUME NEW i \in DOMAIN f PROVE Formulas!Fees(a, f)[i].price
                   = Formulas!Fees(b, f)[i].price
    <2>1. Formulas!Fee(a, f[i]).price = Formulas!Fee(b, f[i]).price BY <1>1, FeePriceSame
    <2>2. Formulas!Times(Formulas!Payout(a, f), f[i]).price
              = Formulas!Times(Formulas!Payout(b, f), f[i]).price
        BY PayoutPriceSame DEF Formulas!Times
    <2> QED BY <2>1, <2>2 DEF Formulas!Fees
  <1>4. prices(a) = prices(b) BY <1>2, <1>3
  <1>5. \A cost : Formulas!AllOf(Formulas!Fees(cost, f)).price = Formulas!Total(prices(cost))
      BY DEF Formulas!AllOf
  <1> HIDE DEF prices
  <1> QED BY <1>4, <1>5 DEF Formulas!Left

\* A larger number rounds to one that is no smaller.
LEMMA RoundGrows ==
    ASSUME NEW x \in Int, NEW y \in Int, NEW d \in Nat \ {0}, x <= y
    PROVE  Formulas!Round(x, d) <= Formulas!Round(y, d)
  <1>1. PICK X \in Int : X = Formulas!Round(x, d) /\ 2 * d * X <= 2 * x + d
      BY Rounded
  <1>2. PICK Y \in Int : Y = Formulas!Round(y, d) /\ 2 * y + d < 2 * d * Y + 2 * d
      BY Rounded
  <1>3. 2 * d * X < 2 * d * Y + 2 * d BY <1>1, <1>2
  <1>4. d * (X - Y - 1) < 0 BY <1>3
  <1>5. ~(X - Y - 1 >= 0)
    <2>1. \A z \in Nat : d * z >= 0 OBVIOUS
    <2> QED BY <1>4, <2>1
  <1> QED BY <1>1, <1>2, <1>5

\* A charge on the sum so far takes no more than all of it.
TakesAll(c) == c.kind # "FIXED" /\ c.op = "SUBTRACT" => c.value <= 100

\* Such a charge leaves no less of more, rounded as it is: the two roundings differ by at most
\* what the sums do.
LEMMA AppliedGrows ==
    ASSUME NEW a \in Int, NEW b \in Int, NEW c \in Formulas!Parts, a
               <= b, ~Formulas!Wrong(c), TakesAll(c)
    PROVE  Formulas!Applied(a, c) <= Formulas!Applied(b, c)
  <1>1. PICK v \in Nat : v = c.value
      BY DEF Formulas!Parts
  <1>2. PICK x \in Int, y \in Int : x = a * v /\ y = b * v /\ x <= y
    <2>1. (b - a) * v >= 0 BY <1>1
    <2> QED BY <2>1, <1>1
  <1>3. PICK X \in Int, Y \in Int : X = Formulas!Round(x, 100) /\ Y = Formulas!Round(y, 100)
                 /\ X <= Y
    <2>1. \A z \in Int : Formulas!Round(z, 100) \in Int BY Rounded
    <2>2. \A z \in Int : \A w \in Int : z <= w
              => Formulas!Round(z, 100) <= Formulas!Round(w, 100)
        BY RoundGrows
    <2> QED BY <1>2, <2>1, <2>2
  <1>4. CASE c.op = "ADD" BY <1>1, <1>2, <1>3, <1>4 DEF Formulas!Applied
  <1>5. CASE c.op = "MULTIPLY" BY <1>1, <1>2, <1>3, <1>5 DEF Formulas!Applied
  <1>6. CASE c.op = "DIVIDE"
    <2>1. v \in Nat \ {0} BY <1>1, <1>6 DEF Formulas!Wrong
    <2>2. PICK s \in Int, t \in Int : s = a * 100 /\ t = b * 100 /\ s <= t
        OBVIOUS
    <2>3. Formulas!Round(s, v) <= Formulas!Round(t, v) BY <2>1, <2>2, RoundGrows
    <2> QED BY <1>1, <1>6, <2>2, <2>3 DEF Formulas!Applied
  <1>7. CASE c.op = "SUBTRACT" /\ c.kind = "FIXED" BY <1>1, <1>7 DEF Formulas!Applied
  <1>8. CASE c.op = "SUBTRACT" /\ c.kind # "FIXED"
    <2>1. v <= 100 BY <1>1, <1>8 DEF TakesAll
    <2>2. y <= x + 100 * (b - a)
      <3>1. (b - a) * (100 - v) >= 0 BY <2>1
      <3> QED BY <3>1, <1>2
    <2>3. Y <= X + (b - a)
      <3> QED BY <2>2, <1>2, <1>3 DEF Formulas!Round
    <2>4. Formulas!Applied(a, c) = a - X /\ Formulas!Applied(b, c) = b - Y
        BY <1>1, <1>2, <1>3, <1>8 DEF Formulas!Applied
    <2> QED BY <2>3, <2>4
  <1>9. c.op \in {"ADD", "SUBTRACT", "MULTIPLY", "DIVIDE"} BY DEF Formulas!Parts
  <1> QED BY <1>4, <1>5, <1>6, <1>7, <1>8, <1>9

\* So does the step of a component.
LEMMA ComponentGrows ==
    ASSUME NEW s \in SumType, NEW t \in SumType, NEW c \in Formulas!Parts, ~Formulas!Wrong(c),
           s.total <= t.total, Formulas!Sequential(c)
               => TakesAll(c), Formulas!Component(s, c).total >= 0
    PROVE  s.total >= 0 /\ Formulas!Component(s, c).total <= Formulas!Component(t, c).total
  <1>1. PICK a \in Int, b \in Int : a = s.total /\ b = t.total /\ a <= b
      BY DEF SumType
  <1>2. a >= 0 /\ b >= 0
    <2>1. ~(a < 0) BY <1>1 DEF Formulas!Component
    <2> QED BY <2>1, <1>1
  <1>3. CASE Formulas!Sequential(c)
    <2>1. Formulas!Applied(a, c) <= Formulas!Applied(b, c) BY <1>1, <1>3, AppliedGrows
    <2>2. /\ Formulas!Component(s, c) = [s EXCEPT !.total = Formulas!Applied(a, c)]
          /\ Formulas!Component(t, c) = [t EXCEPT !.total = Formulas!Applied(b, c)]
      <3>1. ~(s.total < 0) /\ ~(t.total < 0) /\ s.total >= 0 /\ t.total >= 0 BY <1>1, <1>2
      <3>2. c.kind # "MARKUP" BY <1>3 DEF Formulas!Sequential
      <3> QED BY <3>1, <3>2, <1>1, <1>3 DEF Formulas!Component
    <2> QED BY <1>1, <1>2, <2>1, <2>2 DEF SumType
  <1>4. CASE ~Formulas!Sequential(c)
    <2>1. Formulas!Component(s, c).total = a /\ Formulas!Component(t, c).total = b
        BY <1>1, <1>2, <1>4 DEF Formulas!Component, SumType
    <2> QED BY <1>1, <1>2, <2>1
  <1> QED BY <1>3, <1>4

\* In a formula whose charges take at most all of what it has summed next, a row that costs
\* more than one whose total never falls below zero has such a total too.
LEMMA SumsGrow ==
    ASSUME NEW a \in Nat, NEW b \in Nat, NEW f, Usable(f), Formulas!Sane(f), a <= b,
           Formulas!Sums(a, f).total >= 0
    PROVE  Formulas!Sums(b, f).total >= 0
  <1>1. PICK p : SumRuns(p, a, f) /\ Formulas!Sums(a, f) = p[Len(f)]
      BY SumsRun
  <1>2. PICK q : SumRuns(q, b, f) /\ Formulas!Sums(b, f) = q[Len(f)]
      BY SumsRun
  <1>3. PICK n \in Nat : n = Len(f) /\ DOMAIN f = 1 .. n
      BY DEF Usable
  <1>4. \A k \in 0 .. n : p[k] \in SumType /\ q[k] \in SumType BY <1>1, <1>2, <1>3 DEF SumRuns
  <1>5. \A k \in 0 .. n - 1 : /\ p[k + 1] = Formulas!Component(p[k], f[k + 1])
                             /\ q[k + 1] = Formulas!Component(q[k], f[k + 1])
      BY <1>1, <1>2, <1>3 DEF SumRuns
  <1>6. \A k \in 0 .. n - 1 : k + 1 \in 1 .. n /\ k \in 0 .. n /\ k + 1 \in 0 .. n BY <1>3
  <1>7. \A i \in 1 .. n : f[i] \in Formulas!Parts /\ ~Formulas!Wrong(f[i])
            /\ (Formulas!Sequential(f[i]) => TakesAll(f[i]))
      BY <1>3 DEF Usable, Formulas!Sane, TakesAll
  <1> DEFINE Holds(k) == p[k].total >= 0 => p[k].total <= q[k].total
             S == {k \in 0 .. n : Holds(k)}
  <1>8. 0 \in S BY <1>1, <1>2, <1>3 DEF SumRuns, SumStart
  <1>9. ASSUME NEW k \in 0 .. n - 1, k \in S PROVE k + 1 \in S
    <2>1. p[k + 1].total >= 0 => p[k].total >= 0 BY <1>4, <1>5, <1>6 DEF Formulas!Component
    <2>2. p[k + 1].total >= 0 => p[k].total <= q[k].total BY <2>1, <1>9
    <2>3. p[k + 1].total >= 0 => p[k + 1].total <= q[k + 1].total
      <3>1. ASSUME p[k + 1].total >= 0 PROVE p[k + 1].total <= q[k + 1].total
        <4>1. Formulas!Component(p[k], f[k + 1]).total >= 0 BY <3>1, <1>5
        <4>2. /\ p[k] \in SumType /\ q[k] \in SumType /\ f[k + 1] \in Formulas!Parts
              /\ ~Formulas!Wrong(f[k + 1]) /\ p[k].total <= q[k].total
              /\ (Formulas!Sequential(f[k + 1]) => TakesAll(f[k + 1]))
            BY <3>1, <2>2, <1>4, <1>6, <1>7
        <4>3. Formulas!Component(p[k], f[k + 1]).total
                  <= Formulas!Component(q[k], f[k + 1]).total
            BY <4>1, <4>2, ComponentGrows
        <4> QED BY <4>3, <1>5
      <3> QED BY <3>1
    <2> QED BY <2>3, <1>6
  <1>10. \A k \in 0 .. n : k \in S
    <2>1. \A k \in 0 .. n - 1 : k \in S => k + 1 \in S BY <1>9
    <2>2. S \in SUBSET Nat OBVIOUS
    <2> HIDE DEF S
    <2> QED BY <1>3, <1>8, <2>1, <2>2, UpTo, Zenon
  <1>11. n \in S
    <2> HIDE DEF S
    <2>1. n \in 0 .. n BY <1>3
    <2> QED BY <2>1, <1>10
  <1> QED
    <2>1. p[n].total >= 0 /\ p[n] \in SumType /\ q[n] \in SumType /\ p[n].total <= q[n].total
        BY <1>1, <1>3, <1>4, <1>11
    <2> QED BY <2>1, <1>2, <1>3 DEF SumType

\* A formula that prices a row prices every row that costs more.
LEMMA RefusedGrows ==
    ASSUME NEW a \in Nat, NEW b \in Nat, NEW f \in Seq(Formulas!Parts), ~Formulas!Refused(a, f),
               Formulas!Sane(f), a <= b
    PROVE  ~Formulas!Refused(b, f)
  <1>1. Usable(f) /\ Formulas!Sums(a, f).total >= 0 /\ Formulas!Left(a, f) \in Nat \ {0}
      BY UsableWhenAccepted
  <1>2. Formulas!Sums(b, f).total >= 0 BY <1>1, SumsGrow
  <1>3. Formulas!Sums(b, f) \in SumType
    <2>1. PICK p : SumRuns(p, b, f) /\ Formulas!Sums(b, f) = p[Len(f)]
        BY <1>1, SumsRun
    <2>2. Len(f) \in 0 .. Len(f) OBVIOUS
    <2> QED BY <2>1, <2>2 DEF SumRuns
  <1>4. ~(Formulas!Sums(b, f).total < 0) BY <1>2, <1>3 DEF SumType
  <1>5. ~(Formulas!Left(b, f) <= 0) BY <1>1, LeftSame
  <1>6. ~(\E i \in DOMAIN f : Formulas!Wrong(f[i])) BY <1>1 DEF Usable
  <1> QED BY <1>4, <1>5, <1>6 DEF Formulas!Refused

\* The cost that createBulkPricingJob tries is the least of the sheet.
LEMMA Cheapest ==
    ASSUME NEW costs \in [PricedRow -> Nat], PricedRow # {}
    PROVE  LET min == Formulas!Min({costs[r] : r \in PricedRow})
           IN min \in Nat /\ \A r \in PricedRow : min <= costs[r]
  <1> DEFINE T == {costs[r] : r \in PricedRow}
  <1>1. T \in SUBSET Nat /\ T # {} OBVIOUS
  <1> HIDE DEF T
  <1>2. PICK least \in T : \A k \in T : least <= k
      BY <1>1, Least
  <1>3. Formulas!Min(T) \in T /\ \A k \in T : Formulas!Min(T) <= k BY <1>2 DEF Formulas!Min
  <1> QED BY <1>1, <1>3 DEF T

\* The web client normalizes a formula as the server does.
LEMMA ReadsAlike ==
    ASSUME NEW s, s.components \in Seq(Formulas!Parts)
    PROVE  Formulas!ShownFormula(s) = Formulas!Normal(s)
  <1>1. \A i \in DOMAIN s.components :
            s.components[i].kind \in {"EBAY", "FEE", "CUSTOM", "FIXED", "MARGIN", "MARKUP"}
    <2>1. \A i \in DOMAIN s.components : s.components[i] \in Formulas!Parts OBVIOUS
    <2> QED BY <2>1 DEF Formulas!Parts
  <1> QED
      BY <1>1
      DEF Formulas!ShownFormula, Formulas!Normal, Formulas!DefaultBase, Formulas!InSequence,
          Formulas!Percentages

\* A normalized formula is made of components.
LEMMA NormalType ==
    ASSUME NEW s, s.components \in Seq(Formulas!Parts)
    PROVE  Formulas!Normal(s) \in Seq(Formulas!Parts)
  <1>1. PICK n \in Nat : DOMAIN s.components = 1 .. n /\ n = Len(s.components)
      OBVIOUS
  <1>2. \A i \in 1 .. n : Formulas!Normal(s)[i] \in Formulas!Parts
    <2> SUFFICES ASSUME NEW i \in 1 .. n PROVE Formulas!Normal(s)[i] \in Formulas!Parts OBVIOUS
    <2>1. PICK c \in Formulas!Parts : c = s.components[i]
        BY <1>1
    <2>2. \A b \in {"unset", "PRICE", "COST", "TOTAL", "PAYOUT", "CUSTOM"} :
              [c EXCEPT !.base = b] \in Formulas!Parts
        BY DEF Formulas!Parts
    <2>3. c.base \in {"unset", "PRICE", "COST", "TOTAL", "PAYOUT", "CUSTOM"}
        BY DEF Formulas!Parts
    <2>4. \A k, l : Formulas!DefaultBase(k, l)
              \in {"unset", "PRICE", "COST", "TOTAL", "PAYOUT", "CUSTOM"}
        BY DEF Formulas!DefaultBase
    <2>5. \E b \in {"unset", "PRICE", "COST", "TOTAL", "PAYOUT", "CUSTOM"} :
              Formulas!Normal(s)[i] = [c EXCEPT !.base = b]
        BY <1>1, <2>1, <2>3, <2>4 DEF Formulas!Normal
    <2> QED BY <2>2, <2>5
  <1>3. Formulas!Normal(s) = [i \in 1 .. n |-> Formulas!Normal(s)[i]]
      BY <1>1 DEF Formulas!Normal
  <1> QED
    <2>1. Formulas!Normal(s) \in [1 .. n -> Formulas!Parts] BY <1>2, <1>3, Zenon
    <2> QED BY <2>1

\* The rate of a fee in hundredths: of the price, and of the cost.
Rate(c) == IF c.op = "ADD" THEN c.value ELSE -c.value
OnPrice(c) == IF c.base = "COST" THEN 0 ELSE Rate(c)
OnCost(cost, c) == IF c.base = "COST" THEN cost * Rate(c) ELSE 0

\* A fee on the price or the cost is exact in ten thousandths, so the server's and the web
\* client's arithmetic round the same fraction.
LEMMA FeeHundreds ==
    ASSUME NEW cost \in Nat, NEW c \in Formulas!Parts
    PROVE  /\ OnPrice(c) \in Int /\ OnCost(cost, c) \in Int
           /\ Formulas!Fee(cost, c)
                  = [price |-> 100 * OnPrice(c), const |-> 100 * OnCost(cost, c)]
  <1>1. PICK q \in Int : q = Rate(c)
      BY DEF Rate, Formulas!Parts
  <1>2. PICK k \in Int : k = cost * q
      OBVIOUS
  <1>3. \A z \in Int : (10000 * z) \div 100 = 100 * z OBVIOUS
  <1>4. (10000 * cost) * q = 10000 * k BY <1>2
  <1>5. /\ (10000 * q) \div 100 = 100 * q /\ ((10000 * cost) * q) \div 100 = 100 * k
        /\ (0 * q) \div 100 = 0
      BY <1>3, <1>4
  <1> QED
      BY <1>1, <1>2, <1>5
      DEF OnPrice, OnCost, Formulas!Fee, Formulas!Times, Formulas!OfCost, Formulas!OfPrice,
          Formulas!Unit, Rate

LEMMA Hundreds ==
    ASSUME NEW x \in Int
    PROVE  Formulas!Round(100 * x, Formulas!Unit) = Formulas!Round(x, 100)
  BY DEF Formulas!Round, Formulas!Unit

\* The web client's fee on the price or the cost.
Shows(price, cost, c) == Formulas!ShownFee(IF c.base = "COST" THEN cost ELSE price, c)

\* The web client's own fees are the server's.
LEMMA OwnShown ==
    ASSUME NEW price \in Nat, NEW cost \in Nat, NEW c \in Formulas!Parts
    PROVE  /\ Shows(price, cost, c) = Formulas!Round(OnPrice(c) * price + OnCost(cost, c), 100)
           /\ Shows(price, cost, c)
                  = Formulas!Round(Formulas!Fee(cost, c).price * price
                      + Formulas!Fee(cost, c).const, Formulas!Unit)
  <1>1. PICK p \in Int, k \in Int : p = OnPrice(c) /\ k = OnCost(cost, c)
      BY FeeHundreds
  <1>2. PICK x \in Int : x = p * price + k
      OBVIOUS
  <1>3. (100 * p) * price + 100 * k = 100 * x BY <1>2
  <1>4. Formulas!Round(100 * x, Formulas!Unit) = Formulas!Round(x, 100) BY Hundreds
  <1>5. Formulas!Fee(cost, c).price = 100 * p /\ Formulas!Fee(cost, c).const = 100 * k
      BY <1>1, FeeHundreds
  <1>6. Shows(price, cost, c) = Formulas!Round(x, 100)
    <2>1. PICK q \in Int : q = Rate(c)
        BY DEF Rate, Formulas!Parts
    <2>2. Formulas!ShownFee(price, c) = Formulas!Round(price * q, 100)
              /\ Formulas!ShownFee(cost, c) = Formulas!Round(cost * q, 100)
        BY <2>1 DEF Formulas!ShownFee, Rate
    <2>3. IF c.base = "COST" THEN x = cost * q ELSE x = price * q
        BY <1>1, <1>2, <2>1 DEF OnPrice, OnCost
    <2> QED BY <2>2, <2>3 DEF Shows
  <1> QED BY <1>1, <1>2, <1>3, <1>4, <1>5, <1>6

\* The fees that eBay keeps, as the web client sums them: it rounds each before it subtracts
\* them from the payout, where the server does not round.
Ebays(f) == {i \in DOMAIN f : Formulas!EbayFee(f[i])}
ShownEbay(price, cost, f) ==
    Formulas!Total([i \in DOMAIN f |-> IF Formulas!EbayFee(f[i]) THEN Shows(price, cost, f[i])
        ELSE 0])

\* The payout as the server has it, in hundredths.
PayoutIs(cost, f, e, k) ==
    /\ e \in Int /\ k \in Int
    /\ Formulas!Payout(cost, f) = [price |-> 10000 - 100 * e, const |-> -(100 * k)]

\* The web client's payout differs by half a cent for each of eBay's fees.
LEMMA PayoutNear ==
    ASSUME NEW price \in Nat, NEW cost \in Nat, NEW f \in Seq(Formulas!Parts)
    PROVE  \E e, k : /\ PayoutIs(cost, f, e, k)
                     /\ Near(ShownEbay(price, cost, f), e * price + k, 100,
                            Cardinality(Ebays(f)))
  <1>1. PICK n \in Nat : n = Len(f) /\ DOMAIN f = 1 .. n
      OBVIOUS
  <1>2. \A i \in 1 .. n : f[i] \in Formulas!Parts BY <1>1
  <1> DEFINE a == [i \in 1 .. n |-> IF Formulas!EbayFee(f[i]) THEN OnPrice(f[i]) ELSE 0]
             c == [i \in 1 .. n |-> IF Formulas!EbayFee(f[i]) THEN OnCost(cost, f[i]) ELSE 0]
             x == [i \in 1 .. n |-> Mix(price, a[i], 1, c[i])]
             ebay == [i \in DOMAIN f |-> IF Formulas!EbayFee(f[i])
                 THEN Formulas!Fee(cost, f[i]) ELSE Formulas!NoFee]
             ap == [i \in DOMAIN ebay |-> ebay[i].price]
             cp == [i \in DOMAIN ebay |-> ebay[i].const]
  <1>3. \A i \in 1 .. n : OnPrice(f[i]) \in Int /\ OnCost(cost, f[i]) \in Int
      BY <1>2, FeeHundreds
  <1>4. a \in [1 .. n -> Int] /\ c \in [1 .. n -> Int] BY <1>3
  <1>5. \A i \in 1 .. n : ap[i] = Mix(100, a[i], 0, a[i]) /\ cp[i] = Mix(100, c[i], 0, c[i])
    <2> SUFFICES ASSUME NEW i \in 1 .. n
                 PROVE  ap[i] = Mix(100, a[i], 0, a[i]) /\ cp[i] = Mix(100, c[i], 0, c[i])
        OBVIOUS
    <2>1. /\ Formulas!Fee(cost, f[i]).price = 100 * OnPrice(f[i])
          /\ Formulas!Fee(cost, f[i]).const = 100 * OnCost(cost, f[i])
        BY <1>2, FeeHundreds
    <2> QED BY <2>1, <1>1, <1>3 DEF Mix, Formulas!NoFee
  <1>6. ap \in [1 .. n -> Int] /\ cp \in [1 .. n -> Int]
    <2>1. \A i \in 1 .. n : a[i] \in Int /\ c[i] \in Int BY <1>4
    <2> HIDE DEF a, c
    <2>2. \A i \in 1 .. n : Mix(100, a[i], 0, a[i]) \in Int /\ Mix(100, c[i], 0, c[i]) \in Int
        BY <2>1 DEF Mix
    <2>3. ap = [i \in 1 .. n |-> ap[i]] /\ cp = [i \in 1 .. n |-> cp[i]] BY <1>1
    <2> HIDE DEF ap, cp
    <2>4. \A i \in 1 .. n : ap[i] \in Int /\ cp[i] \in Int BY <2>2, <1>5
    <2> QED BY <2>3, <2>4
  <1>7. x \in [1 .. n -> Int]
    <2>1. \A i \in 1 .. n : a[i] \in Int /\ c[i] \in Int BY <1>4
    <2> HIDE DEF a, c
    <2>2. \A i \in 1 .. n : Mix(price, a[i], 1, c[i]) \in Int BY <2>1 DEF Mix
    <2> QED BY <2>2
  <1>8. PICK e \in Int, k \in Int, y \in Int : e = Formulas!Total(a) /\ k = Formulas!Total(c)
                 /\ y = Formulas!Total(x)
    <2> HIDE DEF a, c, x
    <2> QED BY <1>4, <1>7, TotalInt
  <1>9. Formulas!Total(ap) = 100 * e /\ Formulas!Total(cp) = 100 * k /\ y = e * price + k
    <2>1. 100 \in Int /\ 0 \in Int /\ 1 \in Int OBVIOUS
    <2>2. /\ Linear(n, 100, a, 0, a, ap) /\ Linear(n, 100, c, 0, c, cp)
          /\ Linear(n, price, a, 1, c, x)
      <3>1. \A i \in 1 .. n : x[i] = Mix(price, a[i], 1, c[i]) OBVIOUS
      <3> HIDE DEF a, c, ap, cp, x
      <3> QED BY <2>1, <1>4, <1>5, <1>6, <1>7, <3>1 DEF Linear
    <2> HIDE DEF a, c, ap, cp, x
    <2>3. /\ Formulas!Total(ap) = Mix(100, e, 0, e) /\ Formulas!Total(cp) = Mix(100, k, 0, k)
          /\ y = Mix(price, e, 1, k)
        BY <2>2, <1>8, TotalLinear
    <2> QED BY <2>3, <1>8 DEF Mix
  <1>10. PayoutIs(cost, f, e, k)
    <2>1. Formulas!AllOf(ebay) = [price |-> Formulas!Total(ap), const |-> Formulas!Total(cp)]
        BY DEF Formulas!AllOf
    <2>2. Formulas!Payout(cost, f)
              = [price |-> Formulas!Unit - Formulas!AllOf(ebay).price, const
                  |-> -Formulas!AllOf(ebay).const]
        BY DEF Formulas!Payout
    <2> HIDE DEF ap, cp, ebay
    <2> QED BY <2>1, <2>2, <1>9, <1>8 DEF PayoutIs, Formulas!Unit
  <1>11. Amounts(n, 100, x, Ebays(f))
    <2>1. \A i \in 1 .. n : i \notin Ebays(f) => x[i] = 0 BY <1>1 DEF Ebays, Mix
    <2>2. Ebays(f) \in SUBSET (1 .. n) BY <1>1 DEF Ebays
    <2> HIDE DEF x
    <2> QED BY <2>1, <2>2, <1>7 DEF Amounts
  <1>12. Near(RoundedSum(n, 100, x), Formulas!Total(x), 100, Cardinality(Ebays(f)))
    <2> HIDE DEF x
    <2>1. \A hundred : Amounts(n, hundred, x, Ebays(f)) =>
             Near(RoundedSum(n, hundred, x), Formulas!Total(x), hundred, Cardinality(Ebays(f)))
        BY RoundsNear
    <2> QED BY <1>11, <2>1
  <1>13. RoundedSum(n, 100, x) = ShownEbay(price, cost, f)
    <2>1. \A i \in 1 .. n : Formulas!Round(x[i], 100)
                            = IF Formulas!EbayFee(f[i]) THEN Shows(price, cost, f[i]) ELSE 0
      <3> SUFFICES ASSUME NEW i \in 1 .. n
                   PROVE  Formulas!Round(x[i], 100) = IF Formulas!EbayFee(f[i])
                              THEN Shows(price, cost, f[i]) ELSE 0
          OBVIOUS
      <3>1. CASE Formulas!EbayFee(f[i])
        <4>1. PICK p \in Int, q \in Int : p = OnPrice(f[i]) /\ q = OnCost(cost, f[i])
            BY <1>3
        <4>2. x[i] = p * price + q BY <4>1, <3>1 DEF Mix
        <4> HIDE DEF x
        <4>3. Shows(price, cost, f[i])
                  = Formulas!Round(OnPrice(f[i]) * price + OnCost(cost, f[i]), 100)
            BY <1>2, OwnShown
        <4> QED BY <4>1, <4>2, <4>3, <3>1
      <3>2. CASE ~Formulas!EbayFee(f[i])
        <4>1. x[i] = 0 BY <3>2 DEF Mix
        <4>2. Formulas!Round(0, 100) = 0 BY DEF Formulas!Round
        <4> HIDE DEF x
        <4> QED BY <4>1, <4>2, <3>2
      <3> QED BY <3>1, <3>2
    <2> HIDE DEF x
    <2>2. [i \in 1 .. n |-> Formulas!Round(x[i], 100)]
          = [i \in DOMAIN f |-> IF Formulas!EbayFee(f[i]) THEN Shows(price, cost, f[i]) ELSE 0]
        BY <1>1, <2>1
    <2> QED BY <2>2 DEF RoundedSum, ShownEbay
  <1> HIDE DEF a, c, x, ap, cp, ebay
  <1>14. Near(ShownEbay(price, cost, f), e * price + k, 100, Cardinality(Ebays(f)))
      BY <1>8, <1>9, <1>12, <1>13
  <1> QED BY <1>10, <1>14

\* A fee on two payouts that differ by j halves of a hundredth, each of them rounded.
PayoutRounds(g, h, j, s, r) ==
    /\ g \in Int /\ h \in Int /\ j \in Nat /\ s \in Int /\ r \in Int
    /\ 100 * g - h <= 50 * j /\ h - 100 * g <= 50 * j
    /\ s = Formulas!Round(g, 100) /\ r = Formulas!Round(h, 10000)

Within(s, r, j) == s - r <= 1 + j \div 200 /\ r - s <= 1 + j \div 200

\* They differ by a cent and by the share of the fee in the difference of the payouts.
LEMMA RoundsWithin ==
    ASSUME NEW g, NEW h, NEW j, NEW s, NEW r, PayoutRounds(g, h, j, s, r)
    PROVE  Within(s, r, j)
  <1> USE DEF PayoutRounds
  <1>1. 200 * s <= 2 * g + 100 /\ 2 * g - 100 <= 200 * s BY DEF Formulas!Round
  <1>2. 20000 * r <= 2 * h + 10000 /\ 2 * h - 10000 <= 20000 * r BY DEF Formulas!Round
  <1>3. 200 * (s - r) <= 200 + j /\ 200 * (r - s) <= 200 + j BY <1>1, <1>2
  <1>4. \A z \in Int : 200 * z <= 200 + j => z <= 1 + j \div 200 OBVIOUS
  <1> QED BY <1>3, <1>4 DEF Within

\* A fee on the payout as the server rounds it.
PayoutFeeAt(price, cost, f, c) ==
    Formulas!Round(Formulas!Times(Formulas!Payout(cost, f), c).price * price
        + Formulas!Times(Formulas!Payout(cost, f), c).const, Formulas!Unit)

\* A fee on the payout differs, between the two, within its slack.
LEMMA PayoutFeeNear ==
    ASSUME NEW price \in Nat, NEW cost \in Nat, NEW f \in Seq(Formulas!Parts), NEW c
               \in Formulas!Parts
    PROVE  /\ Formulas!ShownFee(price - ShownEbay(price, cost, f), c) \in Int
           /\ PayoutFeeAt(price, cost, f, c) \in Int
           /\ Within(Formulas!ShownFee(price - ShownEbay(price, cost, f), c),
                  PayoutFeeAt(price, cost, f, c),
                     Cardinality(Ebays(f)) * c.value)
  <1>1. PICK e, k : /\ PayoutIs(cost, f, e, k)
                    /\ Near(ShownEbay(price, cost, f), e * price + k, 100,
                           Cardinality(Ebays(f)))
      BY PayoutNear
  <1>2. e \in Int /\ k \in Int BY <1>1 DEF PayoutIs
  <1>3. PICK z \in Int : z = e * price + k
      BY <1>2
  <1>4. PICK b \in Int, m \in Nat :
            /\ b = ShownEbay(price, cost, f) /\ m = Cardinality(Ebays(f))
            /\ 200 * b <= 2 * z + 100 * m /\ 2 * z - 100 * m <= 200 * b
      BY <1>1, <1>3 DEF Near
  <1>5. PICK v \in Nat, q \in Int : v = c.value /\ q = Rate(c) /\ (q = v \/ q = -v)
      BY DEF Rate, Formulas!Parts
  <1>z. z \in Int /\ b \in Int /\ m \in Nat /\ v \in Nat /\ q \in Int BY <1>3, <1>4, <1>5
  <1>y. 200 * b <= 2 * z + 100 * m /\ 2 * z - 100 * m <= 200 * b BY <1>4
  <1>6. PICK w \in Int, y \in Int : w = price - b /\ y = 100 * price - z
    <2>1. price - b \in Int /\ 100 * price - z \in Int BY <1>z
    <2> QED BY <2>1
  <1>7. 100 * w - y <= 50 * m /\ y - 100 * w <= 50 * m BY <1>y, <1>z, <1>6
  <1>8. PICK g \in Int, h \in Int, j \in Nat : g = w * q /\ h = y * q /\ j = m * v
      BY <1>z, <1>6
  <1>9. 100 * g - h <= 50 * j /\ h - 100 * g <= 50 * j
    <2>1. PICK d \in Int : d = 100 * w - y /\ d <= 50 * m /\ -d <= 50 * m
        BY <1>7, <1>6
    <2>2. 100 * g - h = d * q BY <2>1, <1>8, <1>6, <1>5
    <2>3. (50 * m - d) * v >= 0 /\ (50 * m + d) * v >= 0
      <3>1. 50 * m - d \in Nat /\ 50 * m + d \in Nat BY <2>1, <1>z
      <3>2. \A s \in Nat : s * v >= 0 BY <1>5
      <3> QED BY <3>1, <3>2
    <2>4. PICK t \in Int : t = d * v /\ t <= 50 * j /\ -t <= 50 * j
        BY <2>3, <1>8, <2>1, <1>z
    <2>5. d * q = t \/ d * q = -t
      <3>1. (q = v \/ q = -v) /\ t = d * v BY <1>5, <2>4
      <3>2. CASE q = v BY <3>1, <3>2
      <3>3. CASE q = -v
        <4>1. d * (-v) = -(d * v) BY <1>z, <2>1
        <4> QED BY <4>1, <3>1, <3>3
      <3> QED BY <3>1, <3>2, <3>3
    <2> QED BY <2>2, <2>4, <2>5, <1>8
  <1>10. Formulas!ShownFee(w, c) = Formulas!Round(g, 100)
      BY <1>5, <1>8 DEF Formulas!ShownFee, Rate
  <1>11. PayoutFeeAt(price, cost, f, c) = Formulas!Round(h, 10000)
    <2>1. PICK u \in Int, n \in Int : u = (100 - e) * q /\ n = -(k * q)
        BY <1>2, <1>5
    <2>2. (10000 - 100 * e) * q = 100 * u /\ (-(100 * k)) * q = 100 * n
      <3>1. \A a \in Int : (10000 - 100 * a) * q = 100 * ((100 - a) * q) BY <1>z
      <3>2. \A a \in Int : (-(100 * a)) * q = 100 * (-(a * q)) BY <1>z
      <3> QED BY <3>1, <3>2, <2>1, <1>2
    <2>3. \A s \in Int : (100 * s) \div 100 = s OBVIOUS
    <2>4. Formulas!Times(Formulas!Payout(cost, f), c).price = u
              /\ Formulas!Times(Formulas!Payout(cost, f), c).const = n
      <3>1. /\ Formulas!Payout(cost, f).price = 10000 - 100 * e
            /\ Formulas!Payout(cost, f).const = -(100 * k)
          BY <1>1 DEF PayoutIs
      <3> QED BY <3>1, <2>1, <2>2, <2>3, <1>5 DEF Formulas!Times, Rate
    <2>5. u * price + n = h
      <3>1. u * price = ((100 - e) * q) * price BY <2>1
      <3>2. h = (100 * price - e * price - k) * q BY <1>8, <1>6, <1>3, <1>2
      <3> QED BY <3>1, <3>2, <2>1, <1>2, <1>5
    <2> QED BY <2>4, <2>5 DEF PayoutFeeAt, Formulas!Unit
  <1>12. Formulas!Round(g, 100) \in Int /\ Formulas!Round(h, 10000) \in Int
      BY DEF Formulas!Round
  <1>13. PayoutRounds(g, h, j, Formulas!Round(g, 100), Formulas!Round(h, 10000))
      BY <1>8, <1>9, <1>12 DEF PayoutRounds
  <1>14. Within(Formulas!Round(g, 100), Formulas!Round(h, 10000), j) BY <1>13, RoundsWithin
  <1> QED BY <1>4, <1>5, <1>6, <1>8, <1>10, <1>11, <1>12, <1>14

\* The fees of a formula as the web client shows them, as they are stored, and by how much each
\* may differ.
ShownFees(price, cost, f) ==
    [i \in DOMAIN f |-> IF Formulas!OwnFee(f[i]) THEN Shows(price, cost, f[i])
                        ELSE IF Formulas!PayoutFee(f[i])
                             THEN Formulas!ShownFee(price - ShownEbay(price, cost, f), f[i])
                                      ELSE 0]
StoredFees(price, cost, f) ==
    [i \in DOMAIN Formulas!Fees(cost, f) |->
        Formulas!Round(Formulas!Fees(cost, f)[i].price * price
            + Formulas!Fees(cost, f)[i].const, Formulas!Unit)]
Slacks(f) ==
    [i \in DOMAIN f |->
        IF Formulas!PayoutFee(f[i]) THEN 1 + (Cardinality(Ebays(f)) * f[i].value) \div 200
            ELSE 0]

Apart(s, r, j) == s \in Int /\ r \in Int /\ j \in Int /\ s <= r + j /\ r <= s + j

\* None differs by more.
LEMMA FeeApart ==
    ASSUME NEW price \in Nat, NEW cost \in Nat, NEW f \in Seq(Formulas!Parts), NEW i
               \in DOMAIN f
    PROVE  Apart(ShownFees(price, cost, f)[i], StoredFees(price, cost, f)[i], Slacks(f)[i])
  <1>1. i \in DOMAIN Formulas!Fees(cost, f) /\ f[i] \in Formulas!Parts BY DEF Formulas!Fees
  <1>2. StoredFees(price, cost, f)[i]
            = Formulas!Round(Formulas!Fees(cost, f)[i].price * price
                + Formulas!Fees(cost, f)[i].const, Formulas!Unit)
      BY <1>1 DEF StoredFees
  <1>3. CASE Formulas!OwnFee(f[i])
    <2>1. Formulas!Fees(cost, f)[i] = Formulas!Fee(cost, f[i]) BY <1>3 DEF Formulas!Fees
    <2>2. ShownFees(price, cost, f)[i] = Shows(price, cost, f[i]) BY <1>3 DEF ShownFees
    <2>3. Slacks(f)[i] = 0 BY <1>3 DEF Slacks, Formulas!OwnFee, Formulas!PayoutFee
    <2>4. PICK x \in Int : x = OnPrice(f[i]) * price + OnCost(cost, f[i])
      <3>1. PICK p \in Int, q \in Int : p = OnPrice(f[i]) /\ q = OnCost(cost, f[i])
          BY <1>1, FeeHundreds
      <3> QED BY <3>1
    <2>5. Shows(price, cost, f[i]) = Formulas!Round(x, 100) /\ Formulas!Round(x, 100) \in Int
      <3>1. Shows(price, cost, f[i]) = Formulas!Round(x, 100) BY <1>1, <2>4, OwnShown
      <3>2. Formulas!Round(x, 100) \in Int BY DEF Formulas!Round
      <3> QED BY <3>1, <3>2
    <2>6. StoredFees(price, cost, f)[i] = Shows(price, cost, f[i])
        BY <1>1, <1>2, <2>1, OwnShown
    <2> QED BY <2>2, <2>3, <2>5, <2>6 DEF Apart
  <1>4. CASE Formulas!PayoutFee(f[i])
    <2>1. Formulas!Fees(cost, f)[i] = Formulas!Times(Formulas!Payout(cost, f), f[i])
        BY <1>4 DEF Formulas!Fees, Formulas!OwnFee, Formulas!PayoutFee
    <2>2. ShownFees(price, cost, f)[i]
              = Formulas!ShownFee(price - ShownEbay(price, cost, f), f[i])
        BY <1>4 DEF ShownFees, Formulas!OwnFee, Formulas!PayoutFee
    <2>3. StoredFees(price, cost, f)[i] = PayoutFeeAt(price, cost, f, f[i])
        BY <1>2, <2>1 DEF PayoutFeeAt
    <2>4. PICK v \in Nat, m \in Nat : v = f[i].value /\ m = Cardinality(Ebays(f))
      <3>1. Cardinality(Ebays(f)) \in Nat BY PayoutNear DEF Near
      <3> QED BY <1>1, <3>1 DEF Formulas!Parts
    <2>5. Slacks(f)[i] = 1 + (m * v) \div 200 BY <1>4, <2>4 DEF Slacks
    <2>6. PICK j \in Nat : j = m * v
        BY <2>4
    <2>7. /\ ShownFees(price, cost, f)[i] \in Int /\ StoredFees(price, cost, f)[i] \in Int
          /\ Within(ShownFees(price, cost, f)[i], StoredFees(price, cost, f)[i], j)
        BY <1>1, <2>2, <2>3, <2>4, <2>6, PayoutFeeNear
    <2>8. PICK s \in Int, r \in Int :
              s = ShownFees(price, cost, f)[i] /\ r = StoredFees(price, cost, f)[i]
        BY <2>7
    <2>9. Within(s, r, j) BY <2>7, <2>8
    <2>10. Apart(s, r, 1 + j \div 200) BY <2>9 DEF Within, Apart
    <2> QED BY <2>5, <2>6, <2>8, <2>10
  <1>5. CASE ~Formulas!OwnFee(f[i]) /\ ~Formulas!PayoutFee(f[i])
    <2>1. Formulas!Fees(cost, f)[i] = Formulas!NoFee BY <1>5 DEF Formulas!Fees
    <2>2. ShownFees(price, cost, f)[i] = 0 /\ Slacks(f)[i] = 0 BY <1>5 DEF ShownFees, Slacks
    <2>3. Formulas!Round(0 * price + 0, Formulas!Unit) = 0 BY DEF Formulas!Round, Formulas!Unit
    <2>4. StoredFees(price, cost, f)[i] = 0 BY <1>2, <2>1, <2>3 DEF Formulas!NoFee
    <2> QED BY <2>2, <2>4 DEF Apart
  <1> QED BY <1>3, <1>4, <1>5

\* Nor do their totals.
LEMMA FeesApart ==
    ASSUME NEW price \in Nat, NEW cost \in Nat, NEW f \in Seq(Formulas!Parts)
    PROVE  Apart(Formulas!Total(ShownFees(price, cost, f)),
               Formulas!Total(StoredFees(price, cost, f)),
                 Formulas!Total(Slacks(f)))
  <1>1. PICK n \in Nat : n = Len(f) /\ DOMAIN f = 1 .. n
      OBVIOUS
  <1>2. \A i \in 1 .. n :
            Apart(ShownFees(price, cost, f)[i], StoredFees(price, cost, f)[i], Slacks(f)[i])
      BY <1>1, FeeApart
  <1>3. /\ ShownFees(price, cost, f) \in [1 .. n -> Int]
        /\ StoredFees(price, cost, f) \in [1 .. n -> Int] /\ Slacks(f) \in [1 .. n -> Int]
    <2>1. /\ ShownFees(price, cost, f) = [i \in 1 .. n |-> ShownFees(price, cost, f)[i]]
          /\ StoredFees(price, cost, f) = [i \in 1 .. n |-> StoredFees(price, cost, f)[i]]
          /\ Slacks(f) = [i \in 1 .. n |-> Slacks(f)[i]]
        BY <1>1 DEF ShownFees, StoredFees, Slacks, Formulas!Fees
    <2>2. \A i \in 1 .. n : /\ ShownFees(price, cost, f)[i] \in Int
                           /\ StoredFees(price, cost, f)[i] \in Int /\ Slacks(f)[i] \in Int
        BY <1>2 DEF Apart
    <2> QED BY <2>1, <2>2
  <1>4. PICK s \in [1 .. n -> Int], r \in [1 .. n -> Int], j \in [1 .. n -> Int] :
            s = ShownFees(price, cost, f) /\ r = StoredFees(price, cost, f) /\ j = Slacks(f)
      BY <1>3
  <1> DEFINE high == [i \in 1 .. n |-> Mix(1, r[i], 1, j[i])]
             over == [i \in 1 .. n |-> Mix(1, s[i], 1, j[i])]
  <1>5. \A i \in 1 .. n : /\ s[i] <= high[i] /\ r[i] <= over[i]
                         /\ high[i] \in Int /\ over[i] \in Int
    <2>1. \A i \in 1 .. n : Apart(s[i], r[i], j[i]) BY <1>2, <1>4
    <2>2. ASSUME NEW i \in 1 .. n
          PROVE  s[i] <= high[i] /\ r[i] <= over[i] /\ high[i] \in Int /\ over[i] \in Int
      <3>1. PICK S \in Int, R \in Int, J \in Int : S = s[i] /\ R = r[i] /\ J = j[i]
          OBVIOUS
      <3>2. S <= R + J /\ R <= S + J BY <2>1, <3>1 DEF Apart
      <3> QED BY <3>1, <3>2 DEF Mix
    <2> QED BY <2>2
  <1>6. high \in [1 .. n -> Int] /\ over \in [1 .. n -> Int] BY <1>5
  <1>7. Linear(n, 1, r, 1, j, high) /\ Linear(n, 1, s, 1, j, over) BY <1>6 DEF Linear
  <1> HIDE DEF high, over
  <1>8. Formulas!Total(s) <= Formulas!Total(high) /\ Formulas!Total(r) <= Formulas!Total(over)
      BY <1>5, <1>6, TotalLeq
  <1>9. PICK S \in Int, R \in Int, J \in Int : S = Formulas!Total(s) /\ R = Formulas!Total(r)
                 /\ J = Formulas!Total(j)
      BY TotalInt
  <1>10. Formulas!Total(high) = Mix(1, R, 1, J) /\ Formulas!Total(over) = Mix(1, S, 1, J)
    <2>1. Formulas!Total(high) = Mix(1, Formulas!Total(r), 1, Formulas!Total(j))
              /\ Formulas!Total(over) = Mix(1, Formulas!Total(s), 1, Formulas!Total(j))
        BY <1>7, TotalLinear
    <2> QED BY <2>1, <1>9
  <1>11. S <= R + J /\ R <= S + J BY <1>8, <1>9, <1>10 DEF Mix
  <1> QED BY <1>4, <1>9, <1>11 DEF Apart

\* The profit shown is the stored one, next to the slack of the formula.
LEMMA ShownNear ==
    ASSUME NEW price \in Nat, NEW cost \in Nat, NEW f \in Seq(Formulas!Parts), Usable(f)
    PROVE  \E cents \in -Formulas!Slack(f) .. Formulas!Slack(f) :
              Formulas!NetProfit(price, cost, f) = Formulas!ShownProfit(price, cost, f) + cents
  <1>1. PICK s \in Int, r \in Int, j \in Int :
            /\ s = Formulas!Total(ShownFees(price, cost, f))
                   /\ r = Formulas!Total(StoredFees(price, cost, f))
            /\ j = Formulas!Total(Slacks(f)) /\ s <= r + j /\ r <= s + j
    <2>1. Apart(Formulas!Total(ShownFees(price, cost, f)),
              Formulas!Total(StoredFees(price, cost, f)),
                Formulas!Total(Slacks(f)))
        BY FeesApart
    <2> HIDE DEF ShownFees, StoredFees, Slacks
    <2> QED BY <2>1 DEF Apart
  <1>2. PICK T \in Int : T = Formulas!Sums(cost, f).total
    <2>1. PICK p : SumRuns(p, cost, f) /\ Formulas!Sums(cost, f) = p[Len(f)]
        BY SumsRun
    <2>2. Len(f) \in 0 .. Len(f) OBVIOUS
    <2> QED BY <2>1, <2>2 DEF SumRuns, SumType
  <1>3. Formulas!NetProfit(price, cost, f) = price - T - r
      BY <1>1, <1>2 DEF Formulas!NetProfit, Formulas!FeesAt, StoredFees
  <1>4. Formulas!ShownProfit(price, cost, f) = price - T - s
      BY <1>1, <1>2 DEF Formulas!ShownProfit, ShownFees, ShownEbay, Shows
  <1>5. Formulas!Slack(f) = j BY <1>1, SameCounts DEF Formulas!Slack, Slacks, Ebays
  <1>6. s - r \in -j .. j /\ price - T - r = (price - T - s) + (s - r)
    <2>1. s \in Int /\ r \in Int /\ j \in Int /\ s <= r + j /\ r <= s + j BY <1>1
    <2>2. s - r \in Int /\ -j <= s - r /\ s - r <= j BY <2>1
    <2>3. price - T - r = (price - T - s) + (s - r) BY <2>1
    <2> QED BY <2>1, <2>2, <2>3
  <1> QED BY <1>3, <1>4, <1>5, <1>6

\* A row that has been queued belongs to a job whose formula priced the cheapest row, one that
\* failed has a cost that breaks the formula, and one that was priced carries the margin of its
\* price, and the formula's price unless a user typed it.
RowInv(i, cost, f, tried, created) ==
    /\ i = [status |-> i.status, price |-> i.price, margin |-> i.margin, typed |-> i.typed]
    /\ i.status \in {"none", "QUEUED", "PRICED", "FAILED"}
    /\ i.price \in Nat /\ i.typed \in BOOLEAN
    /\ i.status # "none" => created /\ ~Formulas!Refused(tried, f)
    /\ i.status = "FAILED" => Formulas!Refused(cost, f)
    /\ i.status = "PRICED" =>
        /\ ~Formulas!Refused(cost, f) /\ i.margin = Formulas!Margin(i.price, cost, f)
        /\ ~i.typed => i.price = Formulas!Price(cost, f)

QuoteInv ==
    /\ sheet \in [submission : Submissions, costs : Costs, status :
           {"sent", "refused", "created"}]
    /\ item = [r \in PricedRow |-> item[r]]
    /\ \A r \in PricedRow :
        RowInv(item[r], sheet.costs[r], Formulas!Formula, Formulas!TriedCost, sheet.status
            = "created")

\* What the formula and the costs of a sheet are.
LEMMA QuoteTyped ==
    ASSUME Formulas!SheetFormulaAssumption, QuoteInv
    PROVE  /\ sheet.costs \in [PricedRow -> Nat] /\ PricedRow # {} /\ Edits \subseteq Nat
           /\ sheet.submission.components \in Seq(Formulas!Parts)
                  /\ Formulas!Formula \in Seq(Formulas!Parts)
           /\ Formulas!TriedCost \in Nat /\ \A r \in PricedRow :
                  Formulas!TriedCost <= sheet.costs[r]
  <1>1. /\ sheet.costs \in [PricedRow -> Nat] /\ PricedRow # {} /\ Edits \subseteq Nat
        /\ sheet.submission.components \in Seq(Formulas!Parts)
      BY DEF Formulas!SheetFormulaAssumption, QuoteInv
  <1>2. Formulas!Formula \in Seq(Formulas!Parts) BY <1>1, NormalType DEF Formulas!Formula
  <1>3. Formulas!TriedCost \in Nat /\ \A r \in PricedRow : Formulas!TriedCost <= sheet.costs[r]
      BY <1>1, Cheapest DEF Formulas!TriedCost
  <1> QED BY <1>1, <1>2, <1>3

\* No row has been queued at first.
LEMMA QuoteAtFirst == ASSUME Formulas!SheetFormulaAssumption, Formulas!Init PROVE QuoteInv
  <1>1. PICK s \in Submissions, costs \in Costs :
            sheet = [submission |-> s, costs |-> costs, status |-> "sent"]
      BY DEF Formulas!Init
  <1>2. item = [r \in PricedRow |-> Formulas!Blank] BY DEF Formulas!Init
  <1>3. sheet \in [submission : Submissions, costs : Costs, status :
            {"sent", "refused", "created"}]
      BY <1>1
  <1>4. \A cost, f, tried, created : RowInv(Formulas!Blank, cost, f, tried, created)
      BY DEF RowInv, Formulas!Blank
  <1>5. item = [r \in PricedRow |-> item[r]] /\ \A r \in PricedRow : item[r] = Formulas!Blank
      BY <1>2
  <1> QED BY <1>3, <1>4, <1>5 DEF QuoteInv

\* A step that leaves the sheet alone changes one row, to one that is as it should be.
LEMMA RowStep ==
    ASSUME QuoteInv, UNCHANGED sheet, NEW r \in PricedRow, NEW i,
           item' = [item EXCEPT ![r] = i],
           RowInv(i, sheet.costs[r], Formulas!Formula, Formulas!TriedCost, sheet.status
               = "created")
    PROVE  QuoteInv'
  <1>1. Formulas!Formula' = Formulas!Formula /\ Formulas!TriedCost' = Formulas!TriedCost
      BY DEF Formulas!Formula, Formulas!TriedCost
  <1>2. item' = [q \in PricedRow |-> IF q = r THEN i ELSE item[q]] BY DEF QuoteInv
  <1>3. item' = [q \in PricedRow |-> item'[q]] BY <1>2
  <1>4. ASSUME NEW q \in PricedRow
        PROVE  RowInv(item'[q], sheet.costs[q], Formulas!Formula, Formulas!TriedCost,
                   sheet.status = "created")
    <2>1. RowInv(item[q], sheet.costs[q], Formulas!Formula, Formulas!TriedCost, sheet.status
              = "created")
        BY DEF QuoteInv
    <2>2. item'[q] = IF q = r THEN i ELSE item[q] BY <1>2
    <2> QED BY <2>1, <2>2
  <1>5. \A q \in PricedRow :
            RowInv(item'[q], sheet'.costs[q], Formulas!Formula', Formulas!TriedCost',
                sheet'.status = "created")
      BY <1>1, <1>4
  <1> QED BY <1>3, <1>5 DEF QuoteInv, RowInv

\* A row that is priced is as it should be.
LEMMA PricedKeepsQuote ==
    ASSUME QuoteInv, UNCHANGED sheet, NEW r \in PricedRow, NEW st, NEW price \in Nat,
           NEW typed \in BOOLEAN, Formulas!Priced(r, st, price, typed),
           st \in {"QUEUED", "PRICED", "FAILED"}, item[r].status # "none",
           ~Formulas!Refused(sheet.costs[r], Formulas!Formula), st # "FAILED",
           ~typed => price = Formulas!Price(sheet.costs[r], Formulas!Formula)
    PROVE  QuoteInv'
  <1> DEFINE i == [status |-> st, price |-> price, typed |-> typed,
                   margin |-> Formulas!Margin(price, sheet.costs[r], Formulas!Formula)]
  <1>1. sheet.status = "created" /\ ~Formulas!Refused(Formulas!TriedCost, Formulas!Formula)
      BY DEF QuoteInv, RowInv
  <1>2. /\ i.status = st /\ i.price = price /\ i.typed = typed
        /\ i.margin = Formulas!Margin(price, sheet.costs[r], Formulas!Formula)
        /\ i = [status |-> i.status, price |-> i.price, margin |-> i.margin, typed |-> i.typed]
      OBVIOUS
  <1>3. item' = [item EXCEPT ![r] = i] BY DEF Formulas!Priced
  <1> HIDE DEF i
  <1>4. RowInv(i, sheet.costs[r], Formulas!Formula, Formulas!TriedCost, sheet.status
            = "created")
      BY <1>1, <1>2 DEF RowInv
  <1> QED BY <1>3, <1>4, RowStep

\* A job is created with every row in its queue, or refused.
LEMMA CreateKeepsQuote ==
    ASSUME QuoteInv, Formulas!CreateJob
    PROVE  QuoteInv'
  <1>1. PICK st \in {"refused", "created"} : sheet' = [sheet EXCEPT !.status = st]
      BY DEF Formulas!CreateJob
  <1>2. /\ sheet' \in [submission : Submissions, costs : Costs,
                       status : {"sent", "refused", "created"}]
        /\ sheet'.submission = sheet.submission /\ sheet'.costs = sheet.costs
        /\ sheet'.status = st
      BY <1>1 DEF QuoteInv
  <1>3. Formulas!Formula' = Formulas!Formula /\ Formulas!TriedCost' = Formulas!TriedCost
      BY <1>2 DEF Formulas!Formula, Formulas!TriedCost
  <1>4. \A r \in PricedRow : item[r].status = "none" BY DEF QuoteInv, RowInv, Formulas!CreateJob
  <1>5. CASE Formulas!Refused(Formulas!TriedCost, Formulas!Formula)
    <2>1. item' = item BY <1>5 DEF Formulas!CreateJob
    <2>2. \A r \in PricedRow :
              RowInv(item[r], sheet.costs[r], Formulas!Formula, Formulas!TriedCost, st
                  = "created")
        BY <1>4 DEF QuoteInv, RowInv
    <2>3. item' = [r \in PricedRow |-> item'[r]] BY <2>1 DEF QuoteInv
    <2>4. \A r \in PricedRow :
             RowInv(item'[r], sheet'.costs[r], Formulas!Formula', Formulas!TriedCost',
                 sheet'.status = "created")
        BY <1>2, <1>3, <2>1, <2>2
    <2> QED BY <1>2, <2>3, <2>4 DEF QuoteInv, RowInv
  <1>6. CASE ~Formulas!Refused(Formulas!TriedCost, Formulas!Formula)
    <2>1. /\ item' = [r \in PricedRow |-> [Formulas!Blank EXCEPT !.status = "QUEUED"]]
          /\ st = "created"
      <3>1. sheet' = [sheet EXCEPT !.status = "created"] BY <1>6 DEF Formulas!CreateJob
      <3>2. sheet'.status = "created" BY <3>1 DEF QuoteInv
      <3> QED BY <3>2, <1>2, <1>6 DEF Formulas!CreateJob
    <2>2. PICK i : i = [Formulas!Blank EXCEPT !.status = "QUEUED"]
        OBVIOUS
    <2>3. \A cost : RowInv(i, cost, Formulas!Formula, Formulas!TriedCost, TRUE)
        BY <1>6, <2>2 DEF RowInv, Formulas!Blank
    <2>4. item' = [r \in PricedRow |-> item'[r]] /\ \A r \in PricedRow : item'[r] = i
        BY <2>1, <2>2
    <2>5. \A r \in PricedRow :
             RowInv(item'[r], sheet'.costs[r], Formulas!Formula', Formulas!TriedCost',
                 sheet'.status = "created")
        BY <1>2, <1>3, <2>1, <2>3, <2>4
    <2> QED BY <1>2, <2>4, <2>5 DEF QuoteInv, RowInv
  <1> QED BY <1>5, <1>6

\* Every operation keeps the invariant.
LEMMA QuoteStep ==
    ASSUME Formulas!SheetFormulaAssumption, QuoteInv, [Formulas!Next]_(Formulas!vars)
    PROVE  QuoteInv'
  <1>1. CASE Formulas!CreateJob BY <1>1, CreateKeepsQuote
  <1>2. ASSUME NEW r \in PricedRow, Formulas!ProcessItem(r) PROVE QuoteInv'
    <2>1. sheet.costs[r] \in Nat /\ Formulas!Formula \in Seq(Formulas!Parts) BY QuoteTyped
    <2>2. item[r].status = "QUEUED" /\ UNCHANGED sheet BY <1>2 DEF Formulas!ProcessItem
    <2>3. CASE Formulas!Refused(sheet.costs[r], Formulas!Formula)
      <3>1. item' = [item EXCEPT ![r].status = "FAILED"] BY <1>2, <2>3 DEF Formulas!ProcessItem
      <3>2. PICK i : i = [item[r] EXCEPT !.status = "FAILED"]
          OBVIOUS
      <3>3. RowInv(item[r], sheet.costs[r], Formulas!Formula, Formulas!TriedCost, sheet.status
                = "created")
          BY DEF QuoteInv
      <3>4. RowInv(i, sheet.costs[r], Formulas!Formula, Formulas!TriedCost, sheet.status
                = "created")
        <4>1. PICK p, m, t : item[r]
                       = [status |-> "QUEUED", price |-> p, margin |-> m, typed |-> t]
            BY <3>3, <2>2 DEF RowInv
        <4>2. i = [status |-> "FAILED", price |-> p, margin |-> m, typed |-> t] BY <4>1, <3>2
        <4> QED BY <4>1, <4>2, <3>3, <2>3 DEF RowInv
      <3>5. item' = [item EXCEPT ![r] = i] BY <3>1, <3>2
      <3> QED BY <2>2, <3>4, <3>5, RowStep
    <2>4. CASE ~Formulas!Refused(sheet.costs[r], Formulas!Formula)
      <3>1. Formulas!Price(sheet.costs[r], Formulas!Formula) \in Nat BY <2>1, <2>4, PriceEarns
      <3>2. Formulas!Priced(r, "PRICED", Formulas!Price(sheet.costs[r], Formulas!Formula),
                FALSE)
          BY <1>2, <2>4 DEF Formulas!ProcessItem
      <3> QED BY <2>2, <2>4, <3>1, <3>2, PricedKeepsQuote
    <2> QED BY <2>3, <2>4
  <1>3. ASSUME NEW r \in PricedRow, Formulas!ResetPrice(r) PROVE QuoteInv'
    <2>1. sheet.costs[r] \in Nat /\ Formulas!Formula \in Seq(Formulas!Parts) BY QuoteTyped
    <2>2. /\ item[r].status # "none" /\ ~Formulas!Refused(sheet.costs[r], Formulas!Formula)
                 /\ UNCHANGED sheet
          /\ Formulas!Priced(r, item[r].status,
                 Formulas!Price(sheet.costs[r], Formulas!Formula), FALSE)
        BY <1>3 DEF Formulas!ResetPrice
    <2>3. Formulas!Price(sheet.costs[r], Formulas!Formula) \in Nat BY <2>1, <2>2, PriceEarns
    <2>4. item[r].status \in {"QUEUED", "PRICED", "FAILED"} /\ item[r].status # "FAILED"
        BY <2>2 DEF QuoteInv, RowInv
    <2> QED BY <2>2, <2>3, <2>4, PricedKeepsQuote
  <1>4. ASSUME NEW r \in PricedRow, NEW price \in Edits,
                   Formulas!TypePrice(r, price) PROVE QuoteInv'
    <2>1. price \in Nat BY QuoteTyped
    <2>2. /\ item[r].status # "none" /\ ~Formulas!Refused(sheet.costs[r], Formulas!Formula)
                 /\ UNCHANGED sheet
          /\ Formulas!Priced(r, item[r].status, price, TRUE)
        BY <1>4 DEF Formulas!TypePrice
    <2>4. item[r].status \in {"QUEUED", "PRICED", "FAILED"} /\ item[r].status # "FAILED"
        BY <2>2 DEF QuoteInv, RowInv
    <2> QED BY <2>1, <2>2, <2>4, PricedKeepsQuote
  <1>5. CASE UNCHANGED Formulas!vars
    <2>1. sheet' = sheet /\ item' = item BY <1>5 DEF Formulas!vars
    <2>2. Formulas!Formula' = Formulas!Formula /\ Formulas!TriedCost' = Formulas!TriedCost
        BY <2>1 DEF Formulas!Formula, Formulas!TriedCost
    <2>3. item' = [r \in PricedRow |-> item'[r]] BY <2>1 DEF QuoteInv
    <2>4. \A r \in PricedRow :
             RowInv(item'[r], sheet'.costs[r], Formulas!Formula', Formulas!TriedCost',
                 sheet'.status = "created")
        BY <2>1, <2>2 DEF QuoteInv
    <2> QED BY <2>1, <2>3, <2>4 DEF QuoteInv, RowInv
  <1> QED BY <1>1, <1>2, <1>3, <1>4, <1>5 DEF Formulas!Next

\* From it follow the types and both properties.
LEMMA QuoteIsTyped == ASSUME QuoteInv PROVE Formulas!TypeOK
  BY DEF QuoteInv, RowInv, Formulas!TypeOK

LEMMA QuoteEarns ==
    ASSUME Formulas!SheetFormulaAssumption, QuoteInv
    PROVE  Formulas!RowsEarnTheirTarget
  <1> SUFFICES ASSUME NEW r \in PricedRow
               PROVE  LET cost == sheet.costs[r]
                          profit == Formulas!NetProfit(item[r].price, cost, Formulas!Formula)
                          target == Formulas!TargetProfit(item[r].price, cost, Formulas!Formula)
                      IN /\ item[r].status = "FAILED" => ~Formulas!Sane(Formulas!Formula)
                         /\ item[r].status = "PRICED" /\ ~item[r].typed =>
                              /\ Formulas!Close(target, profit, cost, Formulas!Formula)
                              /\ item[r].price > 0
                                     => Formulas!Close(profit, target, cost, Formulas!Formula)
      BY DEF Formulas!RowsEarnTheirTarget
  <1>1. PICK cost \in Nat : cost = sheet.costs[r]
      BY QuoteTyped
  <1>2. PICK tried \in Nat : tried = Formulas!TriedCost /\ tried <= cost
      BY <1>1, QuoteTyped
  <1>3. Formulas!Formula \in Seq(Formulas!Parts) BY QuoteTyped
  <1>4. RowInv(item[r], cost, Formulas!Formula, tried, sheet.status = "created")
      BY <1>1, <1>2 DEF QuoteInv
  <1>5. item[r].status = "FAILED" => ~Formulas!Sane(Formulas!Formula)
      BY <1>2, <1>3, <1>4, RefusedGrows DEF RowInv
  <1>6. ASSUME item[r].status = "PRICED", ~item[r].typed
        PROVE  LET profit == Formulas!NetProfit(item[r].price, cost, Formulas!Formula)
                   target == Formulas!TargetProfit(item[r].price, cost, Formulas!Formula)
               IN  /\ Formulas!Close(target, profit, cost, Formulas!Formula)
                   /\ item[r].price > 0
                          => Formulas!Close(profit, target, cost, Formulas!Formula)
    <2>1. ~Formulas!Refused(cost, Formulas!Formula)
              /\ item[r].price = Formulas!Price(cost, Formulas!Formula)
        BY <1>4, <1>6 DEF RowInv
    <2> QED BY <1>3, <2>1, PriceEarns
  <1> QED BY <1>1, <1>5, <1>6

LEMMA QuoteIsShown ==
    ASSUME Formulas!SheetFormulaAssumption, QuoteInv
    PROVE  Formulas!ShownIsStored
  <1>1. Formulas!ShownFormula(sheet.submission) = Formulas!Formula
      BY QuoteTyped, ReadsAlike DEF Formulas!Formula
  <1>2. ASSUME NEW r \in PricedRow, item[r].status = "PRICED"
        PROVE  LET shown == Formulas!ShownProfit(item[r].price, sheet.costs[r],
                   Formulas!Formula)
               IN \E cents
                   \in -Formulas!Slack(Formulas!Formula) .. Formulas!Slack(Formulas!Formula) :
                     item[r].margin = Formulas!InPercent(shown + cents, item[r].price)
    <2>1. PICK cost \in Nat : cost = sheet.costs[r]
        BY QuoteTyped
    <2>2. PICK price \in Nat : price = item[r].price
        BY DEF QuoteInv, RowInv
    <2>3. ~Formulas!Refused(cost, Formulas!Formula)
              /\ item[r].margin = Formulas!Margin(price, cost, Formulas!Formula)
        BY <1>2, <2>1, <2>2 DEF QuoteInv, RowInv
    <2>4. Formulas!Formula \in Seq(Formulas!Parts) /\ Usable(Formulas!Formula)
        BY <2>3, QuoteTyped, UsableWhenAccepted
    <2>5. PICK cents \in -Formulas!Slack(Formulas!Formula) .. Formulas!Slack(Formulas!Formula) :
             Formulas!NetProfit(price, cost, Formulas!Formula)
                 = Formulas!ShownProfit(price, cost, Formulas!Formula) + cents
        BY <2>4, ShownNear
    <2> QED BY <2>1, <2>2, <2>3, <2>5 DEF Formulas!Margin
  <1> QED BY <1>1, <1>2 DEF Formulas!ShownIsStored

\* For every formula, every set of rows and all their costs: a formula that prices the cheapest
\* row prices every row, unless it takes off more than it has summed up, and the price it sets
\* brings the profit it aims at, up to rounding.
THEOREM TargetsAreEarned == OfficeSpec => []RowsEarnTheirTarget
  <1> DEFINE Inv == scenario = "quote" => QuoteInv
  <1>1. Formulas!SheetFormulaAssumption BY BackOfficeAssumption DEF BackOfficeAssumption
  <1>2. OfficeInit => Inv
    BY <1>1, QuoteAtFirst DEF OfficeInit
  <1>3. Inv /\ [OfficeNext]_officeVars => Inv'
    BY <1>1, ScenarioStays, QuoteFollows, QuoteStep
  <1>4. Inv => RowsEarnTheirTarget
    BY <1>1, QuoteEarns DEF RowsEarnTheirTarget
  <1> QED BY <1>2, <1>3, <1>4, PTL DEF OfficeSpec

\* For every formula and every cost and price: the margin that the web client shows is the one
\* the server stored, up to the slack of the formula's fees on eBay's payout.
THEOREM MarginsAreShown == OfficeSpec => []ShownIsStored
  <1> DEFINE Inv == scenario = "quote" => QuoteInv
  <1>1. Formulas!SheetFormulaAssumption BY BackOfficeAssumption DEF BackOfficeAssumption
  <1>2. OfficeInit => Inv
    BY <1>1, QuoteAtFirst DEF OfficeInit
  <1>3. Inv /\ [OfficeNext]_officeVars => Inv'
    BY <1>1, ScenarioStays, QuoteFollows, QuoteStep
  <1>4. Inv => ShownIsStored
    BY <1>1, QuoteIsShown DEF ShownIsStored
  <1> QED BY <1>2, <1>3, <1>4, PTL DEF OfficeSpec

-----------------------------------------------------------------------------
(* WebSession: TokensLastTheirSession is not inductive: the token of a request  *)
(* that is on its way might be refused later.  SessionInv says what a request   *)
(* carries and what the browser holds as long as nothing overlapped: the last   *)
(* token, which counts, or none; and that of the tokens issued since the last   *)
(* login no other counts.                                                     *)

Rest(t) == renewal[t].step = "idle" /\ leave[t].step = "idle"

OneSession == tokens \subseteq earlier \cup {minted}

CookieCounts ==
    \/ cookie = 0 /\ minted \notin tokens
    \/ cookie = minted /\ minted \in tokens

(* A tab with the refresh r and the logout l, while the others rest.           *)
TabInOrder(r, l) ==
    /\ OneSession
    /\ r.step = "idle" \/ l.step = "idle"
    /\ r.step = "sent" => r.token = cookie
    /\ r.step = "answered" => r.token = minted /\ minted \in tokens /\ ~out
    /\ r.step = "refused" => r.token = 0
    /\ l.step = "sent" => l.token = cookie
    /\ l.step = "answered" => minted \notin tokens
    /\ r.step # "answered" /\ l.step # "answered" => CookieCounts
    /\ out => cookie = 0 /\ minted \notin tokens

Refreshing == [step : {"idle", "sent", "answered", "refused"}, token : Nat]
Leaving == [step : {"idle", "sent", "answered"}, token : Nat]

SessionTypes ==
    /\ renewal \in [Actor -> Refreshing] /\ leave \in [Actor -> Leaving]
    /\ minted \in Nat /\ cookie \in Nat /\ tokens \subseteq 1 .. minted
    /\ earlier \subseteq 1 .. minted
    /\ use.tabs \subseteq Actor /\ use.calls \subseteq Data

OneBusyTab ==
    \A t \in Actor : ~Rest(t) => \A u \in Actor \ {t} : Rest(u)

SessionInv ==
    /\ SessionTypes
    /\ ~overlapped => OneBusyTab /\ \A t \in Actor :
         (\A u \in Actor \ {t} : Rest(u)) => TabInOrder(renewal[t], leave[t])
    /\ ~overlapped => OneSession /\ (out => cookie = 0 /\ minted \notin tokens)

LEMMA SessionAtFirst == Browser!Init => SessionInv
  <1> SUFFICES ASSUME Browser!Init PROVE SessionInv OBVIOUS
  <1>1. /\ \A t \in Actor : renewal[t] = Browser!Quiet /\ leave[t] = Browser!Quiet
        /\ minted = 0 /\ cookie = 0 /\ tokens = {} /\ earlier = {}
    BY DEF Browser!Init
  <1>2. SessionTypes
    <2>1. use \in [tabs : SUBSET Actor, calls : SUBSET Data]
      BY BackOfficeAssumption DEF BackOfficeAssumption, Browser!WebSessionAssumption, Browser!Init
    <2>2. renewal \in [Actor -> Refreshing] /\ leave \in [Actor -> Leaving]
      BY DEF Browser!Init, Browser!Quiet, Refreshing, Leaving
    <2> QED BY <1>1, <2>1, <2>2 DEF SessionTypes
  <1>3. CookieCounts /\ OneSession /\ (out => cookie = 0 /\ minted \notin tokens)
    BY <1>1 DEF CookieCounts, OneSession
  <1>4. Browser!Quiet.step = "idle" BY DEF Browser!Quiet
  <1>5. \A t \in Actor : renewal[t].step = "idle" /\ leave[t].step = "idle"
    BY <1>1, <1>4
  <1>6. \A t \in Actor : Rest(t) /\ TabInOrder(renewal[t], leave[t])
    BY <1>3, <1>5 DEF Rest, TabInOrder
  <1> QED BY <1>1, <1>2, <1>3, <1>6 DEF SessionInv, OneBusyTab

\* A step of one tab: it suffices that the others rest and that this one stays in order, as
\* long as nothing overlapped.
LEMMA TabStep ==
  ASSUME SessionInv, NEW t \in Actor, NEW r \in Refreshing, NEW l \in Leaving,
         renewal' = [renewal EXCEPT ![t] = r], leave' = [leave EXCEPT ![t] = l], use' = use,
         minted' \in Nat, cookie' \in Nat, tokens' \subseteq 1 .. minted',
         earlier' \subseteq 1 .. minted',
         ~overlapped' => TabInOrder(r, l)' /\ \A u \in Actor \ {t} : Rest(u)
  PROVE  SessionInv'
  <1>1. /\ renewal \in [Actor -> Refreshing] /\ leave \in [Actor -> Leaving]
        /\ renewal'[t] = r /\ leave'[t] = l
        /\ \A u \in Actor \ {t} : renewal'[u] = renewal[u] /\ leave'[u] = leave[u]
    BY DEF SessionInv, SessionTypes
  <1>2. SessionTypes'
    <2>1. renewal' \in [Actor -> Refreshing] BY <1>1
    <2>2. leave' \in [Actor -> Leaving] BY <1>1
    <2> QED BY <2>1, <2>2 DEF SessionInv, SessionTypes
  <1>3. ASSUME ~overlapped' PROVE \A u \in Actor \ {t} : Rest(u)' BY <1>1, <1>3 DEF Rest
  <1>4. ASSUME ~overlapped', NEW u \in Actor, \A v \in Actor \ {u} : Rest(v)'
        PROVE  TabInOrder(renewal[u], leave[u])'
    <2>1. CASE u = t BY <1>1, <1>4, <2>1
    <2>2. CASE u # t
      <3>1. /\ renewal'[u].step = "idle" /\ leave'[u].step = "idle"
            /\ r.step = "idle" /\ l.step = "idle"
        BY <1>1, <1>3, <1>4, <2>2 DEF Rest
      <3>2. CookieCounts' /\ OneSession' /\ (out' => cookie' = 0 /\ minted' \notin tokens')
        BY <1>4, <3>1 DEF TabInOrder
      <3> QED BY <3>1, <3>2 DEF TabInOrder
    <2> QED BY <2>1, <2>2
  <1>5. ~overlapped' => OneBusyTab' BY <1>3 DEF OneBusyTab
  <1>6. ~overlapped' => OneSession' /\ (out' => cookie' = 0 /\ minted' \notin tokens')
    BY DEF TabInOrder
  <1> QED BY <1>2, <1>4, <1>5, <1>6 DEF SessionInv

\* What a tab may rely on whose requests overlap with nobody's.
LEMMA TabAlone ==
  ASSUME SessionInv, NEW t \in Actor
  PROVE  /\ renewal[t] \in Refreshing /\ leave[t] \in Leaving
         /\ renewal = [renewal EXCEPT ![t] = renewal[t]] /\ leave = [leave EXCEPT ![t] = leave[t]]
         /\ minted \in Nat /\ cookie \in Nat /\ tokens \subseteq 1 .. minted
         /\ earlier \subseteq 1 .. minted
         /\ ~overlapped /\ (~Rest(t) \/ ~Browser!Overlaps(t)) =>
              /\ \A u \in Actor \ {t} : Rest(u)
              /\ TabInOrder(renewal[t], leave[t])
BY DEF SessionInv, SessionTypes, OneBusyTab, Rest, Browser!Overlaps, Browser!Busy

LEMMA RefreshKeepsSession ==
  ASSUME SessionInv, NEW t \in Actor, Browser!Refresh(t) \/ Browser!Open(t),
         UNCHANGED <<use, tokens, minted, earlier, cookie, leave, out>>
  PROVE  SessionInv'
  <1>1. CASE Browser!Refresh(t) /\ renewal[t].step # "idle"
    <2>1. renewal' = renewal /\ (~overlapped' => ~overlapped /\ ~Browser!Overlaps(t))
      BY <1>1 DEF Browser!Refresh, Browser!Started
    <2>2. ~overlapped' => TabInOrder(renewal[t], leave[t])' /\ \A u \in Actor \ {t} : Rest(u)
      BY <2>1, TabAlone DEF TabInOrder, CookieCounts, OneSession
    <2> QED BY <2>1, <2>2, TabAlone, TabStep
  <1>2. CASE \/ Browser!Refresh(t) /\ renewal[t].step = "idle"
             \/ Browser!Open(t)
    <2>1. PICK r : r = [step |-> "sent", token |-> cookie] OBVIOUS
    <2>2. r \in Refreshing BY <2>1, TabAlone DEF Refreshing
    <2>3. /\ renewal' = [renewal EXCEPT ![t] = r]
          /\ ~overlapped' => ~overlapped /\ ~Browser!Overlaps(t) /\ renewal[t].step = "idle"
      BY <1>2, <2>1 DEF Browser!Refresh, Browser!Started, Browser!Open
    <2>4. ~overlapped' => leave[t].step = "idle" BY <2>3 DEF Browser!Overlaps
    <2>5. ~overlapped' => TabInOrder(r, leave[t])' /\ \A u \in Actor \ {t} : Rest(u)
      BY <2>1, <2>3, <2>4, TabAlone DEF TabInOrder, CookieCounts, OneSession
    <2> QED BY <2>2, <2>3, <2>5, TabAlone, TabStep
  <1> QED BY <1>1, <1>2

\* The server rotates the last token, or refuses none at all.
LEMMA RotateKeepsSession ==
  ASSUME SessionInv, NEW t \in Actor, Browser!Rotate(t)
  PROVE  SessionInv'
  <1>1. /\ renewal[t].step = "sent" /\ ~Rest(t)
        /\ UNCHANGED <<use, earlier, cookie, leave, out, overlapped>>
    BY DEF Browser!Rotate, Rest
  <1>2. CASE /\ renewal[t].token \in tokens
             /\ minted' = minted + 1
             /\ tokens' = (tokens \ {renewal[t].token}) \cup {minted + 1}
             /\ renewal' = [renewal EXCEPT ![t] = [step |-> "answered", token |-> minted + 1]]
    <2>1. PICK r : r = [step |-> "answered", token |-> minted + 1] OBVIOUS
    <2>2. r \in Refreshing BY <2>1, TabAlone DEF Refreshing
    <2>3. minted' \in Nat /\ tokens' \subseteq 1 .. minted' /\ earlier' \subseteq 1 .. minted'
      BY <1>1, <1>2, TabAlone
    <2>4. ASSUME ~overlapped PROVE TabInOrder(r, leave[t])'
      <3>1. TabInOrder(renewal[t], leave[t]) BY <1>1, <2>4, TabAlone
      <3>2. cookie # 0 /\ ~out /\ leave[t].step = "idle"
        BY <1>1, <1>2, <3>1, TabAlone DEF TabInOrder, OneSession
      <3>3. renewal[t].token = cookie /\ cookie = minted /\ tokens \subseteq earlier \cup {minted}
        BY <1>1, <3>1, <3>2 DEF TabInOrder, OneSession, CookieCounts
      <3>4. tokens' \subseteq earlier' \cup {minted'}
        BY <1>1, <1>2, <3>3
      <3>5. r.step = "answered" /\ r.token = minted' /\ minted' \in tokens'
        BY <1>2, <2>1
      <3>6. ~out' /\ r' = r /\ leave'[t].step = "idle"
        BY <1>1, <3>2
      <3> QED BY <3>4, <3>5, <3>6 DEF TabInOrder, OneSession
    <2> QED BY <1>1, <1>2, <2>1, <2>2, <2>3, <2>4, TabAlone, TabStep
  <1>3. CASE /\ renewal[t].token \notin tokens /\ UNCHANGED <<tokens, minted>>
             /\ renewal' = [renewal EXCEPT ![t].step = "refused"]
    <2>1. PICK r : r = [renewal[t] EXCEPT !.step = "refused"] OBVIOUS
    <2>2. r \in Refreshing /\ r.step = "refused" /\ r.token = renewal[t].token
      BY <2>1, TabAlone DEF Refreshing
    <2>3. ASSUME ~overlapped PROVE TabInOrder(r, leave[t])'
      <3>1. TabInOrder(renewal[t], leave[t]) BY <1>1, <2>3, TabAlone
      <3> QED BY <1>1, <1>3, <2>2, <3>1 DEF TabInOrder, CookieCounts, OneSession
    <2>4. renewal' = [renewal EXCEPT ![t] = r] BY <1>3, <2>1
    <2>5. /\ minted' \in Nat /\ cookie' \in Nat /\ tokens' \subseteq 1 .. minted'
          /\ earlier' \subseteq 1 .. minted'
      BY <1>1, <1>3, TabAlone
    <2>6. leave' = [leave EXCEPT ![t] = leave[t]] /\ leave[t] \in Leaving BY <1>1, TabAlone
    <2>7. ~overlapped' => TabInOrder(r, leave[t])' /\ \A u \in Actor \ {t} : Rest(u)
      BY <1>1, <2>3, TabAlone
    <2> QED BY <1>1, <2>2, <2>4, <2>5, <2>6, <2>7, TabStep
  <1> QED BY <1>2, <1>3 DEF Browser!Rotate

\* The end of a refresh.
LEMMA RefreshedKeepsSession ==
  ASSUME SessionInv, NEW t \in Actor,
         \/ Browser!Refreshed(t) \/ Browser!Refused(t) \/ Browser!RefreshLost(t)
         \/ Browser!Expire(t) /\ overlapped' = (overlapped \/ renewal[t].step # "idle")
  PROVE  SessionInv'
  <1> USE DEF Browser!Expire
  <1>1. Browser!Quiet \in Refreshing /\ Browser!Quiet.step = "idle"
    BY DEF Browser!Quiet, Refreshing
  <1>2. CASE Browser!Refreshed(t)
    <2>1. /\ renewal[t].step = "answered" /\ ~Rest(t) /\ cookie' = renewal[t].token
          /\ renewal' = [renewal EXCEPT ![t] = Browser!Quiet]
          /\ UNCHANGED <<use, tokens, minted, earlier, leave, out, overlapped>>
      BY <1>2 DEF Browser!Refreshed, Browser!server, Rest
    <2>2. cookie' \in Nat BY <2>1, TabAlone DEF Refreshing
    <2>3. ASSUME ~overlapped PROVE TabInOrder(Browser!Quiet, leave[t])'
      <3>1. TabInOrder(renewal[t], leave[t]) BY <2>1, <2>3, TabAlone
      <3> QED BY <1>1, <2>1, <3>1 DEF TabInOrder, CookieCounts, OneSession
    <2> QED BY <1>1, <2>1, <2>2, <2>3, TabAlone, TabStep
  <1>3. CASE Browser!Refused(t)
    <2>1. /\ renewal[t].step = "refused" /\ ~Rest(t)
          /\ renewal' = [renewal EXCEPT ![t] = Browser!Quiet]
          /\ UNCHANGED <<use, tokens, minted, earlier, cookie, leave, out, overlapped>>
      BY <1>3 DEF Browser!Refused, Browser!server, Rest
    <2>2. ASSUME ~overlapped PROVE TabInOrder(Browser!Quiet, leave[t])'
      <3>1. TabInOrder(renewal[t], leave[t]) BY <2>1, <2>2, TabAlone
      <3> QED BY <1>1, <2>1, <3>1 DEF TabInOrder, CookieCounts, OneSession
    <2> QED BY <1>1, <2>1, <2>2, TabAlone, TabStep
  <1>4. CASE Browser!RefreshLost(t)
    <2>1. /\ renewal' = [renewal EXCEPT ![t] = Browser!Quiet] /\ overlapped'
          /\ UNCHANGED <<use, tokens, minted, earlier, cookie, leave, out>>
      BY <1>4 DEF Browser!RefreshLost, Browser!server
    <2> QED BY <1>1, <2>1, TabAlone, TabStep
  <1>5. CASE Browser!Expire(t) /\ overlapped' = (overlapped \/ renewal[t].step # "idle")
    <2>1. /\ renewal' = [renewal EXCEPT ![t] = Browser!Quiet]
          /\ UNCHANGED <<use, tokens, minted, earlier, cookie, leave, out>>
      BY <1>5 DEF Browser!server
    <2>2. CASE overlapped' BY <1>1, <2>1, <2>2, TabAlone, TabStep
    <2>3. CASE ~overlapped'
      <3>1. ~overlapped /\ renewal[t].step = "idle" BY <1>5, <2>3
      <3>2. \A u \in Actor : renewal'[u].step = renewal[u].step
                               /\ (renewal[u].step # "idle" => renewal'[u] = renewal[u])
        BY <1>1, <2>1, <3>1 DEF SessionInv, SessionTypes
      <3>3. renewal' \in [Actor -> Refreshing] BY <1>1, <2>1 DEF SessionInv, SessionTypes
      <3>4. \A u \in Actor : Rest(u)' = Rest(u) BY <2>1, <3>2 DEF Rest
      <3>5. ASSUME NEW u \in Actor, TabInOrder(renewal[u], leave[u])
            PROVE  TabInOrder(renewal[u], leave[u])'
        BY <2>1, <3>2, <3>5 DEF TabInOrder, CookieCounts, OneSession
      <3>6. SessionTypes' BY <2>1, <3>3 DEF SessionInv, SessionTypes
      <3> QED BY <2>1, <3>1, <3>4, <3>5, <3>6 DEF SessionInv, OneBusyTab, OneSession
    <2> QED BY <2>2, <2>3
  <1> QED BY <1>2, <1>3, <1>4, <1>5

\* A login issues the token that the browser then holds; if nobody is at anything, whatever
\* overlapped before is over.
LEMMA LoginKeepsSession ==
  ASSUME SessionInv, NEW t \in Actor, Browser!Login(t)
  PROVE  SessionInv'
  <1>1. /\ minted' = minted + 1 /\ tokens' = tokens \cup {minted + 1} /\ cookie' = minted + 1
        /\ earlier' = tokens
        /\ UNCHANGED <<use, renewal, leave>> /\ out' = FALSE /\ overlapped' = Browser!Overlaps(t)
        /\ renewal[t].step = "idle" /\ leave[t].step = "idle"
    BY DEF Browser!Login, Browser!Issue, Browser!Busy
  <1>2. /\ minted' \in Nat /\ cookie' \in Nat /\ tokens' \subseteq 1 .. minted'
        /\ earlier' \subseteq 1 .. minted'
    BY <1>1, TabAlone
  <1>3. ~overlapped' => \A u \in Actor \ {t} : Rest(u)
    BY <1>1 DEF Browser!Overlaps, Browser!Busy, Rest
  <1>4. TabInOrder(renewal[t], leave[t])' BY <1>1 DEF TabInOrder, CookieCounts, OneSession
  <1> QED BY <1>1, <1>2, <1>3, <1>4, TabAlone, TabStep

\* A logout revokes the token that the browser held when it was asked for.
LEMMA LogoutKeepsSession ==
  ASSUME SessionInv, NEW t \in Actor,
         Browser!Logout(t) \/ Browser!Revoke(t) \/ Browser!LoggedOut(t) \/ Browser!LogoutLost(t)
  PROVE  SessionInv'
  <1>1. /\ Browser!Quiet \in Refreshing /\ Browser!Quiet \in Leaving
        /\ Browser!Quiet.step = "idle"
    BY DEF Browser!Quiet, Refreshing, Leaving
  <1>2. CASE Browser!Logout(t)
    <2>1. PICK l : l = [step |-> "sent", token |-> cookie] OBVIOUS
    <2>2. l \in Leaving BY <2>1, TabAlone DEF Leaving
    <2>3. /\ leave' = [leave EXCEPT ![t] = l] /\ leave[t].step = "idle"
          /\ UNCHANGED <<use, tokens, minted, earlier, cookie, renewal, out>>
          /\ ~overlapped' => ~overlapped /\ ~Browser!Overlaps(t) /\ renewal[t].step = "idle"
      BY <1>2, <2>1 DEF Browser!Logout, Browser!server
    <2>4. ~overlapped' => TabInOrder(renewal[t], l)' /\ \A u \in Actor \ {t} : Rest(u)
      BY <2>1, <2>3, TabAlone DEF TabInOrder, CookieCounts, OneSession
    <2> QED BY <2>2, <2>3, <2>4, TabAlone, TabStep
  <1>3. CASE Browser!Revoke(t)
    <2>1. PICK l : l = [leave[t] EXCEPT !.step = "answered"] OBVIOUS
    <2>2. l \in Leaving /\ l.step = "answered" BY <2>1, TabAlone DEF Leaving
    <2>3. /\ leave[t].step = "sent" /\ ~Rest(t) /\ tokens' = tokens \ {leave[t].token}
          /\ leave' = [leave EXCEPT ![t] = l]
          /\ UNCHANGED <<use, minted, earlier, cookie, renewal, out, overlapped>>
      BY <1>3, <2>1 DEF Browser!Revoke, Browser!Revoked, Rest
    <2>4. ASSUME ~overlapped PROVE TabInOrder(renewal[t], l)'
      <3>1. TabInOrder(renewal[t], leave[t]) BY <2>3, <2>4, TabAlone
      <3>2. minted \notin tokens' BY <2>3, <3>1 DEF TabInOrder, CookieCounts, OneSession
      <3> QED BY <2>2, <2>3, <3>1, <3>2 DEF TabInOrder, OneSession
    <2> QED BY <2>2, <2>3, <2>4, TabAlone, TabStep
  <1>4. CASE Browser!LoggedOut(t)
    <2>1. /\ leave[t].step = "answered" /\ ~Rest(t) /\ cookie' = 0
          /\ leave' = [leave EXCEPT ![t] = Browser!Quiet]
          /\ renewal' = [renewal EXCEPT ![t] = Browser!Quiet]
          /\ UNCHANGED <<use, tokens, minted, earlier, overlapped>>
      BY <1>4 DEF Browser!LoggedOut, Browser!LeavePage, Browser!server, Rest
    <2>2. ASSUME ~overlapped PROVE TabInOrder(Browser!Quiet, Browser!Quiet)'
      <3>1. TabInOrder(renewal[t], leave[t]) BY <2>1, <2>2, TabAlone
      <3> QED BY <1>1, <2>1, <3>1 DEF TabInOrder, CookieCounts, OneSession
    <2> QED BY <1>1, <2>1, <2>2, TabAlone, TabStep
  <1>5. CASE Browser!LogoutLost(t)
    <2>1. /\ leave' = [leave EXCEPT ![t] = Browser!Quiet] /\ overlapped'
          /\ renewal' = [renewal EXCEPT ![t] = Browser!Quiet]
          /\ UNCHANGED <<use, tokens, minted, earlier, cookie>>
      BY <1>5 DEF Browser!LogoutLost, Browser!LeavePage, Browser!server
    <2> QED BY <1>1, <2>1, TabAlone, TabStep
  <1> QED BY <1>2, <1>3, <1>4, <1>5

LEMMA SessionKept ==
  ASSUME SessionInv,
         UNCHANGED <<use, tokens, minted, earlier, cookie, renewal, leave, out, overlapped>>
  PROVE  SessionInv'
  <1>1. \A t : Rest(t)' = Rest(t) BY DEF Rest
  <1>2. \A t : TabInOrder(renewal[t], leave[t])' = TabInOrder(renewal[t], leave[t])
    BY DEF TabInOrder, CookieCounts, OneSession
  <1> QED BY <1>1, <1>2 DEF SessionInv, SessionTypes, OneBusyTab, OneSession

LEMMA SessionStep == ASSUME SessionInv, [Browser!Next]_(Browser!vars) PROVE SessionInv'
  <1>1. CASE UNCHANGED Browser!vars BY <1>1, SessionKept DEF Browser!vars, Browser!server
  <1>2. use.tabs \subseteq Actor BY DEF SessionInv, SessionTypes
  <1>3. ASSUME NEW t \in Actor, Browser!SessionStep(t) PROVE SessionInv'
    <2>1. CASE Browser!Open(t)
      BY <2>1, RefreshKeepsSession DEF Browser!Open, Browser!server
    <2>2. CASE Browser!Renew(t)
      BY <2>2, RefreshKeepsSession DEF Browser!Renew, Browser!server
    <2>3. CASE Browser!AccessExpires(t)
      BY <2>3, SessionKept DEF Browser!AccessExpires, Browser!server
    <2> QED
      BY <1>3, <2>1, <2>2, <2>3, RotateKeepsSession, RefreshedKeepsSession, LoginKeepsSession,
         LogoutKeepsSession DEF Browser!SessionStep
  <1>4. ASSUME NEW t \in Actor, Browser!CacheExpires(t) PROVE SessionInv'
    BY <1>4, SessionKept DEF Browser!CacheExpires, Browser!server
  <1>5. ASSUME NEW t \in Actor, NEW c, Browser!CallStep(t, c) PROVE SessionInv'
    <2>1. CASE Browser!Read(t, c) \/ Browser!Write(t, c)
      <3>1. /\ UNCHANGED <<use, tokens, minted, earlier, cookie, leave, out>>
            /\ Browser!Refresh(t) \/ UNCHANGED <<renewal, overlapped>>
        BY <2>1 DEF Browser!Read, Browser!Write, Browser!Request, Browser!server
      <3> QED BY <3>1, RefreshKeepsSession, SessionKept
    <2>2. CASE Browser!Retry(t, c)
      BY <2>2, RefreshKeepsSession DEF Browser!Retry, Browser!server
    <2>3. CASE Browser!Deny(t, c) BY <2>3, RefreshedKeepsSession DEF Browser!Deny
    <2>4. CASE \/ Browser!Serve(t, c) \/ Browser!Reject(t, c) \/ Browser!ReadAnswered(t, c)
               \/ Browser!WriteAnswered(t, c) \/ Browser!CallLost(t, c)
      BY <2>4, SessionKept DEF Browser!Serve, Browser!Reject, Browser!ReadAnswered,
         Browser!WriteAnswered, Browser!CallLost, Browser!server
    <2> QED BY <1>5, <2>1, <2>2, <2>3, <2>4 DEF Browser!CallStep
  <1> QED BY <1>1, <1>2, <1>3, <1>4, <1>5 DEF Browser!Next

\* For every number of tabs and of requests: where refreshes and logouts do not overlap and
\* none is lost, no token that a browser sends is refused, and after a logout the browser has
\* none and the server none that was issued since the last login.
THEOREM SessionsEnd == OfficeSpec => []TokensLastTheirSession
  <1> DEFINE Inv == scenario = "web" => SessionInv
  <1>1. OfficeInit => Inv
    BY SessionAtFirst DEF OfficeInit
  <1>2. Inv /\ [OfficeNext]_officeVars => Inv'
    BY ScenarioStays, BrowserFollows, SessionStep
  <1>3. ASSUME SessionInv PROVE Browser!TokensLastTheirSession
    <2>1. ASSUME ~overlapped, NEW t \in Actor, renewal[t].step = "refused"
          PROVE  renewal[t].token = 0
      <3>1. ~Rest(t) BY <2>1 DEF Rest
      <3> QED BY <1>3, <2>1, <3>1, TabAlone DEF TabInOrder
    <2>2. ~overlapped /\ out => cookie = 0 /\ tokens \subseteq earlier
      BY <1>3 DEF SessionInv, OneSession
    <2> QED BY <2>1, <2>2 DEF Browser!TokensLastTheirSession
  <1>4. Inv => TokensLastTheirSession
    BY <1>3 DEF TokensLastTheirSession
  <1> QED BY <1>1, <1>2, <1>4, PTL DEF OfficeSpec
-----------------------------------------------------------------------------
(* WebSession: CacheFollowsWrites is not inductive: it does not say what the    *)
(* answer holds that is cached next.  CacheInv adds that nothing is newer than  *)
(* the server, and that an answered read is as new as the last write seen, or   *)
(* was under way when that write was answered.                                  *)

Page == [page : {"app", "login"}, access : {"none", "fresh", "old"}, reading : BOOLEAN,
         cache : [version : Int, old : BOOLEAN], seen : Nat]
Asked == [step : {"idle", "token", "sent", "rejected", "answered"}, what : {"read", "write"},
          version : Nat, again : BOOLEAN, old : BOOLEAN]

Follows(q, m) ==
    q.step = "answered" /\ q.what = "read" /\ ~q.old => q.version >= m.seen

Cached(m) == m.cache # Browser!NoEntry /\ ~m.cache.old => m.cache.version >= m.seen

CacheInv ==
    /\ version \in Nat
    /\ tab \in [Actor -> Page] /\ call \in [Actor -> [Data -> Asked]]
    /\ use.tabs \subseteq Actor /\ use.calls \subseteq Data
    /\ \A t \in Actor :
        /\ tab[t].seen <= version /\ Cached(tab[t])
        /\ \A c \in Data : call[t][c].version <= version /\ Follows(call[t][c], tab[t])

\* What the actions start a tab and its calls with.
LEMMA NothingAsked ==
  /\ Browser!NoCall \in Asked /\ Browser!NoCall.step = "idle" /\ Browser!NoCall.version = 0
  /\ Browser!NoCalls \in [Data -> Asked]
  /\ \A c \in Data : Browser!NoCalls[c] = Browser!NoCall
BY DEF Browser!NoCall, Browser!NoCalls, Asked

LEMMA MemoryIsEmpty ==
  ASSUME NEW p \in {"app", "login"}, NEW a \in {"none", "fresh", "old"}
  PROVE  /\ Browser!Memory(p, a) \in Page /\ Browser!Memory(p, a).seen = 0
         /\ Browser!Memory(p, a).cache = Browser!NoEntry
         /\ Browser!NoEntry \in [version : Int, old : BOOLEAN]
BY DEF Browser!Memory, Browser!NoEntry, Page

LEMMA CacheAtFirst == Browser!Init => CacheInv
  <1> SUFFICES ASSUME Browser!Init PROVE CacheInv OBVIOUS
  <1>1. /\ tab = [t \in Actor |-> Browser!Memory("login", "none")]
        /\ call = [t \in Actor |-> Browser!NoCalls] /\ version = 0
    BY DEF Browser!Init
  <1>2. use \in [tabs : SUBSET Actor, calls : SUBSET Data]
    BY BackOfficeAssumption DEF BackOfficeAssumption, Browser!WebSessionAssumption, Browser!Init
  <1> QED BY <1>1, <1>2, NothingAsked, MemoryIsEmpty DEF CacheInv, Follows, Cached

\* A step of one tab, after which it holds m and its calls are k.
LEMMA TabGoesOn ==
  ASSUME CacheInv, NEW t \in Actor, NEW m \in Page, NEW k \in [Data -> Asked],
         tab' = [tab EXCEPT ![t] = m], call' = [call EXCEPT ![t] = k], use' = use,
         version' \in Nat, version <= version', m.seen <= version', Cached(m),
         \A c \in Data : k[c].version <= version' /\ Follows(k[c], m)
  PROVE  CacheInv'
  <1>1. tab' \in [Actor -> Page] /\ call' \in [Actor -> [Data -> Asked]] BY DEF CacheInv
  <1>2. /\ tab'[t] = m /\ call'[t] = k
        /\ \A u \in Actor \ {t} : tab'[u] = tab[u] /\ call'[u] = call[u]
    BY DEF CacheInv
  <1>3. ASSUME NEW u \in Actor
        PROVE  /\ tab'[u].seen <= version' /\ Cached(tab'[u])
               /\ \A c \in Data : call'[u][c].version <= version' /\ Follows(call'[u][c], tab'[u])
    <2>1. CASE u = t BY <1>2, <2>1
    <2>2. CASE u # t
      <3>1. tab[u].seen \in Nat /\ \A c \in Data : call[u][c].version \in Nat
        BY DEF CacheInv, Page, Asked
      <3> QED BY <1>2, <2>2, <3>1 DEF CacheInv
    <2> QED BY <2>1, <2>2
  <1> QED BY <1>1, <1>3 DEF CacheInv, Cached, Follows

\* A step of one call of a tab, after which the call is q.
LEMMA CallGoesOn ==
  ASSUME CacheInv, NEW t \in Actor, NEW c \in Data, NEW m \in Page, NEW q \in Asked,
         tab' = [tab EXCEPT ![t] = m], call' = [call EXCEPT ![t][c] = q], use' = use,
         version' \in Nat, version <= version', m.seen = tab[t].seen, Cached(m),
         q.version <= version', Follows(q, m)
  PROVE  CacheInv'
  <1>1. PICK k : k = [call[t] EXCEPT ![c] = q] OBVIOUS
  <1>2. call[t] \in [Data -> Asked] /\ tab[t] \in Page BY DEF CacheInv
  <1>3. k \in [Data -> Asked] BY <1>1, <1>2
  <1>4. call' = [call EXCEPT ![t] = k] BY <1>1
  <1>5. m.seen \in Nat /\ m.seen <= version' BY <1>2 DEF CacheInv, Page
  <1>6. ASSUME NEW d \in Data PROVE k[d].version <= version' /\ Follows(k[d], m)
    <2>1. CASE d = c BY <1>1, <1>2, <2>1
    <2>2. CASE d # c
      <3>1. k[d] = call[t][d] /\ call[t][d].version \in Nat BY <1>1, <1>2, <2>2 DEF Asked
      <3> QED BY <3>1 DEF CacheInv, Follows
    <2> QED BY <2>1, <2>2
  <1> QED BY <1>3, <1>4, <1>5, <1>6, TabGoesOn

\* A new document has seen nothing, has nothing cached and waits for nothing.
LEMMA LoadKeepsCache ==
  ASSUME CacheInv, NEW t \in Actor, NEW p \in {"app", "login"}, Browser!Load(t, p),
         UNCHANGED <<use, version>>
  PROVE  CacheInv'
  <1>1. /\ tab' = [tab EXCEPT ![t] = Browser!Memory(p, "none")]
        /\ call' = [call EXCEPT ![t] = Browser!NoCalls]
    BY DEF Browser!Load
  <1>2. version \in Nat BY DEF CacheInv
  <1>3. Cached(Browser!Memory(p, "none")) BY MemoryIsEmpty DEF Cached
  <1>4. \A c \in Data : /\ Browser!NoCalls[c].version <= version
                        /\ Follows(Browser!NoCalls[c], Browser!Memory(p, "none"))
    BY <1>2, NothingAsked DEF Follows
  <1>5. Browser!Memory(p, "none").seen <= version' /\ version' \in Nat /\ version <= version'
    BY <1>2, MemoryIsEmpty
  <1>6. Browser!Memory(p, "none") \in Page BY MemoryIsEmpty
  <1> QED BY <1>1, <1>3, <1>4, <1>5, <1>6, NothingAsked, TabGoesOn

LEMMA CacheKept == ASSUME CacheInv, UNCHANGED <<use, version, tab, call>> PROVE CacheInv'
BY DEF CacheInv, Cached, Follows
LEMMA SessionKeepsCache ==
  ASSUME CacheInv, NEW t \in Actor, Browser!SessionStep(t)
  PROVE  CacheInv'
  <1>0. tab[t] \in Page /\ call[t] \in [Data -> Asked] /\ version \in Nat BY DEF CacheInv
  <1>1. tab[t].seen <= version /\ Cached(tab[t]) /\ tab[t].seen \in Nat
    BY <1>0 DEF CacheInv, Page
  <1>2. \A c \in Data : /\ call[t][c] \in Asked /\ call[t][c].version <= version
                        /\ Follows(call[t][c], tab[t])
    BY <1>0 DEF CacheInv
  <1>3. tab = [tab EXCEPT ![t] = tab[t]] /\ call = [call EXCEPT ![t] = call[t]] BY DEF CacheInv
  <1>4. CASE Browser!Open(t)
    BY <1>4, LoadKeepsCache DEF Browser!Open, Browser!server
  <1>5. CASE Browser!Refused(t) \/ Browser!RefreshLost(t)
    BY <1>5, LoadKeepsCache
       DEF Browser!Refused, Browser!RefreshLost, Browser!Expire, Browser!server
  <1>6. CASE Browser!LoggedOut(t) \/ Browser!LogoutLost(t)
    BY <1>6, LoadKeepsCache
       DEF Browser!LoggedOut, Browser!LogoutLost, Browser!LeavePage, Browser!server
  <1>7. CASE Browser!Renew(t) \/ Browser!Rotate(t) \/ Browser!Revoke(t)
    BY <1>7, CacheKept DEF Browser!Renew, Browser!Rotate, Browser!Revoke, Browser!server
  <1>8. CASE \/ Browser!AccessExpires(t) \/ Browser!Login(t) \/ Browser!Logout(t)
    <2>1. UNCHANGED <<use, version, call>>
      BY <1>8 DEF Browser!AccessExpires, Browser!Login, Browser!Logout, Browser!Issue,
                  Browser!server
    <2>2. PICK m \in Page : /\ tab' = [tab EXCEPT ![t] = m] /\ Cached(m)
                            /\ m.seen <= tab[t].seen /\ m.seen \in Nat
      <3>1. CASE Browser!AccessExpires(t)
        <4>1. PICK m : m = [tab[t] EXCEPT !.access = "old"] OBVIOUS
        <4>2. m \in Page /\ m.cache = tab[t].cache /\ m.seen = tab[t].seen
          BY <1>0, <4>1 DEF Page
        <4>3. tab' = [tab EXCEPT ![t] = m] BY <3>1, <4>1 DEF Browser!AccessExpires
        <4>4. Cached(m) /\ m.seen <= tab[t].seen /\ m.seen \in Nat BY <1>1, <4>2 DEF Cached
        <4> QED BY <4>2, <4>3, <4>4
      <3>2. CASE Browser!Login(t)
        <4>1. PICK m : m = Browser!Memory("app", "fresh") OBVIOUS
        <4>2. m \in Page /\ m.cache = Browser!NoEntry /\ m.seen = 0 BY <4>1, MemoryIsEmpty
        <4>3. tab' = [tab EXCEPT ![t] = m] BY <3>2, <4>1 DEF Browser!Login
        <4>4. Cached(m) /\ m.seen <= tab[t].seen /\ m.seen \in Nat BY <1>1, <4>2 DEF Cached
        <4> QED BY <4>2, <4>3, <4>4
      <3>3. CASE Browser!Logout(t)
        <4>1. PICK m : m = [Browser!Memory("app", "none") EXCEPT !.seen = tab[t].seen] OBVIOUS
        <4>2. m \in Page /\ m.cache = Browser!NoEntry /\ m.seen = tab[t].seen
          BY <1>1, <4>1, MemoryIsEmpty DEF Page
        <4>3. tab' = [tab EXCEPT ![t] = m] BY <3>3, <4>1 DEF Browser!Logout
        <4>4. Cached(m) /\ m.seen <= tab[t].seen /\ m.seen \in Nat BY <1>1, <4>2 DEF Cached
        <4> QED BY <4>2, <4>3, <4>4
      <3> QED BY <1>8, <3>1, <3>2, <3>3
    <2>3. \A c \in Data : Follows(call[t][c], m)
      <3>1. \A c \in Data : call[t][c].version \in Nat BY <1>2 DEF Asked
      <3> QED BY <1>1, <1>2, <2>2, <3>1 DEF Follows
    <2>4. call' = [call EXCEPT ![t] = call[t]] BY <1>3, <2>1
    <2>5. version' \in Nat /\ version <= version' /\ m.seen <= version'
      BY <1>0, <1>1, <2>1, <2>2
    <2>6. \A c \in Data : call[t][c].version <= version' BY <1>2, <2>1
    <2> QED BY <1>0, <2>1, <2>2, <2>3, <2>4, <2>5, <2>6, TabGoesOn
  <1>9. CASE Browser!Refreshed(t)
    <2>1. PICK m : m = [tab[t] EXCEPT !.access = "fresh"] OBVIOUS
    <2>2. m \in Page /\ m.cache = tab[t].cache /\ m.seen = tab[t].seen
      BY <1>0, <2>1 DEF Page
    <2>3. PICK k : k = [c \in Data |-> IF call[t][c].step = "token"
                                       THEN [call[t][c] EXCEPT !.step = "sent"]
                                       ELSE call[t][c]]
      OBVIOUS
    <2>4. ASSUME NEW c \in Data
          PROVE  k[c] \in Asked /\ k[c].version <= version /\ Follows(k[c], m)
      <3>1. PICK q \in Asked : q = call[t][c] BY <1>2
      <3>2. CASE q.step = "token"
        <4>1. k[c] = [q EXCEPT !.step = "sent"] BY <2>3, <3>1, <3>2
        <4> QED BY <1>2, <3>1, <4>1 DEF Asked, Follows
      <3>3. CASE q.step # "token" BY <1>2, <2>2, <2>3, <3>1, <3>3 DEF Follows
      <3> QED BY <3>2, <3>3
    <2>5. k \in [Data -> Asked] BY <2>3, <2>4
    <2>6. /\ tab' = [tab EXCEPT ![t] = m] /\ UNCHANGED <<use, version>>
          /\ call' = [call EXCEPT ![t] = k]
      BY <1>9, <2>1, <2>3 DEF Browser!Refreshed, Browser!server
    <2>7. Cached(m) BY <1>1, <2>2 DEF Cached
    <2>8. version' \in Nat /\ version <= version' /\ m.seen <= version'
      BY <1>0, <1>1, <2>2, <2>6
    <2>9. \A c \in Data : k[c].version <= version' /\ Follows(k[c], m) BY <2>4, <2>6
    <2> QED BY <2>2, <2>5, <2>6, <2>7, <2>8, <2>9, TabGoesOn
  <1> QED BY <1>4, <1>5, <1>6, <1>7, <1>8, <1>9 DEF Browser!SessionStep
\* A call is asked, served, rejected, asked again or answered, and may be lost.
LEMMA CallKeepsCache ==
  ASSUME CacheInv, NEW t \in Actor, NEW c \in Data, Browser!CallStep(t, c)
  PROVE  CacheInv'
  <1>1. PICK m \in Page : m = tab[t] BY DEF CacheInv
  <1>2. PICK q \in Asked : q = call[t][c] BY DEF CacheInv
  <1>3. /\ version \in Nat /\ m.seen \in Nat /\ m.seen <= version /\ Cached(m)
        /\ q.version \in Nat /\ q.version <= version /\ Follows(q, m)
    BY <1>1, <1>2 DEF CacheInv, Page, Asked
  <1>4. /\ tab = [tab EXCEPT ![t] = m] /\ call[t] = [call[t] EXCEPT ![c] = q]
        /\ call = [call EXCEPT ![t] = call[t]] /\ call = [call EXCEPT ![t][c] = q]
    BY <1>1, <1>2 DEF CacheInv
  <1>5. CASE Browser!Deny(t, c)
    BY <1>5, LoadKeepsCache DEF Browser!Deny, Browser!Expire, Browser!server
  <1>6. CASE Browser!Read(t, c) \/ Browser!Write(t, c)
    <2>1. PICK what \in {"read", "write"}, step \in {"sent", "token"} :
            call' = [call EXCEPT ![t][c] = [Browser!NoCall EXCEPT !.what = what, !.step = step]]
      BY <1>6 DEF Browser!Read, Browser!Write, Browser!Request
    <2>2. PICK w : w = [Browser!NoCall EXCEPT !.what = what, !.step = step] OBVIOUS
    <2>3. w \in Asked /\ w.version = 0 /\ w.step # "answered"
      BY <2>1, <2>2, NothingAsked DEF Asked
    <2>4. PICK n : n = [m EXCEPT !.reading = TRUE] OBVIOUS
    <2>5. n \in Page /\ n.cache = m.cache /\ n.seen = m.seen BY <2>4 DEF Page
    <2>6. tab' = [tab EXCEPT ![t] = n] \/ tab' = [tab EXCEPT ![t] = m]
      BY <1>1, <1>4, <1>6, <2>4 DEF Browser!Read, Browser!Write
    <2>7. UNCHANGED <<use, version>> BY <1>6 DEF Browser!Read, Browser!Write, Browser!server
    <2>8. version' \in Nat /\ version <= version' /\ w.version <= version'
      BY <1>3, <2>3, <2>7
    <2>9. Follows(w, m) /\ Follows(w, n) /\ Cached(n) BY <1>3, <2>3, <2>5 DEF Follows, Cached
    <2> QED BY <1>1, <1>3, <2>1, <2>2, <2>3, <2>5, <2>6, <2>7, <2>8, <2>9, CallGoesOn
  <1>7. CASE Browser!Serve(t, c)
    <2>1. PICK now : /\ now = version + (IF call[t][c].what = "write" THEN 1 ELSE 0)
                     /\ version' = now
                     /\ call' = [call EXCEPT ![t][c].step = "answered",
                                             ![t][c].version = now]
      BY <1>7 DEF Browser!Serve
    <2>2. now \in Nat /\ version <= now BY <1>3, <2>1
    <2>3. PICK w : w = [q EXCEPT !.step = "answered", !.version = now] OBVIOUS
    <2>4. w \in Asked /\ w.version = now BY <2>2, <2>3 DEF Asked
    <2>5. call' = [call EXCEPT ![t][c] = w] BY <1>2, <2>1, <2>3 DEF CacheInv
    <2>6. tab' = [tab EXCEPT ![t] = m] /\ use' = use BY <1>4, <1>7 DEF Browser!Serve
    <2>7. Follows(w, m) /\ w.version <= version' BY <1>3, <2>1, <2>2, <2>4 DEF Follows
    <2> QED BY <1>1, <1>3, <2>1, <2>2, <2>4, <2>5, <2>6, <2>7, CallGoesOn
  <1>8. CASE Browser!Reject(t, c)
    <2>1. PICK w : w = [q EXCEPT !.step = "rejected"] OBVIOUS
    <2>2. w \in Asked /\ w.version = q.version /\ w.step # "answered" BY <2>1 DEF Asked
    <2>3. call' = [call EXCEPT ![t][c] = w] BY <1>2, <1>8, <2>1 DEF Browser!Reject, CacheInv
    <2>4. tab' = [tab EXCEPT ![t] = m] /\ UNCHANGED <<use, version>>
      BY <1>4, <1>8 DEF Browser!Reject, Browser!server
    <2>5. Follows(w, m) BY <2>2 DEF Follows
    <2>6. version' \in Nat /\ version <= version' /\ w.version <= version'
      BY <1>3, <2>2, <2>4
    <2> QED BY <1>1, <1>3, <2>2, <2>3, <2>4, <2>5, <2>6, CallGoesOn
  <1>9. CASE Browser!Retry(t, c)
    <2>1. PICK w : w = [q EXCEPT !.step = "token", !.again = TRUE] OBVIOUS
    <2>2. w \in Asked /\ w.version = q.version /\ w.step # "answered" BY <2>1 DEF Asked
    <2>3. call' = [call EXCEPT ![t][c] = w] BY <1>2, <1>9, <2>1 DEF Browser!Retry, CacheInv
    <2>4. PICK n : n = [m EXCEPT !.access = "none", !.cache = Browser!NoEntry,
                                 !.reading = FALSE]
      OBVIOUS
    <2>5. n \in Page /\ n.cache = Browser!NoEntry /\ n.seen = m.seen
      BY <2>4, MemoryIsEmpty DEF Page
    <2>6. tab' = [tab EXCEPT ![t] = n] /\ UNCHANGED <<use, version>>
      BY <1>1, <1>9, <2>4 DEF Browser!Retry, Browser!server, CacheInv
    <2>7. Follows(w, n) /\ Cached(n) BY <2>2, <2>5 DEF Follows, Cached
    <2>8. version' \in Nat /\ version <= version' /\ w.version <= version'
      BY <1>3, <2>2, <2>6
    <2> QED BY <1>1, <2>2, <2>3, <2>5, <2>6, <2>7, <2>8, CallGoesOn
  <1>10. CASE Browser!ReadAnswered(t, c)
    <2>1. PICK e : e = [version |-> q.version, old |-> q.old] OBVIOUS
    <2>2. PICK n : n = [m EXCEPT !.reading = FALSE, !.cache = e] OBVIOUS
    <2>3. e.version = q.version /\ e.old = q.old /\ e \in [version : Int, old : BOOLEAN]
      BY <1>3, <2>1 DEF Asked
    <2>4. n \in Page /\ n.cache = e /\ n.seen = m.seen BY <2>2, <2>3 DEF Page
    <2>5. q.step = "answered" /\ q.what = "read" BY <1>2, <1>10 DEF Browser!ReadAnswered
    <2>6. Cached(n) BY <1>3, <2>4, <2>3, <2>5 DEF Cached, Follows
    <2>7. tab' = [tab EXCEPT ![t] = n] /\ call' = [call EXCEPT ![t][c] = Browser!NoCall]
          /\ UNCHANGED <<use, version>>
      BY <1>1, <1>2, <1>10, <2>1, <2>2 DEF Browser!ReadAnswered, Browser!server, CacheInv
    <2>8. Follows(Browser!NoCall, n) /\ Browser!NoCall.version <= version
      BY <1>3, NothingAsked DEF Follows
    <2>9. version' \in Nat /\ version <= version' /\ Browser!NoCall.version <= version'
      BY <1>3, <2>7, <2>8
    <2> QED BY <1>1, <2>4, <2>6, <2>7, <2>8, <2>9, NothingAsked, CallGoesOn
  <1>11. CASE Browser!WriteAnswered(t, c)
    <2>1. PICK n : n = [m EXCEPT !.cache = Browser!NoEntry, !.seen = q.version] OBVIOUS
    <2>2. n \in Page /\ n.cache = Browser!NoEntry /\ n.seen = q.version
      BY <1>3, <2>1, MemoryIsEmpty DEF Page
    <2>3. PICK k : k = [d \in Data |-> IF d = c THEN Browser!NoCall
                                       ELSE [call[t][d] EXCEPT !.old = @ \/ call[t][d].step # "idle"]]
      OBVIOUS
    <2>4. /\ tab' = [tab EXCEPT ![t] = n] /\ call' = [call EXCEPT ![t] = k]
          /\ UNCHANGED <<use, version>>
      <3>1. /\ tab' = [tab EXCEPT ![t].cache = Browser!NoEntry, ![t].seen = q.version]
            /\ UNCHANGED <<use, version>>
        BY <1>2, <1>11 DEF Browser!WriteAnswered, Browser!CacheAfter, Browser!server
      <3>2. call' = [call EXCEPT ![t] =
                        [d \in Data |-> IF d = c THEN Browser!NoCall
                                        ELSE [call[t][d] EXCEPT
                                                !.old = @ \/ call[t][d].step # "idle"]]]
        BY <1>11 DEF Browser!WriteAnswered
      <3>3. call' = [call EXCEPT ![t] = k] BY <2>3, <3>2
      <3> QED BY <1>1, <2>1, <3>1, <3>3 DEF CacheInv
    <2>5. ASSUME NEW d \in Data
          PROVE  k[d] \in Asked /\ k[d].version <= version /\ Follows(k[d], n)
      <3>1. CASE d = c
        <4>1. k[d] = Browser!NoCall BY <2>3, <3>1
        <4> QED BY <1>3, <4>1, NothingAsked DEF Follows
      <3>2. CASE d # c
        <4>1. PICK p \in Asked : p = call[t][d] BY DEF CacheInv
        <4>2. p.version <= version BY <4>1 DEF CacheInv
        <4>3. PICK o \in BOOLEAN : o <=> p.old \/ p.step # "idle" OBVIOUS
        <4>4. p.old \in BOOLEAN BY DEF Asked
        <4>5. k[d] = [p EXCEPT !.old = (p.old \/ p.step # "idle")] BY <2>3, <3>2, <4>1
        <4>6. k[d] = [p EXCEPT !.old = o] BY <4>3, <4>5
        <4>7. /\ k[d] \in Asked /\ k[d].version = p.version /\ k[d].step = p.step
              /\ k[d].old = o
          BY <4>3, <4>6 DEF Asked
        <4> QED BY <4>2, <4>3, <4>7 DEF Follows
      <3> QED BY <3>1, <3>2
    <2>6. k \in [Data -> Asked] BY <2>3, <2>5
    <2>7. Cached(n) BY <2>2 DEF Cached
    <2>8. version' \in Nat /\ version <= version' /\ n.seen <= version'
      BY <1>3, <2>2, <2>4
    <2>9. \A d \in Data : k[d].version <= version' /\ Follows(k[d], n) BY <2>4, <2>5
    <2> QED BY <2>2, <2>4, <2>6, <2>7, <2>8, <2>9, TabGoesOn
  <1>12. CASE Browser!CallLost(t, c)
    <2>1. PICK o \in BOOLEAN : o <=> m.reading /\ q.what = "write" OBVIOUS
    <2>2. PICK n : n = [m EXCEPT !.reading = o] OBVIOUS
    <2>3. n \in Page /\ n.cache = m.cache /\ n.seen = m.seen BY <2>1, <2>2 DEF Page
    <2>4. tab' = [tab EXCEPT ![t].reading = (m.reading /\ q.what = "write")]
      BY <1>1, <1>2, <1>12 DEF Browser!CallLost, CacheInv
    <2>5. tab' = [tab EXCEPT ![t] = n] BY <1>1, <2>1, <2>2, <2>4
    <2>6. call' = [call EXCEPT ![t][c] = Browser!NoCall] /\ UNCHANGED <<use, version>>
      BY <1>12 DEF Browser!CallLost, Browser!server
    <2>7. Follows(Browser!NoCall, n) /\ Browser!NoCall.version <= version /\ Cached(n)
      BY <1>3, <2>3, NothingAsked DEF Follows, Cached
    <2>8. version' \in Nat /\ version <= version' /\ Browser!NoCall.version <= version'
      BY <1>3, <2>6, <2>7
    <2> QED BY <1>1, <2>3, <2>5, <2>6, <2>7, <2>8, NothingAsked, CallGoesOn
  <1> QED
    BY <1>5, <1>6, <1>7, <1>8, <1>9, <1>10, <1>11, <1>12 DEF Browser!CallStep

LEMMA CacheStep == ASSUME CacheInv, [Browser!Next]_(Browser!vars) PROVE CacheInv'
  <1>1. CASE UNCHANGED Browser!vars BY <1>1, CacheKept DEF Browser!vars, Browser!server
  <1>2. use.tabs \subseteq Actor /\ use.calls \subseteq Data BY DEF CacheInv
  <1>3. ASSUME NEW t \in Actor, Browser!CacheExpires(t) PROVE CacheInv'
    <2>1. PICK m : m = [tab[t] EXCEPT !.cache = Browser!NoEntry] OBVIOUS
    <2>2. tab[t] \in Page /\ call[t] \in [Data -> Asked] /\ version \in Nat BY DEF CacheInv
    <2>3. m \in Page /\ m.cache = Browser!NoEntry /\ m.seen = tab[t].seen
      BY <2>1, <2>2, MemoryIsEmpty DEF Page
    <2>4. /\ tab' = [tab EXCEPT ![t] = m] /\ call' = [call EXCEPT ![t] = call[t]]
          /\ UNCHANGED <<use, version>>
      BY <1>3, <2>1 DEF Browser!CacheExpires, Browser!server, CacheInv
    <2>5. Cached(m) /\ \A c \in Data : call[t][c].version <= version /\ Follows(call[t][c], m)
      BY <2>3 DEF CacheInv, Cached, Follows
    <2>6. version' \in Nat /\ version <= version' /\ m.seen <= version'
      BY <2>2, <2>3, <2>4 DEF CacheInv
    <2> QED BY <2>2, <2>3, <2>4, <2>5, <2>6, TabGoesOn
  <1> QED BY <1>1, <1>2, <1>3, SessionKeepsCache, CallKeepsCache DEF Browser!Next

\* For every number of tabs and of requests: what a tab has cached includes every write of
\* that tab that was answered, unless it was asked for before that answer.
THEOREM CacheIsCurrent == OfficeSpec => []CacheFollowsWrites
  <1> DEFINE Inv == scenario = "web" => CacheInv
  <1>1. OfficeInit => Inv
    BY CacheAtFirst DEF OfficeInit
  <1>2. Inv /\ [OfficeNext]_officeVars => Inv'
    BY ScenarioStays, BrowserFollows, CacheStep
  <1>3. Inv => CacheFollowsWrites
    BY DEF CacheInv, Cached, CacheFollowsWrites, Browser!CacheFollowsWrites
  <1> QED BY <1>1, <1>2, <1>3, PTL DEF OfficeSpec

-----------------------------------------------------------------------------
(* What Account!TypeOK says beyond AccountTypes.                              *)
KnownUser == [registered : BOOLEAN, verified : BOOLEAN, failures : 0 .. MaxFailures,
              locked : BOOLEAN]
VisitLabel ==
    {"idle", "register", "send", "link", "failed", "passed", "grant", "challenge", "rotate",
     "replace", "change", "begin", "confirm", "clear", "disable", "regenerate"}

AccountFits ==
    /\ uses \in UseSets /\ user \in KnownUser
    /\ mfa.resets <= MaxResets /\ mfa.sets <= MaxSets /\ codes \subseteq RecoveryCode
    /\ issued <= MaxSessions
    /\ \A r \in Actor : visit[r].at \in VisitLabel

LEMMA AccountFitsAtFirst == Account!Init => AccountFits
  <1> SUFFICES ASSUME Account!Init PROVE AccountFits OBVIOUS
  <1>1. MaxFailures \in Nat \ {0}
    BY BackOfficeAssumption DEF BackOfficeAssumption, Account!AccountsAssumption
  <1>2. uses \in UseSets /\ issued = 0 /\ (codes = RecoveryCode \/ codes = {}) BY DEF Account!Init
  <1>3. user \in KnownUser
    <2>1. PICK known \in BOOLEAN :
            user = [registered |-> known, verified |-> known, failures |-> 0, locked |-> FALSE]
      BY DEF Account!Init
    <2> QED BY <1>1, <2>1 DEF KnownUser
  <1>4. mfa.resets = 0 /\ mfa.sets = 0
    <2>1. PICK on \in BOOLEAN : mfa = [on |-> on, pending |-> "none", last |-> 0, resets |-> 0,
                                      sets |-> 0]
      BY DEF Account!Init
    <2> QED BY <2>1
  <1>5. \A r \in Actor : visit[r].at = "idle" BY DEF Account!Init, Account!Idle
  <1>6. MaxResets \in Nat /\ MaxSets \in Nat /\ MaxSessions \in Nat BY StepsAreNumbers
  <1> QED BY <1>2, <1>3, <1>4, <1>5, <1>6 DEF AccountFits, VisitLabel


(* One row of the user after another.                                          *)
LEMMA UserWritten ==
    ASSUME AccountFits, NEW n \in 0 .. MaxFailures, 0 \in 0 .. MaxFailures,
           \/ user' = user \/ user' = [user EXCEPT !.registered = TRUE]
           \/ user' = [user EXCEPT !.verified = TRUE]
           \/ user' = [user EXCEPT !.failures = 0, !.locked = FALSE]
           \/ user' = [user EXCEPT !.verified = TRUE, !.failures = 0, !.locked = FALSE]
           \/ user' = [user EXCEPT !.failures = n]
           \/ user' = [user EXCEPT !.locked = TRUE] \/ user' = [user EXCEPT !.locked = FALSE]
    PROVE  user' \in KnownUser
  <1>1. PICK g \in BOOLEAN, v \in BOOLEAN, m \in 0 .. MaxFailures, l \in BOOLEAN :
             user = [registered |-> g, verified |-> v, failures |-> m, locked |-> l]
    BY DEF AccountFits, KnownUser
  <1>2. /\ TRUE \in BOOLEAN /\ FALSE \in BOOLEAN
        /\ \/ user' = [registered |-> g, verified |-> v, failures |-> m, locked |-> l]
           \/ user' = [registered |-> TRUE, verified |-> v, failures |-> m, locked |-> l]
           \/ user' = [registered |-> g, verified |-> TRUE, failures |-> m, locked |-> l]
           \/ user' = [registered |-> g, verified |-> v, failures |-> 0, locked |-> FALSE]
           \/ user' = [registered |-> g, verified |-> TRUE, failures |-> 0, locked |-> FALSE]
           \/ user' = [registered |-> g, verified |-> v, failures |-> n, locked |-> l]
           \/ user' = [registered |-> g, verified |-> v, failures |-> m, locked |-> TRUE]
           \/ user' = [registered |-> g, verified |-> v, failures |-> m, locked |-> FALSE]
    BY <1>1
  <1>3. ASSUME NEW a \in BOOLEAN, NEW b \in BOOLEAN, NEW c \in 0 .. MaxFailures, NEW d \in BOOLEAN
        PROVE  [registered |-> a, verified |-> b, failures |-> c, locked |-> d] \in KnownUser
    BY DEF KnownUser
  <1>4. \E a \in BOOLEAN, b \in BOOLEAN, c \in 0 .. MaxFailures, d \in BOOLEAN :
          user' = [registered |-> a, verified |-> b, failures |-> c, locked |-> d]
    BY <1>2, Zenon
  <1> QED BY <1>3, <1>4

\* The user's row changes in a sign-in, by a link and as time passes.
LEMMA UserFits ==
    ASSUME AccountFits, [Account!Next]_(Account!vars)
    PROVE  uses' \in UseSets /\ user' \in KnownUser
  <1>1. MaxFailures \in Nat \ {0} /\ 0 \in 0 .. MaxFailures
    BY BackOfficeAssumption DEF BackOfficeAssumption, Account!AccountsAssumption
  <1>2. PICK k \in 0 .. MaxFailures : k = user.failures BY DEF AccountFits, KnownUser
  <1>3. ASSUME NEW r \in Actor, Account!LinkStep(r)
        PROVE  uses' = uses /\ user' \in KnownUser
    <2>1. /\ uses' = uses
          /\ \/ user' = user \/ user' = [user EXCEPT !.registered = TRUE]
             \/ user' = [user EXCEPT !.verified = TRUE]
             \/ user' = [user EXCEPT !.failures = 0, !.locked = FALSE]
             \/ user' = [user EXCEPT !.verified = TRUE, !.failures = 0, !.locked = FALSE]
      BY <1>3, Zenon
         DEF Account!LinkStep, Account!CheckEmail, Account!Register, Account!RequestLink,
             Account!SendLink, Account!ReadLink, Account!VerifyEmail, Account!ResetPassword,
             Account!RecoverAccount
    <2> QED BY <1>1, <2>1, UserWritten
  <1>4. ASSUME NEW r \in Actor, Account!LoginStep(r)
        PROVE  uses' = uses /\ user' \in KnownUser
    <2> DEFINE count == IF user.failures < MaxFailures THEN user.failures + 1 ELSE MaxFailures
    <2>1. /\ uses' = uses
          /\ \/ user' = user \/ user' = [user EXCEPT !.failures = count]
             \/ user' = [user EXCEPT !.locked = TRUE]
             \/ user' = [user EXCEPT !.failures = 0, !.locked = FALSE]
      BY <1>4, Zenon
         DEF Account!LoginStep, Account!ReadLogin, Account!CountFailure, Account!Lock,
             Account!ResetFailures, Account!Challenge, Account!SignIn, Account!ReadChallenge,
             Account!RejectCode, Account!RollBack, Account!AcceptCode
    <2>2. count \in 0 .. MaxFailures BY <1>1, <1>2
    <2> HIDE DEF count
    <2> QED BY <1>1, <2>1, <2>2, UserWritten
  <1>5. ASSUME NEW r \in Actor, Account!FactorStep(r) \/ Account!SessionStep(r)
        PROVE  uses' = uses /\ user' \in KnownUser
    <2>1. uses' = uses /\ user' = user
      BY <1>5
         DEF Account!FactorStep, Account!CheckSetup, Account!BeginSetup, Account!ReadSetup,
             Account!ClearSetup, Account!CheckFactor, Account!ConfirmSetup, Account!DisableMfa,
             Account!RegenerateCodes, Account!SessionStep, Account!CheckPassword,
             Account!ChangePassword, Account!ClaimRotation, Account!Replace,
             Account!ReadRotation
    <2> QED BY <2>1 DEF AccountFits
  <1>6. CASE \/ \E s \in 1 .. issued : Account!Logout(s)
             \/ \E l \in DOMAIN links : Account!ExpireLink(l)
             \/ \E c \in DOMAIN challenges : Account!ExpireChallenge(c)
             \/ Account!ExpireSetup \/ Account!Unlock \/ UNCHANGED Account!vars
    <2>1. uses' = uses /\ (user' = user \/ user' = [user EXCEPT !.locked = FALSE])
      BY <1>6, Zenon
         DEF Account!Logout, Account!ExpireLink, Account!ExpireChallenge, Account!ExpireSetup,
             Account!Unlock, Account!vars
    <2> QED BY <1>1, <2>1, UserWritten DEF AccountFits
  <1> QED BY <1>3, <1>4, <1>5, <1>6 DEF Account!Next, AccountFits

(* What the factor may become.                                                 *)
FactorMoves ==
    \/ mfa' = mfa /\ codes' = codes
    \/ Account!Disabled
    \/ \E p \in {"none", "fresh", "expired"} : mfa' = [mfa EXCEPT !.pending = p] /\ codes' = codes
    \/ \E l, code : mfa' = [mfa EXCEPT !.last = l] /\ codes' = codes \ {code}
    \/ \E l : /\ mfa.sets < MaxSets /\ mfa.resets < MaxResets /\ codes' = RecoveryCode
              /\ mfa' = [on |-> TRUE, pending |-> "none", last |-> l, resets |-> mfa.resets + 1,
                         sets |-> mfa.sets + 1]
    \/ \E l : /\ mfa.sets < MaxSets /\ codes' = RecoveryCode
              /\ mfa' = [mfa EXCEPT !.last = l, !.sets = @ + 1]

LEMMA FactorMoved ==
    ASSUME SpentInv, AccountFits, FactorMoves
    PROVE  mfa'.resets <= MaxResets /\ mfa'.sets <= MaxSets /\ codes' \subseteq RecoveryCode
  <1>1. PICK on \in BOOLEAN, pending \in {"none", "fresh", "expired"}, last \in Step \cup {0},
             resets \in Nat, sets \in Nat :
             mfa = [on |-> on, pending |-> pending, last |-> last, resets |-> resets,
                    sets |-> sets]
    BY DEF SpentInv, AccountTypes, Factor
  <1>2. /\ resets <= MaxResets /\ sets <= MaxSets /\ codes \subseteq RecoveryCode
        /\ MaxResets \in Nat /\ MaxSets \in Nat
    BY <1>1, StepsAreNumbers DEF AccountFits
  <1>3. /\ mfa'.resets = resets \/ (resets < MaxResets /\ mfa'.resets = resets + 1)
        /\ mfa'.sets = sets \/ (sets < MaxSets /\ mfa'.sets = sets + 1)
    <2>0. mfa.resets = resets /\ mfa.sets = sets BY <1>1
    <2>1. CASE mfa' = mfa BY <2>0, <2>1
    <2>2. CASE Account!Disabled
      <3>1. PICK n : n = resets + 1 OBVIOUS
      <3>2. mfa' = [mfa EXCEPT !.on = FALSE, !.pending = "none", !.last = 0, !.resets = n]
        BY <2>0, <2>2, <3>1 DEF Account!Disabled
      <3>3. mfa'.resets = n /\ mfa'.sets = sets BY <1>1, <3>2
      <3> QED BY <2>0, <2>2, <3>1, <3>3 DEF Account!Disabled
    <2>3. ASSUME NEW p, mfa' = [mfa EXCEPT !.pending = p]
          PROVE  mfa'.resets = resets /\ mfa'.sets = sets
      BY <1>1, <2>3
    <2>4. ASSUME NEW l, mfa' = [mfa EXCEPT !.last = l]
          PROVE  mfa'.resets = resets /\ mfa'.sets = sets
      BY <1>1, <2>4
    <2>5. ASSUME NEW l, mfa.sets < MaxSets, mfa.resets < MaxResets,
                 mfa' = [on |-> TRUE, pending |-> "none", last |-> l, resets |-> mfa.resets + 1,
                         sets |-> mfa.sets + 1]
          PROVE  <1>3!1 /\ <1>3!2
      BY <2>0, <2>5
    <2>6. ASSUME NEW l, mfa.sets < MaxSets, mfa' = [mfa EXCEPT !.last = l, !.sets = @ + 1]
          PROVE  <1>3!1 /\ <1>3!2
      <3>1. PICK n : n = sets + 1 OBVIOUS
      <3>2. mfa' = [mfa EXCEPT !.last = l, !.sets = n] BY <2>0, <2>6, <3>1
      <3>3. mfa'.resets = resets /\ mfa'.sets = n BY <1>1, <3>2
      <3> QED BY <2>0, <2>6, <3>1, <3>3
    <2> QED BY <2>1, <2>2, <2>3, <2>4, <2>5, <2>6 DEF FactorMoves
  <1>5. codes' \subseteq RecoveryCode BY <1>2 DEF FactorMoves, Account!Disabled
  <1> QED BY <1>2, <1>3, <1>5

\* The factor is reset, and codes are made, no more than the model counts.
LEMMA FactorFits ==
    ASSUME SpentInv, AccountFits, [Account!Next]_(Account!vars)
    PROVE  FactorMoves
  <1>1. ASSUME NEW r \in Actor, Account!LinkStep(r)
        PROVE  FactorMoves
    <2>1. Account!Disabled \/ (mfa' = mfa /\ codes' = codes)
      BY <1>1, Zenon
         DEF Account!LinkStep, Account!CheckEmail, Account!Register, Account!RequestLink,
             Account!SendLink, Account!ReadLink, Account!VerifyEmail, Account!ResetPassword,
             Account!RecoverAccount
    <2> QED BY <2>1 DEF FactorMoves
  <1>2. ASSUME NEW r \in Actor, Account!LoginStep(r)
        PROVE  FactorMoves
    <2>1. \/ mfa' = mfa /\ codes' = codes
          \/ \E code : /\ mfa' = [mfa EXCEPT !.last = Account!LastStep(code)]
                        /\ codes' = codes \ {code}
      BY <1>2, Zenon
         DEF Account!LoginStep, Account!ReadLogin, Account!CountFailure, Account!Lock,
             Account!ResetFailures, Account!Challenge, Account!SignIn, Account!ReadChallenge,
             Account!RejectCode, Account!RollBack, Account!AcceptCode
    <2> QED BY <2>1 DEF FactorMoves
  <1>3. ASSUME NEW r \in Actor, Account!FactorStep(r)
        PROVE  FactorMoves
    <2>1. CASE Account!CheckSetup(r) \/ Account!ReadSetup(r) \/ Account!CheckFactor(r)
      BY <2>1 DEF Account!CheckSetup, Account!ReadSetup, Account!CheckFactor, FactorMoves
    <2>2. CASE Account!BeginSetup(r) \/ Account!ClearSetup(r)
      BY <2>2 DEF Account!BeginSetup, Account!ClearSetup, FactorMoves
    <2>3. ASSUME NEW step \in Step, Account!ConfirmSetup(r, step) PROVE FactorMoves
      BY <2>3 DEF Account!ConfirmSetup, FactorMoves
    <2>4. ASSUME NEW code \in Account!Code,
                 Account!DisableMfa(r, code) \/ Account!RegenerateCodes(r, code)
          PROVE  FactorMoves
      BY <2>4 DEF Account!DisableMfa, Account!RegenerateCodes, FactorMoves
    <2> QED BY <1>3, <2>1, <2>2, <2>3, <2>4 DEF Account!FactorStep
  <1>4. ASSUME NEW r \in Actor, Account!SessionStep(r)
        PROVE  FactorMoves
    BY <1>4 DEF Account!SessionStep, Account!CheckPassword, Account!ChangePassword,
       Account!ClaimRotation, Account!Replace, Account!ReadRotation, FactorMoves
  <1>5. CASE \/ \E s \in 1 .. issued : Account!Logout(s)
             \/ \E l \in DOMAIN links : Account!ExpireLink(l)
             \/ \E c \in DOMAIN challenges : Account!ExpireChallenge(c)
             \/ Account!Unlock \/ UNCHANGED Account!vars
    <2>1. mfa' = mfa /\ codes' = codes
      BY <1>5 DEF Account!Logout, Account!ExpireLink, Account!ExpireChallenge, Account!Unlock,
         Account!vars
    <2> QED BY <2>1 DEF FactorMoves
  <1>6. CASE Account!ExpireSetup BY <1>6 DEF Account!ExpireSetup, FactorMoves
  <1> QED BY <1>1, <1>2, <1>3, <1>4, <1>5, <1>6 DEF Account!Next

\* Sessions are issued one at a time, up to the bound.
LEMMA IssuedFits ==
    ASSUME SpentInv, AccountFits, [Account!Next]_(Account!vars)
    PROVE  issued' <= MaxSessions
  <1>1. issued' = issued \/ Account!NewSession
    <2>1. ASSUME NEW r \in Actor, Account!LinkStep(r) PROVE issued' = issued
      BY <2>1, Zenon
         DEF Account!LinkStep, Account!CheckEmail, Account!Register, Account!RequestLink,
             Account!SendLink, Account!ReadLink, Account!VerifyEmail, Account!ResetPassword,
             Account!RecoverAccount
    <2>2. ASSUME NEW r \in Actor, Account!LoginStep(r)
          PROVE  issued' = issued \/ Account!NewSession
      BY <2>2, Zenon
         DEF Account!LoginStep, Account!ReadLogin, Account!CountFailure, Account!Lock,
             Account!ResetFailures, Account!Challenge, Account!SignIn, Account!ReadChallenge,
             Account!RejectCode, Account!RollBack, Account!AcceptCode
    <2>3. ASSUME NEW r \in Actor, Account!FactorStep(r) PROVE issued' = issued
      BY <2>3, Zenon
         DEF Account!FactorStep, Account!CheckSetup, Account!BeginSetup, Account!ReadSetup,
             Account!ClearSetup, Account!CheckFactor, Account!ConfirmSetup, Account!DisableMfa,
             Account!RegenerateCodes
    <2>4. ASSUME NEW r \in Actor, Account!SessionStep(r)
          PROVE  issued' = issued \/ Account!NewSession
      BY <2>4, Zenon
         DEF Account!SessionStep, Account!CheckPassword, Account!ChangePassword,
             Account!ClaimRotation, Account!Replace, Account!ReadRotation
    <2>5. CASE \/ \E s \in 1 .. issued : Account!Logout(s)
               \/ \E l \in DOMAIN links : Account!ExpireLink(l)
               \/ \E c \in DOMAIN challenges : Account!ExpireChallenge(c)
               \/ Account!ExpireSetup \/ Account!Unlock \/ UNCHANGED Account!vars
      BY <2>5, Zenon
         DEF Account!Logout, Account!ExpireLink, Account!ExpireChallenge, Account!ExpireSetup,
             Account!Unlock, Account!vars
    <2> QED BY <2>1, <2>2, <2>3, <2>4, <2>5 DEF Account!Next
  <1> QED
    BY <1>1, StepsAreNumbers DEF Account!NewSession, AccountFits, SpentInv, AccountTypes

(* What a request holds next, of one that is at most as far as the labels say. *)
LEMMA VisitFits ==
    ASSUME SpentInv, AccountFits, NEW r \in Actor, NEW v, v.at \in VisitLabel,
           visit' = [visit EXCEPT ![r] = v]
    PROVE  \A q \in Actor : visit'[q].at \in VisitLabel
  <1>1. visit = [q \in Actor |-> visit[q]] BY DEF SpentInv, AccountTypes
  <1> QED BY <1>1 DEF AccountFits

LEMMA VisitEnds ==
    ASSUME SpentInv, AccountFits, NEW r \in Actor, Account!End(r)
    PROVE  \A q \in Actor : visit'[q].at \in VisitLabel
  <1>1. PICK v : v = Account!Idle OBVIOUS
  <1>2. v.at \in VisitLabel BY <1>1 DEF Account!Idle, VisitLabel
  <1>3. visit' = [visit EXCEPT ![r] = v] BY <1>1 DEF Account!End
  <1> QED BY <1>2, <1>3, VisitFits

LEMMA VisitBegins ==
    ASSUME SpentInv, AccountFits, NEW r \in Actor, NEW v, v.at \in VisitLabel,
           Account!Begin(r, v)
    PROVE  \A q \in Actor : visit'[q].at \in VisitLabel
  <1>1. visit' = [visit EXCEPT ![r] = v] BY DEF Account!Begin
  <1> QED BY <1>1, VisitFits

VisitsFit == \A q \in Actor : visit'[q].at \in VisitLabel

LEMMA LinkVisits ==
    ASSUME SpentInv, AccountFits, NEW r \in Actor, Account!LinkStep(r)
    PROVE  VisitsFit
  <1>1. CASE \/ Account!Register(r) \/ Account!SendLink(r) \/ Account!VerifyEmail(r)
             \/ Account!ResetPassword(r) \/ Account!RecoverAccount(r)
    <2>1. Account!End(r)
      BY <1>1, Zenon
         DEF Account!Register, Account!SendLink, Account!VerifyEmail, Account!ResetPassword,
             Account!RecoverAccount
    <2> QED BY <2>1, VisitEnds DEF VisitsFit
  <1>2. CASE Account!CheckEmail(r)
    <2>1. PICK v : v = [at |-> "register"] OBVIOUS
    <2>2. Account!Begin(r, v) BY <1>2, <2>1 DEF Account!CheckEmail
    <2>3. v.at \in VisitLabel BY <2>1 DEF VisitLabel
    <2> QED BY <2>2, <2>3, VisitBegins DEF VisitsFit
  <1>3. ASSUME NEW t \in Account!LinkType, Account!RequestLink(r, t) PROVE VisitsFit
    <2> DEFINE older == {l \in DOMAIN links : links[l].type = t /\ links[l].state # "consumed"}
    <2>1. PICK v : v = [at |-> "send", type |-> t, older |-> older] OBVIOUS
    <2>2. Account!Begin(r, v) BY <1>3, <2>1, Zenon DEF Account!RequestLink
    <2> HIDE DEF older
    <2>3. v.at \in VisitLabel BY <2>1 DEF VisitLabel
    <2> QED BY <2>2, <2>3, VisitBegins DEF VisitsFit
  <1>4. ASSUME NEW l \in DOMAIN links, Account!ReadLink(r, l) PROVE VisitsFit
    <2>1. PICK v : v = [at |-> "link", link |-> l, proof |-> <<"link", l>>,
                        before |-> used[<<"link", l>>]]
      OBVIOUS
    <2>2. Account!Begin(r, v) BY <1>4, <2>1, Zenon DEF Account!ReadLink
    <2>3. v.at \in VisitLabel BY <2>1 DEF VisitLabel
    <2> QED BY <2>2, <2>3, VisitBegins DEF VisitsFit
  <1> QED BY <1>1, <1>2, <1>3, <1>4 DEF Account!LinkStep

LEMMA LoginVisits ==
    ASSUME SpentInv, AccountFits, NEW r \in Actor, Account!LoginStep(r)
    PROVE  VisitsFit
  <1>1. CASE \/ Account!Lock(r) \/ Account!Challenge(r) \/ Account!SignIn(r)
             \/ Account!RejectCode(r) \/ Account!RollBack(r)
             \/ \E code \in Account!Code : Account!AcceptCode(r, code)
    <2>1. Account!End(r)
      BY <1>1, Zenon DEF Account!Lock, Account!Challenge, Account!SignIn, Account!RejectCode,
         Account!RollBack, Account!AcceptCode
    <2> QED BY <2>1, VisitEnds DEF VisitsFit
  <1>2. CASE Account!ReadLogin(r)
    <2>1. PICK v : v = [at |-> "failed", count |-> 0] OBVIOUS
    <2>2. PICK w : w = [at |-> "passed", factor |-> mfa.on] OBVIOUS
    <2>3. Account!Begin(r, v) \/ Account!Begin(r, w)
      BY <1>2, <2>1, <2>2, Zenon DEF Account!ReadLogin
    <2>4. v.at \in VisitLabel /\ w.at \in VisitLabel BY <2>1, <2>2 DEF VisitLabel
    <2> QED BY <2>3, <2>4, VisitBegins DEF VisitsFit
  <1>3. CASE Account!CountFailure(r)
    <2>1. visit[r] = [at |-> "failed", count |-> visit[r].count]
      BY <1>3 DEF Account!CountFailure, SpentInv, VisitsRead, ReadBefore
    <2>2. PICK old : visit[r] = [at |-> "failed", count |-> old] BY <2>1
    <2>3. Account!End(r) \/ \E n : visit' = [visit EXCEPT ![r].count = n]
      BY <1>3, Zenon DEF Account!CountFailure
    <2>4. ASSUME NEW n, visit' = [visit EXCEPT ![r].count = n] PROVE VisitsFit
      <3>1. PICK v : v = [visit[r] EXCEPT !.count = n] OBVIOUS
      <3>2. visit' = [visit EXCEPT ![r] = v] BY <2>4, <3>1
      <3>3. v.at \in VisitLabel BY <2>2, <3>1 DEF VisitLabel
      <3> QED BY <3>2, <3>3, VisitFits DEF VisitsFit
    <2> QED BY <2>3, <2>4, VisitEnds DEF VisitsFit
  <1>4. CASE Account!ResetFailures(r)
    <2>1. visit[r] = [at |-> "passed", factor |-> visit[r].factor]
      BY <1>4 DEF Account!ResetFailures, SpentInv, VisitsRead, ReadBefore
    <2>2. PICK old : visit[r] = [at |-> "passed", factor |-> old] BY <2>1
    <2>3. PICK v : v = [visit[r] EXCEPT !.at = "grant"] OBVIOUS
    <2>4. visit' = [visit EXCEPT ![r] = v] BY <1>4, <2>3 DEF Account!ResetFailures, Account!Then
    <2>5. v.at \in VisitLabel BY <2>2, <2>3 DEF VisitLabel
    <2> QED BY <2>4, <2>5, VisitFits DEF VisitsFit
  <1>5. ASSUME NEW c \in DOMAIN challenges, Account!ReadChallenge(r, c) PROVE VisitsFit
    <2>1. PICK v : v = [at |-> "challenge", challenge |-> c, attempts |-> challenges[c].attempts,
                        proof |-> <<"challenge", c>>, before |-> used[<<"challenge", c>>]]
      OBVIOUS
    <2>2. Account!Begin(r, v) BY <1>5, <2>1, Zenon DEF Account!ReadChallenge
    <2>3. v.at \in VisitLabel BY <2>1 DEF VisitLabel
    <2> QED BY <2>2, <2>3, VisitBegins DEF VisitsFit
  <1> QED BY <1>1, <1>2, <1>3, <1>4, <1>5 DEF Account!LoginStep

LEMMA RestVisits ==
    ASSUME SpentInv, AccountFits, NEW r \in Actor, Account!FactorStep(r) \/ Account!SessionStep(r)
    PROVE  VisitsFit
  <1>1. CASE \/ Account!BeginSetup(r) \/ Account!ClearSetup(r)
             \/ \E step \in Step : Account!ConfirmSetup(r, step)
             \/ \E code \in Account!Code :
                    Account!DisableMfa(r, code) \/ Account!RegenerateCodes(r, code)
             \/ Account!ChangePassword(r) \/ Account!Replace(r)
    <2>1. Account!End(r)
      BY <1>1, Zenon
         DEF Account!BeginSetup, Account!ClearSetup, Account!ConfirmSetup, Account!DisableMfa,
             Account!RegenerateCodes, Account!ChangePassword, Account!Replace
    <2> QED BY <2>1, VisitEnds DEF VisitsFit
  <1>2. ASSUME NEW label \in {"begin", "confirm", "clear", "disable", "regenerate", "change"},
               Account!Begin(r, [at |-> label])
        PROVE  VisitsFit
    <2>1. PICK v : v = [at |-> label] OBVIOUS
    <2>2. Account!Begin(r, v) BY <1>2, <2>1, Zenon
    <2>3. v.at \in VisitLabel BY <2>1 DEF VisitLabel
    <2> QED BY <2>2, <2>3, VisitBegins DEF VisitsFit
  <1>3. CASE \/ Account!CheckSetup(r) \/ Account!ReadSetup(r) \/ Account!CheckFactor(r)
             \/ Account!CheckPassword(r)
    <2>1. \E label \in {"begin", "confirm", "clear", "disable", "regenerate", "change"} :
              Account!Begin(r, [at |-> label])
      <3>1. CASE Account!CheckSetup(r) BY <3>1, Zenon DEF Account!CheckSetup
      <3>2. CASE Account!ReadSetup(r)
        <4>1. PICK label \in {"confirm", "clear"} :
                label = IF mfa.pending = "fresh" THEN "confirm" ELSE "clear"
          OBVIOUS
        <4>2. Account!Begin(r, [at |-> label]) BY <3>2, <4>1, Zenon DEF Account!ReadSetup
        <4> QED BY <4>2, Zenon
      <3>3. CASE Account!CheckFactor(r) BY <3>3, Zenon DEF Account!CheckFactor
      <3>4. CASE Account!CheckPassword(r) BY <3>4, Zenon DEF Account!CheckPassword
      <3> QED BY <1>3, <3>1, <3>2, <3>3, <3>4
    <2> QED BY <1>2, <2>1
  <1>4. ASSUME NEW s, Account!ReadRotation(r, s) PROVE VisitsFit
    <2>1. PICK v : v = [at |-> "rotate", session |-> s] OBVIOUS
    <2>2. Account!Begin(r, v) BY <1>4, <2>1, Zenon DEF Account!ReadRotation
    <2>3. v.at \in VisitLabel BY <2>1 DEF VisitLabel
    <2> QED BY <2>2, <2>3, VisitBegins DEF VisitsFit
  <1>5. CASE Account!ClaimRotation(r)
    <2>1. PICK s : visit[r] = [at |-> "rotate", session |-> s]
      BY <1>5 DEF Account!ClaimRotation, SpentInv, VisitsRead, ReadBefore
    <2>2. PICK v : v = [visit[r] EXCEPT !.at = "replace"] OBVIOUS
    <2>3. Account!End(r) \/ visit' = [visit EXCEPT ![r] = v]
      BY <1>5, <2>2 DEF Account!ClaimRotation, Account!Then
    <2>4. v.at \in VisitLabel BY <2>1, <2>2 DEF VisitLabel
    <2> QED BY <2>3, <2>4, VisitEnds, VisitFits DEF VisitsFit
  <1> QED BY <1>1, <1>3, <1>4, <1>5 DEF Account!FactorStep, Account!SessionStep

LEMMA AccountFitsStep ==
    ASSUME SpentInv, AccountFits, [Account!Next]_(Account!vars)
    PROVE  AccountFits'
  <1>1. VisitsFit
    <2>1. CASE \/ \E s \in 1 .. issued : Account!Logout(s)
               \/ \E l \in DOMAIN links : Account!ExpireLink(l)
               \/ \E c \in DOMAIN challenges : Account!ExpireChallenge(c)
               \/ Account!ExpireSetup \/ Account!Unlock \/ UNCHANGED Account!vars
      <3>1. visit' = visit
        BY <2>1, Zenon
           DEF Account!Logout, Account!ExpireLink, Account!ExpireChallenge, Account!ExpireSetup,
               Account!Unlock, Account!vars
      <3> QED BY <3>1 DEF AccountFits, VisitsFit
    <2> QED BY <2>1, LinkVisits, LoginVisits, RestVisits DEF Account!Next
  <1>2. mfa'.resets <= MaxResets /\ mfa'.sets <= MaxSets /\ codes' \subseteq RecoveryCode
    BY FactorFits, FactorMoved
  <1> QED BY <1>1, <1>2, UserFits, IssuedFits DEF AccountFits, VisitsFit

LEMMA AccountIsTyped == ASSUME SpentInv, AccountFits PROVE Account!TypeOK
  <1>1. mfa \in [on : BOOLEAN, pending : {"none", "fresh", "expired"}, last : Step \cup {0},
                 resets : 0 .. MaxResets, sets : 0 .. MaxSets]
    BY StepsAreNumbers DEF SpentInv, AccountTypes, AccountFits, Factor
  <1>2. issued \in 0 .. MaxSessions BY StepsAreNumbers DEF SpentInv, AccountTypes, AccountFits
  <1> QED
    BY <1>1, <1>2 DEF SpentInv, AccountTypes, AccountFits, SentLink, Challenged, KnownUser,
       VisitLabel, Account!TypeOK

-----------------------------------------------------------------------------
(* What Drafts!TypeOK says beyond DraftTypes, and what a request has read.     *)
Seen == SUBSET (Data \X (1 .. MaxRevisions))
Listed == [version : 0 .. MaxVersions, status : {"none", "BLOCKED", "READY"}, live : BOOLEAN,
           price : 0 .. MaxProposals, seen : Seen, catalog : 0 .. MaxRevisions]
Proposed == [number : 0 .. MaxProposals,
             status : {"none", "PENDING", "APPROVED", "OVERRIDDEN", "REJECTED"}]

EditFits(w) ==
    /\ w.at \in {"idle", "edit", "validate", "create", "write", "block", "fitment"}
    /\ w.at \in {"edit", "validate", "create", "write"} =>
           w.status \in {"BLOCKED", "READY"} /\ w.price \in 0 .. MaxProposals
    /\ w.at = "validate" => w.seen \in Seen /\ w.catalog \in 0 .. MaxRevisions
    /\ w.at = "fitment" => w.revision < MaxRevisions

DraftFits == draft \in Listed /\ (draft.version = 0 <=> draft.status = "none")

ApplicationsFit ==
    \A a \in Data : /\ fitment[a].revision <= MaxRevisions
                    /\ fitment[a].status # "none" => fitment[a].revision > 0

ListingFits ==
    /\ topic \in Topics /\ DraftFits /\ proposal \in Proposed /\ ApplicationsFit
    /\ catalog.number <= MaxRevisions
    /\ \A r \in Actor : EditFits(edit[r])

LEMMA ListingBounds == MaxVersions \in Nat /\ MaxRevisions \in Nat \ {0} /\ MaxProposals \in Nat
BY BackOfficeAssumption DEF BackOfficeAssumption, Drafts!ListingsAssumption

LEMMA ListingFitsAtFirst == Drafts!Init => ListingFits
  <1> SUFFICES ASSUME Drafts!Init PROVE ListingFits OBVIOUS
  <1>1. /\ 0 \in 0 .. MaxVersions /\ 0 \in 0 .. MaxProposals /\ 0 \in 0 .. MaxRevisions
        /\ {} \in Seen
    BY ListingBounds DEF Seen
  <1>2. DraftFits
    <2>1. draft = [version |-> 0, status |-> "none", live |-> FALSE, price |-> 0, seen |-> {},
                   catalog |-> 0]
      BY DEF Drafts!Init
    <2> QED BY <1>1, <2>1 DEF DraftFits, Listed
  <1>3. proposal \in Proposed BY <1>1 DEF Drafts!Init, Proposed
  <1>4. ApplicationsFit BY ListingBounds DEF Drafts!Init, ApplicationsFit
  <1>5. topic \in Topics /\ catalog.number <= MaxRevisions BY ListingBounds DEF Drafts!Init
  <1>6. \A r \in Actor : EditFits(edit[r])
    <2>1. PICK w : w = Drafts!Idle OBVIOUS
    <2>2. EditFits(w) BY <2>1 DEF EditFits, Drafts!Idle
    <2>3. \A r \in Actor : edit[r] = w BY <2>1 DEF Drafts!Init
    <2> QED BY <2>2, <2>3
  <1> QED BY <1>2, <1>3, <1>4, <1>5, <1>6 DEF ListingFits

\* What a version of the draft is written with.
LEMMA WriteFits ==
    ASSUME ListingFits, NEW base, NEW s \in {"BLOCKED", "READY"},
           NEW price \in 0 .. MaxProposals,
           NEW l \in BOOLEAN, NEW seen \in Seen, NEW data \in 0 .. MaxRevisions,
           Drafts!Write(base, s, price, l, seen, data)
    PROVE  DraftFits'
  <1>1. PICK n \in 0 .. MaxVersions : n = draft.version BY DEF ListingFits, DraftFits, Listed
  <1>2. n < MaxVersions /\ draft' = [version |-> n + 1, status |-> s, live |-> l, price |-> price,
                                     seen |-> seen, catalog |-> data]
    BY <1>1 DEF Drafts!Write
  <1>3. PICK m \in 1 .. MaxVersions : m = n + 1 BY <1>2, ListingBounds
  <1>4. draft' = [version |-> m, status |-> s, live |-> l, price |-> price, seen |-> seen,
                  catalog |-> data]
    BY <1>2, <1>3
  <1>5. m \in 0 .. MaxVersions /\ m # 0 BY <1>3
  <1> QED BY <1>4, <1>5 DEF DraftFits, Listed

LEMMA BlockFits ==
    ASSUME ListingFits, NEW base, Drafts!Block(base)
    PROVE  DraftFits'
  <1>1. CASE Drafts!Write(base, "BLOCKED", draft.price, FALSE, {}, 0)
    <2>1. 0 \in 0 .. MaxRevisions /\ {} \in Seen BY ListingBounds DEF Seen
    <2>2. draft.price \in 0 .. MaxProposals BY DEF ListingFits, DraftFits, Listed
    <2> QED BY <1>1, <2>1, <2>2, WriteFits
  <1>2. CASE draft' = draft BY <1>2 DEF ListingFits, DraftFits
  <1> QED BY <1>1, <1>2 DEF Drafts!Block

LEMMA EditsFit ==
    ASSUME DraftInv, ListingFits, NEW r \in Actor, NEW w, EditFits(w),
           edit' = [edit EXCEPT ![r] = w]
    PROVE  \A q \in Actor : EditFits(edit'[q])
  <1>1. edit = [q \in Actor |-> edit[q]] BY DEF DraftInv, DraftTypes
  <1> QED BY <1>1 DEF ListingFits

EditsAreFit == \A q \in Actor : EditFits(edit[q])

LEMMA EditEnds ==
    ASSUME DraftInv, ListingFits, NEW r \in Actor, Drafts!End(r)
    PROVE  EditsAreFit'
  <1>1. PICK w : w = Drafts!Idle OBVIOUS
  <1>2. EditFits(w) BY <1>1 DEF EditFits, Drafts!Idle
  <1>3. edit' = [edit EXCEPT ![r] = w] BY <1>1 DEF Drafts!End, Drafts!Become
  <1> QED BY <1>2, <1>3, EditsFit DEF EditsAreFit

\* A step that only reads.
LEMMA ReadFits ==
    ASSUME DraftInv, ListingFits, NEW r \in Actor, NEW w, EditFits(w),
           Drafts!Begin(r, w) \/ Drafts!Become(r, w),
           UNCHANGED <<topic, draft, proposal, fitment, catalog, missed>>
    PROVE  ListingFits'
  <1>1. edit' = [edit EXCEPT ![r] = w] BY DEF Drafts!Begin, Drafts!Become
  <1>2. EditsAreFit' BY <1>1, EditsFit DEF EditsAreFit
  <1> QED BY <1>2 DEF ListingFits, EditsAreFit, DraftFits, ApplicationsFit

LEMMA PricesFit ==
    ASSUME ListingFits
    PROVE  /\ Drafts!ApprovedPrice \in 0 .. MaxProposals
           /\ Drafts!ProposedPrice \in 0 .. MaxProposals
           /\ proposal.number \in 0 .. MaxProposals /\ draft.price \in 0 .. MaxProposals
           /\ 0 \in 0 .. MaxProposals
           /\ \A price, approval, complete :
                  Drafts!Readiness(price, approval, complete) \in {"BLOCKED", "READY"}
  <1>1. proposal.number \in 0 .. MaxProposals /\ draft.price \in 0 .. MaxProposals
    BY DEF ListingFits, DraftFits, Listed, Proposed
  <1>2. 0 \in 0 .. MaxProposals BY ListingBounds
  <1> QED BY <1>1, <1>2 DEF Drafts!ApprovedPrice, Drafts!ProposedPrice, Drafts!Readiness

LEMMA CompatibilityFits == ASSUME DraftInv, ListingFits PROVE Drafts!Compatibility \in Seen
  <1>1. ASSUME NEW a \in Drafts!Approved
        PROVE  <<a, fitment[a].revision>> \in Data \X (1 .. MaxRevisions)
    <2>1. a \in Data /\ fitment[a].status = "APPROVED" BY DEF Drafts!Approved
    <2>2. fitment[a].revision \in Nat BY <2>1 DEF DraftInv, DraftTypes, Applications, Revised
    <2>3. fitment[a].revision \in 1 .. MaxRevisions
      BY <2>1, <2>2, ListingBounds DEF ListingFits, ApplicationsFit
    <2> QED BY <2>1, <2>3
  <1> QED BY <1>1 DEF Drafts!Compatibility, Seen

\* A step that writes the draft, and perhaps the catalog or the applications, and ends.
LEMMA EndFits ==
    ASSUME DraftInv, ListingFits, NEW r \in Actor, Drafts!End(r), DraftFits', ApplicationsFit',
           UNCHANGED <<topic, proposal>>, catalog'.number <= MaxRevisions
    PROVE  ListingFits'
  <1>1. EditsAreFit' BY EditEnds
  <1> QED BY <1>1 DEF ListingFits, EditsAreFit

LEMMA ReadsFit ==
    ASSUME DraftInv, ListingFits, NEW r \in Actor,
           \/ \E price \in {0, draft.price, proposal.number} : Drafts!ReadForEdit(r, price)
           \/ Drafts!ReadForValidation(r) \/ Drafts!ReadPart(r) \/ Drafts!ReadForCatalog(r)
           \/ Drafts!ReadDraft(r) \/ Drafts!OpenDecision(r)
           \/ \E a \in Data, d \in Drafts!Decision : Drafts!ReadApplication(r, a, d)
    PROVE  ListingFits'
  <1>1. ASSUME NEW price \in {0, draft.price, proposal.number}, Drafts!ReadForEdit(r, price)
        PROVE  ListingFits'
    <2>1. PICK complete \in BOOLEAN :
             Drafts!Begin(r, [at |-> "edit", version |-> draft.version, price |-> price,
                              status |-> Drafts!Readiness(price, Drafts!ApprovedPrice, complete)])
      BY <1>1, Zenon DEF Drafts!ReadForEdit
    <2>2. PICK n \in 0 .. MaxProposals, s \in {"BLOCKED", "READY"} :
             n = price /\ s = Drafts!Readiness(price, Drafts!ApprovedPrice, complete)
      BY PricesFit
    <2>3. PICK w : w = [at |-> "edit", version |-> draft.version, price |-> n,
                        status |-> s]
      OBVIOUS
    <2>4. Drafts!Begin(r, w) BY <2>1, <2>2, <2>3, Zenon
    <2>5. EditFits(w) BY <2>3 DEF EditFits
    <2>6. UNCHANGED <<topic, draft, proposal, fitment, catalog, missed>>
      BY <1>1, Zenon DEF Drafts!ReadForEdit
    <2> QED BY <2>4, <2>5, <2>6, ReadFits
  <1>2. CASE Drafts!ReadForValidation(r)
    <2>1. PICK complete \in BOOLEAN :
             Drafts!Begin(r, [at |-> "validate", version |-> draft.version, price |-> draft.price,
                              status |-> Drafts!Readiness(draft.price, Drafts!ApprovedPrice,
                                                          complete),
                              seen |-> Drafts!Compatibility, catalog |-> catalog.number])
      BY <1>2, Zenon DEF Drafts!ReadForValidation
    <2>2. PICK n \in 0 .. MaxProposals, s \in {"BLOCKED", "READY"} :
             n = draft.price /\ s = Drafts!Readiness(draft.price, Drafts!ApprovedPrice, complete)
      BY PricesFit
    <2>3. PICK seen \in Seen, m \in 0 .. MaxRevisions :
             seen = Drafts!Compatibility /\ m = catalog.number
      BY CompatibilityFits, ListingBounds DEF ListingFits, DraftInv, DraftTypes
    <2>4. PICK w : w = [at |-> "validate", version |-> draft.version, price |-> n, status |-> s,
                        seen |-> seen, catalog |-> m]
      OBVIOUS
    <2>5. Drafts!Begin(r, w) BY <2>1, <2>2, <2>3, <2>4, Zenon
    <2>6. EditFits(w) BY <2>4 DEF EditFits
    <2>7. UNCHANGED <<topic, draft, proposal, fitment, catalog, missed>>
      BY <1>2, Zenon DEF Drafts!ReadForValidation
    <2> QED BY <2>5, <2>6, <2>7, ReadFits
  <1>3. CASE Drafts!ReadPart(r)
    <2>1. PICK complete \in BOOLEAN :
             Drafts!Begin(r, [at |-> "create", price |-> Drafts!ProposedPrice,
                              status |-> Drafts!Readiness(Drafts!ProposedPrice,
                                                          Drafts!ApprovedPrice,
                                                          complete)])
      BY <1>3, Zenon DEF Drafts!ReadPart
    <2>2. PICK n \in 0 .. MaxProposals, s \in {"BLOCKED", "READY"} :
             /\ n = Drafts!ProposedPrice
             /\ s = Drafts!Readiness(Drafts!ProposedPrice, Drafts!ApprovedPrice, complete)
      BY PricesFit
    <2>3. PICK w : w = [at |-> "create", price |-> n, status |-> s] OBVIOUS
    <2>4. Drafts!Begin(r, w) BY <2>1, <2>2, <2>3, Zenon
    <2>5. EditFits(w) BY <2>3 DEF EditFits
    <2>6. UNCHANGED <<topic, draft, proposal, fitment, catalog, missed>>
      BY <1>3, Zenon DEF Drafts!ReadPart
    <2> QED BY <2>4, <2>5, <2>6, ReadFits
  <1>4. CASE Drafts!ReadForCatalog(r)
    <2>1. PICK w : w = [at |-> "block", version |-> draft.version] OBVIOUS
    <2>2. Drafts!Begin(r, w) BY <1>4, <2>1, Zenon DEF Drafts!ReadForCatalog
    <2>3. EditFits(w) BY <2>1 DEF EditFits
    <2>4. UNCHANGED <<topic, draft, proposal, fitment, catalog, missed>>
      BY <1>4, Zenon DEF Drafts!ReadForCatalog
    <2> QED BY <2>2, <2>3, <2>4, ReadFits
  <1>5. CASE Drafts!ReadDraft(r)
    <2>1. edit[r].at = "create" /\ UNCHANGED <<topic, draft, proposal, fitment, catalog, missed>>
      BY <1>5, Zenon DEF Drafts!ReadDraft
    <2>2. PICK n \in 0 .. MaxProposals, s \in {"BLOCKED", "READY"} :
             n = edit[r].price /\ s = edit[r].status
      BY <2>1 DEF ListingFits, EditFits
    <2>3. PICK w : w = [at |-> "write", version |-> draft.version, price |-> n,
                        status |-> s]
      OBVIOUS
    <2>4. PICK i : i = Drafts!Idle OBVIOUS
    <2>5. Drafts!Become(r, w) \/ Drafts!Become(r, i)
      BY <1>5, <2>2, <2>3, <2>4, Zenon DEF Drafts!ReadDraft, Drafts!End
    <2>6. EditFits(w) BY <2>3 DEF EditFits
    <2>7. EditFits(i) BY <2>4 DEF EditFits, Drafts!Idle
    <2> QED BY <2>1, <2>5, <2>6, <2>7, ReadFits
  <1>6. CASE Drafts!OpenDecision(r)
    <2>1. /\ edit[r].at = "fitment"
          /\ UNCHANGED <<topic, draft, proposal, fitment, catalog, missed>>
          /\ \E x, y, z, u : Drafts!Become(r, [at |-> "fitment", app |-> x, decision |-> y,
                 revision |-> edit[r].revision, open |-> TRUE, version |-> z, replaced |-> u])
      BY <1>6, Zenon DEF Drafts!OpenDecision
    <2>2. PICK n : n = edit[r].revision OBVIOUS
    <2>3. n < MaxRevisions BY <2>1, <2>2 DEF ListingFits, EditFits
    <2>4. PICK x, y, z, u : Drafts!Become(r, [at |-> "fitment", app |-> x, decision |-> y,
                 revision |-> n, open |-> TRUE, version |-> z, replaced |-> u])
      BY <2>1, <2>2
    <2>5. PICK w : w = [at |-> "fitment", app |-> x, decision |-> y, revision |-> n,
                        open |-> TRUE,
                        version |-> z, replaced |-> u]
      OBVIOUS
    <2>6. EditFits(w) BY <2>3, <2>5 DEF EditFits
    <2>7. Drafts!Become(r, w) BY <2>4, <2>5
    <2> QED BY <2>1, <2>6, <2>7, ReadFits
  <1>7. ASSUME NEW a \in Data, NEW d \in Drafts!Decision, Drafts!ReadApplication(r, a, d)
        PROVE  ListingFits'
    <2>1. PICK n : n = fitment[a].revision OBVIOUS
    <2>2. n < MaxRevisions BY <1>7, <2>1 DEF Drafts!ReadApplication
    <2>3. PICK w : w = [at |-> "fitment", app |-> a, decision |-> d, revision |-> n,
                        open |-> FALSE]
      OBVIOUS
    <2>4. Drafts!Begin(r, w) BY <1>7, <2>1, <2>3, Zenon DEF Drafts!ReadApplication
    <2>5. EditFits(w) BY <2>2, <2>3 DEF EditFits
    <2>6. UNCHANGED <<topic, draft, proposal, fitment, catalog, missed>>
      BY <1>7, Zenon DEF Drafts!ReadApplication
    <2> QED BY <2>4, <2>5, <2>6, ReadFits
  <1> QED BY <1>1, <1>2, <1>3, <1>4, <1>5, <1>6, <1>7

LEMMA WritesFit ==
    ASSUME DraftInv, ListingFits, NEW r \in Actor,
           Drafts!Edit(r) \/ Drafts!Validate(r) \/ Drafts!Create(r)
    PROVE  ListingFits'
  <1>1. /\ Drafts!End(r) /\ UNCHANGED <<topic, proposal, fitment, catalog>>
        /\ edit[r].at \in {"edit", "validate", "write"}
    BY DEF Drafts!Edit, Drafts!Validate, Drafts!Create
  <1>2. PICK n \in 0 .. MaxProposals, s \in {"BLOCKED", "READY"} :
           n = edit[r].price /\ s = edit[r].status
    BY <1>1 DEF ListingFits, EditFits
  <1>3. DraftFits'
    <2>1. CASE draft' = draft BY <2>1 DEF ListingFits, DraftFits
    <2>2. CASE \E x : Drafts!Write(x, s, n, FALSE, {}, 0)
      <3>1. {} \in Seen /\ 0 \in 0 .. MaxRevisions BY ListingBounds DEF Seen
      <3> QED BY <2>2, <3>1, WriteFits
    <2>3. ASSUME edit[r].at = "validate",
                 \E x : Drafts!Write(x, s, n, TRUE, edit[r].seen, edit[r].catalog)
          PROVE  DraftFits'
      <3>1. edit[r].seen \in Seen /\ edit[r].catalog \in 0 .. MaxRevisions
        BY <2>3 DEF ListingFits, EditFits
      <3> QED BY <2>3, <3>1, WriteFits
    <2> QED
      BY <1>2, <2>1, <2>2, <2>3, Zenon
         DEF Drafts!Edit, Drafts!Validate, Drafts!Create, Drafts!LoseRace
  <1>4. ApplicationsFit' BY <1>1 DEF ListingFits, ApplicationsFit
  <1>5. catalog'.number <= MaxRevisions BY <1>1 DEF ListingFits
  <1> QED BY <1>1, <1>3, <1>4, <1>5, EndFits

LEMMA CatalogFits ==
    ASSUME DraftInv, catalog.number < MaxRevisions, NEW b, Drafts!Changed(b)
    PROVE  catalog'.number <= MaxRevisions
  <1>1. PICK n \in Nat : n = catalog.number BY DEF DraftInv, DraftTypes
  <1> QED BY <1>1, ListingBounds DEF Drafts!Changed

LEMMA BlocksFit ==
    ASSUME DraftInv, ListingFits, NEW r \in Actor, Drafts!ChangeCatalog(r)
    PROVE  ListingFits'
  <1>1. Drafts!End(r) /\ UNCHANGED <<topic, proposal, fitment>> BY DEF Drafts!ChangeCatalog
  <1>2. DraftFits'
    <2>1. CASE draft' = draft BY <2>1 DEF ListingFits, DraftFits
    <2> QED BY <2>1, BlockFits DEF Drafts!ChangeCatalog, Drafts!LoseRace
  <1>3. catalog'.number <= MaxRevisions
    BY CatalogFits DEF Drafts!ChangeCatalog, ListingFits
  <1>4. ApplicationsFit' BY <1>1 DEF ListingFits, ApplicationsFit
  <1> QED BY <1>1, <1>2, <1>3, <1>4, EndFits

LEMMA DecisionFits ==
    ASSUME DraftInv, ListingFits, NEW r \in Actor, Drafts!CommitDecision(r)
    PROVE  ListingFits'
  <1>1. Drafts!End(r) /\ UNCHANGED <<topic, proposal, catalog>> /\ edit[r].at = "fitment"
    BY DEF Drafts!CommitDecision
  <1>2. DraftFits'
    <2>1. CASE draft' = draft BY <2>1 DEF ListingFits, DraftFits
    <2>2. draft' = draft \/ \E x : Drafts!Block(x) BY Zenon DEF Drafts!CommitDecision
    <2> QED BY <2>1, <2>2, BlockFits
  <1>3. ApplicationsFit'
    <2> DEFINE w == edit[r]
    <2>1. CASE fitment' = fitment BY <2>1 DEF ListingFits, ApplicationsFit
    <2>2. CASE /\ fitment[w.app].revision = w.revision
               /\ fitment' = [b \in Data |->
                     IF b = w.app THEN [status |-> w.decision.new, revision |-> w.revision + 1,
                                        catalog |-> \/ fitment[b].catalog
                                                    \/ w.decision.from = "none"]
                     ELSE IF b \in w.replaced \cap Drafts!Approved
                          THEN [fitment[b] EXCEPT !.status = "SUPERSEDED"] ELSE fitment[b]]
      <3>1. PICK n \in Nat : n = w.revision /\ n < MaxRevisions
        BY <1>1 DEF DraftInv, ReadsStand, DecisionStands, ListingFits, EditFits
      <3>2. ASSUME NEW b \in Data
            PROVE  /\ fitment'[b].revision <= MaxRevisions
                   /\ fitment'[b].status # "none" => fitment'[b].revision > 0
        <4>1. CASE b = w.app
          <5>1. fitment'[b].revision = n + 1 BY <2>2, <3>1, <4>1
          <5> QED BY <3>1, <5>1, ListingBounds
        <4>2. CASE b # w.app /\ b \in w.replaced \cap Drafts!Approved
          <5>1. fitment[b] \in Revised /\ fitment[b].status = "APPROVED"
            BY <4>2 DEF DraftInv, DraftTypes, Applications, Drafts!Approved
          <5>2. PICK k : k = [fitment[b] EXCEPT !.status = "SUPERSEDED"] OBVIOUS
          <5>3. k.revision = fitment[b].revision BY <5>1, <5>2 DEF Revised
          <5>4. fitment'[b] = k BY <2>2, <4>2, <5>2
          <5> QED BY <5>1, <5>3, <5>4 DEF ListingFits, ApplicationsFit
        <4>3. CASE b # w.app /\ b \notin w.replaced \cap Drafts!Approved
          <5>1. fitment'[b] = fitment[b] BY <2>2, <4>3
          <5> QED BY <5>1 DEF ListingFits, ApplicationsFit
        <4> QED BY <4>1, <4>2, <4>3
      <3> QED BY <3>2 DEF ApplicationsFit
    <2> QED BY <2>1, <2>2, Zenon DEF Drafts!CommitDecision
  <1>4. catalog'.number <= MaxRevisions BY <1>1 DEF ListingFits
  <1> QED BY <1>1, <1>2, <1>3, <1>4, EndFits

LEMMA ListingFitsStep ==
    ASSUME DraftInv, ListingFits, [Drafts!Next]_(Drafts!vars)
    PROVE  ListingFits'
  <1>1. CASE UNCHANGED Drafts!vars
    BY <1>1 DEF Drafts!vars, ListingFits, DraftFits, ApplicationsFit
  <1>2. CASE Drafts!Propose
    <2>1. PICK n \in 0 .. MaxProposals : n = proposal.number + 1
      <3>1. PICK m \in 0 .. MaxProposals : m = proposal.number BY DEF ListingFits, Proposed
      <3>2. m < MaxProposals BY <1>2, <3>1 DEF Drafts!Propose
      <3> QED BY <3>1, <3>2, ListingBounds
    <2>2. PICK s \in {"PENDING", "APPROVED"} : proposal' = [number |-> n, status |-> s]
      BY <1>2, <2>1 DEF Drafts!Propose
    <2>3. proposal' \in Proposed BY <2>2 DEF Proposed
    <2>4. UNCHANGED <<topic, draft, fitment, catalog, edit>> BY <1>2 DEF Drafts!Propose
    <2> QED BY <2>3, <2>4 DEF ListingFits, DraftFits, ApplicationsFit
  <1>3. CASE Drafts!Decide
    <2>1. PICK s \in {"APPROVED", "OVERRIDDEN", "REJECTED"} :
             proposal' = [proposal EXCEPT !.status = s]
      BY <1>3 DEF Drafts!Decide, Drafts!InForce
    <2>2. proposal' \in Proposed BY <2>1 DEF ListingFits, Proposed
    <2>3. UNCHANGED <<topic, draft, fitment, catalog, edit>> BY <1>3 DEF Drafts!Decide
    <2> QED BY <2>2, <2>3 DEF ListingFits, DraftFits, ApplicationsFit
  <1>4. CASE Drafts!ChangePart
    <2>1. catalog'.number <= MaxRevisions BY <1>4, CatalogFits DEF Drafts!ChangePart
    <2>2. UNCHANGED <<topic, draft, proposal, fitment, edit>> BY <1>4 DEF Drafts!ChangePart
    <2> QED BY <2>1, <2>2 DEF ListingFits, DraftFits, ApplicationsFit
  <1>5. ASSUME NEW a \in Data, Drafts!CreateApplication(a) PROVE ListingFits'
    <2>1. PICK k : k = [status |-> "PENDING", revision |-> 1, catalog |-> FALSE] OBVIOUS
    <2>2. fitment' = [fitment EXCEPT ![a] = k] /\ fitment \in [Data -> Revised]
      BY <1>5, <2>1 DEF Drafts!CreateApplication, DraftInv, DraftTypes, Applications
    <2>3. k.revision = 1 /\ 1 <= MaxRevisions BY <2>1, ListingBounds
    <2>4. ApplicationsFit' BY <2>2, <2>3 DEF ListingFits, ApplicationsFit
    <2>5. UNCHANGED <<topic, draft, proposal, catalog, edit>> BY <1>5 DEF Drafts!CreateApplication
    <2> QED BY <2>4, <2>5 DEF ListingFits, DraftFits
  <1> QED
    BY <1>1, <1>2, <1>3, <1>4, <1>5, ReadsFit, WritesFit, BlocksFit, DecisionFits DEF Drafts!Next

LEMMA ListingIsTyped == ASSUME DraftInv, ListingFits PROVE Drafts!TypeOK
  <1>1. fitment \in [Data -> [status : {"none", "PENDING", "APPROVED", "REJECTED", "SUPERSEDED"},
                              revision : 0 .. MaxRevisions, catalog : BOOLEAN]]
    <2>1. ASSUME NEW a \in Data
          PROVE  fitment[a] \in [status : {"none", "PENDING", "APPROVED", "REJECTED",
                                           "SUPERSEDED"},
                                 revision : 0 .. MaxRevisions, catalog : BOOLEAN]
      BY ListingBounds DEF DraftInv, DraftTypes, Applications, Revised, ListingFits,
         ApplicationsFit
    <2> QED BY <2>1 DEF DraftInv, DraftTypes, Applications
  <1>2. catalog \in [number : 0 .. MaxRevisions, blocking : 0 .. MaxRevisions]
    <2>1. PICK n \in 0 .. MaxRevisions, m \in 0 .. MaxRevisions :
             catalog = [number |-> n, blocking |-> m]
      BY ListingBounds DEF DraftInv, DraftTypes, ListingFits
    <2> QED BY <2>1
  <1>3. missed \in BOOLEAN BY DEF DraftInv, DraftTypes
  <1> QED
    BY <1>1, <1>2, <1>3 DEF ListingFits, DraftFits, Listed, Seen, Proposed, EditFits,
       Drafts!TypeOK

-----------------------------------------------------------------------------
(* Types of StoreCache and WebSession: what their invariants leave open is that *)
(* what is counted keeps below its bound.                                     *)

StoreFits == clock <= MaxStarts /\ changes \in 0 .. MaxChanges

LEMMA StoreBounds == MaxStarts \in Nat /\ MaxChanges \in Nat
BY BackOfficeAssumption DEF BackOfficeAssumption, Store!StoreCacheAssumption

LEMMA StoreFitsAtFirst == Store!Init => StoreFits
BY StoreBounds DEF Store!Init, StoreFits

LEMMA StoreFitsStep ==
  ASSUME StoreInv, StoreFits, [Store!Next]_(Store!vars) PROVE StoreFits'
  <1>1. clock \in Nat BY DEF StoreInv, StoreTypes
  <1> DEFINE Ticks == clock' = clock \/ (clock < MaxStarts /\ clock' = clock + 1)
             Changed == changes' = changes \/ (changes < MaxChanges /\ changes' = changes + 1)
  <1>3. ASSUME NEW s \in Store!Site, NEW e \in Entry,
               Store!Appear(s, e) \/ Store!Leave(s, e) \/ Store!Edit(s, e)
        PROVE  Ticks /\ Changed
    BY <1>3 DEF Store!Appear, Store!Leave, Store!Edit, Store!Change
  <1>4. ASSUME NEW k \in Actor, Store!StartListings(k) \/ Store!StartOrders(k)
                                  \/ Store!NextListingSite(k) \/ Store!NextOrderSite(k)
        PROVE  Ticks /\ Changed
    BY <1>4 DEF Store!StartListings, Store!StartOrders, Store!Begin, Store!Tick,
         Store!NextListingSite, Store!NextOrderSite
  <1>5. ASSUME NEW k \in Actor,
               \/ Store!FetchPage(k) \/ Store!SaveListing(k) \/ Store!SaveOrder(k)
                                \/ Store!PruneListings(k) \/ Store!PruneOrders(k)
                                \/ Store!Finish(k) \/ Store!FailSite(k)
        PROVE  Ticks /\ Changed
    BY <1>5 DEF Store!FetchPage, Store!SaveListing, Store!SaveOrder, Store!Save,
         Store!PruneListings, Store!PruneOrders, Store!Prune, Store!Finish, Store!FailSite,
         Store!Change
  <1>6. ASSUME Store!Restart \/ UNCHANGED Store!vars
        PROVE  Ticks /\ Changed
    BY <1>6 DEF Store!Restart, Store!Change, Store!vars
  <1>7. Ticks /\ Changed BY <1>3, <1>4, <1>5, <1>6 DEF Store!Next
  <1> QED BY <1>1, <1>7, StoreBounds DEF StoreFits
LEMMA StoreIsTyped == ASSUME StoreInv, StoreFits PROVE Store!TypeOK
  <1>1. StoreTypes /\ \A k \in Actor : TaskSound(refresh[k]) BY DEF StoreInv
  <1>2. clock \in 0 .. MaxStarts BY <1>1, StoreBounds DEF StoreTypes, StoreFits
  <1>3. cache \in [Store!Row -> 0 .. MaxStarts]
    <2>1. ASSUME NEW x \in Store!Row PROVE cache[x] \in 0 .. MaxStarts
      <3>1. PICK s \in Store!Site, e \in Entry : x = <<s, e>> BY DEF Store!Row
      <3>2. cache[x] \in Nat /\ cache[<<s, e>>] <= clock BY <1>1 DEF StoreTypes
      <3> QED BY <1>2, <3>1, <3>2, StoreBounds
    <2> QED BY <1>1, <2>1 DEF StoreTypes
  <1>4. ASSUME NEW k \in Actor, refresh[k] # Store!Off
        PROVE  /\ refresh[k].at \in {"fetch", "save", "prune", "pruned", "failed"}
               /\ refresh[k].site \in Store!Site /\ refresh[k].stamp \in 1 .. clock
    <2>1. refresh[k] \in Task /\ TaskSound(refresh[k]) BY <1>1, <1>4 DEF StoreTypes
    <2>2. refresh[k].stamp \in Nat \ {0} /\ refresh[k].stamp <= clock
      BY <2>1 DEF Task, TaskSound
    <2> QED BY <1>2, <2>1, <2>2, StoreBounds DEF Task
  <1> QED BY <1>1, <1>2, <1>3, <1>4 DEF StoreTypes, StoreFits, Store!TypeOK

-----------------------------------------------------------------------------
BrowserFits ==
    /\ minted <= MaxTokens /\ cookie <= minted /\ version <= MaxWrites
    /\ \A t \in Actor : renewal[t].token <= minted

LEMMA BrowserBounds == MaxTokens \in Nat /\ MaxWrites \in Nat
BY BackOfficeAssumption DEF BackOfficeAssumption, Browser!WebSessionAssumption

LEMMA BrowserFitsAtFirst == Browser!Init => BrowserFits
BY BrowserBounds DEF Browser!Init, BrowserFits, Browser!Quiet

LEMMA BrowserFitsStep ==
  ASSUME SessionInv, CacheInv, BrowserFits, [Browser!Next]_(Browser!vars) PROVE BrowserFits'
  <1>1. /\ minted \in Nat /\ cookie \in Nat /\ version \in Nat /\ use.tabs \subseteq Actor
        /\ renewal \in [Actor -> Refreshing] /\ use.calls \subseteq Data
    BY DEF SessionInv, SessionTypes, CacheInv
  <1>2. /\ minted <= MaxTokens /\ cookie <= minted /\ version <= MaxWrites
        /\ \A t \in Actor : renewal[t].token <= minted /\ renewal[t].token \in Nat
    BY <1>1 DEF BrowserFits, Refreshing
  <1>3. ASSUME NEW t \in Actor, NEW token \in Nat, token <= minted',
               \E step : renewal' = [renewal EXCEPT ![t] = [step |-> step, token |-> token]],
               minted' \in {minted, minted + 1}
        PROVE  \A a \in Actor : renewal'[a].token <= minted'
    BY <1>1, <1>2, <1>3
  <1>4. ASSUME renewal' = renewal, minted' \in {minted, minted + 1}
        PROVE  \A a \in Actor : renewal'[a].token <= minted'
    BY <1>1, <1>2, <1>4
  <1>5. ASSUME NEW t \in use.tabs, Browser!SessionStep(t)
        PROVE  /\ minted' <= MaxTokens /\ cookie' <= minted' /\ version' <= MaxWrites
               /\ \A a \in Actor : renewal'[a].token <= minted'
    <2>1. t \in Actor BY <1>1
    <2>2. CASE Browser!Open(t) \/ Browser!Renew(t)
      <3>1. /\ UNCHANGED <<minted, cookie, version>>
            /\ \/ renewal' = renewal
               \/ renewal' = [renewal EXCEPT ![t] = [step |-> "sent", token |-> cookie]]
        BY <2>2 DEF Browser!Open, Browser!Renew, Browser!Refresh, Browser!Started, Browser!server
      <3> QED BY <1>1, <1>2, <1>3, <1>4, <2>1, <3>1
    <2>3. CASE Browser!AccessExpires(t) \/ Browser!Logout(t) \/ Browser!Revoke(t)
      <3>1. UNCHANGED <<minted, cookie, version, renewal>>
        BY <2>3 DEF Browser!AccessExpires, Browser!Logout, Browser!Revoke, Browser!server
      <3> QED BY <1>1, <1>2, <1>4, <3>1
    <2>4. CASE Browser!Rotate(t)
      <3>1. /\ UNCHANGED <<cookie, version>>
            /\ \/ /\ minted < MaxTokens /\ minted' = minted + 1
                  /\ renewal' = [renewal EXCEPT ![t] = [step |-> "answered",
                                                       token |-> minted + 1]]
               \/ minted' = minted /\ renewal' = [renewal EXCEPT ![t].step = "refused"]
        BY <2>4 DEF Browser!Rotate
      <3>2. [renewal EXCEPT ![t].step = "refused"]
              = [renewal EXCEPT ![t] = [step |-> "refused", token |-> renewal[t].token]]
        <4>1. PICK v \in Refreshing : v = renewal[t] BY <1>1, <2>1
        <4>2. [v EXCEPT !.step = "refused"] = [step |-> "refused", token |-> v.token]
          BY DEF Refreshing
        <4> QED BY <1>1, <2>1, <4>1, <4>2
      <3> QED BY <1>1, <1>2, <1>3, <2>1, <3>1, <3>2, BrowserBounds
    <2>5. CASE Browser!Refreshed(t)
      <3>1. /\ UNCHANGED <<minted, version>> /\ cookie' = renewal[t].token
            /\ renewal' = [renewal EXCEPT ![t] = [step |-> "idle", token |-> 0]]
        BY <2>5 DEF Browser!Refreshed, Browser!server, Browser!Quiet
      <3> QED BY <1>1, <1>2, <1>3, <2>1, <3>1
    <2>6. CASE \/ Browser!Refused(t) \/ Browser!RefreshLost(t) \/ Browser!LoggedOut(t)
               \/ Browser!LogoutLost(t)
      <3>1. /\ UNCHANGED <<minted, version>> /\ cookie' \in {0, cookie}
            /\ renewal' = [renewal EXCEPT ![t] = [step |-> "idle", token |-> 0]]
        BY <2>6 DEF Browser!Refused, Browser!RefreshLost, Browser!LoggedOut, Browser!LogoutLost,
           Browser!Expire, Browser!LeavePage, Browser!server, Browser!Quiet
      <3> QED BY <1>1, <1>2, <1>3, <2>1, <3>1
    <2>7. CASE Browser!Login(t)
      <3>1. /\ UNCHANGED <<version, renewal>> /\ minted < MaxTokens
            /\ minted' = minted + 1 /\ cookie' = minted + 1
        BY <2>7 DEF Browser!Login, Browser!Issue
      <3> QED BY <1>1, <1>2, <1>4, <3>1, BrowserBounds
    <2> QED BY <1>5, <2>2, <2>3, <2>4, <2>5, <2>6, <2>7 DEF Browser!SessionStep
  <1>6. ASSUME NEW t \in use.tabs, NEW c \in use.calls, Browser!CallStep(t, c)
        PROVE  /\ minted' <= MaxTokens /\ cookie' <= minted' /\ version' <= MaxWrites
               /\ \A a \in Actor : renewal'[a].token <= minted'
    <2>1. t \in Actor BY <1>1
    <2>2. UNCHANGED <<minted, cookie>> /\ (version' = version \/ version' <= MaxWrites)
      BY <1>6 DEF Browser!CallStep, Browser!Read, Browser!Write, Browser!Serve, Browser!Reject,
           Browser!Retry, Browser!Deny, Browser!ReadAnswered, Browser!WriteAnswered,
           Browser!CallLost, Browser!Expire, Browser!server
    <2>3. \/ renewal' = renewal
          \/ renewal' = [renewal EXCEPT ![t] = [step |-> "sent", token |-> cookie]]
          \/ renewal' = [renewal EXCEPT ![t] = [step |-> "idle", token |-> 0]]
      BY <1>6, Zenon DEF Browser!CallStep, Browser!Read, Browser!Write, Browser!Request,
           Browser!Refresh, Browser!Started, Browser!Serve, Browser!Reject,
           Browser!Retry, Browser!Deny, Browser!ReadAnswered, Browser!WriteAnswered,
           Browser!CallLost, Browser!Expire, Browser!server, Browser!Quiet
    <2> QED BY <1>1, <1>2, <1>3, <1>4, <2>1, <2>2, <2>3
  <1>7. CASE (\E t \in use.tabs : Browser!CacheExpires(t)) \/ UNCHANGED Browser!vars
    BY <1>7 DEF Browser!CacheExpires, Browser!vars, Browser!server, BrowserFits
  <1> QED BY <1>5, <1>6, <1>7 DEF Browser!Next, BrowserFits

LEMMA BrowserIsTyped ==
  ASSUME SessionInv, CacheInv, BrowserFits PROVE Browser!TypeOK
  <1>1. SessionTypes BY DEF SessionInv
  <1>2. ASSUME NEW t \in Actor PROVE
            /\ tab[t].page \in {"app", "login"} /\ tab[t].access \in {"none", "fresh", "old"}
            /\ tab[t].reading \in BOOLEAN /\ tab[t].seen \in 0 .. version
            /\ renewal[t].step \in {"idle", "sent", "answered", "refused"}
            /\ renewal[t].token \in 0 .. minted
            /\ leave[t].step \in {"idle", "sent", "answered"}
            /\ \A c \in Data : 
                   call[t][c].step \in {"idle", "token", "sent", "rejected", "answered"}
    <2>1. tab[t] \in Page /\ tab[t].seen <= version /\ version \in Nat BY DEF CacheInv
    <2>2. /\ renewal[t] \in Refreshing /\ renewal[t].token <= minted
          /\ leave[t] \in Leaving /\ minted \in Nat
      BY <1>1 DEF SessionTypes, BrowserFits
    <2>3. \A c \in Data : call[t][c] \in Asked BY DEF CacheInv
    <2> QED BY <2>1, <2>2, <2>3 DEF Page, Refreshing, Leaving, Asked
  <1>3. version \in Nat BY DEF CacheInv
  <1> QED BY <1>1, <1>2, <1>3, BrowserBounds DEF SessionTypes, BrowserFits, Browser!TypeOK

LEMMA RunIsTyped == ASSUME RunInv PROVE Cleanup!TypeOK BY DEF RunInv

\* Of every component of the back office and of the client's session, however many actors there
\* are: its rows, its counts and what its requests have read stay what they are declared to be.
THEOREM TypesHold == OfficeSpec => []Types
  <1> DEFINE Inv == /\ scenario = "account" => SpentInv /\ AccountFits
                    /\ scenario = "team" => TeamShaped /\ TeamFits
                    /\ scenario = "listing" => DraftInv /\ ListingFits
                    /\ scenario = "import" => ImportFits
                    /\ scenario = "retention" => RunInv
                    /\ scenario = "store" => StoreInv /\ StoreFits
                    /\ scenario = "seller" => DefaultInv /\ SellerFits
                    /\ scenario = "quote" => QuoteInv
                    /\ scenario = "web" => SessionInv /\ CacheInv /\ BrowserFits
  <1>1. Formulas!SheetFormulaAssumption BY BackOfficeAssumption DEF BackOfficeAssumption
  <1>2. OfficeInit => Inv
    BY <1>1, SpentAtFirst, AccountFitsAtFirst, TeamFitsAtFirst, DraftAtFirst, ListingFitsAtFirst,
       ImportFitsAtFirst, RunInit, StoreAtFirst, StoreFitsAtFirst, DefaultInit,
       SellerFitsAtFirst, QuoteAtFirst, SessionAtFirst, CacheAtFirst, BrowserFitsAtFirst
       DEF OfficeInit
  <1>3. ASSUME Inv, [OfficeNext]_officeVars PROVE Inv'
    <2>1. scenario = "account" => (SpentInv /\ AccountFits)'
      BY <1>3, AccountFollows, SpentStep, AccountFitsStep
    <2>2. scenario = "team" => (TeamShaped /\ TeamFits)'
      BY <1>3, TeamFollows, InvitationStep, TeamFitsStep
    <2>3. scenario = "listing" => (DraftInv /\ ListingFits)'
      BY <1>3, ListingFollows, DraftStep, ListingFitsStep
    <2>4. scenario = "import" => ImportFits' BY <1>3, ImportFollows, ImportFitsStep
    <2>5. scenario = "retention" => RunInv' BY <1>3, RetentionFollows, RunStep
    <2>6. scenario = "store" => (StoreInv /\ StoreFits)'
      BY <1>3, StoreFollows, StoreStep, StoreFitsStep
    <2>7. scenario = "seller" => (DefaultInv /\ SellerFits)'
      BY <1>3, EbayFollows, DefaultStep, SellerFitsStep
    <2>8. scenario = "quote" => QuoteInv' BY <1>1, <1>3, QuoteFollows, QuoteStep
    <2>9. scenario = "web" => (SessionInv /\ CacheInv /\ BrowserFits)'
      BY <1>3, BrowserFollows, SessionStep, CacheStep, BrowserFitsStep
    <2> QED
      BY <1>3, <2>1, <2>2, <2>3, <2>4, <2>5, <2>6, <2>7, <2>8, <2>9, ScenarioStays
  <1>4. Inv => Types
    BY AccountIsTyped, TeamIsTyped, ListingIsTyped, ImportIsTyped, RunIsTyped, StoreIsTyped,
       SellerIsTyped, QuoteIsTyped, BrowserIsTyped DEF Types
  <1> QED BY <1>2, <1>3, <1>4, PTL DEF OfficeSpec
=============================================================================

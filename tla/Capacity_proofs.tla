-------------------------- MODULE Capacity_proofs --------------------------
(***************************************************************************)
(* The scheduler asks for the right number of starts, and the circuit      *)
(* grants within its limit, for all integers; retries wait as long as they *)
(* should, for any number of failures.                                     *)
(***************************************************************************)
EXTENDS Calculations, Circuit, TLAPS, WellFoundedInduction

\* NeededFor is the largest number of starts that the demand asks for and both
\* limits allow.
LEMMA NeededForIsLargest ==
    ASSUME NEW d \in [waiting : Nat, minIdle : Nat, maxInstances : Nat,
                      maxProvisioning : Nat, ready : Nat, provisioning : Nat,
                      instances : Nat]
    PROVE  LET n == NeededFor(d)
           IN  /\ n \in Nat
               /\ n > 0 => Justified(d, n)
               /\ ~Justified(d, n + 1)
  BY DEF NeededFor, Least, Justified

\* The run's property, for demands of any size: the scheduler asks for the
\* largest number of starts that max_instances and max_provisioning allow.
THEOREM NeededIsAlwaysLargest == Spec => []NeededIsLargest
<1> DEFINE TypeInv == demand \in Demands
<1>1. Init => TypeInv
  BY DEF Init
<1>2. TypeInv /\ [Next]_demand => TypeInv'
  BY DEF Next
<1>3. TypeInv => NeededIsLargest
  <2> SUFFICES ASSUME TypeInv PROVE NeededIsLargest
    OBVIOUS
  <2>1. demand \in [waiting : Nat, minIdle : Nat, maxInstances : Nat,
                    maxProvisioning : Nat, ready : Nat, provisioning : Nat,
                    instances : Nat]
    BY BoundAssumption DEF Demands
  <2> QED BY <2>1, NeededForIsLargest DEF NeededIsLargest
<1> QED BY <1>1, <1>2, <1>3, PTL DEF Spec

\* A reservation keeps the attempts within the limit, grants at most what was
\* wanted, and once the limit is reached never more than one start, the probe,
\* which is only granted when the retry time has come.
THEOREM ReserveWithinLimit ==
    ASSUME NEW limit \in Nat \ {0}, NEW attempts \in 0 .. limit,
           NEW pause \in Pauses, NEW wanted \in Nat \ {0}
    PROVE  LET r == Reserve(attempts, pause, wanted, limit)
           IN  /\ r.attempts \in attempts .. limit
               /\ r.pause \in Pauses
               /\ r.count \in 0 .. wanted
               /\ attempts = limit =>
                      /\ r.pause = "ahead"
                      /\ r.count <= 1
                      /\ r.count = 1 => pause = "due"
               /\ attempts < limit => r.attempts = attempts + r.count
  BY DEF Reserve, Least, Pauses

-----------------------------------------------------------------------------
(* Retries.                                                                *)

\* A set of naturals that is not empty has a least element: the library states
\* it of well-founded relations, for sets, which is induction that needs no
\* operator for its hypothesis.
LEMMA LeastElement ==
    ASSUME NEW T \in SUBSET Nat, T # {}
    PROVE  \E x \in T : \A y \in T : x <= y
<1>1. IsWellFoundedOn(OpToRel(<, Nat), Nat)
  BY NatLessThanWellFounded
<1>2. PICK R : R = OpToRel(<, Nat)
  OBVIOUS
<1>3. \A x, y \in Nat : x < y => <<x, y>> \in R
  BY <1>2 DEF OpToRel
<1>4. IsWellFoundedOn(R, Nat)
  BY <1>1, <1>2
<1>5. PICK x \in T : \A y \in T : <<y, x>> \notin R
  BY <1>4, WFMin
<1>6. ASSUME NEW y \in T PROVE x <= y
  <2>1. x \in Nat /\ y \in Nat /\ ~(y < x)
    BY <1>3, <1>5
  <2> QED BY <2>1
<1> QED BY <1>6

\* f starts at a and takes the step next every time.
Iterates(f, a, next, count) ==
    /\ f[0] = a
    /\ \A n \in 1 .. count : f[n] = next[f[n - 1]]

\* A function defined by one step after another exists on every initial segment.
LEMMA IterationExists ==
    \A S : \A a \in S, next \in [S -> S], count \in Nat :
        \E f \in [0 .. count -> S] : Iterates(f, a, next, count)
<1> SUFFICES ASSUME NEW S, NEW a \in S, NEW next \in [S -> S], NEW count \in Nat
             PROVE  \E f \in [0 .. count -> S] : Iterates(f, a, next, count)
  OBVIOUS
<1> USE DEF Iterates
<1> DEFINE T == {m \in Nat : ~\E f \in [0 .. m -> S] : Iterates(f, a, next, m)}
<1>1. CASE T = {}
  BY <1>1
<1>2. CASE T # {}
  <2>1. PICK m \in T : \A y \in T : m <= y
    BY <1>2, LeastElement
  <2>2. m \in Nat
    OBVIOUS
  <2>3. m # 0 => m - 1 \in Nat /\ m - 1 \notin T
    <3> HIDE DEF T
    <3> QED BY <2>1, <2>2
  <2>4. CASE m = 0
    <3>1. PICK f : f = [n \in 0 .. 0 |-> a]
      OBVIOUS
    <3>2. f \in [0 .. 0 -> S] /\ Iterates(f, a, next, 0)
      BY <3>1
    <3> QED BY <2>1, <2>4, <3>2
  <2>5. CASE m # 0
    <3>1. m - 1 \in Nat /\ m - 1 \notin T
      BY <2>3, <2>5
    <3>2. PICK g \in [0 .. m - 1 -> S] : Iterates(g, a, next, m - 1)
      BY <3>1
    <3>3. PICK f : f = [n \in 0 .. m |-> IF n = m THEN next[g[m - 1]] ELSE g[n]]
      OBVIOUS
    <3>4. f \in [0 .. m -> S]
      BY <2>2, <2>5, <3>3
    <3>5. f[0] = a
      BY <2>2, <2>5, <3>2, <3>3
    <3>6. ASSUME NEW n \in 1 .. m PROVE f[n] = next[f[n - 1]]
      <4>1. n - 1 \in 0 .. m /\ n - 1 # m /\ f[n - 1] = g[n - 1]
        BY <2>2, <3>3
      <4>2. CASE n = m
        BY <2>2, <3>3, <4>1, <4>2
      <4>3. CASE n # m
        <5>1. n \in 1 .. m - 1 /\ n \in 0 .. m
          BY <2>2, <4>3
        <5>2. f[n] = g[n] /\ g[n] = next[g[n - 1]]
          BY <3>2, <3>3, <4>3, <5>1
        <5> QED BY <4>1, <5>2
      <4> QED BY <4>2, <4>3
    <3>7. Iterates(f, a, next, m)
      BY <3>5, <3>6
    <3> QED BY <2>1, <3>4, <3>7
  <2> QED BY <2>4, <2>5
<1> QED BY <1>1, <1>2

\* What retryDelete computes is the end of such an iteration.
LEMMA DelayDefined ==
    ASSUME NEW count \in Nat
    PROVE  \E f : /\ \A n \in 0 .. count :
                         f[n] = IF n = 0 THEN RetryBase
                                ELSE Least(2 * f[n - 1], RetryMax)
                  /\ f[count] = RetryDelay(count)
<1> DEFINE Defined(f) ==
               f = [n \in 0 .. count |->
                       IF n = 0 THEN RetryBase ELSE Least(2 * f[n - 1], RetryMax)]
           delay == CHOOSE f : Defined(f)
<1>1. PICK next : next = [x \in Nat |-> Least(2 * x, RetryMax)]
  OBVIOUS
<1>2. next \in [Nat -> Nat]
  BY <1>1, RetryAssumption DEF Least
<1>3. RetryBase \in Nat
  BY RetryAssumption
<1>4. PICK f \in [0 .. count -> Nat] :
          Iterates(f, RetryBase, next, count)
  BY <1>2, <1>3, IterationExists
<1>5. ASSUME NEW n \in 1 .. count PROVE f[n] = Least(2 * f[n - 1], RetryMax)
  <2>1. n - 1 \in 0 .. count /\ f[n - 1] \in Nat
    BY <1>4
  <2> QED BY <1>1, <1>4, <2>1 DEF Iterates
<1>6. Defined(f)
  <2>1. ASSUME NEW n \in 0 .. count
        PROVE  f[n] = IF n = 0 THEN RetryBase ELSE Least(2 * f[n - 1], RetryMax)
    BY <1>4, <1>5 DEF Iterates
  <2> QED BY <1>4, <2>1
<1>7. Defined(delay)
  BY <1>6
<1>8. delay[count] = RetryDelay(count)
  BY DEF RetryDelay
<1> HIDE DEF delay
<1>9. \A n \in 0 .. count :
         delay[n] = IF n = 0 THEN RetryBase ELSE Least(2 * delay[n - 1], RetryMax)
  BY <1>7
<1> QED BY <1>8, <1>9

\* And so is the doubling it is compared with.
LEMMA DoublingDefined ==
    ASSUME NEW count \in Nat
    PROVE  \E f : /\ \A n \in 0 .. count :
                         f[n] = IF n = 0 THEN RetryBase ELSE 2 * f[n - 1]
                  /\ f[count] = Doubled(count)
<1> DEFINE Defined(f) ==
               f = [n \in 0 .. count |-> IF n = 0 THEN RetryBase ELSE 2 * f[n - 1]]
           doubled == CHOOSE f : Defined(f)
<1>1. PICK next : next = [x \in Nat |-> 2 * x]
  OBVIOUS
<1>2. next \in [Nat -> Nat]
  BY <1>1
<1>3. RetryBase \in Nat
  BY RetryAssumption
<1>4. PICK f \in [0 .. count -> Nat] :
          Iterates(f, RetryBase, next, count)
  BY <1>2, <1>3, IterationExists
<1>5. ASSUME NEW n \in 1 .. count PROVE f[n] = 2 * f[n - 1]
  <2>1. n - 1 \in 0 .. count /\ f[n - 1] \in Nat
    BY <1>4
  <2> QED BY <1>1, <1>4, <2>1 DEF Iterates
<1>6. Defined(f)
  <2>1. ASSUME NEW n \in 0 .. count
        PROVE  f[n] = IF n = 0 THEN RetryBase ELSE 2 * f[n - 1]
    BY <1>4, <1>5 DEF Iterates
  <2> QED BY <1>4, <2>1
<1>7. Defined(doubled)
  BY <1>6
<1>8. doubled[count] = Doubled(count)
  BY DEF Doubled
<1> HIDE DEF doubled
<1>9. \A n \in 0 .. count :
         doubled[n] = IF n = 0 THEN RetryBase ELSE 2 * doubled[n - 1]
  BY <1>7
<1> QED BY <1>8, <1>9

\* Capping after every doubling is capping once, at the end.
LEMMA DelayIsCapped ==
    ASSUME NEW count \in Nat
    PROVE  RetryDelay(count) = Least(Doubled(count), RetryMax)
<1>1. PICK d : /\ \A n \in 0 .. count :
                      d[n] = IF n = 0 THEN RetryBase ELSE Least(2 * d[n - 1], RetryMax)
               /\ d[count] = RetryDelay(count)
  BY DelayDefined
<1>2. PICK e : /\ \A n \in 0 .. count :
                      e[n] = IF n = 0 THEN RetryBase ELSE 2 * e[n - 1]
               /\ e[count] = Doubled(count)
  BY DoublingDefined
<1> DEFINE Capped(n) == d[n] \in Nat /\ e[n] \in Nat /\ d[n] = Least(e[n], RetryMax)
           T == {n \in 0 .. count : ~Capped(n)}
<1>3. T = {}
  <2> SUFFICES ASSUME T # {} PROVE FALSE
    OBVIOUS
  <2>1. T \in SUBSET Nat
    OBVIOUS
  <2>2. PICK m \in T : \A y \in T : m <= y
    BY <2>1, LeastElement
  <2>3. m \in 0 .. count /\ ~Capped(m)
    OBVIOUS
  <2>4. CASE m = 0
    <3>1. d[0] = RetryBase /\ e[0] = RetryBase
      BY <1>1, <1>2
    <3> QED BY <2>3, <2>4, <3>1, RetryAssumption DEF Least
  <2>5. CASE m # 0
    <3>1. m - 1 \in 0 .. count /\ Capped(m - 1)
      BY <2>2, <2>3, <2>5
    <3>2. d[m] = Least(2 * d[m - 1], RetryMax) /\ e[m] = 2 * e[m - 1]
      BY <1>1, <1>2, <2>3, <2>5
    <3>3. PICK x \in Nat, y \in Nat : x = d[m - 1] /\ y = e[m - 1] /\ x = Least(y, RetryMax)
      BY <3>1
    <3>4. Least(2 * x, RetryMax) = Least(2 * y, RetryMax) /\ Least(2 * x, RetryMax) \in Nat
      BY <3>3, RetryAssumption DEF Least
    <3>5. Capped(m)
      BY <3>2, <3>3, <3>4
    <3> QED BY <2>3, <3>5
  <2> QED BY <2>4, <2>5
<1>4. Capped(count)
  BY <1>3
<1> QED BY <1>1, <1>2, <1>4

\* The run's property, for every base, every cap from it up and any number of
\* failures: retryDelete, which caps after every doubling, waits for the base
\* doubled once per failure, capped once.
THEOREM DelaysDoubleToCap == CalculationsSpec => []DelayDoublesToCap
<1>1. CalculationsInit => retries \in Nat
  BY DEF CalculationsInit
<1>2. retries \in Nat /\ [FailAgain]_<<demand, retries>> => (retries \in Nat)'
  BY MaxRetriesAssumption DEF FailAgain, Least
<1>3. retries \in Nat => DelayDoublesToCap
  BY DelayIsCapped DEF DelayDoublesToCap
<1> QED BY <1>1, <1>2, <1>3, PTL DEF CalculationsSpec
=============================================================================

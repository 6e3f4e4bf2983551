------------------------ MODULE CycleCountingProofs ------------------------
(***************************************************************************)
(* Proofs about CycleCounting, for every set of programs and every bound.  *)
(*                                                                         *)
(* The properties compare the counters with what the history of runs says. *)
(* None of them is inductive: where the next run goes on depends on the    *)
(* part that is open and on what the agent knows of the run.  IInv says,   *)
(* between two runs, that the calculator holds exactly the part that the   *)
(* history leaves open (Rests); in a run, that it holds what this run goes *)
(* on with (Fits), that the cycle's clock is the time the machine worked   *)
(* (Timed), and that the link still has the counts of the run's start.     *)
(*                                                                         *)
(* One method of the calculator at a time (ClassifyIs, ProgramSet,         *)
(* CycleStarts, CyclePauses, CycleResumes, StopRests, AbortRests) is shown *)
(* to keep this; the actions then follow.  The first sections are about    *)
(* the history alone: the time of a set of runs, the part each run leaves, *)
(* and what one more run changes of them.                                  *)
(***************************************************************************)
EXTENDS CycleCounting, FiniteSetTheorems, WellFoundedInduction, SequenceTheorems, TLAPS

-----------------------------------------------------------------------------
\* Least elements: what the proofs below use instead of induction

LEMMA SomeLeast ==
  ASSUME NEW Q, Q \subseteq Nat, Q # {}
  PROVE  \E m \in Q : \A n \in Q : m <= n
<1>1. \E t \in Q : \A u \in Q : <<u, t>> \notin OpToRel(<, Nat)
  BY WFMin, NatLessThanWellFounded, Zenon
<1>2. PICK t \in Q : \A u \in Q : <<u, t>> \notin OpToRel(<, Nat)
  BY <1>1, Zenon
<1>3. \A u \in Q : ~(u < t)
  BY <1>2, Zenon DEF OpToRel
<1>4. ASSUME NEW n \in Q PROVE t <= n
  BY <1>3
<1> QED BY <1>4

LEMMA SomeSmallest ==
  ASSUME NEW Q, Q # {}, \A s \in Q : IsFiniteSet(s)
  PROVE  \E m \in Q : \A s \in Q : Cardinality(m) <= Cardinality(s)
<1> DEFINE K == {Cardinality(s) : s \in Q}
<1>1. K \subseteq Nat /\ K # {}
  BY FS_CardinalityType
<1>2. PICK k \in K : \A n \in K : k <= n
  BY <1>1, SomeLeast
<1> QED BY <1>2

\* A set without one of its elements has one less.
LEMMA OneLess ==
  ASSUME NEW S, IsFiniteSet(S), NEW x \in S
  PROVE  /\ IsFiniteSet(S \ {x})
         /\ Cardinality(S \ {x}) \in Nat /\ Cardinality(S) \in Nat
         /\ Cardinality(S \ {x}) + 1 = Cardinality(S)
<1>1. IsFiniteSet(S \ {x}) /\ Cardinality(S \ {x}) = Cardinality(S) - 1
  BY FS_RemoveElement
<1>2. Cardinality(S) \in Nat /\ Cardinality(S \ {x}) \in Nat
  BY <1>1, FS_CardinalityType
<1> QED BY <1>1, <1>2

-----------------------------------------------------------------------------
\* The time of a set of runs (MapThenSumSet)

Any(S) == CHOOSE x \in S : TRUE

\* What MapThenSumSet takes the fixed point of.
Adds(rs, T, g) ==
  g = [s \in T |-> IF s = {} THEN 0 ELSE rs[Any(s)].run.active + g[s \ {Any(s)}]]

\* The element that the library's fold takes first.
LEMMA AnyIn == ASSUME NEW S, S # {} PROVE Any(S) \in S
  BY DEF Any

\* g adds up the runs of S, and h those of a part T of them.
BothAdd(rs, S, T, g, h) ==
  IsFiniteSet(S) /\ T \subseteq S /\ Adds(rs, SUBSET S, g) /\ Adds(rs, SUBSET T, h)

\* The fixed point of a set decides that of each of its subsets.
LEMMA AddsUnique ==
  ASSUME NEW rs, NEW S, NEW T, NEW g, NEW h, BothAdd(rs, S, T, g, h)
  PROVE  g[T] = h[T]
<1>0. /\ IsFiniteSet(S) /\ T \subseteq S
      /\ Adds(rs, SUBSET S, g) /\ Adds(rs, SUBSET T, h)
  BY DEF BothAdd
<1> DEFINE Q == {s \in SUBSET T : g[s] # h[s]}
<1>1. \A s \in SUBSET T : IsFiniteSet(s)
  BY <1>0, FS_Subset
<1>2. SUFFICES ASSUME Q # {} PROVE FALSE
  BY <1>2
<1>3. PICK m \in Q : \A s \in Q : Cardinality(m) <= Cardinality(s)
  BY <1>1, <1>2, SomeSmallest
<1>4. m \in SUBSET T /\ m \in SUBSET S /\ g[m] # h[m] /\ IsFiniteSet(m)
  BY <1>0, <1>1, <1>3
<1>5. CASE m = {}
  <2>1. g[m] = 0 /\ h[m] = 0
    BY <1>0, <1>4, <1>5, Zenon DEF Adds
  <2> QED BY <1>4, <2>1
<1>6. CASE m # {}
  <2>1. Any(m) \in m
    BY <1>6, AnyIn
  <2> DEFINE t == m \ {Any(m)}
  <2>2. g[m] = rs[Any(m)].run.active + g[t] /\ h[m] = rs[Any(m)].run.active + h[t]
    BY <1>0, <1>4, <1>6, Zenon DEF Adds
  <2>3. g[t] # h[t] /\ t \in SUBSET T
    BY <1>4, <2>2
  <2>4. Cardinality(m) <= Cardinality(t)
    BY <1>3, <2>3
  <2>5. /\ Cardinality(t) + 1 = Cardinality(m)
        /\ Cardinality(t) \in Nat /\ Cardinality(m) \in Nat
    BY <1>4, <2>1, OneLess
  <2> HIDE DEF t
  <2> QED BY <2>4, <2>5
<1> QED BY <1>5, <1>6

\* There is such a fixed point, by the size of the set.
LEMMA AddsExists ==
  ASSUME NEW rs, NEW S, IsFiniteSet(S)
  PROVE  \E g : Adds(rs, SUBSET S, g)
<1> DEFINE Sub(k) == {s \in SUBSET S : Cardinality(s) <= k}
           Q == {k \in Nat : ~ \E g : Adds(rs, Sub(k), g)}
<1>1. \A s \in SUBSET S : IsFiniteSet(s) /\ Cardinality(s) \in Nat
  BY FS_Subset, FS_CardinalityType
<1>2. Q = {}
  <2>1. SUFFICES ASSUME Q # {} PROVE FALSE
    BY <2>1
  <2>2. PICK k \in Q : \A n \in Q : k <= n
    BY <2>1, SomeLeast
  <2>3. k \in Nat /\ ~ \E g : Adds(rs, Sub(k), g)
    BY <2>2
  <2>4. CASE k = 0
    <3> DEFINE z == [s \in Sub(0) |-> 0]
    <3>1. ASSUME NEW s \in Sub(0) PROVE s = {}
      <4>1. IsFiniteSet(s) /\ Cardinality(s) = 0
        BY <1>1
      <4> QED BY <4>1, FS_EmptySet
    <3>2. Adds(rs, Sub(0), z)
      <4> HIDE DEF Sub
      <4>1. z = [s \in Sub(0) |-> IF s = {} THEN 0
                                  ELSE rs[Any(s)].run.active + z[s \ {Any(s)}]]
        BY <3>1
      <4> QED BY <4>1, Zenon DEF Adds
    <3> QED BY <2>3, <2>4, <3>2
  <2>5. CASE k # 0
    <3>1. k - 1 \in Nat /\ ~(k <= k - 1)
      BY <2>3, <2>5
    <3>2. k - 1 \notin Q
      BY <2>2, <3>1
    <3>3. PICK h : Adds(rs, Sub(k - 1), h)
      BY <3>1, <3>2
    <3> DEFINE g == [s \in Sub(k) |-> IF s = {} THEN 0
                                      ELSE rs[Any(s)].run.active + h[s \ {Any(s)}]]
    <3>4. ASSUME NEW s \in Sub(k - 1) PROVE s \in Sub(k) /\ g[s] = h[s]
      <4>1. s \in Sub(k)
        BY <1>1, <2>3, <3>1
      <4>2. h[s] = IF s = {} THEN 0 ELSE rs[Any(s)].run.active + h[s \ {Any(s)}]
        <5> HIDE DEF Sub
        <5> QED BY <3>3, Zenon DEF Adds
      <4> HIDE DEF Sub
      <4> QED BY <4>1, <4>2
    <3>5. ASSUME NEW s \in Sub(k), s # {} PROVE s \ {Any(s)} \in Sub(k - 1)
      <4>1. Any(s) \in s
        BY <3>5, AnyIn
      <4>2. IsFiniteSet(s) /\ Cardinality(s) <= k /\ s \in SUBSET S
        BY <1>1
      <4>3. /\ Cardinality(s \ {Any(s)}) + 1 = Cardinality(s)
            /\ Cardinality(s \ {Any(s)}) \in Nat /\ Cardinality(s) \in Nat
        BY <4>1, <4>2, OneLess
      <4>4. Cardinality(s \ {Any(s)}) <= k - 1
        BY <2>3, <4>2, <4>3
      <4> QED BY <4>2, <4>4
    <3>6. g = [s \in Sub(k) |-> IF s = {} THEN 0
                                ELSE rs[Any(s)].run.active + g[s \ {Any(s)}]]
      <4> HIDE DEF Sub
      <4> QED BY <3>4, <3>5
    <3>7. Adds(rs, Sub(k), g)
      BY <3>6, Zenon DEF Adds
    <3> QED BY <2>3, <3>7
  <2> QED BY <2>4, <2>5
<1>3. Cardinality(S) \in Nat
  BY FS_CardinalityType
<1>4. PICK g : Adds(rs, Sub(Cardinality(S)), g)
  BY <1>2, <1>3
<1>5. Sub(Cardinality(S)) = SUBSET S
  <2>1. ASSUME NEW s \in SUBSET S PROVE Cardinality(s) <= Cardinality(S)
    BY FS_Subset
  <2> QED BY <2>1
<1> QED BY <1>4, <1>5

\* Time is what the fixed point gives.
LEMMA TimeIs ==
  ASSUME NEW rs, NEW S, IsFiniteSet(S)
  PROVE  \E g : Adds(rs, SUBSET S, g) /\ Time(rs, S) = g[S]
<1> DEFINE g == CHOOSE it : it = [s \in SUBSET S |->
                  IF s = {} THEN 0
                  ELSE rs[CHOOSE x \in s : TRUE].run.active
                         + it[s \ {CHOOSE x \in s : TRUE}]]
<1>1. Time(rs, S) = g[S]
  BY Zenon DEF Time, MapThenSumSet, MapThenFoldSet
<1>2. \E it : it = [s \in SUBSET S |->
                  IF s = {} THEN 0
                  ELSE rs[CHOOSE x \in s : TRUE].run.active
                         + it[s \ {CHOOSE x \in s : TRUE}]]
  <2>1. PICK h : Adds(rs, SUBSET S, h)
    BY AddsExists
  <2>2. h = [s \in SUBSET S |->
                  IF s = {} THEN 0
                  ELSE rs[CHOOSE x \in s : TRUE].run.active
                         + h[s \ {CHOOSE x \in s : TRUE}]]
    BY <2>1, Zenon DEF Adds, Any
  <2> QED BY <2>2, Zenon
<1>3. g = [s \in SUBSET S |->
                  IF s = {} THEN 0
                  ELSE rs[CHOOSE x \in s : TRUE].run.active
                         + g[s \ {CHOOSE x \in s : TRUE}]]
  BY <1>2, Zenon
<1>4. Adds(rs, SUBSET S, g)
  BY <1>3, Zenon DEF Adds, Any
<1> QED BY <1>1, <1>4, Zenon

LEMMA TimeOfNone == ASSUME NEW rs PROVE Time(rs, {}) = 0
<1>1. PICK g : Adds(rs, SUBSET {}, g) /\ Time(rs, {}) = g[{}]
  BY FS_EmptySet, TimeIs
<1> QED BY <1>1, Zenon DEF Adds

\* The time of a set: that of the element taken first, and of the rest.
LEMMA TimeOfAny ==
  ASSUME NEW rs, NEW S, IsFiniteSet(S), S # {}
  PROVE  Time(rs, S) = rs[Any(S)].run.active + Time(rs, S \ {Any(S)})
<1> PICK T : T = S \ {Any(S)}
  OBVIOUS
<1>1. PICK g : Adds(rs, SUBSET S, g) /\ Time(rs, S) = g[S]
  BY TimeIs
<1>2. IsFiniteSet(T) /\ T \subseteq S
  BY FS_Subset
<1>3. PICK h : Adds(rs, SUBSET T, h) /\ Time(rs, T) = h[T]
  BY <1>2, TimeIs
<1>4. g[S] = rs[Any(S)].run.active + g[T]
  BY <1>1, Zenon DEF Adds
<1>5. g[T] = h[T]
  <2>1. BothAdd(rs, S, T, g, h)
    BY <1>1, <1>2, <1>3 DEF BothAdd
  <2> QED BY <2>1, AddsUnique
<1>6. Time(rs, S) = rs[Any(S)].run.active + g[T]
  BY <1>1, <1>4, Zenon
<1> QED BY <1>3, <1>5, <1>6, Zenon

\* Finitely many runs, each with its time.
Timing(rs, S) == IsFiniteSet(S) /\ \A i \in S : rs[i].run.active \in Nat

\* A sum of times is a time.
LEMMA TimeTyped ==
  ASSUME NEW rs, NEW S, Timing(rs, S)
  PROVE  Time(rs, S) \in Nat
<1> DEFINE Q == {s \in SUBSET S : Time(rs, s) \notin Nat}
<1>1. \A s \in SUBSET S : IsFiniteSet(s)
  BY FS_Subset DEF Timing
<1>2. SUFFICES ASSUME Q # {} PROVE FALSE
  BY <1>2
<1>3. PICK m \in Q : \A s \in Q : Cardinality(m) <= Cardinality(s)
  BY <1>1, <1>2, SomeSmallest
<1>4. m \in SUBSET S /\ Time(rs, m) \notin Nat /\ IsFiniteSet(m)
  BY <1>1, <1>3
<1>5. m # {}
  BY <1>4, TimeOfNone
<1> DEFINE t == m \ {Any(m)}
<1>6. Any(m) \in m /\ rs[Any(m)].run.active \in Nat
  BY <1>4, <1>5, AnyIn DEF Timing
<1>7. Time(rs, m) = rs[Any(m)].run.active + Time(rs, t)
  BY <1>4, <1>5, TimeOfAny
<1>8. /\ Cardinality(t) + 1 = Cardinality(m)
      /\ Cardinality(t) \in Nat /\ Cardinality(m) \in Nat
  BY <1>4, <1>6, OneLess
<1>9. t \notin Q /\ t \in SUBSET S
  BY <1>3, <1>4, <1>8
<1>10. Time(rs, t) \in Nat
  BY <1>9
<1> HIDE DEF t
<1> QED BY <1>4, <1>6, <1>7, <1>10

\* Any element may be taken first.
LEMMA TimeWithout ==
  ASSUME NEW rs, NEW S, Timing(rs, S), NEW y \in S
  PROVE  Time(rs, S) = rs[y].run.active + Time(rs, S \ {y})
<1> DEFINE Q == {s \in SUBSET S : \E z \in s :
                   Time(rs, s) # rs[z].run.active + Time(rs, s \ {z})}
<1>1. \A s \in SUBSET S : IsFiniteSet(s) /\ Timing(rs, s)
  BY FS_Subset DEF Timing
<1>2. SUFFICES ASSUME Q # {} PROVE FALSE
  BY <1>2
<1>3. PICK m \in Q : \A s \in Q : Cardinality(m) <= Cardinality(s)
  BY <1>1, <1>2, SomeSmallest
<1>4. PICK z \in m : Time(rs, m) # rs[z].run.active + Time(rs, m \ {z})
  BY <1>3
<1>5. m \in SUBSET S /\ IsFiniteSet(m) /\ m # {}
  BY <1>1, <1>3, <1>4
<1> DEFINE x == Any(m)
<1>6. x \in m
  BY <1>5, AnyIn
<1>7. Time(rs, m) = rs[x].run.active + Time(rs, m \ {x})
  BY <1>5, TimeOfAny
<1>8. x # z
  BY <1>4, <1>7
<1> HIDE DEF x
<1>9. ASSUME NEW v \in m, NEW w \in m \ {v}
      PROVE  Time(rs, m \ {v}) = rs[w].run.active + Time(rs, (m \ {v}) \ {w})
  <2>1. /\ Cardinality(m \ {v}) + 1 = Cardinality(m)
        /\ Cardinality(m \ {v}) \in Nat /\ Cardinality(m) \in Nat
    BY <1>5, OneLess
  <2>2. m \ {v} \in SUBSET S /\ ~(Cardinality(m) <= Cardinality(m \ {v}))
    BY <1>5, <2>1
  <2>3. m \ {v} \notin Q
    BY <1>3, <2>2
  <2> QED BY <2>2, <2>3
<1>10. Time(rs, m \ {x}) = rs[z].run.active + Time(rs, (m \ {x}) \ {z})
  BY <1>6, <1>8, <1>9
<1>11. Time(rs, m \ {z}) = rs[x].run.active + Time(rs, (m \ {z}) \ {x})
  BY <1>6, <1>8, <1>9
<1>12. (m \ {x}) \ {z} = (m \ {z}) \ {x}
  OBVIOUS
<1>13. rs[x].run.active \in Nat /\ rs[z].run.active \in Nat
  BY <1>5, <1>6 DEF Timing
<1>14. (m \ {z}) \ {x} \in SUBSET S
  BY <1>5
<1>15. Time(rs, (m \ {z}) \ {x}) \in Nat
  BY <1>1, <1>14, TimeTyped
<1>16. Time(rs, (m \ {x}) \ {z}) = Time(rs, (m \ {z}) \ {x})
  BY <1>12
<1> DEFINE a == Time(rs, m)  b == Time(rs, m \ {x})  c == Time(rs, m \ {z})
           d == Time(rs, (m \ {z}) \ {x})
           u == rs[x].run.active  v == rs[z].run.active
<1>17. /\ a # v + c /\ a = u + b /\ b = v + d /\ c = u + d
       /\ u \in Nat /\ v \in Nat /\ d \in Nat
  BY <1>4, <1>7, <1>10, <1>11, <1>13, <1>15, <1>16
<1> HIDE DEF a, b, c, d, u, v
<1> QED BY <1>17

\* Two histories that agree on the runs of a set agree on its time.
LEMMA TimeAgrees ==
  ASSUME NEW rs, NEW qs, NEW S, IsFiniteSet(S), \A i \in S : rs[i] = qs[i]
  PROVE  Time(rs, S) = Time(qs, S)
<1> DEFINE Q == {s \in SUBSET S : Time(rs, s) # Time(qs, s)}
<1>1. \A s \in SUBSET S : IsFiniteSet(s)
  BY FS_Subset
<1>2. SUFFICES ASSUME Q # {} PROVE FALSE
  BY <1>2
<1>3. PICK m \in Q : \A s \in Q : Cardinality(m) <= Cardinality(s)
  BY <1>1, <1>2, SomeSmallest
<1>4. m \in SUBSET S /\ Time(rs, m) # Time(qs, m) /\ IsFiniteSet(m)
  BY <1>1, <1>3
<1>5. m # {}
  BY <1>4, TimeOfNone
<1> DEFINE t == m \ {Any(m)}
<1>6. Any(m) \in m
  BY <1>5, AnyIn
<1>7. /\ Time(rs, m) = rs[Any(m)].run.active + Time(rs, t)
      /\ Time(qs, m) = qs[Any(m)].run.active + Time(qs, t)
  BY <1>4, <1>5, TimeOfAny
<1>8. /\ Cardinality(t) + 1 = Cardinality(m)
      /\ Cardinality(t) \in Nat /\ Cardinality(m) \in Nat
  BY <1>4, <1>6, OneLess
<1>9. t \notin Q /\ t \in SUBSET S
  BY <1>3, <1>4, <1>8
<1>10. Time(rs, t) = Time(qs, t)
  BY <1>9
<1>11. rs[Any(m)] = qs[Any(m)]
  BY <1>4, <1>6
<1> HIDE DEF t
<1> QED BY <1>4, <1>7, <1>10, <1>11

-----------------------------------------------------------------------------
\* The last of some runs

\* Max is the last of some numbered runs.
LEMMA MaxIs ==
  ASSUME NEW L \in Nat, NEW S, S \subseteq 1..L, S # {}
  PROVE  Max(S) \in S /\ \A i \in S : i <= Max(S)
<1> DEFINE Q == {L - i : i \in S}
<1>1. Q \subseteq Nat /\ Q # {}
  <2>1. ASSUME NEW i \in S PROVE L - i \in Nat
    <3>1. i \in 1..L
      OBVIOUS
    <3> QED BY <3>1
  <2> QED BY <2>1
<1>2. PICK q \in Q : \A k \in Q : q <= k
  BY <1>1, SomeLeast
<1>3. PICK m \in S : q = L - m
  OBVIOUS
<1>4. ASSUME NEW i \in S PROVE m >= i
  <2>1. i \in 1..L /\ m \in 1..L /\ L - m <= L - i
    BY <1>2, <1>3
  <2> QED BY <2>1
<1>5. \E x \in S : \A y \in S : x >= y
  BY <1>4
<1>6. Max(S) \in S /\ \A y \in S : Max(S) >= y
  BY <1>5, Zenon DEF Max
<1>7. ASSUME NEW i \in S PROVE i <= Max(S)
  <2>1. i \in 1..L /\ Max(S) \in 1..L /\ Max(S) >= i
    BY <1>6
  <2> QED BY <2>1
<1> QED BY <1>6, <1>7

\* A later run is the last one.
LEMMA MaxOfLater ==
  ASSUME NEW L \in Nat, NEW S, S \subseteq 1..L
  PROVE  Max(S \cup {L + 1}) = L + 1
<1> DEFINE T == S \cup {L + 1}
<1>1. T \subseteq 1..(L + 1) /\ T # {} /\ L + 1 \in Nat /\ L + 1 \in T
  OBVIOUS
<1>2. Max(T) \in T /\ L + 1 <= Max(T)
  <2> HIDE DEF T
  <2> QED BY <1>1, MaxIs
<1>3. Max(T) \in 1..(L + 1)
  BY <1>1, <1>2
<1> HIDE DEF T
<1>4. Max(T) = L + 1
  BY <1>2, <1>3
<1> QED BY <1>4 DEF T

-----------------------------------------------------------------------------
\* The parts

Makes(rs, L, g) ==
  g = [n \in 0..L |-> IF n = 0 THEN {} ELSE Leaves(rs, n, g[n - 1])]

\* The parts can be followed run by run up to any run.
LEMMA MakesExists ==
  ASSUME NEW rs, NEW L \in Nat PROVE \E g : Makes(rs, L, g)
<1> DEFINE Q == {k \in Nat : ~ \E g : Makes(rs, k, g)}
<1>1. SUFFICES ASSUME Q # {} PROVE FALSE
  BY <1>1
<1>2. PICK k \in Q : \A n \in Q : k <= n
  BY <1>1, SomeLeast
<1>3. k \in Nat /\ ~ \E g : Makes(rs, k, g)
  BY <1>2
<1>4. CASE k = 0
  <2> DEFINE g == [n \in 0..0 |-> {}]
  <2>1. g = [n \in 0..0 |-> IF n = 0 THEN {} ELSE Leaves(rs, n, g[n - 1])]
    OBVIOUS
  <2>2. Makes(rs, 0, g)
    BY <2>1, Zenon DEF Makes
  <2> QED BY <1>3, <1>4, <2>2
<1>5. CASE k # 0
  <2>1. k - 1 \in Nat /\ ~(k <= k - 1)
    BY <1>3, <1>5
  <2>2. k - 1 \notin Q
    BY <1>2, <2>1
  <2>3. PICK h : Makes(rs, k - 1, h)
    BY <2>1, <2>2
  <2>4. h = [n \in 0..(k - 1) |-> IF n = 0 THEN {} ELSE Leaves(rs, n, h[n - 1])]
    BY <2>3, Zenon DEF Makes
  <2> DEFINE g == [n \in 0..k |-> IF n = 0 THEN {} ELSE Leaves(rs, n, h[n - 1])]
  <2>5. ASSUME NEW n \in 0..(k - 1) PROVE g[n] = h[n]
    <3>1. n \in 0..k
      BY <2>1, <1>3
    <3> QED BY <2>4, <3>1
  <2>6. ASSUME NEW n \in 0..k, n # 0 PROVE n - 1 \in 0..(k - 1)
    BY <1>3, <2>6
  <2>7. g = [n \in 0..k |-> IF n = 0 THEN {} ELSE Leaves(rs, n, g[n - 1])]
    BY <2>5, <2>6
  <2>8. Makes(rs, k, g)
    BY <2>7, Zenon DEF Makes
  <2> QED BY <1>3, <2>8
<1> QED BY <1>4, <1>5

\* PartAfter is what its definition says.
LEMMA PartUnfolds ==
  ASSUME NEW rs \in Seq(EndedRun)
  PROVE  /\ PartAfter(rs)[0] = {}
         /\ \A n \in 1..Len(rs) : PartAfter(rs)[n] = Leaves(rs, n, PartAfter(rs)[n - 1])
<1>1. Len(rs) \in Nat
  OBVIOUS
<1>2. PICK h : Makes(rs, Len(rs), h)
  BY <1>1, MakesExists
<1>3. \E g : g = [n \in 0..Len(rs) |-> IF n = 0 THEN {} ELSE Leaves(rs, n, g[n - 1])]
  <2>1. h = [n \in 0..Len(rs) |-> IF n = 0 THEN {} ELSE Leaves(rs, n, h[n - 1])]
    BY <1>2, Zenon DEF Makes
  <2> QED BY <2>1, Zenon
<1> DEFINE g == PartAfter(rs)
<1>4. g = [n \in 0..Len(rs) |-> IF n = 0 THEN {} ELSE Leaves(rs, n, g[n - 1])]
  BY <1>3, Zenon DEF PartAfter
<1> HIDE DEF g
<1>5. g[0] = {}
  <2>1. 0 \in 0..Len(rs)
    BY <1>1
  <2> QED BY <1>4, <2>1
<1>6. ASSUME NEW n \in 1..Len(rs) PROVE g[n] = Leaves(rs, n, g[n - 1])
  <2>1. n \in 0..Len(rs) /\ n # 0
    BY <1>1
  <2> QED BY <1>4, <2>1
<1> QED BY <1>5, <1>6 DEF g

\* A part is made of runs up to the one it is open after.
LEMMA PartTyped ==
  ASSUME NEW rs \in Seq(EndedRun), NEW n \in 0..Len(rs)
  PROVE  PartAfter(rs)[n] \subseteq 1..n
<1> DEFINE Q == {k \in 0..Len(rs) : ~(PartAfter(rs)[k] \subseteq 1..k)}
<1>1. SUFFICES ASSUME Q # {} PROVE FALSE
  BY <1>1
<1>2. Q \subseteq Nat /\ Len(rs) \in Nat
  OBVIOUS
<1>3. PICK k \in Q : \A m \in Q : k <= m
  BY <1>1, <1>2, SomeLeast
<1>4. k \in 0..Len(rs) /\ k \in Nat /\ ~(PartAfter(rs)[k] \subseteq 1..k)
  BY <1>3
<1>5. k # 0
  BY <1>4, PartUnfolds
<1>6. k \in 1..Len(rs) /\ k - 1 \in 0..Len(rs) /\ ~(k <= k - 1)
  BY <1>2, <1>4, <1>5
<1>7. PartAfter(rs)[k - 1] \subseteq 1..(k - 1)
  BY <1>3, <1>6
<1> DEFINE S == PartAfter(rs)[k - 1]
<1>8. PartAfter(rs)[k] = Leaves(rs, k, S)
  BY <1>6, PartUnfolds
<1>9. Leaves(rs, k, S) \subseteq S \cup {k}
  <2> HIDE DEF S
  <2> QED BY DEF Leaves, GoesOn
<1>10. S \cup {k} \subseteq 1..k
  <2>1. 1..(k - 1) \subseteq 1..k /\ k \in 1..k
    BY <1>4, <1>6
  <2> QED BY <1>7, <2>1
<1> QED BY <1>4, <1>8, <1>9, <1>10

LEMMA RunsFinite ==
  ASSUME NEW k \in Nat, NEW S, S \subseteq 1..k
  PROVE  IsFiniteSet(S)
<1>1. 1 \in Int /\ k \in Int
  OBVIOUS
<1>2. IsFiniteSet(1..k)
  BY <1>1, FS_Interval
<1> QED BY <1>2, FS_Subset

\* Two histories that agree up to a run agree on what it does with the part S.
Agree(rs, qs, k) == \A i \in 1..k : rs[i] = qs[i]

\* Agreeing histories let the same runs abandon a part,
LEMMA AbandonsAgrees ==
  ASSUME NEW rs, NEW qs, NEW k \in Nat, NEW r, NEW S, S \subseteq 1..k, Agree(rs, qs, k)
  PROVE  Abandons(rs, r, S) <=> Abandons(qs, r, S)
<1>1. CASE S = {}
  BY <1>1 DEF Abandons
<1>2. CASE S # {}
  <2>1. Max(S) \in 1..k
    BY <1>2, MaxIs
  <2>2. rs[Max(S)] = qs[Max(S)]
    BY <2>1 DEF Agree
  <2> QED BY <2>2 DEF Abandons
<1> QED BY <1>1, <1>2

\* give a part the same time,
LEMMA TimesAgree ==
  ASSUME NEW rs, NEW qs, NEW k \in Nat, NEW S, S \subseteq 1..k, Agree(rs, qs, k)
  PROVE  Time(rs, S) = Time(qs, S)
<1>1. IsFiniteSet(S) /\ \A i \in S : rs[i] = qs[i]
  BY RunsFinite DEF Agree
<1> QED BY <1>1, TimeAgrees

\* discard the same runs,
LEMMA RunAgrees ==
  ASSUME NEW rs, NEW qs, NEW k \in Nat \ {0}, NEW S, S \subseteq 1..(k - 1), Agree(rs, qs, k)
  PROVE  /\ rs[k] = qs[k]
         /\ Abandons(rs, rs[k].run, S) <=> Abandons(qs, qs[k].run, S)
         /\ Discarded(rs, k, S) <=> Discarded(qs, k, S)
<1>1. k - 1 \in Nat /\ Agree(rs, qs, k - 1) /\ rs[k] = qs[k]
  BY DEF Agree
<1>2. Abandons(rs, rs[k].run, S) <=> Abandons(qs, rs[k].run, S)
  BY <1>1, AbandonsAgrees
<1>3. GoesOn(rs, k, S) = GoesOn(qs, k, S) /\ GoesOn(rs, k, S) \subseteq 1..(k - 1)
  BY <1>1, <1>2 DEF GoesOn
<1>4. Time(rs, GoesOn(rs, k, S)) = Time(qs, GoesOn(qs, k, S))
  BY <1>1, <1>3, TimesAgree
<1>5. Discarded(rs, k, S) <=> Discarded(qs, k, S)
  BY <1>1, <1>3, <1>4 DEF Discarded
<1> QED BY <1>1, <1>2, <1>5

\* and leave the same part open after each run.
LEMMA PartsAgree ==
  ASSUME NEW rs \in Seq(EndedRun), NEW qs \in Seq(EndedRun),
         Len(rs) <= Len(qs), Agree(rs, qs, Len(rs)), NEW n \in 0..Len(rs)
  PROVE  PartAfter(rs)[n] = PartAfter(qs)[n]
<1> DEFINE Q == {k \in 0..Len(rs) : PartAfter(rs)[k] # PartAfter(qs)[k]}
<1>1. SUFFICES ASSUME Q # {} PROVE FALSE
  BY <1>1
<1>2. Q \subseteq Nat /\ Len(rs) \in Nat /\ Len(qs) \in Nat
  OBVIOUS
<1>3. PICK k \in Q : \A m \in Q : k <= m
  BY <1>1, <1>2, SomeLeast
<1>4. k \in 0..Len(rs) /\ k \in Nat /\ PartAfter(rs)[k] # PartAfter(qs)[k]
  BY <1>3
<1>5. k # 0
  BY <1>4, PartUnfolds
<1>6. k \in 1..Len(rs) /\ k \in 1..Len(qs) /\ k - 1 \in 0..Len(rs) /\ ~(k <= k - 1)
      /\ k \in Nat \ {0}
  BY <1>2, <1>4, <1>5
<1>7. PartAfter(rs)[k - 1] = PartAfter(qs)[k - 1]
  BY <1>3, <1>6
<1> DEFINE S == PartAfter(rs)[k - 1]
<1>8. PartAfter(rs)[k] = Leaves(rs, k, S) /\ PartAfter(qs)[k] = Leaves(qs, k, S)
  BY <1>6, <1>7, PartUnfolds
<1>9. S \subseteq 1..(k - 1)
  BY <1>6, PartTyped
<1>10. Agree(rs, qs, k)
  <2>1. 1..k \subseteq 1..Len(rs)
    BY <1>2, <1>6
  <2> QED BY <2>1 DEF Agree
<1> HIDE DEF S
<1>11. Leaves(rs, k, S) = Leaves(qs, k, S)
  <2>1. k \in Nat \ {0} /\ S \subseteq 1..(k - 1) /\ Agree(rs, qs, k)
    BY <1>6, <1>9, <1>10
  <2>2. /\ rs[k] = qs[k]
        /\ Abandons(rs, rs[k].run, S) <=> Abandons(qs, qs[k].run, S)
        /\ Discarded(rs, k, S) <=> Discarded(qs, k, S)
    BY <2>1, RunAgrees
  <2>3. GoesOn(rs, k, S) = GoesOn(qs, k, S)
    BY <2>2 DEF GoesOn
  <2> QED BY <2>2, <2>3 DEF Leaves
<1> QED BY <1>4, <1>8, <1>11

-----------------------------------------------------------------------------
\* One more run ends

Longer(rs, qs) ==
  /\ rs \in Seq(EndedRun) /\ qs \in Seq(EndedRun)
  /\ Len(qs) = Len(rs) + 1
  /\ Agree(rs, qs, Len(rs))

TimeOfLast(rs) ==
  LET last == Max(Completing(rs))
  IN  Time(rs, GoesOn(rs, last, Before(rs, last)) \cup {last})

\* One run more leaves the parts before it as they were.
LEMMA PartsGrow ==
  ASSUME NEW rs, NEW qs, Longer(rs, qs)
  PROVE  /\ Len(rs) \in Nat /\ DOMAIN rs = 1..Len(rs) /\ DOMAIN qs = 1..(Len(rs) + 1)
         /\ OpenPart(rs) \subseteq 1..Len(rs)
         /\ Before(qs, Len(rs) + 1) = OpenPart(rs)
         /\ OpenPart(qs) = Leaves(qs, Len(rs) + 1, OpenPart(rs))
         /\ \A k \in 1..Len(rs) :
              Before(qs, k) = Before(rs, k) /\ Before(rs, k) \subseteq 1..(k - 1)
<1>1. /\ rs \in Seq(EndedRun) /\ qs \in Seq(EndedRun) /\ Agree(rs, qs, Len(rs))
      /\ Len(qs) = Len(rs) + 1 /\ Len(rs) \in Nat /\ Len(rs) <= Len(qs)
      /\ DOMAIN rs = 1..Len(rs) /\ DOMAIN qs = 1..(Len(rs) + 1)
  BY DEF Longer
<1>2. Len(rs) \in 0..Len(rs) /\ Len(rs) + 1 \in 1..Len(qs)
  BY <1>1
<1>3. OpenPart(rs) \subseteq 1..Len(rs)
  BY <1>1, <1>2, PartTyped DEF OpenPart
<1>4. PartAfter(qs)[Len(rs)] = OpenPart(rs)
  BY <1>1, <1>2, PartsAgree DEF OpenPart
<1>5. Before(qs, Len(rs) + 1) = OpenPart(rs)
  <2>1. (Len(rs) + 1) - 1 = Len(rs)
    BY <1>1
  <2> QED BY <1>4, <2>1 DEF Before
<1>6. OpenPart(qs) = Leaves(qs, Len(rs) + 1, OpenPart(rs))
  <2>1. PartAfter(qs)[Len(rs) + 1] = Leaves(qs, Len(rs) + 1, PartAfter(qs)[(Len(rs) + 1) - 1])
    BY <1>1, <1>2, PartUnfolds
  <2> QED BY <1>1, <1>5, <2>1 DEF Before, OpenPart
<1>7. ASSUME NEW k \in 1..Len(rs)
      PROVE  Before(qs, k) = Before(rs, k) /\ Before(rs, k) \subseteq 1..(k - 1)
  <2>1. k - 1 \in 0..Len(rs)
    BY <1>1
  <2>2. PartAfter(rs)[k - 1] = PartAfter(qs)[k - 1]
    BY <1>1, <2>1, PartsAgree
  <2>3. PartAfter(rs)[k - 1] \subseteq 1..(k - 1)
    BY <1>1, <2>1, PartTyped
  <2> QED BY <2>2, <2>3 DEF Before
<1> QED BY <1>1, <1>3, <1>5, <1>6, <1>7

\* What the runs before were taken for stays.
LEMMA RunsStand ==
  ASSUME NEW rs, NEW qs, Longer(rs, qs), NEW k \in 1..Len(rs)
  PROVE  /\ k \in Completing(qs) <=> k \in Completing(rs)
         /\ k \in Abandoning(qs) <=> k \in Abandoning(rs)
         /\ k \in Aborting(qs) <=> k \in Aborting(rs)
         /\ GoesOn(qs, k, Before(qs, k)) = GoesOn(rs, k, Before(rs, k))
         /\ GoesOn(rs, k, Before(rs, k)) \subseteq 1..(k - 1)
         /\ Agree(rs, qs, k) /\ rs[k] = qs[k]
<1>1. /\ Len(rs) \in Nat /\ DOMAIN rs = 1..Len(rs) /\ DOMAIN qs = 1..(Len(rs) + 1)
      /\ Before(qs, k) = Before(rs, k) /\ Before(rs, k) \subseteq 1..(k - 1)
  BY PartsGrow
<1>2. k \in Nat \ {0} /\ k \in DOMAIN rs /\ k \in DOMAIN qs /\ 1..k \subseteq 1..Len(rs)
  BY <1>1
<1>3. Agree(rs, qs, k)
  BY <1>2 DEF Longer, Agree
<1> DEFINE S == Before(rs, k)
<1>4. S \subseteq 1..(k - 1) /\ Before(qs, k) = S
  BY <1>1
<1>5. /\ rs[k] = qs[k]
      /\ Abandons(rs, rs[k].run, S) <=> Abandons(qs, qs[k].run, S)
      /\ Discarded(rs, k, S) <=> Discarded(qs, k, S)
  <2> HIDE DEF S
  <2> QED BY <1>2, <1>3, <1>4, RunAgrees
<1>6. GoesOn(rs, k, S) = GoesOn(qs, k, S) /\ GoesOn(rs, k, S) \subseteq 1..(k - 1)
  BY <1>4, <1>5 DEF GoesOn
<1>7. k \in Completing(qs) <=> k \in Completing(rs)
  BY <1>2, <1>4, <1>5 DEF Completing
<1>8. k \in Abandoning(qs) <=> k \in Abandoning(rs)
  BY <1>2, <1>4, <1>5 DEF Abandoning
<1>9. k \in Aborting(qs) <=> k \in Aborting(rs)
  BY <1>2, <1>4, <1>5, <1>6 DEF Aborting
<1> QED BY <1>3, <1>4, <1>5, <1>6, <1>7, <1>8, <1>9

\* How many runs a set of them has when one more is looked at.
LEMMA OneMore ==
  ASSUME NEW L \in Nat, NEW S, NEW T, S \subseteq 1..L, T \subseteq 1..(L + 1),
         \A k \in 1..L : k \in T <=> k \in S
  PROVE  /\ Cardinality(T) = Cardinality(S) + (IF L + 1 \in T THEN 1 ELSE 0)
         /\ Cardinality(S) \in Nat
         /\ L + 1 \in T => Max(T) = L + 1
         /\ L + 1 \notin T => \A k \in T : k \in S
<1>1. IsFiniteSet(S) /\ Cardinality(S) \in Nat
  BY RunsFinite, FS_CardinalityType
<1>2. \A k \in 1..(L + 1) : k = L + 1 \/ k \in 1..L
  OBVIOUS
<1>3. CASE L + 1 \in T
  <2>1. T = S \cup {L + 1} /\ L + 1 \notin S
    <3>1. ASSUME NEW k \in T, k # L + 1 PROVE k \in S
      BY <1>2, <3>1
    <3>2. ASSUME NEW k \in S PROVE k \in T
      BY <3>2
    <3>3. L + 1 \notin S
      OBVIOUS
    <3> QED BY <1>3, <3>1, <3>2, <3>3
  <2>2. Cardinality(T) = Cardinality(S) + 1
    BY <1>1, <2>1, FS_AddElement
  <2>3. Max(T) = L + 1
    BY <2>1, MaxOfLater
  <2> QED BY <1>1, <1>3, <2>2, <2>3
<1>4. CASE L + 1 \notin T
  <2>1. \A k \in T : k \in S
    BY <1>2, <1>4
  <2>2. ASSUME NEW k \in S PROVE k \in T
    BY <2>2
  <2>3. T = S
    BY <2>1, <2>2
  <2> QED BY <1>1, <1>4, <2>3
<1> QED BY <1>3, <1>4

\* Each count grows by one if the new run is one of those counted.
LEMMA CountsGrow ==
  ASSUME NEW rs, NEW qs, Longer(rs, qs), NEW n, n = Len(rs) + 1
  PROVE  /\ Cardinality(Completing(qs)) =
              Cardinality(Completing(rs)) + (IF n \in Completing(qs) THEN 1 ELSE 0)
         /\ Cardinality(Abandoning(qs)) =
              Cardinality(Abandoning(rs)) + (IF n \in Abandoning(qs) THEN 1 ELSE 0)
         /\ Cardinality(Aborting(qs)) =
              Cardinality(Aborting(rs)) + (IF n \in Aborting(qs) THEN 1 ELSE 0)
         /\ Cardinality(Completing(rs)) \in Nat /\ Cardinality(Abandoning(rs)) \in Nat
         /\ Cardinality(Aborting(rs)) \in Nat
         /\ n \in Completing(qs) => Max(Completing(qs)) = n
         /\ n \notin Completing(qs) =>
              /\ Completing(qs) = Completing(rs)
              /\ Completing(rs) # {} => TimeOfLast(qs) = TimeOfLast(rs)
<1>1. /\ Len(rs) \in Nat /\ DOMAIN rs = 1..Len(rs) /\ DOMAIN qs = 1..(Len(rs) + 1)
  BY PartsGrow
<1>2. /\ Completing(rs) \subseteq 1..Len(rs) /\ Completing(qs) \subseteq 1..(Len(rs) + 1)
      /\ Abandoning(rs) \subseteq 1..Len(rs) /\ Abandoning(qs) \subseteq 1..(Len(rs) + 1)
      /\ Aborting(rs) \subseteq 1..Len(rs) /\ Aborting(qs) \subseteq 1..(Len(rs) + 1)
  BY <1>1 DEF Completing, Abandoning, Aborting
<1>3. \A k \in 1..Len(rs) : /\ k \in Completing(qs) <=> k \in Completing(rs)
                            /\ k \in Abandoning(qs) <=> k \in Abandoning(rs)
                            /\ k \in Aborting(qs) <=> k \in Aborting(rs)
  BY RunsStand
<1>4. /\ Cardinality(Completing(qs)) =
           Cardinality(Completing(rs)) + (IF n \in Completing(qs) THEN 1 ELSE 0)
      /\ Cardinality(Completing(rs)) \in Nat
      /\ n \in Completing(qs) => Max(Completing(qs)) = n
      /\ n \notin Completing(qs) => \A k \in Completing(qs) : k \in Completing(rs)
  BY <1>1, <1>2, <1>3, OneMore
<1>a. n \notin Completing(qs) => Completing(qs) = Completing(rs)
  <2>1. ASSUME NEW k \in Completing(rs) PROVE k \in Completing(qs)
    BY <1>2, <1>3, <2>1
  <2> QED BY <1>4, <2>1
<1>5. /\ Cardinality(Abandoning(qs)) =
           Cardinality(Abandoning(rs)) + (IF n \in Abandoning(qs) THEN 1 ELSE 0)
      /\ Cardinality(Abandoning(rs)) \in Nat
  BY <1>1, <1>2, <1>3, OneMore
<1>6. /\ Cardinality(Aborting(qs)) =
           Cardinality(Aborting(rs)) + (IF n \in Aborting(qs) THEN 1 ELSE 0)
      /\ Cardinality(Aborting(rs)) \in Nat
  BY <1>1, <1>2, <1>3, OneMore
<1>7. ASSUME n \notin Completing(qs), Completing(rs) # {}
      PROVE  TimeOfLast(qs) = TimeOfLast(rs)
  <2> DEFINE k == Max(Completing(rs))
             S == GoesOn(rs, k, Before(rs, k)) \cup {k}
  <2>1. k \in 1..Len(rs) /\ Completing(qs) = Completing(rs)
    BY <1>1, <1>2, <1>7, <1>a, MaxIs
  <2> HIDE DEF k
  <2>2. /\ GoesOn(qs, k, Before(qs, k)) = GoesOn(rs, k, Before(rs, k))
        /\ GoesOn(rs, k, Before(rs, k)) \subseteq 1..(k - 1)
        /\ Agree(rs, qs, k)
    BY <2>1, RunsStand
  <2>3. k \in Nat /\ S \subseteq 1..k
    <3>1. k \in Nat /\ 1..(k - 1) \subseteq 1..k /\ k \in 1..k
      BY <1>1, <2>1
    <3> QED BY <2>2, <3>1
  <2>4. TimeOfLast(rs) = Time(rs, S) /\ TimeOfLast(qs) = Time(qs, S)
    BY <2>1, <2>2 DEF TimeOfLast, k
  <2> HIDE DEF S
  <2>5. Time(rs, S) = Time(qs, S)
    BY <2>2, <2>3, TimesAgree
  <2> QED BY <2>4, <2>5
<1> QED BY <1>4, <1>5, <1>6, <1>7, <1>a

-----------------------------------------------------------------------------
\* The calculator and the runs

\* The runs that run r goes on with.
GoesOnNow(rs, r) == IF Abandons(rs, r, OpenPart(rs)) THEN {} ELSE OpenPart(rs)

Counters(rs, c) ==
  /\ c.parts = Cardinality(Completing(rs))
  /\ c.aborts = Cardinality(Aborting(rs))
  /\ Completing(rs) # {} => c.last = TimeOfLast(rs)

\* The calculator carries the part that the runs S made.
Holds(rs, c, S) ==
  /\ c.open <=> S # {}
  /\ c.carry = Time(rs, S)
  /\ c.open => c.openProgram = rs[Max(S)].run.known

\* Between two runs.
Rests(rs, c) ==
  /\ c \in Calculator
  /\ c.cycle = NoCycle
  /\ Counters(rs, c)
  /\ Holds(rs, c, OpenPart(rs))
  /\ c.partials = Cardinality(Abandoning(rs))

\* In run r.
Fits(rs, c, r) ==
  /\ c \in Calculator
  /\ c.cycle.running
  /\ c.cycle.program = r.known /\ c.cycle.origin = r.origin
  /\ Counters(rs, c)
  /\ Holds(rs, c, GoesOnNow(rs, r))
  /\ c.partials = Cardinality(Abandoning(rs))
                    + (IF Abandons(rs, r, OpenPart(rs)) THEN 1 ELSE 0)

\* The cycle's clock is the time the machine worked.
Timed(t, c, r) ==
  LET u == IF c.cycle.paused THEN c.cycle.pauseAt ELSE t
  IN  u <= t /\ u = c.cycle.start + c.cycle.pausedFor + r.active

\* What a method leaves alone.
Keeps(c, d) ==
  /\ d.parts = c.parts /\ d.aborts = c.aborts /\ d.last = c.last
  /\ d.cycle.running = c.cycle.running
  /\ d.cycle.paused = c.cycle.paused /\ d.cycle.start = c.cycle.start
  /\ d.cycle.pauseAt = c.cycle.pauseAt /\ d.cycle.pausedFor = c.cycle.pausedFor

\* Of any history.
LEMMA CountedTyped ==
  ASSUME NEW rs \in Seq(EndedRun)
  PROVE  /\ Cardinality(Abandoning(rs)) \in Nat
         /\ OpenPart(rs) \subseteq 1..Len(rs) /\ Len(rs) \in Nat
<1>1. Len(rs) \in Nat /\ DOMAIN rs = 1..Len(rs) /\ Len(rs) \in 0..Len(rs)
  OBVIOUS
<1>2. Abandoning(rs) \subseteq 1..Len(rs)
  BY <1>1 DEF Abandoning
<1>3. IsFiniteSet(Abandoning(rs))
  BY <1>1, <1>2, RunsFinite
<1> QED BY <1>1, <1>3, PartTyped, FS_CardinalityType DEF OpenPart

\* What leaves the clock alone leaves the cycle timed.
LEMMA KeepsTimed ==
  ASSUME NEW t, NEW c, NEW d, NEW r, NEW q, Keeps(c, d), Timed(t, c, r), q.active = r.active
  PROVE  Timed(t, d, q)
  BY DEF Keeps, Timed

Marked(r, o) == [r EXCEPT !.origin = IF @ = "unknown" THEN o ELSE @]

\* The run, with the answer of the tracker.
LEMMA MarkedIs ==
  ASSUME NEW r \in Run, NEW o \in Origin
  PROVE  /\ Marked(r, o) \in Run
         /\ Marked(r, o).origin = IF r.origin = "unknown" THEN o ELSE r.origin
         /\ Marked(r, o).known = r.known /\ Marked(r, o).began = r.began
         /\ Marked(r, o).program = r.program /\ Marked(r, o).active = r.active
  BY DEF Marked, Run, Origin

\* What classify_start does to the calculator.
LEMMA ClassifyIs ==
  ASSUME NEW c \in Calculator, c.cycle.running, NEW o \in Origin
  PROVE  LET d == ClassifyStart(c, o)
         IN  /\ d \in Calculator /\ Keeps(c, d)
             /\ d.cycle.program = c.cycle.program
             /\ d.cycle.origin = IF c.cycle.origin = "unknown" THEN o ELSE c.cycle.origin
             /\ c.cycle.origin = "unknown" /\ o = "top"
                  => d.carry = 0 /\ ~d.open
                     /\ d.partials = c.partials + (IF c.open THEN 1 ELSE 0)
             /\ ~(c.cycle.origin = "unknown" /\ o = "top")
                  => d.carry = c.carry /\ d.open = c.open /\ d.openProgram = c.openProgram
                     /\ d.partials = c.partials
<1>1. c.cycle \in Cycle
  BY DEF Calculator
<1>2. NoProgram \in Known
  BY DEF Known
<1>3. CASE c.cycle.origin # "unknown" \/ o = "unknown"
  <2>1. ClassifyStart(c, o) = c
    BY <1>3 DEF ClassifyStart
  <2> QED BY <1>3, <2>1 DEF Keeps
<1> DEFINE s == [c EXCEPT !.cycle.origin = o]
<1>4. /\ s \in Calculator /\ Keeps(c, s) /\ s.cycle.program = c.cycle.program
      /\ s.cycle.origin = o /\ s.carry = c.carry /\ s.open = c.open
      /\ s.openProgram = c.openProgram /\ s.partials = c.partials
  BY <1>1 DEF Calculator, Cycle, Keeps
<1> HIDE DEF s
<1>5. CASE c.cycle.origin = "unknown" /\ o = "mid"
  <2>1. ClassifyStart(c, o) = [s EXCEPT !.rfhs = @ + 1]
    BY <1>5 DEF ClassifyStart, s
  <2>2. [s EXCEPT !.rfhs = @ + 1] \in Calculator
    BY <1>4 DEF Calculator
  <2> DEFINE d == [s EXCEPT !.rfhs = @ + 1]
  <2>3. d.carry = s.carry /\ d.open = s.open /\ d.openProgram = s.openProgram
        /\ d.partials = s.partials /\ d.cycle = s.cycle
        /\ d.parts = s.parts /\ d.aborts = s.aborts /\ d.last = s.last
    BY <1>4 DEF Calculator
  <2> HIDE DEF d
  <2>4. Keeps(c, d) /\ d.cycle.program = c.cycle.program /\ d.cycle.origin = o
    BY <1>4, <2>3 DEF Keeps
  <2>5. /\ d.carry = c.carry /\ d.open = c.open /\ d.openProgram = c.openProgram
        /\ d.partials = c.partials
    BY <1>4, <2>3
  <2>6. ClassifyStart(c, o) = d /\ d \in Calculator
    BY <2>1, <2>2 DEF d
  <2> QED BY <1>5, <2>4, <2>5, <2>6
<1>6. CASE c.cycle.origin = "unknown" /\ o = "top" /\ c.open
  <2>1. ClassifyStart(c, o) = [FinalizePartial(s) EXCEPT !.carry = 0]
    BY <1>4, <1>6 DEF ClassifyStart, s
  <2>2. [FinalizePartial(s) EXCEPT !.carry = 0] \in Calculator
    <3> DEFINE p == [s EXCEPT !.partials = @ + 1]
    <3>1. p \in Calculator
      BY <1>4 DEF Calculator
    <3> HIDE DEF p
    <3>2. [ClosePart(p) EXCEPT !.carry = 0] \in Calculator
      BY <1>2, <3>1 DEF Calculator, ClosePart
    <3> QED BY <3>2 DEF FinalizePartial, p
  <2> DEFINE d == [FinalizePartial(s) EXCEPT !.carry = 0]
  <2>3. d.carry = 0 /\ ~d.open /\ d.partials = s.partials + 1 /\ d.cycle = s.cycle
        /\ d.parts = s.parts /\ d.aborts = s.aborts /\ d.last = s.last
    <3> DEFINE p == [s EXCEPT !.partials = @ + 1]
    <3>1. /\ p \in Calculator /\ p.partials = s.partials + 1 /\ p.cycle = s.cycle
          /\ p.parts = s.parts /\ p.aborts = s.aborts /\ p.last = s.last
      BY <1>4 DEF Calculator
    <3>2. d = [ClosePart(p) EXCEPT !.carry = 0]
      BY DEF FinalizePartial
    <3> HIDE DEF p, d
    <3> QED BY <3>1, <3>2 DEF Calculator, ClosePart
  <2> HIDE DEF d
  <2>4. Keeps(c, d) /\ d.cycle.program = c.cycle.program /\ d.cycle.origin = o
    BY <1>4, <2>3 DEF Keeps
  <2>5. ~d.open /\ d.carry = 0 /\ d.partials = c.partials + (IF c.open THEN 1 ELSE 0)
    BY <1>4, <1>6, <2>3
  <2>6. ClassifyStart(c, o) = d /\ d \in Calculator
    BY <2>1, <2>2 DEF d
  <2> QED BY <1>6, <2>4, <2>5, <2>6
<1>7. CASE c.cycle.origin = "unknown" /\ o = "top" /\ ~c.open
  <2>1. ClassifyStart(c, o) = [s EXCEPT !.carry = 0]
    BY <1>4, <1>7 DEF ClassifyStart, s
  <2>2. [s EXCEPT !.carry = 0] \in Calculator
    BY <1>4 DEF Calculator
  <2>3. c.partials \in Nat /\ c.open \in BOOLEAN
    BY DEF Calculator
  <2> DEFINE d == [s EXCEPT !.carry = 0]
  <2>4. d.carry = 0 /\ d.open = s.open /\ d.partials = s.partials /\ d.cycle = s.cycle
        /\ d.parts = s.parts /\ d.aborts = s.aborts /\ d.last = s.last
    BY <1>4 DEF Calculator
  <2> HIDE DEF d
  <2>5. Keeps(c, d) /\ d.cycle.program = c.cycle.program /\ d.cycle.origin = o
    BY <1>4, <2>4 DEF Keeps
  <2>6. ~d.open /\ d.carry = 0 /\ d.partials = c.partials + (IF c.open THEN 1 ELSE 0)
    BY <1>4, <1>7, <2>3, <2>4
  <2>7. ClassifyStart(c, o) = d /\ d \in Calculator
    BY <2>1, <2>2 DEF d
  <2> QED BY <1>7, <2>5, <2>6, <2>7
<1> QED BY <1>3, <1>5, <1>6, <1>7 DEF Origin

\* classify_start keeps the calculator in step with the run.
LEMMA Classified ==
  ASSUME NEW rs \in Seq(EndedRun), NEW c, NEW r \in Run, NEW o \in Origin, Fits(rs, c, r)
  PROVE  /\ Fits(rs, ClassifyStart(c, o), Marked(r, o))
         /\ Keeps(c, ClassifyStart(c, o))
<1> DEFINE d == ClassifyStart(c, o)
           q == Marked(r, o)
           P == OpenPart(rs)
<1>1. /\ d \in Calculator /\ Keeps(c, d)
      /\ d.cycle.program = c.cycle.program
      /\ d.cycle.origin = IF c.cycle.origin = "unknown" THEN o ELSE c.cycle.origin
      /\ c.cycle.origin = "unknown" /\ o = "top"
           => d.carry = 0 /\ ~d.open
              /\ d.partials = c.partials + (IF c.open THEN 1 ELSE 0)
      /\ ~(c.cycle.origin = "unknown" /\ o = "top")
           => d.carry = c.carry /\ d.open = c.open /\ d.openProgram = c.openProgram
              /\ d.partials = c.partials
  BY ClassifyIs DEF Fits
<1>2. /\ q.origin = IF r.origin = "unknown" THEN o ELSE r.origin
      /\ q.known = r.known /\ q.began = r.began
  BY MarkedIs
<1>3. Cardinality(Abandoning(rs)) \in Nat
  BY CountedTyped
<1> HIDE DEF d, q
<1>4. Counters(rs, d)
  BY <1>1 DEF Fits, Counters, Keeps
<1>5. d.cycle.running /\ d.cycle.program = q.known /\ d.cycle.origin = q.origin
  BY <1>1, <1>2 DEF Fits, Keeps
<1>6. CASE ~(c.cycle.origin = "unknown" /\ o = "top")
  <2>1. Abandons(rs, q, P) <=> Abandons(rs, r, P)
    BY <1>2, <1>6 DEF Abandons, Fits
  <2>2. GoesOnNow(rs, q) = GoesOnNow(rs, r)
    BY <2>1 DEF GoesOnNow
  <2>3. Holds(rs, d, GoesOnNow(rs, q))
    BY <1>1, <1>6, <2>2 DEF Fits, Holds
  <2> QED BY <1>1, <1>4, <1>5, <1>6, <2>1, <2>3 DEF Fits, d, q
<1>7. CASE c.cycle.origin = "unknown" /\ o = "top"
  <2>1. Abandons(rs, q, P) <=> P # {}
    BY <1>2, <1>7 DEF Abandons, Fits
  <2>2. GoesOnNow(rs, q) = {}
    BY <2>1 DEF GoesOnNow
  <2>3. Holds(rs, d, GoesOnNow(rs, q))
    BY <1>1, <1>7, <2>2, TimeOfNone DEF Holds
  <2>4. c.open <=> P # {} /\ ~Abandons(rs, r, P)
    BY DEF Fits, Holds, GoesOnNow
  <2>5. Abandons(rs, r, P) => P # {}
    BY DEF Abandons
  <2>6. d.partials = Cardinality(Abandoning(rs)) + (IF Abandons(rs, q, P) THEN 1 ELSE 0)
    <3>1. c.partials = Cardinality(Abandoning(rs)) + (IF Abandons(rs, r, P) THEN 1 ELSE 0)
      BY DEF Fits
    <3>2. CASE c.open
      <4>1. Abandons(rs, q, P) /\ ~Abandons(rs, r, P)
        BY <2>1, <2>4, <3>2
      <4> QED BY <1>1, <1>3, <1>7, <3>1, <3>2, <4>1
    <3>3. CASE ~c.open
      <4>1. Abandons(rs, q, P) <=> Abandons(rs, r, P)
        BY <2>1, <2>4, <2>5, <3>3
      <4>2. c.partials \in Nat
        BY DEF Fits, Calculator
      <4> QED BY <1>1, <1>3, <1>7, <3>1, <3>3, <4>1, <4>2
    <3> QED BY <3>2, <3>3
  <2> QED BY <1>1, <1>4, <1>5, <2>3, <2>6 DEF Fits, d, q
<1> QED BY <1>1, <1>6, <1>7 DEF d

-----------------------------------------------------------------------------
\* The other methods of the calculator

\* _finalize_partial_unsafe closes the part as a partial one.
LEMMA PartialIs ==
  ASSUME NEW s \in Calculator
  PROVE  LET d == FinalizePartial(s)
         IN  /\ d \in Calculator /\ Keeps(s, d) /\ d.cycle = s.cycle
             /\ d.carry = 0 /\ ~d.open /\ d.partials = s.partials + 1
<1> DEFINE p == [s EXCEPT !.partials = @ + 1]
           d == ClosePart(p)
<1>1. p \in Calculator /\ p.partials = s.partials + 1 /\ Keeps(s, p) /\ p.cycle = s.cycle
  BY DEF Calculator, Keeps
<1> HIDE DEF p
<1>2. NoProgram \in Known
  BY DEF Known
<1>3. d \in Calculator /\ d.carry = 0 /\ ~d.open /\ d.partials = p.partials
      /\ Keeps(p, d) /\ d.cycle = p.cycle
  BY <1>1, <1>2 DEF Calculator, ClosePart, Keeps
<1>4. FinalizePartial(s) = d
  BY DEF FinalizePartial, p
<1> HIDE DEF d
<1>5. Keeps(s, d)
  BY <1>1, <1>3 DEF Keeps
<1> QED BY <1>1, <1>3, <1>4, <1>5

\* The part that is carried is abandoned, or not, when the program shows.
Renamed(r, p) == [r EXCEPT !.known = p]

\* set_program keeps the calculator in step, if the run's program was not set before.
LEMMA ProgramSet ==
  ASSUME NEW rs \in Seq(EndedRun), NEW c, NEW r \in Run, NEW p \in Program,
         Fits(rs, c, r), r.known = r.began
  PROVE  /\ Fits(rs, SetProgram(c, p), Renamed(r, p))
         /\ Keeps(c, SetProgram(c, p))
<1> DEFINE q == Renamed(r, p)
           P == OpenPart(rs)
           s == [c EXCEPT !.cycle.program = p]
           k == rs[Max(P)].run.known
           d == SetProgram(c, p)
<1>1. c \in Calculator /\ c.cycle \in Cycle /\ c.cycle.running /\ c.cycle.program = r.known
  BY DEF Fits, Calculator
<1>2. p # NoProgram /\ p \in Known
  BY ProgramAssumption DEF Known
<1>3. q.known = p /\ q.began = r.began /\ q.origin = r.origin
  BY DEF Renamed, Run
<1>4. CASE p = r.known
  <2>1. d = c
    BY <1>1, <1>4 DEF SetProgram
  <2>2. q = r
    BY <1>4 DEF Renamed, Run
  <2> QED BY <2>1, <2>2 DEF Keeps
<1>5. CASE p # r.known
  <2>1. /\ s \in Calculator /\ Keeps(c, s) /\ s.cycle.program = p
        /\ s.cycle.origin = c.cycle.origin /\ s.carry = c.carry /\ s.open = c.open
        /\ s.openProgram = c.openProgram /\ s.partials = c.partials
    BY <1>1, <1>2 DEF Calculator, Cycle, Keeps
  <2>2. d = IF OtherProgram(c, p) THEN FinalizePartial(s) ELSE s
    BY <1>1, <1>2, <1>5 DEF SetProgram
  <2>3. c.open <=> P # {} /\ ~Abandons(rs, r, P)
    BY DEF Fits, Holds, GoesOnNow
  <2>4. Abandons(rs, q, P) <=> Abandons(rs, r, P) \/ (P # {} /\ Differ(k, p))
    BY <1>3 DEF Abandons
  <2>5. OtherProgram(c, p) <=> c.open /\ Differ(k, p)
    <3>1. c.open => c.openProgram = k
      BY <2>3 DEF Fits, Holds, GoesOnNow
    <3> QED BY <3>1 DEF OtherProgram, Differ
  <2>6. Cardinality(Abandoning(rs)) \in Nat
    BY CountedTyped
  <2>7. c.partials = Cardinality(Abandoning(rs)) + (IF Abandons(rs, r, P) THEN 1 ELSE 0)
    BY DEF Fits
  <2> HIDE DEF s, q, k
  <2>8. CASE OtherProgram(c, p)
    <3>1. d = FinalizePartial(s)
      BY <2>2, <2>8
    <3>2. /\ d \in Calculator /\ Keeps(s, d) /\ d.cycle = s.cycle
          /\ d.carry = 0 /\ ~d.open /\ d.partials = s.partials + 1
      BY <2>1, <3>1, PartialIs
    <3> HIDE DEF d
    <3>3. Keeps(c, d) /\ d.cycle.program = p /\ d.cycle.origin = c.cycle.origin
      BY <2>1, <3>2 DEF Keeps
    <3>4. Abandons(rs, q, P) /\ ~Abandons(rs, r, P)
      BY <2>3, <2>4, <2>5, <2>8
    <3>5. Holds(rs, d, GoesOnNow(rs, q))
      BY <3>2, <3>4, TimeOfNone DEF Holds, GoesOnNow
    <3>6. d.partials = Cardinality(Abandoning(rs)) + 1
      BY <2>1, <2>6, <2>7, <3>2, <3>4
    <3>7. Counters(rs, d) /\ d.cycle.running
      BY <3>3, <1>1 DEF Keeps, Counters, Fits
    <3>8. d.cycle.origin = q.origin /\ d.cycle.program = q.known
      BY <1>3, <3>3 DEF Fits
    <3>9. Fits(rs, d, q)
      BY <3>2, <3>4, <3>5, <3>6, <3>7, <3>8 DEF Fits
    <3> QED BY <3>3, <3>9 DEF d, q
  <2>9. CASE ~OtherProgram(c, p)
    <3>1. d = s
      BY <2>2, <2>9
    <3>2. Abandons(rs, q, P) <=> Abandons(rs, r, P)
      BY <2>3, <2>4, <2>5, <2>9 DEF Abandons
    <3>3. GoesOnNow(rs, q) = GoesOnNow(rs, r)
      BY <3>2 DEF GoesOnNow
    <3>4. Holds(rs, s, GoesOnNow(rs, q))
      BY <2>1, <3>3 DEF Fits, Holds
    <3>5. s.partials = Cardinality(Abandoning(rs)) + (IF Abandons(rs, q, P) THEN 1 ELSE 0)
      BY <2>1, <2>7, <3>2
    <3>6. Counters(rs, s) /\ s.cycle.running
      BY <2>1, <1>1 DEF Keeps, Counters, Fits
    <3>7. s.cycle.origin = q.origin /\ s.cycle.program = q.known
      BY <1>3, <2>1 DEF Fits
    <3>8. Fits(rs, s, q)
      BY <2>1, <3>4, <3>5, <3>6, <3>7 DEF Fits
    <3> QED BY <2>1, <3>1, <3>8 DEF d, q
  <2> QED BY <2>8, <2>9
<1> QED BY <1>4, <1>5 DEF q, d

\* A cycle begins.
LEMMA CycleStarts ==
  ASSUME NEW rs \in Seq(EndedRun), NEW c, NEW r \in Run, Rests(rs, c), now \in Nat,
         r.began = r.known, r.origin = "unknown", r.active = 0
  PROVE  /\ Fits(rs, StartCycle(c, r.known), r)
         /\ Timed(now, StartCycle(c, r.known), r)
         /\ StartCycle(c, r.known).cycle.paused = FALSE
<1> DEFINE p == r.known
           P == OpenPart(rs)
           s == [c EXCEPT !.cycle = [NoCycle EXCEPT !.running = TRUE, !.start = now,
                                                    !.program = p]]
           k == rs[Max(P)].run.known
           d == StartCycle(c, p)
<1>1. c \in Calculator /\ ~c.cycle.running /\ p \in Known
  BY DEF Rests, NoCycle, Run
<1>2. [NoCycle EXCEPT !.running = TRUE, !.start = now, !.program = p] \in Cycle
  BY <1>1 DEF NoCycle, Cycle, Origin, Known
<1>3. /\ s \in Calculator
      /\ s.cycle.running /\ s.cycle.paused = FALSE /\ s.cycle.start = now
      /\ s.cycle.pausedFor = 0 /\ s.cycle.program = p /\ s.cycle.origin = "unknown"
      /\ s.carry = c.carry /\ s.open = c.open /\ s.openProgram = c.openProgram
      /\ s.partials = c.partials /\ s.parts = c.parts /\ s.aborts = c.aborts
      /\ s.last = c.last
  BY <1>1, <1>2 DEF Calculator, NoCycle
<1>4. d = IF OtherProgram(c, p) THEN FinalizePartial(s) ELSE s
  BY <1>1 DEF StartCycle
<1>5. Abandons(rs, r, P) <=> P # {} /\ Differ(k, p)
  BY DEF Abandons
<1>6. OtherProgram(c, p) <=> P # {} /\ Differ(k, p)
  BY DEF OtherProgram, Differ, Rests, Holds
<1>7. Cardinality(Abandoning(rs)) \in Nat
  BY CountedTyped
<1> HIDE DEF s, k, p
<1>8. CASE OtherProgram(c, p)
  <2>1. d = FinalizePartial(s)
    BY <1>4, <1>8
  <2>2. /\ d \in Calculator /\ Keeps(s, d) /\ d.cycle = s.cycle
        /\ d.carry = 0 /\ ~d.open /\ d.partials = s.partials + 1
    BY <1>3, <2>1, PartialIs
  <2> HIDE DEF d
  <2>3. Abandons(rs, r, P)
    BY <1>5, <1>6, <1>8
  <2>4. Holds(rs, d, GoesOnNow(rs, r))
    BY <2>2, <2>3, TimeOfNone DEF Holds, GoesOnNow
  <2>5. Counters(rs, d)
    BY <1>3, <2>2 DEF Keeps, Counters, Rests
  <2>6. d.partials = Cardinality(Abandoning(rs)) + 1
    BY <1>3, <2>2 DEF Rests
  <2>7. Fits(rs, d, r)
    BY <1>3, <2>2, <2>3, <2>4, <2>5, <2>6 DEF Fits, p
  <2>8. Timed(now, d, r) /\ d.cycle.paused = FALSE
    BY <1>3, <2>2 DEF Timed
  <2> QED BY <2>7, <2>8 DEF d, p
<1>9. CASE ~OtherProgram(c, p)
  <2>1. d = s
    BY <1>4, <1>9
  <2>2. ~Abandons(rs, r, P) /\ GoesOnNow(rs, r) = P
    BY <1>5, <1>6, <1>9 DEF GoesOnNow
  <2>3. Holds(rs, s, GoesOnNow(rs, r))
    BY <1>3, <2>2 DEF Rests, Holds
  <2>4. Counters(rs, s)
    BY <1>3 DEF Counters, Rests
  <2>5. s.partials = Cardinality(Abandoning(rs)) + 0
    BY <1>3, <1>7 DEF Rests
  <2>6. Fits(rs, s, r)
    BY <1>3, <2>2, <2>3, <2>4, <2>5 DEF Fits, p
  <2>7. Timed(now, s, r)
    BY <1>3 DEF Timed
  <2> QED BY <1>3, <2>1, <2>6, <2>7 DEF d, p
<1> QED BY <1>8, <1>9 DEF d, p

\* Pauses.
LEMMA CyclePauses ==
  ASSUME NEW rs, NEW c, NEW r, Fits(rs, c, r), Timed(now, c, r), now \in Nat,
         c.cycle.paused = FALSE
  PROVE  /\ Fits(rs, PauseCycle(c), r) /\ Timed(now, PauseCycle(c), r)
         /\ PauseCycle(c).cycle.paused = TRUE
         /\ PauseCycle(c).parts = c.parts /\ PauseCycle(c).aborts = c.aborts
<1> DEFINE d == [c EXCEPT !.cycle.pauseAt = now, !.cycle.paused = TRUE]
<1>1. c \in Calculator /\ c.cycle \in Cycle
  BY DEF Fits, Calculator
<1>2. PauseCycle(c) = d
  BY DEF PauseCycle, Fits
<1>3. /\ d \in Calculator /\ d.cycle.running = c.cycle.running
      /\ d.cycle.program = c.cycle.program /\ d.cycle.origin = c.cycle.origin
      /\ d.cycle.start = c.cycle.start /\ d.cycle.pausedFor = c.cycle.pausedFor
      /\ d.cycle.pauseAt = now /\ d.cycle.paused = TRUE
      /\ d.carry = c.carry /\ d.open = c.open /\ d.openProgram = c.openProgram
      /\ d.partials = c.partials /\ d.parts = c.parts /\ d.aborts = c.aborts
      /\ d.last = c.last
  BY <1>1 DEF Calculator, Cycle
<1> HIDE DEF d
<1>4. Fits(rs, d, r)
  BY <1>3 DEF Fits, Counters, Holds
<1>5. Timed(now, d, r)
  BY <1>3 DEF Timed
<1> QED BY <1>2, <1>3, <1>4, <1>5

\* The time paused is left out.
LEMMA CycleResumes ==
  ASSUME NEW rs, NEW c, NEW r \in Run, Fits(rs, c, r), Timed(now, c, r), now \in Nat,
         c.cycle.paused = TRUE
  PROVE  /\ Fits(rs, ResumeCycle(c), r) /\ Timed(now, ResumeCycle(c), r)
         /\ ResumeCycle(c).cycle.paused = FALSE
         /\ ResumeCycle(c).parts = c.parts /\ ResumeCycle(c).aborts = c.aborts
<1> DEFINE d == [c EXCEPT !.cycle.pausedFor = @ + now - c.cycle.pauseAt,
                          !.cycle.pauseAt = 0, !.cycle.paused = FALSE]
           f == c.cycle.pausedFor + now - c.cycle.pauseAt
<1>1. c \in Calculator /\ c.cycle \in Cycle
  BY DEF Fits, Calculator
<1>2. ResumeCycle(c) = d
  BY DEF ResumeCycle, Fits
<1>3. /\ c.cycle.pausedFor \in Nat /\ c.cycle.pauseAt \in Nat /\ c.cycle.start \in Nat
      /\ c.cycle.pauseAt <= now
      /\ c.cycle.pauseAt = c.cycle.start + c.cycle.pausedFor + r.active
  BY <1>1 DEF Cycle, Timed
<1>4. f \in Nat
  BY <1>3
<1>5. /\ d \in Calculator /\ d.cycle.running = c.cycle.running
      /\ d.cycle.program = c.cycle.program /\ d.cycle.origin = c.cycle.origin
      /\ d.cycle.start = c.cycle.start /\ d.cycle.pausedFor = f
      /\ d.cycle.paused = FALSE
      /\ d.carry = c.carry /\ d.open = c.open /\ d.openProgram = c.openProgram
      /\ d.partials = c.partials /\ d.parts = c.parts /\ d.aborts = c.aborts
      /\ d.last = c.last
  BY <1>1, <1>4 DEF Calculator, Cycle
<1>6. now = c.cycle.start + f + r.active
  <2>1. r.active \in Nat
    BY DEF Run
  <2> QED BY <1>3, <2>1
<1> HIDE DEF d, f
<1>7. Fits(rs, d, r)
  BY <1>5 DEF Fits, Counters, Holds
<1>8. Timed(now, d, r)
  BY <1>5, <1>6 DEF Timed
<1> QED BY <1>2, <1>5, <1>7, <1>8

-----------------------------------------------------------------------------
\* A run ends

\* The calculator looks at no more of a run than this.
LEMMA SameRun ==
  ASSUME NEW rs, NEW c, NEW r, NEW q, Fits(rs, c, r),
         q.known = r.known, q.began = r.began, q.origin = r.origin
  PROVE  Fits(rs, c, q)
<1>1. Abandons(rs, q, OpenPart(rs)) <=> Abandons(rs, r, OpenPart(rs))
  BY DEF Abandons
<1>2. GoesOnNow(rs, q) = GoesOnNow(rs, r)
  BY <1>1 DEF GoesOnNow
<1> QED BY <1>1, <1>2 DEF Fits

\* One run more: run r, ended by e.
Ends(rs, qs, r, e) ==
  /\ Longer(rs, qs)
  /\ qs[Len(rs) + 1].run = r /\ qs[Len(rs) + 1].end = e
  /\ r \in Run

\* A run that is appended ends.
LEMMA Appended ==
  ASSUME NEW rs \in Seq(EndedRun), NEW r \in Run, NEW e \in {"reached", "stopped", "cut", "gone"}
  PROVE  /\ Append(rs, [run |-> r, end |-> e]) \in Seq(EndedRun)
         /\ Ends(rs, Append(rs, [run |-> r, end |-> e]), r, e)
<1> DEFINE x == [run |-> r, end |-> e]
           qs == Append(rs, x)
<1>1. x \in EndedRun /\ x.run = r /\ x.end = e
  BY DEF EndedRun
<1> HIDE DEF x
<1>2. qs \in Seq(EndedRun) /\ Len(qs) = Len(rs) + 1 /\ qs[Len(rs) + 1] = x
  BY <1>1
<1>3. \A k \in 1..Len(rs) : qs[k] = rs[k]
  BY <1>1
<1>4. Longer(rs, qs)
  BY <1>2, <1>3 DEF Longer, Agree
<1> QED BY <1>1, <1>2, <1>4 DEF Ends, x

\* What the history makes of it, in terms of the part G the run goes on with.
EndShape(rs, qs, r, e, n, G) ==
  /\ G \subseteq 1..Len(rs) /\ n \in DOMAIN qs
  /\ Before(qs, n) = OpenPart(rs) /\ GoesOn(qs, n, OpenPart(rs)) = G
  /\ Time(qs, G) = Time(rs, G) /\ Time(rs, G) \in Nat
  /\ Time(qs, G \cup {n}) = r.active + Time(rs, G)
  /\ Max(G \cup {n}) = n
  /\ G # {} => qs[Max(G)] = rs[Max(G)]
  /\ n \in Abandoning(qs) <=> Abandons(rs, r, OpenPart(rs))
  /\ Discarded(qs, n, OpenPart(rs)) <=>
       e \in {"reached", "stopped"} /\ r.active < MinValid /\ Time(rs, G) = 0
  /\ OpenPart(qs) = Leaves(qs, n, OpenPart(rs))

\* A run that ends changes the history so.
LEMMA EndFacts ==
  ASSUME NEW rs, NEW qs, NEW r, NEW e, Ends(rs, qs, r, e), NEW n, n = Len(rs) + 1,
         NEW G, G = GoesOnNow(rs, r)
  PROVE  EndShape(rs, qs, r, e, n, G)
<1> DEFINE P == OpenPart(rs)
<1>1. /\ Len(rs) \in Nat /\ DOMAIN rs = 1..Len(rs) /\ DOMAIN qs = 1..(Len(rs) + 1)
      /\ P \subseteq 1..Len(rs) /\ Before(qs, n) = P
      /\ OpenPart(qs) = Leaves(qs, n, P)
  BY PartsGrow DEF Ends
<1>2. /\ Agree(rs, qs, Len(rs)) /\ qs[n].run = r /\ qs[n].end = e /\ qs \in Seq(EndedRun)
      /\ r \in Run
  BY DEF Ends, Longer
<1>3. n \in DOMAIN qs /\ n \in Nat /\ n \notin 1..Len(rs)
  BY <1>1
<1> HIDE DEF P
<1>4. Abandons(qs, r, P) <=> Abandons(rs, r, P)
  <2>1. Len(rs) \in Nat /\ P \subseteq 1..Len(rs) /\ Agree(rs, qs, Len(rs))
    BY <1>1, <1>2
  <2>2. Abandons(rs, r, P) <=> Abandons(qs, r, P)
    BY <2>1, AbandonsAgrees
  <2> QED BY <2>2
<1>5. GoesOn(qs, n, P) = G /\ G \subseteq 1..Len(rs)
  BY <1>1, <1>2, <1>4 DEF GoesOn, GoesOnNow, P
<1>6. Time(rs, G) = Time(qs, G)
  BY <1>1, <1>2, <1>5, TimesAgree
<1>7. G \cup {n} \subseteq 1..n /\ IsFiniteSet(G \cup {n})
  <2>1. G \cup {n} \subseteq 1..n
    BY <1>1, <1>3, <1>5
  <2> QED BY <1>3, <2>1, RunsFinite
<1>8. Timing(qs, G \cup {n}) /\ Timing(qs, G)
  <2>1. \A i \in G \cup {n} : qs[i] \in EndedRun
    BY <1>1, <1>2, <1>7
  <2>2. \A i \in G \cup {n} : qs[i].run.active \in Nat
    BY <2>1 DEF EndedRun, Run
  <2>3. IsFiniteSet(G)
    BY <1>7, FS_Subset
  <2> QED BY <1>7, <2>2, <2>3 DEF Timing
<1>9. Time(rs, G) \in Nat
  BY <1>6, <1>8, TimeTyped
<1>10. Time(qs, G \cup {n}) = r.active + Time(rs, G)
  <2>1. (G \cup {n}) \ {n} = G
    BY <1>3, <1>5
  <2>2. Time(qs, G \cup {n}) = qs[n].run.active + Time(qs, (G \cup {n}) \ {n})
    BY <1>8, TimeWithout
  <2> QED BY <1>2, <1>6, <2>1, <2>2
<1>11. Max(G \cup {n}) = n
  BY <1>1, <1>5, MaxOfLater
<1>12. ASSUME G # {} PROVE qs[Max(G)] = rs[Max(G)]
  <2>1. Max(G) \in 1..Len(rs)
    BY <1>1, <1>5, <1>12, MaxIs
  <2> QED BY <1>2, <2>1 DEF Agree
<1>13. n \in Abandoning(qs) <=> Abandons(rs, r, P)
  BY <1>1, <1>2, <1>3, <1>4 DEF Abandoning
<1>14. Discarded(qs, n, P) <=>
         e \in {"reached", "stopped"} /\ r.active < MinValid /\ Time(rs, G) = 0
  BY <1>2, <1>5, <1>6 DEF Discarded
<1> QED BY <1>1, <1>3, <1>5, <1>6, <1>9, <1>10, <1>11, <1>12, <1>13, <1>14 DEF P, EndShape

\* The time a cycle gives, with what was carried.
LEMMA ElapsedIs ==
  ASSUME NEW rs, NEW c, NEW r \in Run, Fits(rs, c, r), Timed(now, c, r), now \in Nat
  PROVE  Elapsed(c) = r.active + c.carry
<1>1. /\ c.cycle.start \in Nat /\ c.cycle.pausedFor \in Nat /\ c.cycle.pauseAt \in Nat
      /\ c.carry \in Nat /\ r.active \in Nat
  BY DEF Fits, Calculator, Cycle, Run
<1> QED BY <1>1 DEF Elapsed, Timed

\* The three ways a calculator leaves run r, which is then in the history.
LEMMA DiscardRests ==
  ASSUME NEW rs, NEW qs, NEW r, NEW e, NEW c, NEW d, Ends(rs, qs, r, e), Fits(rs, c, r),
         NEW n, n = Len(rs) + 1, Discarded(qs, n, OpenPart(rs)),
         d \in Calculator, d.cycle = NoCycle,
         d.carry = c.carry, d.open = c.open, d.openProgram = c.openProgram,
         d.parts = c.parts, d.aborts = c.aborts, d.partials = c.partials, d.last = c.last
  PROVE  Rests(qs, d) /\ n \notin Completing(qs) /\ n \notin Aborting(qs)
<1> DEFINE G == GoesOnNow(rs, r)
<1>0. G = GoesOnNow(rs, r)
  OBVIOUS
<1> HIDE DEF G
<1>a. EndShape(rs, qs, r, e, n, G)
  BY <1>0, EndFacts
<1>1. /\ Before(qs, n) = OpenPart(rs) /\ GoesOn(qs, n, OpenPart(rs)) = G
      /\ Time(qs, G) = Time(rs, G)
      /\ G # {} => qs[Max(G)] = rs[Max(G)]
      /\ n \in Abandoning(qs) <=> Abandons(rs, r, OpenPart(rs))
      /\ OpenPart(qs) = Leaves(qs, n, OpenPart(rs))
  BY <1>a DEF EndShape
<1>2. OpenPart(qs) = G
  BY <1>1 DEF Leaves
<1>3. Holds(qs, d, OpenPart(qs))
  <2>1. Holds(rs, c, G)
    BY <1>0 DEF Fits
  <2> QED BY <1>1, <1>2, <2>1 DEF Holds
<1>4. n \notin Completing(qs) /\ n \notin Aborting(qs)
  BY <1>1 DEF Completing, Aborting, Discarded
<1>5. Longer(rs, qs)
  BY DEF Ends
<1>6. /\ Cardinality(Completing(qs)) = Cardinality(Completing(rs)) + 0
      /\ Cardinality(Aborting(qs)) = Cardinality(Aborting(rs)) + 0
      /\ Cardinality(Completing(rs)) \in Nat /\ Cardinality(Aborting(rs)) \in Nat
      /\ Completing(qs) = Completing(rs)
      /\ Completing(rs) # {} => TimeOfLast(qs) = TimeOfLast(rs)
      /\ Cardinality(Abandoning(qs)) =
           Cardinality(Abandoning(rs)) + (IF n \in Abandoning(qs) THEN 1 ELSE 0)
  BY <1>4, <1>5, CountsGrow
<1>7. Counters(qs, d)
  BY <1>6 DEF Counters, Fits
<1>8. d.partials = Cardinality(Abandoning(qs))
  BY <1>1, <1>6 DEF Fits
<1> QED BY <1>3, <1>4, <1>7, <1>8 DEF Rests

\* A run that completes the part.
LEMMA CompleteRests ==
  ASSUME NEW rs, NEW qs, NEW r, NEW c, NEW d, Ends(rs, qs, r, "reached"), Fits(rs, c, r),
         NEW n, n = Len(rs) + 1, ~Discarded(qs, n, OpenPart(rs)),
         d \in Calculator, d.cycle = NoCycle, d.carry = 0, ~d.open,
         d.parts = c.parts + 1, d.aborts = c.aborts, d.partials = c.partials,
         d.last = r.active + c.carry
  PROVE  Rests(qs, d) /\ n \in Completing(qs) /\ n \notin Aborting(qs)
<1> DEFINE G == GoesOnNow(rs, r)
<1>0. G = GoesOnNow(rs, r)
  OBVIOUS
<1> HIDE DEF G
<1>a. EndShape(rs, qs, r, "reached", n, G)
  BY <1>0, EndFacts
<1>1. /\ n \in DOMAIN qs /\ Before(qs, n) = OpenPart(rs) /\ GoesOn(qs, n, OpenPart(rs)) = G
      /\ Time(qs, G \cup {n}) = r.active + Time(rs, G)
      /\ n \in Abandoning(qs) <=> Abandons(rs, r, OpenPart(rs))
      /\ OpenPart(qs) = Leaves(qs, n, OpenPart(rs))
  BY <1>a DEF EndShape
<1>2. Longer(rs, qs) /\ qs[n].end = "reached"
  BY DEF Ends
<1>3. OpenPart(qs) = {}
  BY <1>1, <1>2 DEF Leaves
<1>4. Holds(qs, d, OpenPart(qs))
  BY <1>3, TimeOfNone DEF Holds
<1>5. n \in Completing(qs) /\ n \notin Aborting(qs)
  BY <1>1, <1>2 DEF Completing, Aborting
<1>6. /\ Cardinality(Completing(qs)) = Cardinality(Completing(rs)) + 1
      /\ Cardinality(Aborting(qs)) = Cardinality(Aborting(rs)) + 0
      /\ Cardinality(Completing(rs)) \in Nat /\ Cardinality(Aborting(rs)) \in Nat
      /\ Max(Completing(qs)) = n
      /\ Cardinality(Abandoning(qs)) =
           Cardinality(Abandoning(rs)) + (IF n \in Abandoning(qs) THEN 1 ELSE 0)
  BY <1>2, <1>5, CountsGrow
<1>7. TimeOfLast(qs) = d.last
  <2>1. TimeOfLast(qs) = Time(qs, G \cup {n})
    BY <1>1, <1>6 DEF TimeOfLast
  <2>2. c.carry = Time(rs, G)
    BY <1>0 DEF Fits, Holds
  <2> QED BY <1>1, <2>1, <2>2
<1>8. Counters(qs, d)
  BY <1>6, <1>7 DEF Counters, Fits
<1>9. d.partials = Cardinality(Abandoning(qs))
  BY <1>1, <1>6 DEF Fits
<1> QED BY <1>4, <1>5, <1>8, <1>9 DEF Rests

\* A run that leaves the part open.
LEMMA OpenRests ==
  ASSUME NEW rs, NEW qs, NEW r, NEW e, NEW c, NEW d, Ends(rs, qs, r, e), Fits(rs, c, r),
         NEW n, n = Len(rs) + 1, ~Discarded(qs, n, OpenPart(rs)), e # "reached",
         d \in Calculator, d.cycle = NoCycle, d.open, d.openProgram = c.cycle.program,
         d.carry = r.active + c.carry, d.parts = c.parts, d.partials = c.partials,
         d.last = c.last,
         d.aborts = c.aborts + (IF n \in Aborting(qs) THEN 1 ELSE 0)
  PROVE  Rests(qs, d) /\ n \notin Completing(qs)
<1> DEFINE G == GoesOnNow(rs, r)
<1>0. G = GoesOnNow(rs, r)
  OBVIOUS
<1> HIDE DEF G
<1>a. EndShape(rs, qs, r, e, n, G)
  BY <1>0, EndFacts
<1>1. /\ n \in DOMAIN qs /\ Before(qs, n) = OpenPart(rs) /\ GoesOn(qs, n, OpenPart(rs)) = G
      /\ Time(qs, G \cup {n}) = r.active + Time(rs, G) /\ Max(G \cup {n}) = n
      /\ n \in Abandoning(qs) <=> Abandons(rs, r, OpenPart(rs))
      /\ OpenPart(qs) = Leaves(qs, n, OpenPart(rs))
  BY <1>a DEF EndShape
<1>2. Longer(rs, qs) /\ qs[n].end = e /\ qs[n].run = r
  BY DEF Ends
<1>3. OpenPart(qs) = G \cup {n}
  BY <1>1, <1>2 DEF Leaves
<1>4. Holds(qs, d, OpenPart(qs))
  <2>1. c.carry = Time(rs, G) /\ c.cycle.program = r.known
    BY <1>0 DEF Fits, Holds
  <2>2. d.carry = Time(qs, G \cup {n})
    BY <1>1, <2>1
  <2>3. d.openProgram = qs[Max(G \cup {n})].run.known
    BY <1>1, <1>2, <2>1
  <2> QED BY <1>3, <2>2, <2>3 DEF Holds
<1>5. n \notin Completing(qs)
  BY <1>2 DEF Completing
<1>6. /\ Cardinality(Completing(qs)) = Cardinality(Completing(rs)) + 0
      /\ Cardinality(Completing(rs)) \in Nat
      /\ Completing(qs) = Completing(rs)
      /\ Completing(rs) # {} => TimeOfLast(qs) = TimeOfLast(rs)
      /\ Cardinality(Aborting(qs)) =
           Cardinality(Aborting(rs)) + (IF n \in Aborting(qs) THEN 1 ELSE 0)
      /\ Cardinality(Abandoning(qs)) =
           Cardinality(Abandoning(rs)) + (IF n \in Abandoning(qs) THEN 1 ELSE 0)
  BY <1>2, <1>5, CountsGrow
<1>7. Counters(qs, d)
  BY <1>6 DEF Counters, Fits
<1>8. d.partials = Cardinality(Abandoning(qs))
  BY <1>1, <1>6 DEF Fits
<1> QED BY <1>4, <1>5, <1>7, <1>8 DEF Rests

\* The link reads the outcome of run n off the counters.
Told(qs, n, c, d) ==
  /\ d.parts > c.parts <=> n \in Completing(qs)
  /\ d.aborts > c.aborts <=> n \in Aborting(qs)

\* A cycle that is reset.
LEMMA CycleEnded ==
  ASSUME NEW c \in Calculator
  PROVE  LET d == EndCycle(c)
         IN  /\ d \in Calculator /\ d.cycle = NoCycle
             /\ d.carry = c.carry /\ d.open = c.open /\ d.openProgram = c.openProgram
             /\ d.parts = c.parts /\ d.aborts = c.aborts /\ d.partials = c.partials
             /\ d.last = c.last
<1>1. NoCycle \in Cycle
  BY DEF NoCycle, Cycle, Known, Origin
<1> QED BY <1>1 DEF EndCycle, Calculator

\* A cycle that leaves its part open.
LEMMA LeftOpen ==
  ASSUME NEW c \in Calculator, NEW ms \in Nat
  PROVE  LET d == EndCycle(LeavePartOpen(c, ms))
         IN  /\ d \in Calculator /\ d.cycle = NoCycle
             /\ d.carry = ms /\ d.open /\ d.openProgram = c.cycle.program
             /\ d.parts = c.parts /\ d.aborts = c.aborts /\ d.partials = c.partials
             /\ d.last = c.last
<1> DEFINE x == LeavePartOpen(c, ms)
<1>1. c.cycle.program \in Known
  BY DEF Calculator, Cycle
<1>2. /\ x \in Calculator /\ x.carry = ms /\ x.open /\ x.openProgram = c.cycle.program
      /\ x.parts = c.parts /\ x.aborts = c.aborts /\ x.partials = c.partials
      /\ x.last = c.last
  BY <1>1 DEF LeavePartOpen, Calculator
<1> HIDE DEF x
<1>3. LET d == EndCycle(x)
      IN  /\ d \in Calculator /\ d.cycle = NoCycle
          /\ d.carry = ms /\ d.open /\ d.openProgram = c.cycle.program
          /\ d.parts = c.parts /\ d.aborts = c.aborts /\ d.partials = c.partials
          /\ d.last = c.last
  BY <1>2, CycleEnded
<1> QED BY <1>3 DEF x

\* stop_cycle, at the program's end or before it.
LEMMA StopRests ==
  ASSUME NEW rs, NEW qs, NEW r, NEW c, NEW reached \in BOOLEAN,
         Ends(rs, qs, r, IF reached THEN "reached" ELSE "stopped"),
         Fits(rs, c, r), Timed(now, c, r), now \in Nat, NEW n, n = Len(rs) + 1
  PROVE  /\ Rests(qs, StopCycle(c, reached))
         /\ Told(qs, n, c, StopCycle(c, reached))
<1> DEFINE e == IF reached THEN "reached" ELSE "stopped"
           G == GoesOnNow(rs, r)
           P == OpenPart(rs)
           ms == Elapsed(c)
           d == StopCycle(c, reached)
<1>1. G = GoesOnNow(rs, r) /\ P = OpenPart(rs) /\ Ends(rs, qs, r, e)
  OBVIOUS
<1>2. (e = "reached" <=> reached) /\ (e = "stopped" <=> ~reached)
  OBVIOUS
<1>3. c \in Calculator /\ c.cycle.running /\ c.cycle.origin = r.origin /\ r \in Run
  BY DEF Fits, Ends
<1>4. c.parts \in Nat /\ c.aborts \in Nat /\ c.carry \in Nat /\ r.active \in Nat
  BY <1>3 DEF Calculator, Run
<1>5. ms = r.active + c.carry /\ ms \in Nat
  BY <1>3, <1>4, ElapsedIs
<1>6. c.carry = Time(rs, G) /\ (c.open <=> G # {})
  BY DEF Fits, Holds
<1>7. qs[n].end = e /\ qs[n].run = r
  BY DEF Ends
<1> HIDE DEF G, P, e
<1>8. EndShape(rs, qs, r, e, n, G)
  BY <1>1, EndFacts
<1>9. /\ n \in DOMAIN qs /\ Before(qs, n) = P /\ GoesOn(qs, n, P) = G
  BY <1>1, <1>8 DEF EndShape
<1>10. Discarded(qs, n, P) <=> ms < MinValid /\ c.carry = 0
  <2>1. Discarded(qs, n, P) <=> r.active < MinValid /\ c.carry = 0
    BY <1>1, <1>2, <1>6, <1>8 DEF EndShape
  <2>2. c.carry = 0 => ms = r.active
    BY <1>4, <1>5
  <2> QED BY <2>1, <2>2
<1>11. n \in Aborting(qs) <=> e = "stopped" /\ ~Discarded(qs, n, P) /\ ~ResolvedMid(c)
  <2>1. r.origin \in {"unknown", "top", "mid"}
    BY <1>3 DEF Run, Origin
  <2>2. ResolvedMid(c) <=> r.origin = "mid" \/ (r.origin = "unknown" /\ G # {})
    BY <1>3, <1>6, <2>1 DEF ResolvedMid
  <2>3. n \in Aborting(qs) <=>
          /\ e = "stopped" /\ ~Discarded(qs, n, P)
          /\ r.origin = "top" \/ (r.origin = "unknown" /\ G = {})
    BY <1>2, <1>7, <1>9 DEF Aborting
  <2> QED BY <2>1, <2>2, <2>3
<1> HIDE DEF ms
<1>12. CASE Discarded(qs, n, P)
  <2>1. d = EndCycle(c)
    BY <1>10, <1>12 DEF StopCycle, ms
  <2>2. /\ d \in Calculator /\ d.cycle = NoCycle
        /\ d.carry = c.carry /\ d.open = c.open /\ d.openProgram = c.openProgram
        /\ d.parts = c.parts /\ d.aborts = c.aborts /\ d.partials = c.partials
        /\ d.last = c.last
    BY <1>3, <2>1, CycleEnded
  <2> HIDE DEF d
  <2>3. Rests(qs, d) /\ n \notin Completing(qs) /\ n \notin Aborting(qs)
    BY <1>1, <1>12, <2>2, DiscardRests
  <2>4. Told(qs, n, c, d)
    BY <1>4, <2>2, <2>3 DEF Told
  <2> QED BY <2>3, <2>4 DEF d
<1>13. CASE ~Discarded(qs, n, P) /\ reached
  <2> DEFINE x == [c EXCEPT !.parts = @ + 1, !.last = ms]
             y == ClosePart(x)
  <2>1. d = EndCycle(y)
    BY <1>3, <1>10, <1>13 DEF StopCycle, ms
  <2>2. x \in Calculator /\ x.parts = c.parts + 1 /\ x.last = ms
        /\ x.aborts = c.aborts /\ x.partials = c.partials
    <3>1. ms \in Nat
      BY <1>5
    <3>2. x \in Calculator
      <4> DEFINE z == [c EXCEPT !.parts = @ + 1]
      <4>1. z \in Calculator
        BY <1>3 DEF Calculator
      <4>2. x = [z EXCEPT !.last = ms]
        BY <1>3 DEF Calculator
      <4> HIDE DEF x, z
      <4> QED BY <3>1, <4>1, <4>2 DEF Calculator
    <3>3. x.parts = c.parts + 1 /\ x.last = ms
      BY <1>3 DEF Calculator
    <3>4. x.aborts = c.aborts /\ x.partials = c.partials
      BY <1>3 DEF Calculator
    <3> QED BY <3>2, <3>3, <3>4
  <2> HIDE DEF x
  <2>3. y \in Calculator /\ y.parts = c.parts + 1 /\ y.last = ms /\ y.carry = 0 /\ ~y.open
        /\ y.aborts = c.aborts /\ y.partials = c.partials
    BY <2>2 DEF Calculator, ClosePart, Known
  <2> HIDE DEF y
  <2>4. /\ d \in Calculator /\ d.cycle = NoCycle
        /\ d.carry = 0 /\ ~d.open
        /\ d.parts = c.parts + 1 /\ d.aborts = c.aborts /\ d.partials = c.partials
        /\ d.last = r.active + c.carry
    BY <1>5, <2>1, <2>3, CycleEnded
  <2> HIDE DEF d
  <2>5. Ends(rs, qs, r, "reached")
    BY <1>1, <1>2, <1>13
  <2>6. Rests(qs, d) /\ n \in Completing(qs) /\ n \notin Aborting(qs)
    BY <1>1, <1>13, <2>4, <2>5, CompleteRests
  <2>7. Told(qs, n, c, d)
    BY <1>4, <2>4, <2>6 DEF Told
  <2> QED BY <2>6, <2>7 DEF d
<1>14. CASE ~Discarded(qs, n, P) /\ ~reached
  <2> DEFINE x == IF ResolvedMid(c) THEN c ELSE [c EXCEPT !.aborts = @ + 1]
  <2>1. d = EndCycle(LeavePartOpen(x, ms))
    BY <1>3, <1>10, <1>14 DEF StopCycle, ms
  <2>2. /\ x \in Calculator /\ x.parts = c.parts /\ x.last = c.last
        /\ x.aborts = c.aborts + (IF ResolvedMid(c) THEN 0 ELSE 1)
        /\ x.partials = c.partials /\ x.cycle = c.cycle
    <3>1. CASE ResolvedMid(c)
      BY <1>3, <3>1 DEF Calculator
    <3>2. CASE ~ResolvedMid(c)
      <4> DEFINE z == [c EXCEPT !.aborts = @ + 1]
      <4>1. x = z
        BY <3>2
      <4>2. z \in Calculator
        BY <1>3 DEF Calculator
      <4>3. /\ z.parts = c.parts /\ z.last = c.last /\ z.aborts = c.aborts + 1
            /\ z.partials = c.partials /\ z.cycle = c.cycle
        BY <1>3 DEF Calculator
      <4> HIDE DEF x, z
      <4> QED BY <3>2, <4>1, <4>2, <4>3
    <3> QED BY <3>1, <3>2
  <2> HIDE DEF x
  <2>3. n \in Aborting(qs) <=> ~ResolvedMid(c)
    BY <1>2, <1>11, <1>14
  <2>4. /\ x \in Calculator /\ x.parts = c.parts /\ x.last = c.last
        /\ x.aborts = c.aborts + (IF n \in Aborting(qs) THEN 1 ELSE 0)
        /\ x.partials = c.partials /\ x.cycle = c.cycle
    BY <2>2, <2>3
  <2>5. /\ d \in Calculator /\ d.cycle = NoCycle
        /\ d.carry = ms /\ d.open /\ d.openProgram = x.cycle.program
        /\ d.parts = x.parts /\ d.aborts = x.aborts /\ d.partials = x.partials
        /\ d.last = x.last
    <3>1. x \in Calculator /\ ms \in Nat
      BY <1>5, <2>4
    <3>2. LET z == EndCycle(LeavePartOpen(x, ms))
         IN  /\ z \in Calculator /\ z.cycle = NoCycle
             /\ z.carry = ms /\ z.open /\ z.openProgram = x.cycle.program
             /\ z.parts = x.parts /\ z.aborts = x.aborts /\ z.partials = x.partials
             /\ z.last = x.last
      BY <3>1, LeftOpen
    <3> QED BY <2>1, <3>2
  <2> HIDE DEF d
  <2>6. /\ d.openProgram = c.cycle.program /\ d.carry = r.active + c.carry
        /\ d.parts = c.parts /\ d.partials = c.partials /\ d.last = c.last
        /\ d.aborts = c.aborts + (IF n \in Aborting(qs) THEN 1 ELSE 0)
    BY <1>5, <2>4, <2>5
  <2>7. e # "reached"
    BY <1>2, <1>14
  <2>8. Rests(qs, d) /\ n \notin Completing(qs)
    BY <1>1, <1>14, <2>5, <2>6, <2>7, OpenRests
  <2>9. Told(qs, n, c, d)
    BY <1>4, <2>6, <2>8 DEF Told
  <2> QED BY <2>8, <2>9 DEF d
<1> QED BY <1>12, <1>13, <1>14 DEF d

\* abort_cycle
LEMMA AbortRests ==
  ASSUME NEW rs, NEW qs, NEW r, NEW c, NEW e \in {"cut", "gone"},
         Ends(rs, qs, r, e),
         Fits(rs, c, r), Timed(now, c, r), now \in Nat, NEW n, n = Len(rs) + 1
  PROVE  /\ Rests(qs, AbortCycle(c))
         /\ Told(qs, n, c, AbortCycle(c))
<1> DEFINE ms == Elapsed(c)
           d == AbortCycle(c)
           x == [c EXCEPT !.aborts = @ + 1]
           P == OpenPart(rs)
<1>1. c \in Calculator /\ c.cycle.running /\ r \in Run
  BY DEF Fits, Ends
<1>2. c.parts \in Nat /\ c.aborts \in Nat /\ c.carry \in Nat /\ r.active \in Nat
  BY <1>1 DEF Calculator, Run
<1>3. ms = r.active + c.carry /\ ms \in Nat
  BY <1>1, <1>2, ElapsedIs
<1>4. qs[n].end = e /\ n \in DOMAIN qs
  <2>1. EndShape(rs, qs, r, e, n, GoesOnNow(rs, r))
    BY EndFacts
  <2> QED BY <2>1 DEF Ends, EndShape
<1>5. n \in Aborting(qs) /\ ~Discarded(qs, n, P)
  BY <1>4 DEF Aborting, Discarded
<1>6. d = EndCycle(LeavePartOpen(x, ms))
  BY <1>1 DEF AbortCycle
<1>7. /\ x \in Calculator /\ x.parts = c.parts /\ x.last = c.last
      /\ x.aborts = c.aborts + 1 /\ x.partials = c.partials /\ x.cycle = c.cycle
  BY <1>1 DEF Calculator
<1> HIDE DEF x, ms
<1>8. /\ d \in Calculator /\ d.cycle = NoCycle
      /\ d.carry = ms /\ d.open /\ d.openProgram = x.cycle.program
      /\ d.parts = x.parts /\ d.aborts = x.aborts /\ d.partials = x.partials
      /\ d.last = x.last
  <2>1. x \in Calculator /\ ms \in Nat
    BY <1>3, <1>7
  <2>2. LET z == EndCycle(LeavePartOpen(x, ms))
       IN  /\ z \in Calculator /\ z.cycle = NoCycle
           /\ z.carry = ms /\ z.open /\ z.openProgram = x.cycle.program
           /\ z.parts = x.parts /\ z.aborts = x.aborts /\ z.partials = x.partials
           /\ z.last = x.last
    BY <2>1, LeftOpen
  <2> QED BY <1>6, <2>2
<1> HIDE DEF d
<1>9. /\ d.openProgram = c.cycle.program /\ d.carry = r.active + c.carry
      /\ d.parts = c.parts /\ d.partials = c.partials /\ d.last = c.last
      /\ d.aborts = c.aborts + (IF n \in Aborting(qs) THEN 1 ELSE 0)
      /\ d.aborts = c.aborts + 1
  BY <1>3, <1>5, <1>7, <1>8
<1>10. Rests(qs, d) /\ n \notin Completing(qs)
  BY <1>5, <1>8, <1>9, OpenRests
<1>11. Told(qs, n, c, d)
  BY <1>2, <1>5, <1>9, <1>10 DEF Told
<1> QED BY <1>10, <1>11 DEF d

-----------------------------------------------------------------------------
\* The inductive invariant

InRun ==
  /\ Fits(runs, calc, run) /\ Timed(now, calc, run)
  /\ calc.cycle.paused <=> sm = "PAUSED"
  /\ link.on /\ link.parts = calc.parts /\ link.aborts = calc.aborts
  /\ cycleProgram = run.known /\ run.program \in Program
  /\ run.known \in {run.began, run.program}

IInv ==
  /\ TypeOK
  /\ FactsAgree
  /\ up /\ sm = "IDLE" => Rests(runs, calc) /\ ~link.on
  /\ up /\ sm # "IDLE" => InRun

\* The history before the first run.
LEMMA NoRuns ==
  ASSUME NEW rs, rs = <<>>
  PROVE  /\ rs \in Seq(EndedRun) /\ OpenPart(rs) = {}
         /\ Completing(rs) = {} /\ Abandoning(rs) = {} /\ Aborting(rs) = {}
<1>1. rs \in Seq(EndedRun) /\ Len(rs) = 0 /\ DOMAIN rs = {}
  OBVIOUS
<1>2. PartAfter(rs)[0] = {}
  BY <1>1, PartUnfolds
<1>3. OpenPart(rs) = {}
  BY <1>1, <1>2 DEF OpenPart
<1> QED BY <1>1, <1>3 DEF Completing, Abandoning, Aborting

\* The agent starts in step.
LEMMA Starts == Init => IInv
<1> SUFFICES ASSUME Init PROVE IInv
  OBVIOUS
<1>1. NoCycle \in Cycle /\ NoRun \in Run /\ NoProgram \in Known
  BY DEF NoCycle, Cycle, NoRun, Run, Known, Origin
<1>2. calc \in Calculator
  BY <1>1 DEF Init, Calculator
<1>3. /\ runs \in Seq(EndedRun) /\ OpenPart(runs) = {}
      /\ Completing(runs) = {} /\ Abandoning(runs) = {} /\ Aborting(runs) = {}
  BY NoRuns DEF Init
<1>4. link \in [on : BOOLEAN, parts : Nat, aborts : Nat]
  BY DEF Init
<1>5. TypeOK
  BY <1>1, <1>2, <1>3, <1>4 DEF Init, TypeOK
<1>6. FactsAgree
  <2>1. Len(facts) = 0 /\ Len(runs) = 0 /\ DOMAIN runs = {} /\ up
    BY DEF Init
  <2> QED BY <2>1 DEF FactsAgree
<1>7. Rests(runs, calc)
  <2>1. /\ calc.cycle = NoCycle /\ calc.parts = 0 /\ calc.aborts = 0 /\ calc.partials = 0
        /\ calc.carry = 0 /\ ~calc.open
    BY DEF Init
  <2>2. Counters(runs, calc)
    BY <1>3, <2>1, FS_EmptySet DEF Counters
  <2>3. Holds(runs, calc, OpenPart(runs))
    BY <1>3, <2>1, TimeOfNone DEF Holds
  <2>4. calc.partials = Cardinality(Abandoning(runs))
    BY <1>3, <2>1, FS_EmptySet
  <2> QED BY <1>2, <2>1, <2>2, <2>3, <2>4 DEF Rests
<1>8. sm = "IDLE" /\ ~link.on
  BY DEF Init
<1> QED BY <1>5, <1>6, <1>7, <1>8 DEF IInv

-----------------------------------------------------------------------------
\* A run begins, goes on, pauses, resumes

\* The file shown is a known one, or none.
LEMMA ShownTyped ==
  ASSUME TypeOK, NEW p \in Program, NEW sub \in BOOLEAN
  PROVE  Shown(p, sub) \in Known
  BY DEF Shown, Known, TypeOK

\* Nothing is handed to the MES and no run ends.
LEMMA FactsStand ==
  ASSUME FactsAgree, UNCHANGED <<facts, up, runs>>
  PROVE  FactsAgree'
  BY DEF FactsAgree

\* OpensProgram
LEMMA Opens ==
  ASSUME IInv, NEW p \in Program, OpensProgram(p)
  PROVE  IInv'
<1>1. p \in Known
  BY DEF Known
<1>2. UNCHANGED <<now, sm, calc, cycleProgram, link, facts, up, run, subs, runs>> /\ file' = p
  BY DEF OpensProgram
<1>3. TypeOK'
  BY <1>1, <1>2 DEF IInv, TypeOK
<1>4. FactsAgree'
  BY <1>2, FactsStand DEF IInv
<1>5. sm = "IDLE"
  BY DEF OpensProgram
<1> QED BY <1>2, <1>3, <1>4, <1>5 DEF IInv

\* RunStarts
LEMMA Begins ==
  ASSUME IInv, NEW p \in Program, NEW sub \in BOOLEAN, NEW o \in Origin, RunStarts(p, sub, o)
  PROVE  IInv'
<1> DEFINE f == Shown(p, sub)
           r == [program |-> p, began |-> f, known |-> f, inSub |-> sub,
                 origin |-> "unknown", active |-> 0]
           s == StartCycle(calc, f)
           d == ClassifyStart(s, o)
<1>1. TypeOK /\ FactsAgree /\ up /\ sm = "IDLE" /\ Rests(runs, calc)
  BY DEF IInv, RunStarts
<1>2. /\ now \in Nat /\ runs \in Seq(EndedRun) /\ subs \in Nat
  BY <1>1 DEF TypeOK
<1>3. f \in Known /\ p \in Known
  BY <1>1, ShownTyped DEF Known
<1>4. /\ r \in Run /\ r.began = r.known /\ r.origin = "unknown" /\ r.active = 0
      /\ r.known = f /\ r.program = p
  BY <1>3 DEF Run, Origin
<1>5. /\ sm' = "RUNNING" /\ file' = f /\ calc' = d /\ link' = LinkStarts(d)
      /\ cycleProgram' = f /\ run' = Marked(r, o) /\ subs' \in Nat
      /\ UNCHANGED <<now, facts, up, runs>>
  <2>1. run' = [program |-> p, began |-> f, known |-> f, inSub |-> sub,
                origin |-> o, active |-> 0]
    BY DEF RunStarts
  <2>2. run' = Marked(r, o)
    BY <2>1 DEF Marked
  <2> QED BY <1>2, <2>2 DEF RunStarts
<1> HIDE DEF f, r
<1>6. Fits(runs, s, r) /\ Timed(now, s, r) /\ s.cycle.paused = FALSE
  BY <1>1, <1>2, <1>4, CycleStarts
<1> HIDE DEF s
<1>7. Fits(runs, d, Marked(r, o)) /\ Keeps(s, d)
  BY <1>2, <1>4, <1>6, Classified
<1>8. /\ Marked(r, o) \in Run
      /\ Marked(r, o).known = r.known /\ Marked(r, o).began = r.began
      /\ Marked(r, o).program = r.program /\ Marked(r, o).active = r.active
  BY <1>4, MarkedIs
<1> HIDE DEF d
<1>9. Timed(now, d, Marked(r, o))
  BY <1>6, <1>7, <1>8, KeepsTimed
<1>10. /\ link'.on /\ link'.parts = d.parts /\ link'.aborts = d.aborts
       /\ link' = [on |-> TRUE, parts |-> d.parts, aborts |-> d.aborts]
  BY <1>5 DEF LinkStarts
<1>11. d \in Calculator /\ d.parts \in Nat /\ d.aborts \in Nat
  BY <1>7 DEF Fits, Calculator
<1>12. TypeOK'
  <2>1. link' \in [on : BOOLEAN, parts : Nat, aborts : Nat]
    BY <1>10, <1>11
  <2> QED BY <1>1, <1>3, <1>5, <1>8, <1>11, <2>1 DEF TypeOK
<1>13. FactsAgree'
  BY <1>1, <1>5, FactsStand
<1>14. d.cycle.paused = FALSE
  BY <1>6, <1>7 DEF Keeps
<1>15. InRun'
  BY <1>4, <1>5, <1>7, <1>8, <1>9, <1>10, <1>14 DEF InRun
<1> QED BY <1>5, <1>12, <1>13, <1>15 DEF IInv

\* c: the calculator after the sample's classify, pause or resume.
LEMMA Shows ==
  ASSUME IInv, up, sm # "IDLE", NEW sub \in BOOLEAN, NEW o \in Origin, NEW c,
         Fits(runs, c, Marked(run, o)), Timed(now, c, Marked(run, o)),
         c.parts = calc.parts, c.aborts = calc.aborts,
         sm' \in {"RUNNING", "PAUSED"}, c.cycle.paused <=> sm' = "PAUSED",
         RunShows(sub, o, c)
  PROVE  IInv'
<1> DEFINE r == Marked(run, o)
           shows == ~sub /\ file' # cycleProgram
<1>1. TypeOK /\ FactsAgree /\ InRun
  BY DEF IInv
<1>2. runs \in Seq(EndedRun) /\ run \in Run /\ file \in Known /\ cycleProgram \in Known
  BY <1>1 DEF TypeOK
<1>3. run.program \in Program /\ cycleProgram = run.known
      /\ run.known \in {run.began, run.program}
  BY <1>1 DEF InRun
<1>4. /\ r \in Run
      /\ r.known = run.known /\ r.began = run.began
      /\ r.program = run.program /\ r.active = run.active
      /\ r.origin = IF run.origin = "unknown" THEN o ELSE run.origin
  BY <1>2, MarkedIs
<1>5. /\ file' = Shown(run.program, sub)
      /\ calc' = IF shows THEN SetProgram(c, file') ELSE c
      /\ cycleProgram' = IF shows THEN file' ELSE cycleProgram
      /\ run' = [run EXCEPT !.inSub = sub,
                            !.known = IF shows THEN file' ELSE @,
                            !.origin = IF @ = "unknown" THEN o ELSE @]
      /\ UNCHANGED <<now, link, facts, up, subs, runs>>
  BY DEF RunShows
<1>6. file' \in Known
  BY <1>1, <1>3, <1>5, ShownTyped
<1>7. /\ run'.known = IF shows THEN file' ELSE r.known
      /\ run'.began = r.began /\ run'.program = r.program /\ run'.active = r.active
      /\ run'.origin = r.origin
  BY <1>2, <1>4, <1>5 DEF Run
<1>8. run' \in Run
  <2>1. run'.known \in Known /\ run'.origin \in Origin
    BY <1>4, <1>6, <1>7 DEF Run
  <2>2. run' = [run EXCEPT !.inSub = sub, !.known = run'.known, !.origin = run'.origin]
    BY <1>2, <1>5 DEF Run
  <2> QED BY <1>2, <2>1, <2>2 DEF Run
<1>9. FactsAgree'
  BY <1>1, <1>5, FactsStand
<1> HIDE DEF r
<1>10. Fits(runs, c, r) /\ Timed(now, c, r)
  BY DEF r
<1>11. Fits(runs, calc', run') /\ Keeps(c, calc') /\ cycleProgram' = run'.known
       /\ run'.known \in {run'.began, run'.program}
  <2>1. CASE shows
    <3>1. file' = run.program
      BY <1>5, <2>1 DEF Shown
    <3>2. run.program \in Program /\ r.known = r.began
      BY <1>3, <1>4, <2>1, <3>1
    <3>3. /\ Fits(runs, SetProgram(c, run.program), Renamed(r, run.program))
          /\ Keeps(c, SetProgram(c, run.program))
      BY <1>2, <1>4, <1>10, <3>2, ProgramSet
    <3>4. calc' = SetProgram(c, run.program)
      BY <1>5, <2>1, <3>1
    <3>5. /\ Renamed(r, run.program).known = run.program
          /\ Renamed(r, run.program).began = r.began
          /\ Renamed(r, run.program).origin = r.origin
      BY <1>4 DEF Renamed, Run
    <3>6. /\ run'.known = Renamed(r, run.program).known
          /\ run'.began = Renamed(r, run.program).began
          /\ run'.origin = Renamed(r, run.program).origin
      BY <1>7, <2>1, <3>1, <3>5
    <3>7. Fits(runs, calc', run')
      BY <3>3, <3>4, <3>6, SameRun
    <3>8. run'.known = run'.program /\ cycleProgram' = run'.known
      BY <1>4, <1>5, <1>7, <2>1, <3>1
    <3> QED BY <3>3, <3>4, <3>7, <3>8
  <2>2. CASE ~shows
    <3>1. calc' = c /\ cycleProgram' = cycleProgram /\ run'.known = r.known
      BY <1>5, <1>7, <2>2
    <3>2. Fits(runs, c, run')
      BY <1>7, <1>10, <3>1, SameRun
    <3>3. Keeps(c, c)
      BY DEF Keeps
    <3> QED BY <1>3, <1>4, <1>7, <3>1, <3>2, <3>3
  <2> QED BY <2>1, <2>2
<1>12. Timed(now, calc', run')
  BY <1>7, <1>10, <1>11, KeepsTimed
<1>13. calc' \in Calculator
  BY <1>11 DEF Fits
<1>14. TypeOK'
  BY <1>1, <1>5, <1>6, <1>8, <1>11, <1>13 DEF TypeOK, Run
<1>15. InRun'
  <2>1. /\ calc'.parts = calc.parts /\ calc'.aborts = calc.aborts
        /\ calc'.cycle.paused <=> sm' = "PAUSED"
    BY <1>11 DEF Keeps
  <2>2. /\ link'.on /\ link'.parts = calc'.parts /\ link'.aborts = calc'.aborts
    BY <1>1, <1>5, <2>1 DEF InRun
  <2>3. run'.program \in Program
    BY <1>3, <1>4, <1>7
  <2>4. Fits(runs', calc', run') /\ Timed(now', calc', run')
    BY <1>5, <1>11, <1>12
  <2> QED BY <1>11, <2>1, <2>2, <2>3, <2>4 DEF InRun
<1> QED BY <1>5, <1>9, <1>14, <1>15 DEF IInv

\* RunGoesOn
LEMMA GoesOnKeeps ==
  ASSUME IInv, NEW sub \in BOOLEAN, NEW o \in Origin, RunGoesOn(sub, o)
  PROVE  IInv'
<1> DEFINE c == ClassifyStart(calc, o)
<1>1. /\ up /\ sm # "IDLE" /\ sm' = sm /\ RunShows(sub, o, c)
  BY DEF RunGoesOn
<1>2. InRun /\ runs \in Seq(EndedRun) /\ run \in Run /\ sm \in {"IDLE", "RUNNING", "PAUSED"}
  BY <1>1 DEF IInv, TypeOK
<1>3. Fits(runs, c, Marked(run, o)) /\ Keeps(calc, c)
  BY <1>2, Classified DEF InRun
<1> HIDE DEF c
<1>4. Timed(now, c, Marked(run, o))
  BY <1>2, <1>3, MarkedIs, KeepsTimed DEF InRun
<1>5. /\ c.parts = calc.parts /\ c.aborts = calc.aborts
      /\ c.cycle.paused <=> sm' = "PAUSED"
  BY <1>1, <1>2, <1>3 DEF Keeps, InRun
<1> QED BY <1>1, <1>2, <1>3, <1>4, <1>5, Shows

\* RunPauses
LEMMA PausesKeeps ==
  ASSUME IInv, NEW sub \in BOOLEAN, NEW o \in Origin, RunPauses(sub, o)
  PROVE  IInv'
<1> DEFINE b == ClassifyStart(calc, o)
           c == PauseCycle(b)
<1>1. /\ up /\ sm = "RUNNING" /\ sm' = "PAUSED" /\ RunShows(sub, o, c)
  BY DEF RunPauses
<1>2. /\ InRun /\ runs \in Seq(EndedRun) /\ run \in Run /\ now \in Nat
      /\ calc \in Calculator
  BY <1>1 DEF IInv, TypeOK
<1>3. Fits(runs, b, Marked(run, o)) /\ Keeps(calc, b)
  BY <1>2, Classified DEF InRun
<1>4. calc.cycle.paused \in BOOLEAN /\ ~calc.cycle.paused
  BY <1>1, <1>2 DEF InRun, Calculator, Cycle
<1> HIDE DEF b
<1>5. Timed(now, b, Marked(run, o)) /\ b.cycle.paused = FALSE
  <2>1. Timed(now, b, Marked(run, o))
    BY <1>2, <1>3, MarkedIs, KeepsTimed DEF InRun
  <2> QED BY <1>3, <1>4, <2>1 DEF Keeps
<1>6. /\ Fits(runs, c, Marked(run, o)) /\ Timed(now, c, Marked(run, o))
      /\ c.cycle.paused = TRUE /\ c.parts = b.parts /\ c.aborts = b.aborts
  BY <1>2, <1>3, <1>5, CyclePauses
<1> HIDE DEF c
<1>7. c.parts = calc.parts /\ c.aborts = calc.aborts
  BY <1>3, <1>6 DEF Keeps
<1> QED BY <1>1, <1>6, <1>7, Shows

\* RunResumes
LEMMA ResumesKeeps ==
  ASSUME IInv, NEW sub \in BOOLEAN, NEW o \in Origin, RunResumes(sub, o)
  PROVE  IInv'
<1> DEFINE b == ClassifyStart(calc, o)
           c == ResumeCycle(b)
<1>1. /\ up /\ sm = "PAUSED" /\ sm' = "RUNNING" /\ RunShows(sub, o, c)
  BY DEF RunResumes
<1>2. /\ InRun /\ runs \in Seq(EndedRun) /\ run \in Run /\ now \in Nat
      /\ calc \in Calculator
  BY <1>1 DEF IInv, TypeOK
<1>3. Fits(runs, b, Marked(run, o)) /\ Keeps(calc, b)
  BY <1>2, Classified DEF InRun
<1>4. calc.cycle.paused \in BOOLEAN /\ calc.cycle.paused
  BY <1>1, <1>2 DEF InRun, Calculator, Cycle
<1>a. Marked(run, o) \in Run /\ Marked(run, o).active = run.active
  BY <1>2, MarkedIs
<1> HIDE DEF b
<1>5. Timed(now, b, Marked(run, o)) /\ b.cycle.paused = TRUE
  <2>1. Timed(now, b, Marked(run, o))
    BY <1>2, <1>3, <1>a, KeepsTimed DEF InRun
  <2> QED BY <1>3, <1>4, <2>1 DEF Keeps
<1>6. /\ Fits(runs, c, Marked(run, o)) /\ Timed(now, c, Marked(run, o))
      /\ c.cycle.paused = FALSE /\ c.parts = b.parts /\ c.aborts = b.aborts
  BY <1>2, <1>3, <1>5, <1>a, CycleResumes
<1> HIDE DEF c
<1>7. c.parts = calc.parts /\ c.aborts = calc.aborts
  BY <1>3, <1>6 DEF Keeps
<1> QED BY <1>1, <1>6, <1>7, Shows

\* ProgramAdopted
LEMMA Adopts ==
  ASSUME IInv, ProgramAdopted
  PROVE  IInv'
<1> DEFINE p == run.program
           d == SetProgram(calc, p)
           q == Renamed(run, p)
<1>1. /\ TypeOK /\ FactsAgree /\ InRun /\ up /\ sm # "IDLE"
  BY DEF IInv, ProgramAdopted
<1>2. runs \in Seq(EndedRun) /\ run \in Run
  BY <1>1 DEF TypeOK
<1>3. p \in Program /\ run.known = run.began /\ p \in Known
  BY <1>1 DEF InRun, ProgramAdopted, Known
<1>4. /\ calc' = d /\ cycleProgram' = p /\ file' = p /\ run' = q
      /\ UNCHANGED <<now, sm, link, facts, up, subs, runs>>
  BY DEF ProgramAdopted, Renamed
<1>5. Fits(runs, d, q) /\ Keeps(calc, d)
  BY <1>1, <1>2, <1>3, ProgramSet DEF InRun
<1>6. /\ q \in Run /\ q.known = p /\ q.began = run.began /\ q.program = p
      /\ q.active = run.active
  BY <1>2, <1>3 DEF Renamed, Run
<1> HIDE DEF d, q, p
<1>7. Timed(now, d, q)
  BY <1>1, <1>5, <1>6, KeepsTimed DEF InRun
<1>8. TypeOK'
  <2>1. d \in Calculator
    BY <1>5 DEF Fits
  <2> QED BY <1>1, <1>3, <1>4, <1>6, <2>1 DEF TypeOK
<1>9. FactsAgree'
  BY <1>1, <1>4, FactsStand
<1>10. InRun'
  <2>1. /\ d.cycle.paused = calc.cycle.paused
        /\ d.parts = calc.parts /\ d.aborts = calc.aborts
    BY <1>5 DEF Keeps
  <2> QED BY <1>1, <1>3, <1>4, <1>5, <1>6, <1>7, <2>1 DEF InRun
<1> QED BY <1>1, <1>4, <1>8, <1>9, <1>10 DEF IInv

\* Tick
LEMMA Ticks ==
  ASSUME IInv, Tick
  PROVE  IInv'
<1>1. /\ TypeOK /\ FactsAgree /\ InRun /\ up /\ sm # "IDLE"
  BY DEF IInv, Tick
<1>2. /\ runs \in Seq(EndedRun) /\ run \in Run /\ now \in Nat /\ calc \in Calculator
      /\ sm \in {"IDLE", "RUNNING", "PAUSED"}
  BY <1>1 DEF TypeOK
<1>3. /\ now' = now + 1
      /\ run' = IF sm = "RUNNING" THEN [run EXCEPT !.active = @ + 1] ELSE run
      /\ UNCHANGED <<sm, calc, file, cycleProgram, link, facts, up, subs, runs>>
  BY DEF Tick
<1>4. /\ run' \in Run /\ run'.known = run.known /\ run'.began = run.began
      /\ run'.origin = run.origin /\ run'.program = run.program
      /\ run'.active = IF sm = "RUNNING" THEN run.active + 1 ELSE run.active
  BY <1>2, <1>3 DEF Run
<1>5. Fits(runs, calc, run')
  BY <1>1, <1>4, SameRun DEF InRun
<1>6. Timed(now', calc, run')
  <2>1. /\ calc.cycle.start \in Nat /\ calc.cycle.pausedFor \in Nat
        /\ calc.cycle.pauseAt \in Nat /\ run.active \in Nat
    BY <1>2 DEF Calculator, Cycle, Run
  <2>2. CASE sm = "RUNNING"
    <3>1. ~calc.cycle.paused /\ run'.active = run.active + 1
      BY <1>1, <1>4, <2>2 DEF InRun
    <3>2. now = calc.cycle.start + calc.cycle.pausedFor + run.active
      BY <1>1, <3>1 DEF InRun, Timed
    <3>3. now' = now + 1 /\ now \in Nat
      BY <1>2, <1>3
    <3>4. now' = calc.cycle.start + calc.cycle.pausedFor + run'.active
      <4>1. \A s, f, a \in Nat : (s + f + a) + 1 = s + f + (a + 1)
        OBVIOUS
      <4>2. now + 1 = calc.cycle.start + calc.cycle.pausedFor + (run.active + 1)
        BY <2>1, <3>2, <4>1
      <4> QED BY <3>1, <3>3, <4>2
    <3> QED BY <3>1, <3>3, <3>4 DEF Timed
  <2>3. CASE sm # "RUNNING"
    <3>1. calc.cycle.paused /\ run'.active = run.active
      BY <1>1, <1>2, <1>4, <2>3 DEF InRun
    <3>2. /\ calc.cycle.pauseAt = calc.cycle.start + calc.cycle.pausedFor + run.active
          /\ calc.cycle.pauseAt <= now
      BY <1>1, <3>1 DEF InRun, Timed
    <3>3. calc.cycle.pauseAt <= now'
      BY <1>2, <1>3, <2>1, <3>2
    <3> QED BY <3>1, <3>2, <3>3 DEF Timed
  <2> QED BY <2>2, <2>3
<1>7. TypeOK'
  BY <1>1, <1>2, <1>3, <1>4 DEF TypeOK
<1>8. FactsAgree'
  BY <1>1, <1>3, FactsStand
<1>9. InRun'
  BY <1>1, <1>3, <1>4, <1>5, <1>6 DEF InRun
<1> QED BY <1>1, <1>3, <1>7, <1>8, <1>9 DEF IInv

-----------------------------------------------------------------------------
\* A run ends

\* d, which: the calculator after the run, and what the MES is told.
LEMMA Leaving ==
  ASSUME IInv, up, sm # "IDLE", NEW d, NEW r \in Run, NEW which,
         NEW e \in {"reached", "stopped", "cut", "gone"},
         runs' = Append(runs, [run |-> r, end |-> e]),
         Rests(runs', d), Told(runs', Len(runs) + 1, calc, d),
         which = IF e = "gone" THEN "unknown" ELSE Outcome(d),
         LinkEnds(which), sm' = "IDLE", calc' = d, run' = NoRun, file' \in Known,
         UNCHANGED <<now, cycleProgram, up, subs>>
  PROVE  IInv'
<1> DEFINE n == Len(runs) + 1
           qs == Append(runs, [run |-> r, end |-> e])
<1>1. TypeOK /\ FactsAgree /\ InRun
  BY DEF IInv
<1>2. /\ runs \in Seq(EndedRun) /\ Len(runs) \in Nat /\ DOMAIN runs = 1..Len(runs)
      /\ facts \in Seq({"completed", "aborted", "unknown"}) /\ Len(facts) = Len(runs)
  <2>1. runs \in Seq(EndedRun) /\ facts \in Seq({"completed", "aborted", "unknown"})
    BY <1>1 DEF TypeOK
  <2>2. Len(facts) = Len(runs) + 0
    BY <1>1 DEF FactsAgree
  <2> QED BY <2>1, <2>2
<1>3. qs \in Seq(EndedRun) /\ Ends(runs, qs, r, e)
  BY <1>2, Appended
<1>4. runs' = qs
  OBVIOUS
<1> HIDE DEF qs
<1>5. Longer(runs, qs) /\ qs[n].end = e /\ DOMAIN qs = 1..n /\ Len(qs) = n
  <2>1. Longer(runs, qs) /\ qs[n].end = e
    BY <1>3 DEF Ends
  <2> QED BY <1>2, <2>1, PartsGrow DEF Longer
<1>6. link' = [link EXCEPT !.on = FALSE] /\ facts' = Append(facts, which)
  BY <1>1 DEF LinkEnds, InRun
<1>7. which \in {"completed", "aborted", "unknown"}
  BY DEF Outcome
<1>8. TypeOK'
  <2>1. NoRun \in Run
    BY DEF NoRun, Run, Known, Origin
  <2>2. d \in Calculator
    BY DEF Rests
  <2>3. facts' \in Seq({"completed", "aborted", "unknown"})
    BY <1>2, <1>6, <1>7
  <2>4. link' \in [on : BOOLEAN, parts : Nat, aborts : Nat]
    BY <1>1, <1>6 DEF TypeOK
  <2> QED BY <1>1, <1>3, <1>4, <2>1, <2>2, <2>3, <2>4 DEF TypeOK
<1>9. /\ (which = "completed") = (n \in Completing(qs))
      /\ (which = "aborted") = (n \in Aborting(qs) /\ qs[n].end # "gone")
  <2>1. n \in Completing(qs) => qs[n].end = "reached" /\ n \notin Aborting(qs)
    BY DEF Completing, Aborting
  <2>2. link.parts = calc.parts /\ link.aborts = calc.aborts
    BY <1>1 DEF InRun
  <2>3. d.parts > link.parts <=> n \in Completing(qs)
    BY <1>4, <2>2 DEF Told
  <2>4. d.aborts > link.aborts <=> n \in Aborting(qs)
    BY <1>4, <2>2 DEF Told
  <2>5. CASE e = "gone"
    <3>1. which = "unknown" /\ n \notin Completing(qs)
      BY <1>5, <2>1, <2>5
    <3> QED BY <1>5, <2>5, <3>1
  <2>6. CASE e # "gone"
    <3>1. which = IF n \in Completing(qs) THEN "completed"
                  ELSE IF n \in Aborting(qs) THEN "aborted" ELSE "unknown"
      BY <2>3, <2>4, <2>6 DEF Outcome
    <3>2. (which = "completed") <=> (n \in Completing(qs))
      BY <3>1
    <3>3. (which = "aborted") <=> (n \in Aborting(qs))
      BY <2>1, <3>1
    <3> QED BY <1>5, <2>6, <3>2, <3>3
  <2> QED BY <2>5, <2>6
<1>10. FactsAgree'
  <2>1. Len(facts') = Len(qs) /\ facts'[n] = which
    BY <1>2, <1>5, <1>6, <1>7
  <2>2. ASSUME NEW k \in 1..n
        PROVE  /\ (facts'[k] = "completed") = (k \in Completing(qs))
               /\ (facts'[k] = "aborted") = (k \in Aborting(qs) /\ qs[k].end # "gone")
    <3>1. CASE k = n
      BY <1>9, <2>1, <3>1
    <3>2. CASE k # n
      <4>1. k \in 1..Len(runs)
        BY <1>2, <3>2
      <4>2. /\ k \in Completing(qs) <=> k \in Completing(runs)
            /\ k \in Aborting(qs) <=> k \in Aborting(runs)
            /\ runs[k] = qs[k]
        BY <1>5, <4>1, RunsStand
      <4>3. facts'[k] = facts[k]
        BY <1>2, <1>6, <1>7, <4>1
      <4>4. /\ (facts[k] = "completed") = (k \in Completing(runs))
            /\ (facts[k] = "aborted") = (k \in Aborting(runs) /\ runs[k].end # "gone")
        BY <1>1, <1>2, <4>1 DEF FactsAgree
      <4> QED BY <4>2, <4>3, <4>4
    <3> QED BY <3>1, <3>2
  <2>3. Len(facts') = Len(qs) + (IF up' THEN 0 ELSE 1)
    BY <1>2, <1>5, <2>1
  <2> QED BY <1>4, <1>5, <2>2, <2>3 DEF FactsAgree
<1>11. ~link'.on
  BY <1>1, <1>6 DEF TypeOK
<1> QED BY <1>4, <1>8, <1>10, <1>11 DEF IInv

\* What a sample does before the run ends: classify, and mark the run.
LEMMA Classifies ==
  ASSUME IInv, up, sm # "IDLE", NEW o \in Origin
  PROVE  LET b == ClassifyStart(calc, o)
             r == [run EXCEPT !.inSub = FALSE, !.origin = IF @ = "unknown" THEN o ELSE @]
         IN  /\ Fits(runs, b, r) /\ Timed(now, b, r) /\ r \in Run
             /\ b.parts = calc.parts /\ b.aborts = calc.aborts
<1> DEFINE b == ClassifyStart(calc, o)
           r == [run EXCEPT !.inSub = FALSE, !.origin = IF @ = "unknown" THEN o ELSE @]
           q == Marked(run, o)
<1>1. InRun /\ runs \in Seq(EndedRun) /\ run \in Run
  BY DEF IInv, TypeOK
<1>2. Fits(runs, b, q) /\ Keeps(calc, b)
  BY <1>1, Classified DEF InRun
<1>3. /\ q.origin = IF run.origin = "unknown" THEN o ELSE run.origin
      /\ q.known = run.known /\ q.began = run.began /\ q.active = run.active
  BY <1>1, MarkedIs
<1>4. /\ r \in Run /\ r.known = run.known /\ r.began = run.began /\ r.active = run.active
      /\ r.origin = IF run.origin = "unknown" THEN o ELSE run.origin
  BY <1>1 DEF Run
<1> HIDE DEF b, r, q
<1>5. Fits(runs, b, r)
  BY <1>2, <1>3, <1>4, SameRun
<1>6. Timed(now, b, r)
  BY <1>1, <1>2, <1>4, KeepsTimed DEF InRun
<1>7. b.parts = calc.parts /\ b.aborts = calc.aborts
  BY <1>2 DEF Keeps
<1> QED BY <1>4, <1>5, <1>6, <1>7 DEF b, r

\* RunStops
LEMMA StopsKeeps ==
  ASSUME IInv, NEW sub \in BOOLEAN, NEW o \in Origin, NEW reached \in BOOLEAN,
         RunStops(sub, o, reached)
  PROVE  IInv'
<1> DEFINE b == ClassifyStart(calc, o)
           r == [run EXCEPT !.inSub = FALSE, !.origin = IF @ = "unknown" THEN o ELSE @]
           e == IF reached THEN "reached" ELSE "stopped"
           d == StopCycle(b, reached)
           qs == Append(runs, [run |-> r, end |-> e])
<1>1. /\ sm = "RUNNING" /\ up /\ sm' = "IDLE" /\ calc' = d /\ LinkEnds(Outcome(d))
      /\ file' = Shown(run.program, sub) /\ run' = NoRun
      /\ UNCHANGED <<now, cycleProgram, up, subs>>
  BY DEF RunStops, RunIsOver
<1>2. runs' = qs
  <2>1. [end |-> e, run |-> r] = [run |-> r, end |-> e]
    OBVIOUS
  <2> QED BY <2>1 DEF RunStops, RunIsOver
<1>3. TypeOK /\ InRun /\ runs \in Seq(EndedRun) /\ now \in Nat
  BY <1>1 DEF IInv, TypeOK
<1>4. /\ Fits(runs, b, r) /\ Timed(now, b, r) /\ r \in Run
      /\ b.parts = calc.parts /\ b.aborts = calc.aborts
  BY <1>1, Classifies
<1>5. e \in {"reached", "stopped", "cut", "gone"} /\ e # "gone"
  OBVIOUS
<1> HIDE DEF b, r
<1>6. Ends(runs, qs, r, IF reached THEN "reached" ELSE "stopped")
  BY <1>3, <1>4, <1>5, Appended
<1> HIDE DEF qs
<1>7. Rests(qs, d) /\ Told(qs, Len(runs) + 1, b, d)
  BY <1>3, <1>4, <1>6, StopRests
<1> HIDE DEF d
<1>8. Told(qs, Len(runs) + 1, calc, d)
  BY <1>4, <1>7 DEF Told
<1>9. file' \in Known
  BY <1>1, <1>3, ShownTyped DEF InRun
<1> DEFINE which == Outcome(d)
<1>10. which = IF e = "gone" THEN "unknown" ELSE Outcome(d)
  BY <1>5
<1>11. runs' = Append(runs, [run |-> r, end |-> e])
  BY <1>2 DEF qs
<1> HIDE DEF e, which
<1>12. LinkEnds(which) /\ sm # "IDLE"
  BY <1>1 DEF which
<1> QED BY <1>1, <1>2, <1>4, <1>5, <1>7, <1>8, <1>9, <1>10, <1>11, <1>12, Leaving

\* RunIsCut
LEMMA CutKeeps ==
  ASSUME IInv, NEW sub \in BOOLEAN, NEW o \in Origin, RunIsCut(sub, o)
  PROVE  IInv'
<1> DEFINE b == ClassifyStart(calc, o)
           r == [run EXCEPT !.inSub = FALSE, !.origin = IF @ = "unknown" THEN o ELSE @]
           d == AbortCycle(b)
           qs == Append(runs, [run |-> r, end |-> "cut"])
<1>1. /\ sm # "IDLE" /\ up /\ sm' = "IDLE" /\ calc' = d /\ LinkEnds(Outcome(d))
      /\ file' = Shown(run.program, sub) /\ run' = NoRun
      /\ UNCHANGED <<now, cycleProgram, up, subs>>
  BY DEF RunIsCut, RunIsOver
<1>2. runs' = qs
  <2>1. [end |-> "cut", run |-> r] = [run |-> r, end |-> "cut"]
    OBVIOUS
  <2> QED BY <2>1 DEF RunIsCut, RunIsOver
<1>3. TypeOK /\ InRun /\ runs \in Seq(EndedRun) /\ now \in Nat
  BY <1>1 DEF IInv, TypeOK
<1>4. /\ Fits(runs, b, r) /\ Timed(now, b, r) /\ r \in Run
      /\ b.parts = calc.parts /\ b.aborts = calc.aborts
  BY <1>1, Classifies
<1> HIDE DEF b, r
<1>5. Ends(runs, qs, r, "cut")
  BY <1>3, <1>4, Appended
<1> HIDE DEF qs
<1>6. Rests(qs, d) /\ Told(qs, Len(runs) + 1, b, d)
  BY <1>3, <1>4, <1>5, AbortRests
<1> HIDE DEF d
<1>7. Told(qs, Len(runs) + 1, calc, d)
  BY <1>4, <1>6 DEF Told
<1>8. file' \in Known
  BY <1>1, <1>3, ShownTyped DEF InRun
<1>9. runs' = Append(runs, [run |-> r, end |-> "cut"])
  BY <1>2 DEF qs
<1> DEFINE which == Outcome(d)
<1>10. which = IF "cut" = "gone" THEN "unknown" ELSE Outcome(d)
  OBVIOUS
<1> HIDE DEF which
<1>11. LinkEnds(which)
  BY <1>1 DEF which
<1> QED BY <1>1, <1>2, <1>4, <1>6, <1>7, <1>8, <1>9, <1>10, <1>11, Leaving

\* LinuxcncGone
LEMMA GoneKeeps ==
  ASSUME IInv, LinuxcncGone
  PROVE  IInv'
<1> DEFINE d == AbortCycle(calc)
           qs == Append(runs, [run |-> run, end |-> "gone"])
<1>1. /\ sm # "IDLE" /\ up /\ sm' = "IDLE" /\ calc' = d /\ LinkEnds("unknown")
      /\ file' = NoProgram /\ run' = NoRun /\ runs' = qs
      /\ UNCHANGED <<now, cycleProgram, up, subs>>
  BY DEF LinuxcncGone
<1>2. /\ InRun /\ runs \in Seq(EndedRun) /\ now \in Nat /\ run \in Run
  BY <1>1 DEF IInv, TypeOK
<1>3. Ends(runs, qs, run, "gone")
  BY <1>2, Appended
<1> HIDE DEF qs
<1>4. Rests(qs, d) /\ Told(qs, Len(runs) + 1, calc, d)
  BY <1>2, <1>3, AbortRests DEF InRun
<1> HIDE DEF d
<1>5. runs' = Append(runs, [run |-> run, end |-> "gone"])
  BY <1>1 DEF qs
<1>6. file' \in Known
  BY <1>1 DEF Known
<1> DEFINE which == "unknown"
<1>7. which = IF "gone" = "gone" THEN "unknown" ELSE Outcome(d)
  OBVIOUS
<1>8. LinkEnds(which)
  BY <1>1
<1> QED BY <1>1, <1>2, <1>4, <1>5, <1>6, <1>7, <1>8, Leaving

\* AgentStops
LEMMA AgentStopsKeeps ==
  ASSUME IInv, AgentStops
  PROVE  IInv'
<1>1. /\ up /\ sm # "IDLE" /\ up' = FALSE /\ calc' = DropCycle(calc) /\ LinkEnds("unknown")
      /\ UNCHANGED <<now, sm, file, cycleProgram, run, subs, runs>>
  BY DEF AgentStops
<1>2. TypeOK /\ FactsAgree /\ InRun
  BY <1>1 DEF IInv
<1>3. /\ Len(runs) \in Nat /\ DOMAIN runs = 1..Len(runs)
      /\ facts \in Seq({"completed", "aborted", "unknown"}) /\ Len(facts) = Len(runs)
  <2>1. runs \in Seq(EndedRun) /\ facts \in Seq({"completed", "aborted", "unknown"})
    BY <1>2 DEF TypeOK
  <2>2. Len(facts) = Len(runs) + 0
    BY <1>1, <1>2 DEF FactsAgree
  <2> QED BY <2>1, <2>2
<1>4. link' = [link EXCEPT !.on = FALSE] /\ facts' = Append(facts, "unknown")
  BY <1>1, <1>2 DEF LinkEnds, InRun
<1>5. calc' \in Calculator
  BY <1>1, <1>2, CycleEnded DEF DropCycle, TypeOK
<1>6. TypeOK'
  <2>1. facts' \in Seq({"completed", "aborted", "unknown"})
    BY <1>3, <1>4
  <2>2. link' \in [on : BOOLEAN, parts : Nat, aborts : Nat]
    BY <1>2, <1>4 DEF TypeOK
  <2> QED BY <1>1, <1>2, <1>5, <2>1, <2>2 DEF TypeOK
<1>7. FactsAgree'
  <2>1. Len(facts') = Len(runs) + 1 /\ \A k \in 1..Len(runs) : facts'[k] = facts[k]
    BY <1>3, <1>4
  <2> QED BY <1>1, <1>2, <1>3, <2>1 DEF FactsAgree
<1> QED BY <1>1, <1>6, <1>7 DEF IInv

\* Every step keeps the inductive invariant.
LEMMA Steps == IInv /\ [Next]_vars => IInv'
<1> SUFFICES ASSUME IInv, [Next]_vars PROVE IInv'
  OBVIOUS
<1>1. ASSUME NEW p \in Program, OpensProgram(p) PROVE IInv'
  BY <1>1, Opens
<1>2. ASSUME NEW p \in Program, NEW sub \in BOOLEAN, NEW o \in Origin, RunStarts(p, sub, o)
      PROVE  IInv'
  BY <1>2, Begins
<1>3. ASSUME NEW sub \in BOOLEAN, NEW o \in Origin, RunGoesOn(sub, o) PROVE IInv'
  BY <1>3, GoesOnKeeps
<1>4. ASSUME NEW sub \in BOOLEAN, NEW o \in Origin, RunPauses(sub, o) PROVE IInv'
  BY <1>4, PausesKeeps
<1>5. ASSUME NEW sub \in BOOLEAN, NEW o \in Origin, RunResumes(sub, o) PROVE IInv'
  BY <1>5, ResumesKeeps
<1>6. ASSUME NEW sub \in BOOLEAN, NEW o \in Origin, NEW reached \in BOOLEAN,
             RunStops(sub, o, reached)
      PROVE  IInv'
  BY <1>6, StopsKeeps
<1>7. ASSUME NEW sub \in BOOLEAN, NEW o \in Origin, RunIsCut(sub, o) PROVE IInv'
  BY <1>7, CutKeeps
<1>8. CASE UNCHANGED vars
  <2>1. TypeOK'
    BY <1>8 DEF IInv, TypeOK, vars
  <2>2. FactsAgree'
    BY <1>8, FactsStand DEF IInv, vars
  <2>3. sm' # "IDLE" /\ up' => InRun'
    BY <1>8 DEF IInv, InRun, vars
  <2> QED BY <1>8, <2>1, <2>2, <2>3 DEF IInv, vars
<1> QED BY <1>1, <1>2, <1>3, <1>4, <1>5, <1>6, <1>7, <1>8, Adopts, GoneKeeps,
           AgentStopsKeeps, Ticks DEF Next

\* At every moment the calculator holds what the history of runs leaves open,
\* and its clock agrees with the time the machine worked.
THEOREM SpecInv == Spec => []IInv
  BY Starts, Steps, PTL DEF Spec

\* Every state of the counting has the types that TypeOK gives (the calculator's
\* counters, times and cycle, the runs and what the MES was told).
THEOREM SpecTypeOK == Spec => []TypeOK
<1>1. IInv => TypeOK
  BY DEF IInv
<1> QED BY <1>1, SpecInv, PTL

\* However the runs of the parts come (Run From Here, stops, E-stops, late
\* answers of the tracker, a program that shows late), every pass through a
\* program is counted once: as a part, or as a partial part.
THEOREM SpecPartsAreCountedOnce == Spec => []PartsAreCountedOnce
<1>1. IInv => PartsAreCountedOnce
  <2> SUFFICES ASSUME IInv, up PROVE PartsAreCountedOnce
    BY DEF PartsAreCountedOnce
  <2>1. CASE sm = "IDLE"
    <3>1. ~AbandonsNow /\ runs \in Seq(EndedRun)
      BY <2>1 DEF AbandonsNow, IInv, TypeOK
    <3>2. /\ calc.parts = Cardinality(Completing(runs))
          /\ calc.partials = Cardinality(Abandoning(runs))
      BY <2>1 DEF IInv, Rests, Counters
    <3>3. Cardinality(Abandoning(runs)) \in Nat
      BY <3>1, CountedTyped
    <3> QED BY <3>1, <3>2, <3>3 DEF PartsAreCountedOnce
  <2>2. CASE sm # "IDLE"
    <3>1. AbandonsNow <=> Abandons(runs, run, OpenPart(runs))
      BY <2>2 DEF AbandonsNow
    <3>2. Fits(runs, calc, run)
      BY <2>2 DEF IInv, InRun
    <3> QED BY <3>1, <3>2 DEF PartsAreCountedOnce, Fits, Counters
  <2> QED BY <2>1, <2>2
<1> QED BY <1>1, SpecInv, PTL

\* A recorded cycle time, and the time carried, is the time the machine worked
\* in the runs of that part and of no other.
THEOREM SpecTimeIsOfThePart == Spec => []TimeIsOfThePart
<1>1. IInv => TimeIsOfThePart
  <2> SUFFICES ASSUME IInv, up PROVE TimeIsOfThePart
    BY DEF TimeIsOfThePart
  <2>1. Counters(runs, calc)
    BY DEF IInv, InRun, Rests, Fits
  <2>2. calc.carry = IF AbandonsNow THEN 0 ELSE Time(runs, OpenPart(runs))
    <3>1. CASE sm = "IDLE"
      BY <3>1 DEF AbandonsNow, IInv, Rests, Holds
    <3>2. CASE sm # "IDLE"
      <4>1. AbandonsNow <=> Abandons(runs, run, OpenPart(runs))
        BY <3>2 DEF AbandonsNow
      <4>2. calc.carry = Time(runs, GoesOnNow(runs, run))
        BY <3>2 DEF IInv, InRun, Fits, Holds
      <4> QED BY <4>1, <4>2, TimeOfNone DEF GoesOnNow
    <3> QED BY <3>1, <3>2
  <2> QED BY <2>1, <2>2 DEF TimeIsOfThePart, Counters, TimeOfLast
<1> QED BY <1>1, SpecInv, PTL

\* A run aborts once at most, and a run that goes on with a part and stops
\* again is no abort.
THEOREM SpecAbortsAreCountedOnce == Spec => []AbortsAreCountedOnce
<1>1. IInv => AbortsAreCountedOnce
  BY DEF IInv, InRun, Rests, Fits, Counters, AbortsAreCountedOnce
<1> QED BY <1>1, SpecInv, PTL

\* The MES hears of every run once, in order, and of its outcome what the
\* counters made of it.
THEOREM SpecFactsAgree == Spec => []FactsAgree
<1>1. IInv => FactsAgree
  BY DEF IInv
<1> QED BY <1>1, SpecInv, PTL
=============================================================================

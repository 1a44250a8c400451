---------------------------- MODULE RulesProofs ----------------------------
(* The rules that keep no state, for every input of the kinds Rules names.  *)
(* A fold over a set is a sum whatever order it goes in, and one along a    *)
(* sequence is the last of a walk: so capacities, counters, rollups,        *)
(* statistics, summaries and forecasts add up however many inverters,       *)
(* readings, windows, buckets, days and strings there are.                  *)
EXTENDS Rules, SequenceTheorems, FiniteSetTheorems, WellFoundedInduction, TLAPS

-----------------------------------------------------------------------------
(* Induction and folds.                                                     *)

(* A set of numbers that has zero, and with each number the next, has all.  *)
LEMMA EveryNumber == ASSUME NEW T, 0 \in T, \A n \in Nat : n \in T => n + 1 \in T PROVE \A n \in Nat : n \in T
<1> DEFINE Rest == Nat \ T
           Below == {ss \in Nat \X Nat : ss[1] < ss[2]}
<1> SUFFICES ASSUME Rest # {} PROVE FALSE
  OBVIOUS
<1>1. OpToRel(<, Nat) = Below
  BY Zenon DEF OpToRel
<1> HIDE DEF Below
<1>2. IsWellFoundedOn(Below, Nat)
  BY <1>1, NatLessThanWellFounded, Zenon
<1>3. Rest \subseteq Nat
  OBVIOUS
<1> HIDE DEF Rest
<1>4. PICK n \in Rest : \A m \in Rest : <<m, n>> \notin Below
  BY <1>2, <1>3, WFMin
<1>5. n \in Nat /\ n \notin T
  BY DEF Rest
<1>6. n # 0 /\ n - 1 \in Nat /\ n - 1 < n
  BY <1>5
<1>7. n - 1 \in T
  BY <1>4, <1>5, <1>6 DEF Rest, Below
<1> QED BY <1>5, <1>6, <1>7

(* Folding a set, one element after the other as pick says, with a function *)
(* op over the values V.                                                    *)
Folding(g, op, base, pick, D) ==
  \A s \in D : g[s] = IF s = {} THEN base ELSE op[pick[s]][g[s \ {pick[s]}]]

Foldable(S, V, base, op, pick) ==
  /\ IsFiniteSet(S) /\ base \in V /\ op \in [S -> [V -> V]]
  /\ pick \in [SUBSET S -> S] /\ \A s \in SUBSET S : s # {} => pick[s] \in s

LEMMA FoldsExist ==
  ASSUME NEW S, NEW V, NEW base, NEW op, NEW pick, Foldable(S, V, base, op, pick)
  PROVE \E g \in [SUBSET S -> V] : Folding(g, op, base, pick, SUBSET S)
<1>0. /\ IsFiniteSet(S) /\ base \in V /\ op \in [S -> [V -> V]]
      /\ pick \in [SUBSET S -> S] /\ \A s \in SUBSET S : s # {} => pick[s] \in s
  BY DEF Foldable
<1> USE <1>0
<1> DEFINE Few(n) == {s \in SUBSET S : Cardinality(s) <= n}
           Solved == {n \in Nat : \E g \in [Few(n) -> V] : Folding(g, op, base, pick, Few(n))}
<1>1. \A s \in SUBSET S : Cardinality(s) \in Nat /\ Cardinality(s) <= Cardinality(S)
  BY FS_Subset, FS_CardinalityType
<1>2. \A s \in SUBSET S : s # {} => /\ pick[s] \in S /\ s \ {pick[s]} \in SUBSET S
                                   /\ Cardinality(s \ {pick[s]}) = Cardinality(s) - 1
  BY FS_Subset, FS_RemoveElement
<1>3. \A s \in SUBSET S : Cardinality(s) <= 0 => s = {}
  BY <1>1, FS_Subset, FS_EmptySet
<1>4. 0 \in Solved
  <2> DEFINE g == [s \in Few(0) |-> base]
  <2>1. g \in [Few(0) -> V] /\ Folding(g, op, base, pick, Few(0))
    BY <1>3 DEF Folding
  <2> QED BY <2>1
<1>5. ASSUME NEW n \in Nat, n \in Solved PROVE n + 1 \in Solved
  <2>1. PICK g \in [Few(n) -> V] : Folding(g, op, base, pick, Few(n))
    BY <1>5
  <2> DEFINE h == [s \in Few(n + 1) |-> IF s = {} THEN base ELSE op[pick[s]][g[s \ {pick[s]}]]]
  <2>2. \A s \in Few(n + 1) : s # {} => s \ {pick[s]} \in Few(n)
    BY <1>1, <1>2
  <2>3. ASSUME NEW s \in Few(n) PROVE s \in Few(n + 1) /\ h[s] = g[s]
    <3>1. s \in Few(n + 1)
      BY <1>1
    <3>2. g[s] = IF s = {} THEN base ELSE op[pick[s]][g[s \ {pick[s]}]]
      BY <2>1 DEF Folding
    <3> HIDE DEF Few
    <3> QED BY <3>1, <3>2
  <2>4. h \in [Few(n + 1) -> V]
    <3> SUFFICES ASSUME NEW s \in Few(n + 1) PROVE (IF s = {} THEN base ELSE op[pick[s]][g[s \ {pick[s]}]]) \in V
      OBVIOUS
    <3>1. s \in SUBSET S
      OBVIOUS
    <3> HIDE DEF Few
    <3> QED BY <3>1, <1>2, <2>1, <2>2
  <2>5. Folding(h, op, base, pick, Few(n + 1))
    <3> SUFFICES ASSUME NEW s \in Few(n + 1) PROVE h[s] = IF s = {} THEN base ELSE op[pick[s]][h[s \ {pick[s]}]]
      BY DEF Folding
    <3>1. h[s] = IF s = {} THEN base ELSE op[pick[s]][g[s \ {pick[s]}]]
      OBVIOUS
    <3> HIDE DEF h, Few
    <3> QED BY <2>2, <2>3, <3>1, Zenon
  <2> HIDE DEF h, Few
  <2> QED BY <2>4, <2>5
<1>6. Cardinality(S) \in Solved
  <2> HIDE DEF Solved
  <2>1. \A n \in Nat : n \in Solved
    BY <1>4, <1>5, EveryNumber
  <2> QED BY <2>1, FS_CardinalityType
<1>7. Few(Cardinality(S)) = SUBSET S
  BY <1>1
<1> HIDE DEF Few
<1> QED BY <1>6, <1>7

(* A set of subsets of a finite set has a smallest one.                     *)
LEMMA SmallestOne ==
  ASSUME NEW S, IsFiniteSet(S), NEW T, T \subseteq SUBSET S, T # {}
  PROVE \E s \in T : \A r \in T : r \subseteq s => r = s
<1>1. IsWellFoundedOn(StrictSubsetOrdering(S), SUBSET S)
  BY FS_StrictSubsetOrderingWellFounded, FS_FiniteSubsetsOfFinite
<1>2. PICK s \in T : \A r \in T : <<r, s>> \notin StrictSubsetOrdering(S)
  BY <1>1, WFMin
<1>3. ASSUME NEW r \in T, r \subseteq s, r # s PROVE FALSE
  BY <1>2, <1>3 DEF StrictSubsetOrdering
<1> QED BY <1>3

-----------------------------------------------------------------------------
(* Sums.                                                                    *)
SumStep(f, g, s) ==
  IF s = {} THEN 0 ELSE LET x == CHOOSE y \in s : TRUE IN f[x] + g[s \ {x}]
SumTable(f, S) == CHOOSE g : g = [s \in SUBSET S |-> SumStep(f, g, s)]
SumOver(f, S) == SumTable(f, S)[S]

(* A function that has the sums of all subsets of a set.                    *)
HasSums(g, f, S) == g \in [SUBSET S -> Int] /\ \A s \in SUBSET S : g[s] = SumStep(f, g, s)

(* The sums of the subsets, and what an element adds to one.                *)
LEMMA SumsExist ==
  ASSUME NEW S, IsFiniteSet(S), NEW f, \A x \in S : f[x] \in Int
  PROVE HasSums(SumTable(f, S), f, S)
<1> DEFINE op == [x \in S |-> [n \in Int |-> f[x] + n]]
<1>1. CASE S = {}
  <2> DEFINE g == [s \in SUBSET S |-> 0]
  <2>1. \A h : h = [s \in SUBSET S |-> SumStep(f, h, s)] <=> h = g
    BY <1>1 DEF SumStep
  <2> HIDE DEF g
  <2>2. SumTable(f, S) = g
    BY <2>1 DEF SumTable
  <2>3. g \in [SUBSET S -> Int] /\ g = [s \in SUBSET S |-> SumStep(f, g, s)]
    BY <2>1 DEF g
  <2> QED BY <2>2, <2>3 DEF HasSums
<1>2. CASE S # {}
  <2> DEFINE any == CHOOSE y \in S : TRUE
             pick == [s \in SUBSET S |-> IF s = {} THEN any ELSE CHOOSE y \in s : TRUE]
  <2>1. pick \in [SUBSET S -> S] /\ \A s \in SUBSET S : s # {} => pick[s] \in s /\ pick[s] = CHOOSE y \in s : TRUE
    BY <1>2
  <2>2. op \in [S -> [Int -> Int]] /\ \A x \in S, n \in Int : op[x][n] = f[x] + n
    OBVIOUS
  <2> HIDE DEF pick, op
  <2>3. PICK g \in [SUBSET S -> Int] : Folding(g, op, 0, pick, SUBSET S)
    <3>1. Foldable(S, Int, 0, op, pick)
      <4>1. 0 \in Int /\ IsFiniteSet(S)
        OBVIOUS
      <4>2. \A s \in SUBSET S : s # {} => pick[s] \in s
        BY <2>1, Zenon
      <4> QED BY <2>1, <2>2, <4>1, <4>2, Zenon DEF Foldable
    <3> QED BY <3>1, FoldsExist
  <2>4. ASSUME NEW s \in SUBSET S PROVE g[s] = SumStep(f, g, s)
    <3>1. CASE s = {}
      BY <2>3, <3>1 DEF Folding, SumStep
    <3>2. CASE s # {}
      <4> DEFINE x == CHOOSE y \in s : TRUE
      <4>1. x \in s /\ pick[s] = x
        BY <2>1, <3>2
      <4>2. SumStep(f, g, s) = f[x] + g[s \ {x}]
        BY <3>2 DEF SumStep
      <4> HIDE DEF x
      <4>3. g[s \ {x}] \in Int /\ x \in S
        BY <4>1
      <4>4. g[s] = op[x][g[s \ {x}]]
        BY <2>3, <3>2, <4>1 DEF Folding
      <4> QED BY <2>2, <4>2, <4>3, <4>4
    <3> QED BY <3>1, <3>2
  <2>5. g = [s \in SUBSET S |-> SumStep(f, g, s)]
    BY <2>4
  <2> DEFINE c == SumTable(f, S)
  <2>6. c = [s \in SUBSET S |-> SumStep(f, c, s)]
    BY <2>5, Zenon DEF SumTable
  <2> HIDE DEF c
  <2>7. ASSUME NEW s \in SUBSET S PROVE c[s] = g[s]
    <3> DEFINE Bad == {r \in SUBSET S : c[r] # g[r]}
    <3>1. ASSUME Bad # {} PROVE FALSE
      <4>1. PICK r \in Bad : \A q \in Bad : q \subseteq r => q = r
        <5>1. Bad \subseteq SUBSET S
          OBVIOUS
        <5> HIDE DEF Bad
        <5> QED BY <5>1, <3>1, SmallestOne
      <4>2. c[r] = SumStep(f, c, r) /\ g[r] = SumStep(f, g, r)
        BY <2>6, <2>4
      <4>3. CASE r = {}
        BY <4>2, <4>3 DEF SumStep
      <4>4. CASE r # {}
        <5> DEFINE x == CHOOSE y \in r : TRUE
        <5>1. x \in r
          BY <4>4
        <5> HIDE DEF x
        <5>2. c[r \ {x}] = g[r \ {x}]
          BY <4>1, <5>1
        <5>3. SumStep(f, c, r) = f[x] + c[r \ {x}] /\ SumStep(f, g, r) = f[x] + g[r \ {x}]
          BY <4>4 DEF SumStep, x
        <5> QED BY <4>2, <5>2, <5>3
      <4> QED BY <4>3, <4>4
    <3> QED BY <3>1
  <2>8. c = g
    BY <2>6, <2>7
  <2> QED BY <2>4, <2>8 DEF c, HasSums
<1> QED BY <1>1, <1>2

LEMMA SumOfNone == \A f : SumOver(f, {}) = 0
<1> SUFFICES ASSUME NEW f PROVE SumOver(f, {}) = 0
  OBVIOUS
<1>1. HasSums(SumTable(f, {}), f, {})
  BY SumsExist, FS_EmptySet
<1> QED BY <1>1 DEF HasSums, SumStep, SumOver

(* Any element may be the one that is added last; and a sum over a subset   *)
(* is the same wherever it is taken.                                        *)
LEMMA SumsAdd ==
  ASSUME NEW S, IsFiniteSet(S), NEW f, \A x \in S : f[x] \in Int, NEW g, HasSums(g, f, S)
  PROVE \A s \in SUBSET S, a \in S : a \in s => g[s] = f[a] + g[s \ {a}]
<1> DEFINE Bad == {s \in SUBSET S : \E a \in s : g[s] # f[a] + g[s \ {a}]}
<1>1. ASSUME NEW s \in SUBSET S, s # {} PROVE \E x \in s : g[s] = f[x] + g[s \ {x}]
  <2> DEFINE x == CHOOSE y \in s : TRUE
  <2>1. x \in s
    BY <1>1
  <2>2. g[s] = f[x] + g[s \ {x}]
    BY <1>1 DEF HasSums, SumStep
  <2> QED BY <2>1, <2>2
<1>2. ASSUME Bad # {} PROVE FALSE
  <2>1. PICK s \in Bad : \A r \in Bad : r \subseteq s => r = s
    <3>1. Bad \subseteq SUBSET S
      OBVIOUS
    <3> HIDE DEF Bad
    <3> QED BY <3>1, <1>2, SmallestOne
  <2>2. PICK a \in s : g[s] # f[a] + g[s \ {a}]
    BY <2>1
  <2>3. PICK x \in s : g[s] = f[x] + g[s \ {x}]
    BY <1>1, <2>1
  <2>4. x # a /\ a \in s \ {x} /\ x \in s \ {a} /\ (s \ {x}) \ {a} = (s \ {a}) \ {x}
    BY <2>2, <2>3
  <2>5. s \ {x} \notin Bad /\ s \ {a} \notin Bad
    BY <2>1
  <2>6. g[s \ {x}] = f[a] + g[(s \ {x}) \ {a}] /\ g[s \ {a}] = f[x] + g[(s \ {a}) \ {x}]
    BY <2>4, <2>5
  <2>7. f[a] \in Int /\ f[x] \in Int /\ g[(s \ {x}) \ {a}] \in Int
    BY <2>4 DEF HasSums
  <2>8. g[s \ {a}] = f[x] + g[(s \ {x}) \ {a}]
    BY <2>4, <2>6
  <2> HIDE DEF Bad
  <2> QED BY <2>2, <2>3, <2>6, <2>7, <2>8
<1> QED BY <1>2

LEMMA SumsAgree ==
  ASSUME NEW S, IsFiniteSet(S), NEW f, \A x \in S : f[x] \in Int, NEW g, \A s \in SUBSET S : g[s] = SumStep(f, g, s), NEW s \in SUBSET S
  PROVE g[s] = SumOver(f, s)
<1>1. IsFiniteSet(s) /\ \A x \in s : f[x] \in Int
  BY FS_Subset
<1> DEFINE h == SumTable(f, s)
<1>2. HasSums(h, f, s)
  BY <1>1, SumsExist
<1> HIDE DEF h
<1> DEFINE Bad == {r \in SUBSET s : h[r] # g[r]}
<1>3. ASSUME Bad # {} PROVE FALSE
  <2>1. PICK r \in Bad : \A q \in Bad : q \subseteq r => q = r
    <3>1. Bad \subseteq SUBSET s
      OBVIOUS
    <3> HIDE DEF Bad
    <3> QED BY <1>1, <3>1, <1>3, SmallestOne
  <2>2. h[r] = SumStep(f, h, r) /\ g[r] = SumStep(f, g, r)
    <3>1. r \in SUBSET s /\ r \in SUBSET S
      BY <2>1
    <3> QED BY <1>2, <3>1 DEF HasSums
  <2>3. CASE r = {}
    BY <2>1, <2>2, <2>3 DEF SumStep
  <2>4. CASE r # {}
    <3> DEFINE x == CHOOSE y \in r : TRUE
    <3>1. x \in r
      BY <2>4
    <3>2. SumStep(f, h, r) = f[x] + h[r \ {x}] /\ SumStep(f, g, r) = f[x] + g[r \ {x}]
      BY <2>4 DEF SumStep
    <3> HIDE DEF x
    <3>3. r \ {x} \in SUBSET s /\ r \ {x} \subseteq r /\ r \ {x} # r
      BY <2>1, <3>1
    <3>4. h[r \ {x}] = g[r \ {x}]
      BY <2>1, <3>3
    <3> QED BY <2>1, <2>2, <3>2, <3>4
  <2> QED BY <2>3, <2>4
<1>4. h[s] = g[s]
  BY <1>3
<1> QED BY <1>4 DEF SumOver, h

LEMMA SumAdds ==
  ASSUME NEW S, IsFiniteSet(S), NEW f, \A x \in S : f[x] \in Int, NEW a \in S
  PROVE SumOver(f, S) = f[a] + SumOver(f, S \ {a}) /\ SumOver(f, S \ {a}) \in Int
<1> DEFINE g == SumTable(f, S)
<1>1. HasSums(g, f, S)
  BY SumsExist
<1> HIDE DEF g
<1>2. S \in SUBSET S /\ S \ {a} \in SUBSET S
  OBVIOUS
<1>3. g[S] = f[a] + g[S \ {a}]
  BY <1>1, <1>2, SumsAdd
<1>4. g[S] = SumOver(f, S) /\ g[S \ {a}] = SumOver(f, S \ {a})
  BY <1>1, <1>2, SumsAgree DEF HasSums
<1>5. g[S \ {a}] \in Int
  BY <1>1, <1>2 DEF HasSums
<1> QED BY <1>3, <1>4, <1>5

LEMMA SumIsInt == ASSUME NEW S, IsFiniteSet(S), NEW f, \A x \in S : f[x] \in Int PROVE SumOver(f, S) \in Int
BY SumsExist DEF HasSums, SumOver

(* What is below term by term is below in sum.                              *)
LEMMA SumsCompare ==
  ASSUME NEW S, IsFiniteSet(S), NEW f, NEW h, \A x \in S : f[x] \in Int /\ h[x] \in Int /\ f[x] <= h[x]
  PROVE SumOver(f, S) <= SumOver(h, S)
<1> DEFINE Bad == {s \in SUBSET S : ~(SumOver(f, s) <= SumOver(h, s))}
<1>1. ASSUME Bad # {} PROVE FALSE
  <2>1. PICK s \in Bad : \A r \in Bad : r \subseteq s => r = s
    <3>1. Bad \subseteq SUBSET S
      OBVIOUS
    <3> HIDE DEF Bad
    <3> QED BY <3>1, <1>1, SmallestOne
  <2>2. s # {}
    <3>1. {} \notin Bad
      BY SumOfNone
    <3> QED BY <2>1, <3>1
  <2>3. PICK a : a \in s
    BY <2>2
  <2>4. IsFiniteSet(s) /\ \A x \in s : f[x] \in Int /\ h[x] \in Int
    BY FS_Subset
  <2>5. /\ SumOver(f, s) = f[a] + SumOver(f, s \ {a}) /\ SumOver(f, s \ {a}) \in Int
        /\ SumOver(h, s) = h[a] + SumOver(h, s \ {a}) /\ SumOver(h, s \ {a}) \in Int
    BY <2>3, <2>4, SumAdds
  <2>6. SumOver(f, s \ {a}) <= SumOver(h, s \ {a})
    BY <2>1, <2>3
  <2>7. ~(SumOver(f, s) <= SumOver(h, s)) /\ f[a] <= h[a]
    BY <2>1, <2>3
  <2> QED BY <2>3, <2>4, <2>5, <2>6, <2>7
<1>2. S \notin Bad
  BY <1>1
<1> QED BY <1>2

(* Equal terms, equal sums.                                                 *)
LEMMA SumsEqual ==
  ASSUME NEW S, IsFiniteSet(S), NEW f, NEW h, \A x \in S : f[x] \in Int /\ h[x] = f[x]
  PROVE SumOver(f, S) = SumOver(h, S)
<1>1. SumOver(f, S) <= SumOver(h, S) /\ SumOver(h, S) <= SumOver(f, S)
  BY SumsCompare
<1>2. SumOver(f, S) \in Int /\ SumOver(h, S) \in Int
  BY SumIsInt
<1> QED BY <1>1, <1>2

(* The sum over two sets that share nothing.                                *)
LEMMA SumsJoin ==
  ASSUME NEW A, NEW B, IsFiniteSet(A), IsFiniteSet(B), A \cap B = {}, NEW f, \A x \in A \cup B : f[x] \in Int
  PROVE SumOver(f, A \cup B) = SumOver(f, A) + SumOver(f, B)
<1> DEFINE Bad == {s \in SUBSET B : SumOver(f, A \cup s) # SumOver(f, A) + SumOver(f, s)}
<1>0. SumOver(f, A) \in Int
  BY SumIsInt
<1>1. ASSUME Bad # {} PROVE FALSE
  <2>1. PICK s \in Bad : \A r \in Bad : r \subseteq s => r = s
    <3>1. Bad \subseteq SUBSET B
      OBVIOUS
    <3> HIDE DEF Bad
    <3> QED BY <3>1, <1>1, SmallestOne
  <2>2. s # {}
    <3>1. A \cup {} = A /\ SumOver(f, {}) = 0
      BY SumOfNone
    <3>2. {} \notin Bad
      BY <3>1, <1>0
    <3> QED BY <2>1, <3>2
  <2>3. PICK a : a \in s
    BY <2>2
  <2>4. IsFiniteSet(s) /\ IsFiniteSet(A \cup s)
    BY FS_Subset, FS_Union
  <2>5. SumOver(f, s) = f[a] + SumOver(f, s \ {a}) /\ SumOver(f, s \ {a}) \in Int
    BY <2>3, <2>4, SumAdds
  <2>6. SumOver(f, A \cup s) = f[a] + SumOver(f, (A \cup s) \ {a})
    BY <2>3, <2>4, SumAdds
  <2>7. (A \cup s) \ {a} = A \cup (s \ {a})
    BY <2>3
  <2>8. s \ {a} \notin Bad /\ s \ {a} \in SUBSET B
    BY <2>1, <2>3
  <2>10. SumOver(f, (A \cup s) \ {a}) = SumOver(f, A) + SumOver(f, s \ {a})
    BY <2>7, <2>8
  <2>9. SumOver(f, A \cup s) # SumOver(f, A) + SumOver(f, s) /\ f[a] \in Int
    BY <2>1, <2>3
  <2> HIDE DEF Bad
  <2> QED BY <1>0, <2>5, <2>6, <2>9, <2>10
<1>2. B \notin Bad
  BY <1>1
<1> QED BY <1>2

-----------------------------------------------------------------------------
(* Equipment.                                                               *)
Powers(T) == [s \in T |-> s.power]

LEMMA TotalIsSum ==
  ASSUME NEW T, IsFiniteSet(T), \A s \in T : s.power \in Int PROVE Equip!Total(T) = SumOver(Powers(T), T)
<1> DEFINE Step(g, s) == IF s = {} THEN 0 ELSE LET x == CHOOSE y \in s : TRUE IN x.power + g[s \ {x}]
           c == CHOOSE g : g = [s \in SUBSET T |-> Step(g, s)]
<1>1. Equip!Total(T) = c[T]
  BY DEF Equip!Total, Equip!MapThenSumSet, Equip!MapThenFoldSet
<1>2. ASSUME NEW g, NEW s \in SUBSET T PROVE Step(g, s) = SumStep(Powers(T), g, s)
  BY DEF SumStep, Powers
<1>3. \A s \in T : Powers(T)[s] \in Int
  BY DEF Powers
<1>4. HasSums(SumTable(Powers(T), T), Powers(T), T)
  BY <1>3, SumsExist
<1> HIDE DEF Step
<1>5. SumTable(Powers(T), T) = [s \in SUBSET T |-> Step(SumTable(Powers(T), T), s)]
  BY <1>2, <1>4 DEF HasSums
<1>6. c = [s \in SUBSET T |-> Step(c, s)]
  BY <1>5, Zenon
<1> HIDE DEF c
<1>7. \A s \in SUBSET T : c[s] = SumStep(Powers(T), c, s)
  BY <1>2, <1>6
<1> QED BY <1>1, <1>3, <1>7, SumsAgree

(* The image of a finite set, and the least of a finite set of numbers.     *)
LEMMA FiniteImage == ASSUME NEW S, IsFiniteSet(S), NEW f PROVE IsFiniteSet({f[x] : x \in S})
<1> DEFINE g == [x \in S |-> f[x]]
           T == {f[x] : x \in S}
<1>1. g \in [S -> T] /\ \A t \in T : \E x \in S : g[x] = t
  OBVIOUS
<1>2. g \in Surjection(S, T)
  BY <1>1 DEF Surjection
<1> HIDE DEF g, T
<1>3. IsFiniteSet(T)
  BY <1>2, FS_Surjection
<1> QED BY <1>3 DEF T

LEMMA LeastExists == ASSUME NEW S, S \subseteq Int, IsFiniteSet(S), S # {} PROVE \E x \in S : \A y \in S : x <= y
<1> DEFINE Upto(x) == {y \in S : y <= x}
           T == {Upto(x) : x \in S}
<1>1. T \subseteq SUBSET S /\ \E s : s \in T
  OBVIOUS
<1>2. PICK s \in T : \A r \in T : r \subseteq s => r = s
  <2>1. T \subseteq SUBSET S /\ T # {}
    BY <1>1
  <2>2. IsFiniteSet(S)
    OBVIOUS
  <2> HIDE DEF T
  <2> QED BY ONLY <2>1, <2>2, SmallestOne
<1>3. PICK x \in S : s = Upto(x)
  OBVIOUS
<1>4. ASSUME NEW y \in S, ~(x <= y) PROVE FALSE
  <2>0. x \in Int /\ y \in Int /\ \A z \in S : z \in Int
    OBVIOUS
  <2>3. ASSUME NEW z \in Upto(y) PROVE z \in Upto(x)
    <3>1. z \in S /\ z <= y
      OBVIOUS
    <3> QED BY <1>4, <2>0, <3>1
  <2>1. Upto(y) \subseteq Upto(x) /\ x \notin Upto(y) /\ x \in Upto(x)
    <3>1. x \in Upto(x) /\ x \notin Upto(y)
      BY <1>4, <2>0
    <3> HIDE DEF Upto
    <3> QED BY <2>3, <3>1
  <2>2. Upto(y) \in T
    OBVIOUS
  <2> HIDE DEF T, Upto
  <2> QED BY <1>2, <1>3, <2>1, <2>2
<1> QED BY <1>4

(* What there is on a date, by the names of effective_capacity_snapshot.    *)
StringsOf(system) == UNION {i.strings : i \in system.inverters}
InvertersOn(system, d) == Equip!InEffect(system.inverters, d)
AllOn(system, d) == UNION {Equip!InEffect(i.strings, d) : i \in InvertersOn(system, d)}
ReadyOn(system, d) == {s \in AllOn(system, d) : Equip!IncompleteReasons(system, s, d) = {}}
ReasonsOn(system, d) == UNION {Equip!IncompleteReasons(system, s, d) : s \in AllOn(system, d)}
RefusedOn(system, d) ==
  \/ Equip!Ambiguous(InvertersOn(system, d))
  \/ \E i \in InvertersOn(system, d) :
       \/ Equip!Ambiguous(Equip!InEffect(i.strings, d))
       \/ \E s \in Equip!InEffect(i.strings, d) : s.power <= 0
  \/ Equip!Total(AllOn(system, d)) > MaxCapacity

LEMMA CapacityOn ==
  ASSUME NEW system, NEW d
  PROVE Equip!EffectiveCapacity(system, d) =
          IF RefusedOn(system, d) THEN Equip!Refused
          ELSE [inverters |-> {i.id : i \in InvertersOn(system, d)}, total |-> Equip!Total(AllOn(system, d)),
                ready |-> Equip!Total(ReadyOn(system, d)),
                reasons |-> ReasonsOn(system, d) \cup (IF Equip!Total(AllOn(system, d)) = 0 THEN {"no equipment"} ELSE {})]
BY DEF Equip!EffectiveCapacity, RefusedOn, InvertersOn, AllOn, ReadyOn, ReasonsOn

LEMMA StringsAreFinite == ASSUME NEW system, PlantTyped(system) PROVE IsFiniteSet(StringsOf(system))
<1> DEFINE f == [i \in system.inverters |-> i.strings]
<1>1. {f[i] : i \in system.inverters} = {i.strings : i \in system.inverters} /\ IsFiniteSet(system.inverters)
  BY DEF PlantTyped
<1> HIDE DEF f
<1>2. IsFiniteSet({i.strings : i \in system.inverters})
  BY <1>1, FiniteImage
<1>3. \A T \in {i.strings : i \in system.inverters} : IsFiniteSet(T)
  BY DEF PlantTyped
<1> QED BY <1>2, <1>3, FS_UNION DEF StringsOf

(* No period begins or ends before the next boundary.                       *)
LEMMA NoBoundaryBetween ==
  ASSUME NEW system, PlantTyped(system), NoEnd \in Int, NEW d \in Int, NEW e \in Int, d <= e, e < NoEnd, e < Equip!NextBoundary(system, d)
  PROVE \A b \in Equip!Boundaries(system) : b <= d \/ e < b
<1> DEFINE B == Equip!Boundaries(system)
           later == {b \in B : b > d}
           Times(V) == {v.from : v \in V} \cup {v.to : v \in V}
<1>1. IsFiniteSet(StringsOf(system)) /\ \A s \in StringsOf(system) : IsPeriod(s) /\ IsPeriod(s.settings)
  BY StringsAreFinite DEF PlantTyped, StringsOf
<1> DEFINE S == StringsOf(system)
           I == system.inverters
           W == {s.settings : s \in {t \in S : t.settings.from # NoEnd}}
<1>2. IsFiniteSet(W) /\ \A w \in W : IsPeriod(w)
  <2>1. IsFiniteSet({t \in S : t.settings.from # NoEnd})
    BY <1>1, FS_Subset
  <2> DEFINE Q == {t \in S : t.settings.from # NoEnd}
             f == [s \in Q |-> s.settings]
  <2>2. {f[s] : s \in Q} = W
    OBVIOUS
  <2>3. \A w \in W : IsPeriod(w)
    BY <1>1
  <2> HIDE DEF f, Q, W, S
  <2>4. IsFiniteSet(Q)
    BY <2>1 DEF Q
  <2> QED BY <2>2, <2>3, <2>4, FiniteImage
<1>3. B = Equip!Ends(I) \cup Equip!Ends(S) \cup Equip!Ends(W)
  BY DEF Equip!Boundaries, StringsOf
<1>4. ASSUME NEW V, IsFiniteSet(V), \A v \in V : IsPeriod(v) PROVE IsFiniteSet(Equip!Ends(V)) /\ Equip!Ends(V) \subseteq Int
  <2>1. IsFiniteSet({v.from : v \in V}) /\ IsFiniteSet({v.to : v \in V})
    <3> DEFINE f == [v \in V |-> v.from]
               g == [v \in V |-> v.to]
    <3>1. {f[v] : v \in V} = {v.from : v \in V} /\ {g[v] : v \in V} = {v.to : v \in V}
      OBVIOUS
    <3> HIDE DEF f, g
    <3>2. IsFiniteSet({f[v] : v \in V}) /\ IsFiniteSet({g[v] : v \in V})
      BY <1>4, FiniteImage
    <3> QED BY <3>1, <3>2
  <2>2. IsFiniteSet({v.from : v \in V} \cup {v.to : v \in V})
    BY <2>1, FS_Union
  <2>3. Equip!Ends(V) \subseteq {v.from : v \in V} \cup {v.to : v \in V}
    BY DEF Equip!Ends
  <2>4. {v.from : v \in V} \cup {v.to : v \in V} \subseteq Int
    BY <1>4 DEF IsPeriod
  <2> QED BY <2>2, <2>3, <2>4, FS_Subset
<1>5. IsFiniteSet(B) /\ B \subseteq Int
  <2>1. IsFiniteSet(I) /\ \A i \in I : IsPeriod(i)
    BY DEF PlantTyped
  <2> HIDE DEF B, S, I, W
  <2>2. IsFiniteSet(Equip!Ends(I) \cup Equip!Ends(S)) /\ IsFiniteSet(Equip!Ends(W))
    BY <1>1, <1>2, <1>4, <2>1, FS_Union DEF S
  <2>3. Equip!Ends(I) \subseteq Int /\ Equip!Ends(S) \subseteq Int /\ Equip!Ends(W) \subseteq Int
    BY <1>1, <1>2, <1>4, <2>1 DEF S
  <2> QED BY <1>3, <2>2, <2>3, FS_Union
<1>8. Equip!NextBoundary(system, d) = IF later = {} THEN NoEnd ELSE Equip!Min(later)
  BY DEF Equip!NextBoundary
<1> HIDE DEF B
<1> SUFFICES \A b \in B : b <= d \/ e < b
  BY DEF B
<1>6. CASE later = {}
  <2>1. \A b \in B : ~(b > d)
    BY <1>6
  <2> QED BY <1>5, <2>1
<1>7. CASE later # {}
  <2>1. later \in SUBSET Int /\ IsFiniteSet(later)
    BY <1>5, FS_Subset
  <2>2. PICK x \in later : \A y \in later : x <= y
    BY <2>1, <1>7, LeastExists
  <2> DEFINE m == CHOOSE z \in later : \A y \in later : z <= y
  <2>3. m \in later /\ \A y \in later : m <= y
    BY <2>2
  <2>4. Equip!NextBoundary(system, d) = m
    BY <1>7, <1>8 DEF Equip!Min
  <2> HIDE DEF m
  <2>5. m \in Int /\ e < m
    BY <2>1, <2>3, <2>4
  <2>6. \A b \in B : b \in Int /\ (b > d => m <= b)
    BY <1>5, <2>3
  <2> QED BY <2>5, <2>6
<1> QED BY <1>6, <1>7

(* What is in effect on a date is in effect until the next boundary.        *)
LEMMA InEffectStays ==
  ASSUME NEW V, \A v \in V : IsPeriod(v), NoEnd \in Int, NEW d \in Int, NEW e \in Int, d <= e, e < NoEnd,
         \A b \in Equip!Ends(V) : b <= d \/ e < b
  PROVE Equip!InEffect(V, e) = Equip!InEffect(V, d)
<1> SUFFICES ASSUME NEW v \in V PROVE Equip!InPeriod(v, e) <=> Equip!InPeriod(v, d)
  BY DEF Equip!InEffect
<1>1. v.from \in Int /\ v.to \in Int
  BY DEF IsPeriod
<1>2. (v.from = NoEnd \/ v.from <= d \/ e < v.from) /\ (v.to = NoEnd \/ v.to <= d \/ e < v.to)
  BY DEF Equip!Ends
<1> QED BY <1>1, <1>2 DEF Equip!InPeriod

(* So is what is missing from a string.                                     *)
LEMMA SettingsStay ==
  ASSUME NEW s, IsPeriod(s.settings), NoEnd \in Int, NEW d \in Int, NEW e \in Int, d <= e, e < NoEnd,
         s.settings.from # NoEnd => \A b \in {s.settings.from, s.settings.to} \ {NoEnd} : b <= d \/ e < b
  PROVE Equip!InPeriod(s.settings, e) <=> Equip!InPeriod(s.settings, d)
<1>1. s.settings.from \in Int /\ s.settings.to \in Int
  BY DEF IsPeriod
<1> QED BY <1>1 DEF Equip!InPeriod

LEMMA SnapshotHolds ==
  ASSUME NEW system, PlantTyped(system), NoEnd \in Int, NEW d \in Int, NEW e \in Int, d <= e, e < NoEnd, e < Equip!NextBoundary(system, d)
  PROVE Equip!EffectiveCapacity(system, e) = Equip!EffectiveCapacity(system, d)
<1> DEFINE B == Equip!Boundaries(system)
           I == system.inverters
           S == StringsOf(system)
           W == {s.settings : s \in {t \in S : t.settings.from # NoEnd}}
<1>1. \A b \in B : b <= d \/ e < b
  BY NoBoundaryBetween
<1>2. B = Equip!Ends(I) \cup Equip!Ends(S) \cup Equip!Ends(W)
  BY DEF Equip!Boundaries, StringsOf
<1>3. /\ \A i \in I : IsPeriod(i) /\ i.strings \subseteq S
      /\ \A s \in S : IsPeriod(s) /\ IsPeriod(s.settings)
  BY DEF PlantTyped, StringsOf
<1> HIDE DEF B
<1>4. InvertersOn(system, e) = InvertersOn(system, d)
  <2> HIDE DEF W, S
  <2> QED BY <1>1, <1>2, <1>3, InEffectStays DEF InvertersOn
<1>5. ASSUME NEW i \in I PROVE Equip!InEffect(i.strings, e) = Equip!InEffect(i.strings, d)
  <2>1. Equip!Ends(i.strings) \subseteq Equip!Ends(S)
    BY <1>3 DEF Equip!Ends
  <2>2. \A s \in i.strings : IsPeriod(s)
    BY <1>3
  <2> HIDE DEF W, S, I
  <2>3. \A b \in Equip!Ends(i.strings) : b <= d \/ e < b
    BY <1>1, <1>2, <2>1
  <2> QED BY <2>2, <2>3, InEffectStays
<1>6. ASSUME NEW s \in S PROVE Equip!IncompleteReasons(system, s, e) = Equip!IncompleteReasons(system, s, d)
  <2>1. s.settings.from # NoEnd => {s.settings.from, s.settings.to} \ {NoEnd} \subseteq Equip!Ends(W)
    BY DEF Equip!Ends
  <2> HIDE DEF W, S
  <2>2. s.settings.from # NoEnd => \A b \in {s.settings.from, s.settings.to} \ {NoEnd} : b <= d \/ e < b
    BY <1>1, <1>2, <2>1
  <2>3. Equip!InPeriod(s.settings, e) <=> Equip!InPeriod(s.settings, d)
    BY <1>3, <2>2, SettingsStay
  <2> QED BY <2>3 DEF Equip!IncompleteReasons
<1>7. InvertersOn(system, d) \subseteq I
  BY DEF InvertersOn, Equip!InEffect
<1> HIDE DEF I
<1>8. AllOn(system, e) = AllOn(system, d) /\ AllOn(system, d) \subseteq S
  <2>1. AllOn(system, e) = AllOn(system, d)
    BY <1>4, <1>5, <1>7 DEF AllOn
  <2>2. \A i \in I : Equip!InEffect(i.strings, d) \subseteq S
    BY <1>3 DEF Equip!InEffect
  <2> HIDE DEF S
  <2> QED BY <1>7, <2>1, <2>2 DEF AllOn
<1> HIDE DEF S
<1>9. ReadyOn(system, e) = ReadyOn(system, d) /\ ReasonsOn(system, e) = ReasonsOn(system, d)
  BY <1>6, <1>8 DEF ReadyOn, ReasonsOn
<1>10. RefusedOn(system, e) <=> RefusedOn(system, d)
  BY <1>4, <1>5, <1>7, <1>8 DEF RefusedOn
<1> QED BY <1>4, <1>8, <1>9, <1>10, CapacityOn

(* Powers add up to no less than nothing, and to nothing only over nothing. *)
LEMMA SumOfNaturals == ASSUME NEW S, IsFiniteSet(S), NEW f, \A x \in S : f[x] \in Nat PROVE SumOver(f, S) \in Nat
<1> DEFINE Bad == {s \in SUBSET S : SumOver(f, s) \notin Nat}
<1>1. ASSUME Bad # {} PROVE FALSE
  <2>1. PICK s \in Bad : \A r \in Bad : r \subseteq s => r = s
    <3>1. Bad \subseteq SUBSET S
      OBVIOUS
    <3> HIDE DEF Bad
    <3> QED BY <3>1, <1>1, SmallestOne
  <2>2. s # {}
    <3>1. {} \notin Bad
      BY SumOfNone
    <3> QED BY <2>1, <3>1
  <2>3. PICK a : a \in s
    BY <2>2
  <2>4. IsFiniteSet(s) /\ \A x \in s : f[x] \in Int
    BY FS_Subset
  <2>5. SumOver(f, s) = f[a] + SumOver(f, s \ {a})
    BY <2>3, <2>4, SumAdds
  <2>6. SumOver(f, s \ {a}) \in Nat
    BY <2>1, <2>3
  <2>7. SumOver(f, s) \notin Nat /\ f[a] \in Nat
    BY <2>1, <2>3
  <2> QED BY <2>5, <2>6, <2>7
<1> QED BY <1>1

LEMMA SumOfPositives ==
  ASSUME NEW S, IsFiniteSet(S), NEW f, \A x \in S : f[x] \in Nat /\ f[x] > 0, SumOver(f, S) = 0 PROVE S = {}
<1> SUFFICES ASSUME NEW a \in S PROVE FALSE
  OBVIOUS
<1>1. SumOver(f, S) = f[a] + SumOver(f, S \ {a})
  BY SumAdds
<1>2. IsFiniteSet(S \ {a})
  BY FS_Subset
<1>3. SumOver(f, S \ {a}) \in Nat
  BY <1>2, SumOfNaturals
<1> QED BY <1>1, <1>3

(* What can be forecast is a part of the whole, and the whole only when     *)
(* nothing is missing.                                                      *)
LEMMA CompletenessIsCapacity ==
  ASSUME NEW system, PlantTyped(system), NEW d, ~RefusedOn(system, d)
  PROVE LET c == Equip!EffectiveCapacity(system, d) IN
          /\ c.ready <= c.total
          /\ Equip!Completeness(c) = "complete" <=> c.ready = c.total /\ c.total > 0
          /\ Equip!Completeness(c) = "unavailable" => c.ready = 0
<1> DEFINE c == Equip!EffectiveCapacity(system, d)
           All == AllOn(system, d)
           Ready == ReadyOn(system, d)
<1>1. /\ IsFiniteSet(All) /\ Ready \subseteq All
      /\ \A s \in All : s.power \in Nat /\ s.power > 0
  <2>1. \A i \in InvertersOn(system, d) :
          /\ IsFiniteSet(i.strings) /\ Equip!InEffect(i.strings, d) \subseteq i.strings
          /\ \A s \in Equip!InEffect(i.strings, d) : s.power \in Int /\ ~(s.power <= 0)
    BY DEF PlantTyped, InvertersOn, Equip!InEffect, RefusedOn
  <2>2. IsFiniteSet(StringsOf(system)) /\ All \subseteq StringsOf(system)
    <3>1. \A i \in InvertersOn(system, d) : i \in system.inverters
      BY DEF InvertersOn, Equip!InEffect
    <3>2. All \subseteq StringsOf(system)
      BY <2>1, <3>1 DEF AllOn, StringsOf
    <3> QED BY <3>2, StringsAreFinite
  <2>3. \A s \in All : s.power \in Int /\ ~(s.power <= 0)
    BY <2>1 DEF AllOn
  <2>4. IsFiniteSet(All)
    BY <2>2, FS_Subset
  <2> QED BY <2>3, <2>4 DEF ReadyOn
<1>2. IsFiniteSet(Ready) /\ IsFiniteSet(All \ Ready)
  BY <1>1, FS_Subset
<1> DEFINE f == Powers(All)
<1>3. \A s \in All : f[s] \in Nat /\ f[s] > 0
  BY <1>1 DEF Powers
<1>4. Equip!Total(All) = SumOver(f, All)
  BY <1>1, TotalIsSum
<1>5. Equip!Total(Ready) = SumOver(f, Ready)
  <2>1. Equip!Total(Ready) = SumOver(Powers(Ready), Ready)
    BY <1>1, <1>2, TotalIsSum
  <2>2. \A s \in Ready : Powers(Ready)[s] \in Int /\ f[s] = Powers(Ready)[s]
    BY <1>1 DEF Powers
  <2> QED BY <1>2, <2>1, <2>2, SumsEqual
<1>6. /\ c.total = Equip!Total(All) /\ c.ready = Equip!Total(Ready)
      /\ c.reasons = ReasonsOn(system, d) \cup (IF Equip!Total(All) = 0 THEN {"no equipment"} ELSE {})
  <2> DEFINE ids == {i.id : i \in InvertersOn(system, d)}
             gone == IF Equip!Total(All) = 0 THEN {"no equipment"} ELSE {}
  <2>1. c = [inverters |-> ids, total |-> Equip!Total(All), ready |-> Equip!Total(Ready), reasons |-> ReasonsOn(system, d) \cup gone]
    BY CapacityOn
  <2> HIDE DEF ids, gone, c, All, Ready
  <2>2. c.total = Equip!Total(All) /\ c.ready = Equip!Total(Ready) /\ c.reasons = ReasonsOn(system, d) \cup gone
    BY <2>1
  <2> QED BY <2>2 DEF gone
<1>7. ReasonsOn(system, d) = {} <=> Ready = All
  BY DEF ReasonsOn, ReadyOn
<1> HIDE DEF All, Ready, f
<1>8. SumOver(f, All) = SumOver(f, Ready) + SumOver(f, All \ Ready)
  <2>1. All = Ready \cup (All \ Ready) /\ Ready \cap (All \ Ready) = {}
    BY <1>1
  <2>2. \A s \in Ready \cup (All \ Ready) : f[s] \in Int
    BY <1>1, <1>3
  <2> QED BY <1>2, <2>1, <2>2, SumsJoin
<1>9. SumOver(f, Ready) \in Nat /\ SumOver(f, All \ Ready) \in Nat
  BY <1>1, <1>2, <1>3, SumOfNaturals
<1>10. SumOver(f, All \ Ready) = 0 => Ready = All
  BY <1>1, <1>2, <1>3, SumOfPositives
<1>11. c.total = SumOver(f, All) /\ c.ready = SumOver(f, Ready)
  BY <1>4, <1>5, <1>6
<1>12. c.reasons = {} <=> Ready = All /\ SumOver(f, All) # 0
  BY <1>4, <1>6, <1>7
<1> HIDE DEF c
<1>13. c.ready \in Nat /\ c.total \in Nat /\ c.ready <= c.total
  BY <1>8, <1>9, <1>11
<1>14. c.ready = c.total => Ready = All
  BY <1>8, <1>9, <1>10, <1>11
<1>15. c.reasons = {} <=> c.ready = c.total /\ c.total > 0
  BY <1>11, <1>12, <1>13, <1>14
<1>16. /\ c.ready <= c.total
       /\ Equip!Completeness(c) = "complete" <=> c.ready = c.total /\ c.total > 0
       /\ Equip!Completeness(c) = "unavailable" => c.ready = 0
  BY <1>13, <1>15 DEF Equip!Completeness
<1> QED BY <1>16 DEF c

-----------------------------------------------------------------------------
(* The catalog.                                                             *)

(* Neighbours in order are all in order.                                    *)
LEMMA AllInOrder ==
  ASSUME NEW n \in Nat, NEW f \in [1..n -> Int], \A k \in 1..n - 1 : f[k] < f[k + 1]
  PROVE \A j \in 1..n, k \in 1..n : j < k => f[j] < f[k]
<1> DEFINE T == {m \in Nat : m \in 1..n => \A j \in 1..m - 1 : f[j] < f[m]}
<1>1. 0 \in T
  OBVIOUS
<1>2. ASSUME NEW m \in Nat, m \in T PROVE m + 1 \in T
  <2> SUFFICES ASSUME m + 1 \in 1..n, NEW j \in 1..m PROVE f[j] < f[m + 1]
    OBVIOUS
  <2>1. m \in 1..n - 1 /\ m \in 1..n /\ j \in 1..n
    OBVIOUS
  <2>2. f[m] < f[m + 1] /\ f[m] \in Int /\ f[m + 1] \in Int /\ f[j] \in Int
    BY <2>1
  <2>3. j = m \/ f[j] < f[m]
    BY <1>2, <2>1
  <2> QED BY <2>2, <2>3
<1> HIDE DEF T
<1>3. \A m \in Nat : m \in T
  BY <1>1, <1>2, EveryNumber
<1> SUFFICES ASSUME NEW j \in 1..n, NEW k \in 1..n, j < k PROVE f[j] < f[k]
  OBVIOUS
<1>4. k \in Nat /\ j \in 1..k - 1
  OBVIOUS
<1> QED BY <1>3, <1>4 DEF T

(* Entries under distinct ids can be put in the order of their ids.         *)
Distinct(S) == \A x, y \in S : x.id \in Int /\ (x.id = y.id => x = y)
IsInOrder(s, S) == LET ranks == 1..Cardinality(S) IN s \in [ranks -> S] /\ \A j, k \in ranks : j < k => s[j].id < s[k].id

LEMMA OrderExists == ASSUME NEW S, IsFiniteSet(S), Distinct(S) PROVE \E s : IsInOrder(s, S)
<1> DEFINE Bad == {r \in SUBSET S : ~\E s : IsInOrder(s, r)}
<1>1. ASSUME Bad # {} PROVE FALSE
  <2>1. PICK r \in Bad : \A q \in Bad : q \subseteq r => q = r
    <3>1. Bad \subseteq SUBSET S
      OBVIOUS
    <3> HIDE DEF Bad
    <3> QED BY <3>1, <1>1, SmallestOne
  <2>2. r \subseteq S /\ IsFiniteSet(r) /\ Cardinality(r) \in Nat
    BY FS_Subset, FS_CardinalityType
  <2>3. r # {}
    <3>1. ASSUME r = {} PROVE FALSE
      <4>1. Cardinality(r) = 0
        BY <3>1, FS_EmptySet
      <4>2. IsInOrder([k \in 1..0 |-> k], r)
        BY <4>1 DEF IsInOrder
      <4> QED BY <4>2
    <3> QED BY <3>1
  <2>4. PICK a \in r : \A x \in r : a.id <= x.id
    <3> DEFINE f == [x \in r |-> x.id]
    <3>1. {f[x] : x \in r} = {x.id : x \in r}
      OBVIOUS
    <3> HIDE DEF f
    <3>2. IsFiniteSet({x.id : x \in r})
      BY <2>2, <3>1, FiniteImage
    <3> DEFINE I == {x.id : x \in r}
    <3>3. I \subseteq Int /\ I # {}
      BY <2>2, <2>3 DEF Distinct
    <3> HIDE DEF I
    <3>4. PICK i \in I : \A j \in I : i <= j
      BY <3>2, <3>3, LeastExists DEF I
    <3> QED BY <3>4 DEF I
  <2> DEFINE q == r \ {a}
             n == Cardinality(r)
  <2>5. q \in SUBSET S /\ q \notin Bad /\ q \subseteq r
    BY <2>1, <2>2
  <2>6. PICK s : IsInOrder(s, q)
    BY <2>5
  <2>7. Cardinality(q) = n - 1 /\ n \in Nat /\ n > 0
    BY <2>2, FS_RemoveElement, FS_CardinalityType, FS_EmptySet
  <2>8. s \in [1..n - 1 -> q] /\ \A j, k \in 1..n - 1 : j < k => s[j].id < s[k].id
    BY <2>6, <2>7 DEF IsInOrder
  <2>9. \A x \in q : a.id < x.id /\ x.id \in Int
    <3> SUFFICES ASSUME NEW x \in q PROVE a.id < x.id /\ x.id \in Int
      OBVIOUS
    <3>1. x \in S /\ a \in S /\ x # a /\ a.id <= x.id
      BY <2>2, <2>4
    <3> QED BY <3>1 DEF Distinct
  <2> DEFINE t == [k \in 1..n |-> IF k = 1 THEN a ELSE s[k - 1]]
  <2> HIDE DEF q, n
  <2>10. \A k \in 1..n : k = 1 \/ k - 1 \in 1..n - 1
    BY <2>7
  <2>11. t \in [1..n -> r]
    BY <2>5, <2>8, <2>10
  <2>12. ASSUME NEW j \in 1..n, NEW k \in 1..n, j < k PROVE t[j].id < t[k].id
    <3>1. k # 1 /\ k - 1 \in 1..n - 1 /\ t[k] = s[k - 1]
      BY <2>10, <2>12
    <3>2. CASE j = 1
      <4>1. t[j] = a /\ s[k - 1] \in q
        BY <2>8, <3>1, <3>2
      <4> QED BY <2>9, <3>1, <4>1
    <3>3. CASE j # 1
      <4>1. j - 1 \in 1..n - 1 /\ t[j] = s[j - 1] /\ j - 1 < k - 1
        BY <2>10, <2>12, <3>3
      <4> QED BY <2>8, <3>1, <4>1
    <3> QED BY <3>2, <3>3
  <2>13. IsInOrder(t, r)
    <3> HIDE DEF t
    <3> QED BY <2>11, <2>12 DEF IsInOrder, n
  <2> QED BY <2>13
<1>2. S \notin Bad
  BY <1>1
<1> QED BY <1>2

LEMMA EquipCardinality == ASSUME NEW S PROVE Equip!Cardinality(S) = Cardinality(S)
BY Zenon DEF Cardinality, Equip!Cardinality

(* In order there is everything, once.                                      *)
LEMMA OrderHasAll ==
  ASSUME NEW S, IsFiniteSet(S), Distinct(S)
  PROVE LET s == Equip!InOrder(S) IN
          /\ s \in Seq(S) /\ Len(s) = Cardinality(S)
          /\ \A j, k \in 1..Len(s) : j < k => s[j].id < s[k].id
          /\ \A x \in S : \E k \in 1..Len(s) : s[k] = x
<1> DEFINE s == Equip!InOrder(S)
           n == Cardinality(S)
<1>1. n \in Nat
  BY FS_CardinalityType
<1>2. s = CHOOSE t \in [1..n -> S] : \A j, k \in 1..n : j < k => t[j].id < t[k].id
  <2> HIDE DEF n
  <2>1. Equip!Cardinality(S) = n
    BY EquipCardinality DEF n
  <2> QED BY <2>1, Zenon DEF Equip!InOrder
<1>3. \E t \in [1..n -> S] : \A j, k \in 1..n : j < k => t[j].id < t[k].id
  BY OrderExists DEF IsInOrder
<1> HIDE DEF s, n
<1>4. s \in [1..n -> S] /\ \A j, k \in 1..n : j < k => s[j].id < s[k].id
  BY <1>2, <1>3
<1>5. s \in Injection(1..n, S)
  <2>1. ASSUME NEW j \in 1..n, NEW k \in 1..n, s[j] = s[k], j # k PROVE FALSE
    <3>1. j < k \/ k < j
      BY <1>1, <2>1
    <3>2. s[j].id \in Int
      BY <1>4 DEF Distinct
    <3> QED BY <1>4, <2>1, <3>1, <3>2
  <2> QED BY <1>4, <2>1 DEF Injection, IsInjective
<1>6. IsFiniteSet(1..n) /\ Cardinality(1..n) = n
  BY <1>1, FS_Interval
<1>7. s \in Surjection(1..n, S)
  BY <1>5, <1>6, FS_Injection DEF n
<1>8. s \in Seq(S) /\ Len(s) = n
  BY <1>1, <1>4
<1> QED BY <1>4, <1>7, <1>8 DEF Surjection, s, n

(* What the pages come to, one after the other.                             *)
LEMMA FlattenIs ==
  ASSUME NEW X, NEW p \in Seq(X), Len(p) > 0, NEW g, g = [k \in 1..Len(p) |-> g[k]],
         g[1] = p[1], \A k \in 2..Len(p) : g[k] = g[k - 1] \o p[k]
  PROVE Equip!Joined(p) = g[Len(p)]
<1> DEFINE n == Len(p)
           Step(f, k) == IF k = 1 THEN p[k] ELSE f[k - 1] \o p[k]
           c == CHOOSE f : f = [k \in 1..n |-> Step(f, k)]
<1>1. n \in Nat /\ n > 0
  OBVIOUS
<1>2. Equip!Joined(p) = c[n]
  BY <1>1 DEF Equip!Joined
<1>3. \A k \in 1..n : g[k] = Step(g, k)
  <2> SUFFICES ASSUME NEW k \in 1..n PROVE g[k] = Step(g, k)
    OBVIOUS
  <2>1. k = 1 \/ k \in 2..n
    OBVIOUS
  <2> QED BY <2>1
<1> HIDE DEF n
<1>4. g = [k \in 1..n |-> Step(g, k)]
  <2> HIDE DEF Step
  <2> QED BY <1>3, Zenon DEF n
<1>5. c = [k \in 1..n |-> Step(c, k)]
  <2> HIDE DEF Step
  <2> QED BY <1>4, Zenon
<1> HIDE DEF c
<1> DEFINE T == {k \in Nat : k \in 1..n => c[k] = g[k]}
<1>6. 0 \in T
  OBVIOUS
<1>7. ASSUME NEW k \in Nat, k \in T PROVE k + 1 \in T
  <2> SUFFICES ASSUME k + 1 \in 1..n PROVE c[k + 1] = g[k + 1]
    OBVIOUS
  <2>1. c[k + 1] = Step(c, k + 1) /\ g[k + 1] = Step(g, k + 1)
    BY <1>3, <1>5
  <2>2. CASE k = 0
    BY <2>1, <2>2
  <2>3. CASE k # 0
    <3>1. k \in 1..n /\ (k + 1) - 1 = k /\ k + 1 # 1
      BY <1>1, <2>3
    <3>2. c[k] = g[k]
      BY <1>7, <3>1
    <3> QED BY <2>1, <3>1, <3>2
  <2> QED BY <2>2, <2>3
<1> HIDE DEF T
<1>8. \A k \in Nat : k \in T
  BY <1>6, <1>7, EveryNumber
<1>9. c[n] = g[n]
  <2>1. n \in T /\ n \in 1..n
    BY <1>1, <1>8
  <2> QED BY <2>1 DEF T
<1> QED BY <1>2, <1>9 DEF n

(* Pages of a sequence, as long as they are asked for, come to the sequence.*)
PagesOf(q, size, m) ==
  [k \in 1..m |-> SubSeq(q, (k - 1) * size + 1, IF (k - 1) * size + size > Len(q) THEN Len(q) ELSE (k - 1) * size + size)]

LEMMA PagesAreAll ==
  ASSUME NEW X, NEW q \in Seq(X), NEW size \in Nat, size > 0, NEW m \in Nat, m > 0, Len(q) <= m
  PROVE Equip!Joined(PagesOf(q, size, m)) = q
<1> DEFINE pages == PagesOf(q, size, m)
           n == Len(q)
           upto(k) == IF k * size > n THEN n ELSE k * size
           g == [k \in 1..m |-> SubSeq(q, 1, upto(k))]
<1>1. n \in Nat /\ n <= m
  OBVIOUS
<1>2. \A k \in 1..m : (k - 1) * size \in Nat /\ k * size \in Nat /\ (k - 1) * size + size = k * size
  OBVIOUS
<1>3. pages = [k \in 1..m |-> pages[k]] /\ \A k \in 1..m : pages[k] = SubSeq(q, (k - 1) * size + 1, upto(k))
  BY <1>2 DEF PagesOf
<1> HIDE DEF pages
<1>4. pages \in Seq(Seq(X)) /\ Len(pages) = m
  <2>1. \A k \in 1..m : pages[k] \in Seq(X)
    <3> SUFFICES ASSUME NEW k \in 1..m PROVE pages[k] \in Seq(X)
      OBVIOUS
    <3> DEFINE a == (k - 1) * size + 1
    <3>1. a \in Int /\ upto(k) \in Int /\ a >= 1 /\ upto(k) <= n
      BY <1>1, <1>2
    <3>2. pages[k] = SubSeq(q, a, upto(k))
      BY <1>3
    <3> HIDE DEF a, upto, n
    <3>3. \A i \in a..upto(k) : q[i] \in X
      BY <1>1, <3>1 DEF n
    <3> QED BY <3>1, <3>2, <3>3, SubSeqProperties
  <2>2. pages = [k \in 1..m |-> pages[k]]
    BY <1>3
  <2>3. pages \in [1..m -> Seq(X)]
    BY <2>1, <2>2
  <2> QED BY <2>3
<1>5. g[1] = pages[1]
  <2>1. 1 \in 1..m /\ (1 - 1) * size + 1 = 1
    OBVIOUS
  <2> QED BY <1>3, <2>1
<1>6. ASSUME NEW k \in 2..m PROVE g[k] = g[k - 1] \o pages[k]
  <2> DEFINE a == (k - 1) * size
             b == k * size
  <2>1. k \in 1..m /\ k - 1 \in 1..m
    OBVIOUS
  <2>2. a \in Nat /\ b \in Nat /\ a + size = b
    BY <1>2, <2>1
  <2>3. /\ g[k] = SubSeq(q, 1, IF b > n THEN n ELSE b)
        /\ g[k - 1] = SubSeq(q, 1, IF a > n THEN n ELSE a)
        /\ pages[k] = SubSeq(q, a + 1, IF b > n THEN n ELSE b)
    BY <1>3, <2>1
  <2> HIDE DEF a, b, g, n
  <2>4. CASE a < n
    <3> DEFINE z == IF b > n THEN n ELSE b
    <3>1. 1 \in 1..Len(q) + 1 /\ a \in 0..Len(q) /\ z \in a..Len(q) /\ 1 - 1 = 0
      BY <1>1, <2>2, <2>4 DEF n
    <3>2. g[k] = SubSeq(q, 1, z) /\ g[k - 1] = SubSeq(q, 1, a) /\ pages[k] = SubSeq(q, a + 1, z)
      <4>1. (IF a > n THEN n ELSE a) = a
        BY <1>1, <2>2, <2>4
      <4> QED BY <2>3, <4>1
    <3> HIDE DEF z
    <3> QED BY <3>1, <3>2, ConcatAdjacentSubSeq
  <2>5. CASE ~(a < n)
    <3>1. pages[k] = << >> /\ g[k] = SubSeq(q, 1, n) /\ g[k - 1] = SubSeq(q, 1, n)
      <4>1. (IF b > n THEN n ELSE b) = n /\ (IF a > n THEN n ELSE a) = n /\ a + 1 \in Int /\ n \in Int /\ n < a + 1
        BY <1>1, <2>2, <2>5
      <4>2. SubSeq(q, a + 1, n) = << >>
        BY <4>1, SubSeqEmpty
      <4> QED BY <2>3, <4>1, <4>2
    <3>2. SubSeq(q, 1, n) = q
      BY SubSeqFull DEF n
    <3>3. q \o << >> = q
      BY ConcatEmptySeq
    <3> QED BY <3>1, <3>2, <3>3
  <2> QED BY <2>4, <2>5
<1>7. g[m] = q
  <2>1. m * size >= m /\ m * size \in Nat
    OBVIOUS
  <2>2. upto(m) = n
    BY <1>1, <2>1
  <2>3. SubSeq(q, 1, n) = q
    BY SubSeqFull
  <2>4. m \in 1..m
    OBVIOUS
  <2> QED BY <2>2, <2>3, <2>4, Zenon
<1>8. g = [k \in 1..m |-> g[k]]
  OBVIOUS
<1>9. g = [k \in 1..Len(pages) |-> g[k]] /\ Len(pages) > 0
  BY <1>4, <1>8
<1>10. \A k \in 2..Len(pages) : g[k] = g[k - 1] \o pages[k]
  BY <1>4, <1>6
<1> HIDE DEF g
<1>11. Equip!Joined(pages) = g[Len(pages)]
  BY ONLY <1>4, <1>5, <1>9, <1>10, FlattenIs
<1>12. Equip!Joined(pages) = q
  BY <1>4, <1>7, <1>11
<1> QED BY <1>12 DEF pages

Entries == [id : Int, revision : Int, make : STRING]

(* Going on by the limit one was answered, one sees every match of a        *)
(* document that was taken, once and in the order of the ids.               *)
LEMMA PagesCover ==
  ASSUME NEW entries \in Seq(Entries), NEW make, NEW limit \in Int, NEW most \in Nat, most > 0 PROVE Equip!PagesCover(entries, make, limit, most)
<1> DEFINE found == Equip!Found(entries, make)
           matches == Equip!Matches(entries, make)
           size == Equip!Clamped(limit, most)
           m == Len(entries) + 1
           pages == [k \in 1..Len(entries) + 1 |-> Equip!Page(matches, (k - 1) * size, limit, most).items]
<1>1. size \in Nat /\ size > 0
  BY DEF Equip!Clamped
<1>2. Len(entries) \in Nat /\ m \in Nat /\ m > 0
  OBVIOUS
<1>3. /\ Equip!Page(matches, 0, limit, most).limit = size
      /\ \A o : Equip!Page(matches, o, limit, most).items = SubSeq(matches, o + 1, IF o + size > Len(matches) THEN Len(matches) ELSE o + size)
  BY DEF Equip!Page
<1>4. SUFFICES ASSUME Equip!ValidDocument(entries, Revision)
      PROVE LET seen == Equip!Joined(pages) IN
              /\ \A e \in found : \E n \in DOMAIN seen : seen[n] = e
              /\ \A n \in DOMAIN seen : seen[n] \in found
              /\ \A n \in 1..Len(seen) - 1 : seen[n].id < seen[n + 1].id
  BY <1>3, Zenon DEF Equip!PagesCover
<1>5. Distinct(Equip!Served(entries))
  <2> DEFINE ids == [k \in 1..Len(entries) |-> entries[k].id]
  <2>1. \A k \in 1..Len(entries) : entries[k].id \in Int
    <3>1. \A k \in 1..Len(entries) : entries[k] \in Entries
      OBVIOUS
    <3> QED BY <3>1 DEF Entries
  <2>2. ids \in [1..Len(entries) -> Int] /\ \A k \in 1..Len(entries) - 1 : ids[k] < ids[k + 1]
    BY <1>2, <1>4, <2>1 DEF Equip!ValidDocument
  <2>3. \A j \in 1..Len(entries), k \in 1..Len(entries) : j < k => ids[j] < ids[k]
    <3> HIDE DEF ids
    <3> QED BY <1>2, <2>2, AllInOrder
  <2> SUFFICES ASSUME NEW j \in 1..Len(entries), NEW k \in 1..Len(entries) PROVE entries[j].id = entries[k].id => entries[j] = entries[k]
    BY <2>1 DEF Distinct, Equip!Served
  <2>4. j < k \/ k < j \/ j = k
    OBVIOUS
  <2> QED BY <2>1, <2>3, <2>4
<1>6. IsFiniteSet(found) /\ Cardinality(found) <= Len(entries) /\ Cardinality(found) \in Nat
  <2> DEFINE S == Equip!Served(entries)
  <2>1. entries \in Surjection(1..Len(entries), S)
    BY DEF Equip!Served, Surjection
  <2>2. found \subseteq S
    BY DEF Equip!Found
  <2>3. IsFiniteSet(1..Len(entries)) /\ Cardinality(1..Len(entries)) = Len(entries)
    <3> DEFINE l == Len(entries)
    <3>1. l \in Nat
      BY <1>2
    <3> HIDE DEF l
    <3>2. IsFiniteSet(1..l) /\ Cardinality(1..l) = l
      BY <3>1, FS_Interval
    <3> QED BY <3>2 DEF l
  <2> HIDE DEF S, found
  <2>4. IsFiniteSet(S) /\ Cardinality(S) <= Len(entries)
    BY <2>1, <2>3, FS_Surjection
  <2>5. IsFiniteSet(found) /\ Cardinality(found) <= Cardinality(S) /\ Cardinality(found) \in Nat /\ Cardinality(S) \in Nat
    BY <2>2, <2>4, FS_Subset, FS_CardinalityType
  <2> QED BY <1>2, <2>4, <2>5
<1>7. Distinct(found) /\ matches = Equip!InOrder(found)
  BY <1>5 DEF Distinct, Equip!Found, Equip!Matches
<1> HIDE DEF found
<1>8. /\ matches \in Seq(found) /\ Len(matches) = Cardinality(found)
      /\ \A j, k \in 1..Len(matches) : j < k => matches[j].id < matches[k].id
      /\ \A x \in found : \E k \in 1..Len(matches) : matches[k] = x
  BY <1>6, <1>7, OrderHasAll
<1> HIDE DEF matches, size
<1>9. pages = PagesOf(matches, size, m)
  BY <1>3 DEF PagesOf
<1>10. Len(matches) <= m
  BY <1>2, <1>6, <1>8
<1> HIDE DEF pages, m
<1>11. Equip!Joined(pages) = matches
  <2>1. m \in Nat /\ m > 0
    BY <1>2 DEF m
  <2>2. matches \in Seq(found)
    BY <1>8
  <2> QED BY ONLY <1>1, <1>9, <1>10, <2>1, <2>2, PagesAreAll
<1>12. DOMAIN matches = 1..Len(matches) /\ \A n \in 1..Len(matches) - 1 : n \in 1..Len(matches) /\ n + 1 \in 1..Len(matches) /\ n < n + 1
  BY <1>8
<1>13. \A n \in DOMAIN matches : matches[n] \in found
  BY <1>8
<1> QED BY <1>8, <1>11, <1>12, <1>13

(* What an edit may ask for the repository takes, if it is named; and a     *)
(* template that is taken over is a copy.                                   *)
LEMMA RecordsAreAccepted == ASSUME NEW string, string.count \in Int, string.power \in Int PROVE Equip!RecordsAreAccepted(string)
<1> SUFFICES ASSUME Equip!ValidInput(string), Equip!Builds(string) PROVE Equip!ValidRecord(Equip!Build(string)) <=> string.identity # Equip!Blank
  BY DEF Equip!RecordsAreAccepted
<1>1. string.count > 0 /\ string.power > 0
  BY DEF Equip!ValidInput
<1>2. string.count * string.power > 0
  BY <1>1
<1>3. Equip!ValidProvenance(Equip!Provenance(string.snapshot), string.snapshot.entry)
  BY DEF Equip!ValidProvenance, Equip!Provenance
<1> DEFINE r == Equip!Build(string)
<1>4. /\ r.count = string.count /\ r.module = string.power /\ r.rated = string.count * string.power
      /\ r.identity = string.identity /\ r.entry = string.snapshot.entry /\ r.provenance = Equip!Provenance(string.snapshot)
  BY DEF Equip!Build
<1> HIDE DEF r
<1>5. Equip!ValidRecord(r) <=> string.identity # Equip!Blank
  BY <1>1, <1>2, <1>3, <1>4 DEF Equip!ValidRecord
<1> QED BY <1>5 DEF r

LEMMA PrefilledIsACopy == Equip!PrefilledIsACopy
<1> SUFFICES ASSUME NEW e \in DOMAIN Catalog PROVE Equip!Confirms(Equip!Prefilled(e)) /\ Equip!Provenance(Equip!Prefilled(e)) = "copied"
  BY DEF Equip!PrefilledIsACopy
<1> DEFINE p == Equip!Prefilled(e)
<1>1. e # Equip!NoEntry /\ Catalog[e] \in [make : STRING \ {Equip!Blank}, power : Int]
  BY EquipmentConstants
<1>2. p.entry = e /\ p.revision = Revision /\ p.make = Catalog[e].make /\ p.power = Catalog[e].power
  BY DEF Equip!Prefilled
<1>3. Catalog[e] = [make |-> p.make, power |-> p.power] /\ p.make # Equip!Blank
  BY <1>1, <1>2
<1> HIDE DEF p
<1>4. Equip!Confirms(p) /\ Equip!Provenance(p) = "copied"
  BY <1>1, <1>2, <1>3 DEF Equip!Confirms, Equip!Provenance
<1> QED BY <1>4 DEF p

(* The rules about equipment hold for every system, edit and document of the*)
(* kind the program can be given: a snapshot stays true until the boundary  *)
(* it names, its completeness says what can be forecast, an edit that is let*)
(* through is stored, and the pages of the catalog miss nothing.            *)
EquipmentInput ==
  /\ rule = "system" => sample \in Plants
  /\ rule = "input" => sample \in StringInputs
  /\ rule = "document" => sample \in Documents

LEMMA EquipmentHolds == EquipmentInput => EquipmentRulesHold
<1> SUFFICES ASSUME EquipmentInput PROVE EquipmentRulesHold
  OBVIOUS
<1>1. ASSUME rule = "system" PROVE Equip!SnapshotHolds(sample, Dates) /\ Equip!CompletenessIsCapacity(sample, Dates)
  <2>1. PlantTyped(sample) /\ NoEnd \in Int /\ \A d \in Dates : d \in Int /\ d < NoEnd
    BY <1>1, EquipmentConstants DEF EquipmentInput
  <2>2. Equip!SnapshotHolds(sample, Dates)
    BY <2>1, SnapshotHolds DEF Equip!SnapshotHolds
  <2>3. \A d : RefusedOn(sample, d) => Equip!EffectiveCapacity(sample, d) = Equip!Refused
    BY CapacityOn
  <2>4. Equip!CompletenessIsCapacity(sample, Dates)
    BY <2>1, <2>3, CompletenessIsCapacity DEF Equip!CompletenessIsCapacity
  <2> QED BY <2>2, <2>4
<1>2. ASSUME rule = "input" PROVE Equip!RecordsAreAccepted(sample) /\ Equip!PrefilledIsACopy
  <2>1. sample.count \in Int /\ sample.power \in Int
    BY <1>2, EquipmentConstants DEF EquipmentInput
  <2> QED BY <2>1, RecordsAreAccepted, PrefilledIsACopy
<1>3. ASSUME rule = "document" PROVE \A limit \in Limits, make \in Makes : Equip!PagesCover(sample, make, limit, PageSize)
  <2>1. sample \in Seq(Entries) /\ Limits \subseteq Int /\ PageSize \in Nat /\ PageSize > 0
    BY <1>3, EquipmentConstants DEF EquipmentInput, Entries
  <2> QED BY <2>1, PagesCover
<1> QED BY <1>1, <1>2, <1>3 DEF EquipmentRulesHold

THEOREM EquipmentRulesInvariant == RulesSpec => []EquipmentRulesHold
<1>1. RulesInit => EquipmentInput
  BY DEF RulesInit, EquipmentInput
<1>2. EquipmentInput /\ [RulesNext]_<<rule, sample>> => EquipmentInput'
  BY DEF EquipmentInput, RulesNext
<1> QED BY <1>1, <1>2, EquipmentHolds, PTL DEF RulesSpec

-----------------------------------------------------------------------------
(* Readings.                                                                *)

(* What is given in base units is given exactly in thousandths.             *)
LEMMA ExactlyMultiplied == ASSUME NEW v \in Int, NEW m \in Nat, m > 0 PROVE (v * m) % m = 0 /\ (v * m) \div m = v
<1>1. v * m \in Int
  OBVIOUS
<1>2. \A a \in Int, q \in Int : a = q * m => a \div m = q /\ a % m = 0
  OBVIOUS
<1> QED BY <1>1, <1>2

(* An amount in base units and the same in thousandths.                     *)
Fine(amount) == IF amount.unit = "base" THEN [amount EXCEPT !.unit = "milli", !.value = @ * Milli] ELSE amount

LEMMA FineIsTheSame ==
  ASSUME NEW a \in WholeAmount
  PROVE /\ Reads!ExactlyDivided(Fine(a)) <=> Reads!ExactlyDivided(a)
        /\ Reads!ExactlyDivided(a) => Reads!InBase(Fine(a)) = Reads!InBase(a) /\ Reads!Energy(Fine(a)) = Reads!Energy(a)
<1> DEFINE b == Fine(a)
<1>1. CASE a.unit # "base"
  BY <1>1 DEF Fine
<1>2. CASE a.unit = "base"
  <2>1. a.value \in Int /\ Milli \in Nat /\ Milli > 0
    BY ReadingConstants DEF WholeAmount
  <2>2. (a.value * Milli) % Milli = 0 /\ (a.value * Milli) \div Milli = a.value
    BY <2>1, ExactlyMultiplied
  <2>3. b.unit = "milli" /\ b.value = a.value * Milli /\ b.counter = a.counter /\ b.reset = a.reset
    BY <1>2 DEF Fine, WholeAmount
  <2> HIDE DEF b
  <2>4. Reads!ExactlyDivided(b) /\ Reads!ExactlyDivided(a)
    BY <1>2, <2>2, <2>3 DEF Reads!ExactlyDivided
  <2>5. Reads!InBase(b) = a.value /\ Reads!InBase(a) = a.value
    BY <1>2, <2>2, <2>3 DEF Reads!InBase
  <2>6. Reads!Energy(b) = Reads!Energy(a)
    BY <1>2, <2>3, <2>5 DEF Reads!Energy
  <2> QED BY <2>4, <2>5, <2>6 DEF b
<1> QED BY <1>1, <1>2

Inputs ==
  [key : STRING, at : Int, channels : SUBSET STRING, power : WholeAmount, energy : WholeAmount, stored : WholeAmount, flow : WholeAmount,
   charge : MaybeGiven(Int)]

(* A reading in other units is the same reading.                            *)
LEMMA UnitsAreExact == ASSUME NEW input \in Inputs PROVE Reads!UnitsAreExact(input)
<1> DEFINE finer == [input EXCEPT !.power = Fine(@), !.energy = Fine(@), !.stored = Fine(@), !.flow = Fine(@)]
<1>1. /\ finer.key = input.key /\ finer.at = input.at /\ finer.channels = input.channels /\ finer.charge = input.charge
      /\ finer.power = Fine(input.power) /\ finer.energy = Fine(input.energy) /\ finer.stored = Fine(input.stored) /\ finer.flow = Fine(input.flow)
      /\ {input.power, input.energy, input.stored, input.flow} \subseteq WholeAmount
  BY DEF Inputs
<1> DEFINE A == {input.power, input.energy, input.stored, input.flow}
           B == {finer.power, finer.energy, finer.stored, finer.flow}
<1> HIDE DEF finer
<1>2. (\E a \in A : ~Reads!ExactlyDivided(a)) <=> (\E b \in B : ~Reads!ExactlyDivided(b))
  BY <1>1, FineIsTheSame
<1>3. (\A a \in A : Reads!ExactlyDivided(a)) =>
        /\ Reads!InBase(finer.power) = Reads!InBase(input.power) /\ Reads!Energy(finer.energy) = Reads!Energy(input.energy)
        /\ Reads!InBase(finer.stored) = Reads!InBase(input.stored) /\ Reads!InBase(finer.flow) = Reads!InBase(input.flow)
  BY <1>1, FineIsTheSame
<1>4. Reads!Normalized(finer) = Reads!Normalized(input)
  <2> DEFINE Bad(i) == i.key = "blank" \/ ~(i.channels \subseteq Channels) \/ (i.charge # NotGiven /\ i.charge \notin -Full..Full)
  <2>1. Bad(finer) <=> Bad(input)
    BY <1>1
  <2> HIDE DEF Bad
  <2>2. \A i : Reads!Normalized(i) =
          IF Bad(i) \/ \E amount \in {i.power, i.energy, i.stored, i.flow} : ~Reads!ExactlyDivided(amount) THEN Reads!Refused
          ELSE [at |-> i.at, power |-> Reads!InBase(i.power), energy |-> Reads!Energy(i.energy),
                battery |-> Reads!Battery(i), grid |-> Reads!NoGrid, derived |-> FALSE]
    BY DEF Reads!Normalized, Bad
  <2>3. (\A a \in A : Reads!ExactlyDivided(a)) => Reads!Battery(finer) = Reads!Battery(input)
    BY <1>1, <1>3 DEF Reads!Battery
  <2>4. CASE Bad(input) \/ \E a \in A : ~Reads!ExactlyDivided(a)
    <3>1. Bad(finer) \/ \E b \in B : ~Reads!ExactlyDivided(b)
      BY <1>2, <2>1, <2>4
    <3>2. Reads!Normalized(input) = Reads!Refused /\ Reads!Normalized(finer) = Reads!Refused
      BY <2>2, <2>4, <3>1
    <3> QED BY <3>2
  <2>5. CASE ~(Bad(input) \/ \E a \in A : ~Reads!ExactlyDivided(a))
    <3>1. ~(Bad(finer) \/ \E b \in B : ~Reads!ExactlyDivided(b))
      BY <1>2, <2>1, <2>5
    <3>2. Reads!Normalized(input) = [at |-> input.at, power |-> Reads!InBase(input.power), energy |-> Reads!Energy(input.energy),
                                     battery |-> Reads!Battery(input), grid |-> Reads!NoGrid, derived |-> FALSE]
      BY <2>2, <2>5
    <3>3. Reads!Normalized(finer) = [at |-> finer.at, power |-> Reads!InBase(finer.power), energy |-> Reads!Energy(finer.energy),
                                     battery |-> Reads!Battery(finer), grid |-> Reads!NoGrid, derived |-> FALSE]
      BY <2>2, <3>1
    <3> QED BY <1>1, <1>3, <2>3, <2>5, <3>2, <3>3
  <2> QED BY <2>4, <2>5
<1> QED BY <1>4 DEF Reads!UnitsAreExact, Fine, finer

LEMMA GreatestExists == ASSUME NEW S, S \subseteq Int, IsFiniteSet(S), S # {} PROVE \E x \in S : \A y \in S : y <= x
<1> DEFINE f == [x \in S |-> -x]
           T == {f[x] : x \in S}
<1>0. \A x \in S : f[x] = -x /\ -x \in Int
  OBVIOUS
<1>1. T \subseteq Int /\ T # {}
  <2> HIDE DEF f
  <2> QED BY <1>0
<1>2. IsFiniteSet(T)
  <2> HIDE DEF f
  <2> QED BY FiniteImage
<1> HIDE DEF T
<1>3. PICK z \in T : \A y \in T : z <= y
  BY ONLY <1>1, <1>2, LeastExists
<1>4. PICK x \in S : z = -x
  BY DEF T
<1>5. ASSUME NEW y \in S PROVE y <= x
  <2>1. -y \in T
    BY DEF T
  <2>2. -x <= -y /\ x \in Int /\ y \in Int
    BY <1>3, <1>4, <2>1
  <2> QED BY <2>2
<1> QED BY <1>5

(* The gaps that are told hold no reading, do not overlap, and are all there*)
(* are.                                                                     *)
Readings == [at : Int, source : Int, energy : EnergyReading]

LEMMA GapsAreMissing ==
  ASSUME NEW samples \in Seq(Readings), NEW from \in Int, NEW to \in Int, NEW expected \in Nat, expected > 0, NEW tolerance \in Nat
  PROVE Reads!GapsAreMissing(samples, from, to, expected, tolerance)
<1> DEFINE seen == Reads!Times(samples)
           times == seen \cup {from - expected}
           after(t) == IF \E u \in times : u > t THEN Reads!Min({u \in times : u > t}) ELSE to + expected
           late(t) == after(t) - (t + expected) > tolerance
           start(t) == IF t + expected > from THEN t + expected ELSE from
           end(t) == IF after(t) < to THEN after(t) ELSE to
           gap(t) == [from |-> start(t), to |-> end(t)]
           missing == {gap(t) : t \in {u \in times : late(u)}}
<1>1. Reads!MissingIntervals(samples, from, to, expected, tolerance) = missing
  BY DEF Reads!MissingIntervals
<1>2. SUFFICES ASSUME Reads!ValidSamples(samples, from, to)
      PROVE LET gaps == {g \in missing : g.from < g.to} IN
              /\ \A g \in gaps : g.from >= from /\ g.to <= to /\ \A t \in seen : t < g.from \/ t >= g.to
              /\ \A g, h \in gaps : g # h => g.to <= h.from \/ h.to <= g.from
              /\ \A t \in from..to - 1 :
                   (\A u \in seen : u > t \/ t - u > expected + tolerance) /\ t - from > tolerance + expected
                     => \E g \in gaps : g.from <= t /\ t < g.to
  BY <1>1 DEF Reads!GapsAreMissing
<1>3. IsFiniteSet(seen) /\ seen \subseteq Int /\ \A u \in seen : from <= u /\ u < to
  <2> DEFINE D == 1..Len(samples)
             f == [n \in D |-> samples[n].at]
  <2>1. IsFiniteSet(D)
    <3> DEFINE l == Len(samples)
    <3>1. l \in Nat
      OBVIOUS
    <3> HIDE DEF l
    <3> QED BY <3>1, FS_Interval
  <2>2. \A n \in D : samples[n] \in Readings
    OBVIOUS
  <2>3. {f[n] : n \in D} = seen
    BY DEF Reads!Times
  <2>4. \A n \in D : samples[n].at \in Int /\ from <= samples[n].at /\ samples[n].at < to
    BY <1>2, <2>2 DEF Reads!ValidSamples, Readings
  <2>5. seen \subseteq Int /\ \A u \in seen : from <= u /\ u < to
    BY <2>4 DEF Reads!Times
  <2> HIDE DEF f, D
  <2>6. IsFiniteSet({f[n] : n \in D})
    BY <2>1, FiniteImage
  <2> QED BY <2>3, <2>5, <2>6
<1> HIDE DEF seen
<1>4. IsFiniteSet(times) /\ times \subseteq Int
  BY <1>3, FS_AddElement
<1>5. ASSUME NEW t \in times
      PROVE after(t) \in Int /\ after(t) > t /\ \A u \in times : u > t => after(t) <= u
  <2>1. t \in Int /\ to \in Int /\ t <= to
    BY <1>2, <1>3, <1>4 DEF Reads!ValidSamples
  <2>2. CASE \E u \in times : u > t
    <3> DEFINE L == {u \in times : u > t}
    <3>1. L \subseteq Int /\ L # {} /\ IsFiniteSet(L)
      BY <1>4, <2>2, FS_Subset
    <3>2. after(t) = Reads!Min(L)
      BY <2>2
    <3>3. PICK x \in L : \A y \in L : x <= y
      <4> HIDE DEF L
      <4> QED BY ONLY <3>1, LeastExists
    <3>4. Reads!Min(L) \in L /\ \A y \in L : Reads!Min(L) <= y
      <4> HIDE DEF L
      <4> QED BY <3>3 DEF Reads!Min
    <3> QED BY <1>4, <3>2, <3>4
  <2>3. CASE ~\E u \in times : u > t
    BY <2>1, <2>3
  <2> QED BY <2>2, <2>3
<1> HIDE DEF times, after
<1> SUFFICES
      /\ \A t \in times : late(t) /\ start(t) < end(t) => start(t) >= from /\ end(t) <= to /\ \A u \in seen : u < start(t) \/ u >= end(t)
      /\ \A t, s \in times : late(t) /\ late(s) /\ t # s => end(t) <= start(s) \/ end(s) <= start(t)
      /\ \A t \in from..to - 1 :
           (\A u \in seen : u > t \/ t - u > expected + tolerance) /\ t - from > tolerance + expected
             => \E s \in times : late(s) /\ start(s) < end(s) /\ start(s) <= t /\ t < end(s)
  <2> DEFINE gaps == {g \in missing : g.from < g.to}
  <2> HIDE DEF late, start, end
  <2>1. \A g \in gaps : \E t \in times : late(t) /\ g = gap(t) /\ g.from = start(t) /\ g.to = end(t) /\ start(t) < end(t)
    OBVIOUS
  <2>2. \A t \in times : late(t) /\ start(t) < end(t) => gap(t) \in gaps /\ gap(t).from = start(t) /\ gap(t).to = end(t)
    OBVIOUS
  <2> HIDE DEF gaps, missing, gap
  <2>3. ASSUME NEW g \in gaps, NEW h \in gaps, g # h,
               \A t, s \in times : late(t) /\ late(s) /\ t # s => end(t) <= start(s) \/ end(s) <= start(t)
        PROVE g.to <= h.from \/ h.to <= g.from
    <3>1. PICK t \in times : late(t) /\ g = gap(t) /\ g.from = start(t) /\ g.to = end(t)
      BY <2>1
    <3>2. PICK s \in times : late(s) /\ h = gap(s) /\ h.from = start(s) /\ h.to = end(s)
      BY <2>1
    <3> QED BY <2>3, <3>1, <3>2
  <2> QED BY <2>1, <2>2, <2>3 DEF gaps
<1>6. \A t \in times : t \in Int /\ after(t) \in Int /\ start(t) \in Int /\ end(t) \in Int
  BY <1>4, <1>5
<1>7. ASSUME NEW t \in times PROVE start(t) >= from /\ end(t) <= to /\ \A u \in times : u < start(t) \/ u >= end(t)
  BY <1>5, <1>6
<1>8. ASSUME NEW t \in times, NEW s \in times, t < s PROVE end(t) <= start(s)
  <2>1. after(t) <= s
    BY <1>5, <1>8
  <2> QED BY <1>6, <2>1
<1>9. seen \subseteq times
  BY DEF times
<1>10. ASSUME NEW t \in from..to - 1, \A u \in seen : u > t \/ t - u > expected + tolerance, t - from > tolerance + expected
       PROVE \E s \in times : late(s) /\ start(s) < end(s) /\ start(s) <= t /\ t < end(s)
  <2> DEFINE P == {u \in times : u <= t}
  <2>1. P \subseteq Int /\ IsFiniteSet(P)
    BY <1>4, FS_Subset
  <2>2. from - expected \in P
    BY DEF times
  <2>3. PICK s \in P : \A u \in P : u <= s
    <3>1. P # {}
      BY <2>2
    <3> HIDE DEF P
    <3> QED BY ONLY <2>1, <3>1, GreatestExists
  <2>4. s \in times /\ s <= t /\ s \in Int /\ t \in Int
    BY <1>6
  <2>5. t - s > expected + tolerance
    <3>1. s \in seen \/ s = from - expected
      BY DEF times
    <3>2. CASE s \in seen
      BY <1>10, <2>4, <3>2
    <3>3. CASE s = from - expected
      BY <1>10, <3>3
    <3> QED BY <3>1, <3>2, <3>3
  <2>6. after(s) > t
    <3>1. CASE \E u \in times : u > s
      <4> DEFINE L == {u \in times : u > s}
      <4>1. L \subseteq Int /\ L # {} /\ IsFiniteSet(L)
        BY <1>4, <3>1, FS_Subset
      <4>2. PICK x \in L : \A y \in L : x <= y
        <5> HIDE DEF L
        <5> QED BY ONLY <4>1, LeastExists
      <4>3. Reads!Min(L) \in L
        <5> HIDE DEF L
        <5> QED BY <4>2 DEF Reads!Min
      <4>4. after(s) = Reads!Min(L)
        BY <3>1 DEF after
      <4>5. \A u \in L : u > t
        <5> SUFFICES ASSUME NEW u \in L, ~(u > t) PROVE FALSE
          OBVIOUS
        <5>1. u \in Int /\ u > s /\ u \in P
          BY <1>6
        <5> QED BY <2>3, <2>4, <5>1
      <4> QED BY <4>3, <4>4, <4>5
    <3>2. CASE ~\E u \in times : u > s
      BY <3>2 DEF after
    <3> QED BY <3>1, <3>2
  <2>7. late(s) /\ start(s) < end(s) /\ start(s) <= t /\ t < end(s)
    BY <1>6, <2>4, <2>5, <2>6
  <2> QED BY <2>4, <2>7
<1>11. \A t, s \in times : t # s => end(t) <= start(s) \/ end(s) <= start(t)
  <2> SUFFICES ASSUME NEW t \in times, NEW s \in times, t # s PROVE end(t) <= start(s) \/ end(s) <= start(t)
    OBVIOUS
  <2>1. t < s \/ s < t
    BY <1>6
  <2> HIDE DEF start, end
  <2> QED BY <1>8, <2>1
<1> HIDE DEF start, end, late
<1> QED BY <1>7, <1>9, <1>10, <1>11

(* What is accepted, one reading after the other.                           *)
Obs ==
  [at : Int, power : MaybeGiven(Int), energy : EnergyReading, battery : [energy : MaybeGiven(Int), power : MaybeGiven(Int), charge : MaybeGiven(Int)],
   grid : [kind : STRING, import : Int, export : Int], derived : BOOLEAN]

(* The reading that is validated against p and is accepted as v.            *)
Follows(v, o, p, policy) == o \in RawReading /\ v = Reads!Validated(o, p, policy) /\ v # Reads!Refused

Chained(policy) == {acc \in Seq(Obs) : \A n \in 2..Len(acc) : \E o : Follows(acc[n], o, acc[n - 1], policy)}

Taking(acc, o, policy) ==
  LET v == Reads!Validated(o, IF acc = <<>> THEN Reads!Refused ELSE acc[Len(acc)], policy) IN IF v = Reads!Refused THEN acc ELSE Append(acc, v)

LEMMA RawIsObserved == \A o \in RawReading : o \in Obs
BY DEF RawReading, Obs

LEMMA RefusedIsNone == \A o \in Obs : o # Reads!Refused
<1> SUFFICES ASSUME NEW o \in Obs, o = Reads!Refused PROVE FALSE
  OBVIOUS
<1>1. "energy" \in DOMAIN o /\ "energy" \notin DOMAIN Reads!Refused
  BY DEF Obs, Reads!Refused
<1> QED BY <1>1

LEMMA DeltaIsInt ==
  ASSUME NEW a \in EnergyReading, NEW b \in EnergyReading
  PROVE Reads!EnergyDelta(a, b).value \in Int /\ Reads!EnergyDelta(a, b).ok \in BOOLEAN
BY DEF EnergyReading, Reads!EnergyDelta, Reads!Delta, Reads!NoDelta

LEMMA TruncatedIsInt == ASSUME NEW a \in Int, NEW b \in Int, b > 0 PROVE Reads!Truncated(a, b) \in Int
BY DEF Reads!Truncated

(* What a reading is when it is accepted.                                   *)
LEMMA ValidatedIs ==
  ASSUME NEW o \in RawReading, NEW p, p \in Obs \/ p = Reads!Refused, NEW policy, NEW v, Follows(v, o, p, policy)
  PROVE /\ v \in Obs /\ v.at = o.at /\ v.energy = o.energy
        /\ p \in Obs => Reads!ValidCounter(o.energy, p.energy)
        /\ v.derived => p \in Obs /\ o.at > p.at /\ Reads!EnergyDelta(o.energy, p.energy).ok /\ v.power = Reads!DerivedPower(o, p)
<1>1. v = IF Reads!Derives(o, p, policy) THEN [o EXCEPT !.power = Reads!DerivedPower(o, p), !.derived = TRUE] ELSE o
  BY DEF Follows, Reads!Validated
<1>2. /\ Reads!Derives(o, p, policy) => ~(o.at <= p.at) /\ Reads!EnergyDelta(o.energy, p.energy).ok
      /\ p # Reads!Refused => Reads!ValidCounter(o.energy, p.energy)
  BY Zenon DEF Follows, Reads!Validated
<1>3. p \in Obs => p # Reads!Refused
  BY RefusedIsNone
<1>4. o \in Obs /\ o.at \in Int /\ o.energy \in EnergyReading /\ o.derived = FALSE
  BY DEF RawReading, Obs
<1>5. CASE Reads!Derives(o, p, policy)
  <2>1. p \in Obs /\ p.at \in Int /\ p.energy \in EnergyReading
    BY <1>5 DEF Reads!Derives, Obs
  <2>2. o.at > p.at /\ o.at - p.at \in Int /\ o.at - p.at > 0
    BY <1>2, <1>4, <1>5, <2>1
  <2>3. Reads!EnergyDelta(o.energy, p.energy).value * Hour \in Int
    BY <1>4, <2>1, DeltaIsInt, ReadingConstants
  <2> DEFINE w == Reads!DerivedPower(o, p)
  <2>4. w \in Int
    BY <2>2, <2>3, TruncatedIsInt DEF Reads!DerivedPower
  <2> HIDE DEF w
  <2>5. v = [o EXCEPT !.power = w, !.derived = TRUE]
    BY <1>1, <1>5 DEF w
  <2>6. v.at = o.at /\ v.energy = o.energy /\ v.power = w /\ v \in Obs
    BY <1>4, <2>4, <2>5 DEF Obs, MaybeGiven
  <2> QED BY <1>2, <1>3, <1>5, <2>1, <2>2, <2>6 DEF w
<1>6. CASE ~Reads!Derives(o, p, policy)
  BY <1>1, <1>2, <1>3, <1>4, <1>6
<1> QED BY <1>5, <1>6

LEMMA TakingKeeps ==
  ASSUME NEW policy, NEW acc \in Chained(policy), NEW o \in RawReading PROVE Taking(acc, o, policy) \in Chained(policy)
<1> DEFINE p == IF acc = <<>> THEN Reads!Refused ELSE acc[Len(acc)]
           v == Reads!Validated(o, p, policy)
<1>1. acc \in Seq(Obs) /\ \A n \in 2..Len(acc) : \E r : Follows(acc[n], r, acc[n - 1], policy)
  BY DEF Chained
<1>2. p \in Obs \/ p = Reads!Refused
  BY <1>1
<1>3. Taking(acc, o, policy) = IF v = Reads!Refused THEN acc ELSE Append(acc, v)
  BY DEF Taking
<1>4. CASE v = Reads!Refused
  BY <1>3, <1>4
<1>5. CASE v # Reads!Refused
  <2>1. Follows(v, o, p, policy)
    BY <1>5 DEF Follows
  <2>2. v \in Obs
    <3> HIDE DEF p, v
    <3> QED BY <1>2, <2>1, ValidatedIs
  <2> DEFINE c == Append(acc, v)
  <2>3. c \in Seq(Obs) /\ Len(c) = Len(acc) + 1 /\ c[Len(acc) + 1] = v /\ \A n \in 1..Len(acc) : c[n] = acc[n]
    <3> HIDE DEF v
    <3> QED BY <1>1, <2>2
  <2>4. ASSUME NEW n \in 2..Len(c) PROVE \E r : Follows(c[n], r, c[n - 1], policy)
    <3>1. Len(acc) \in Nat
      BY <1>1
    <3>2. CASE n = Len(acc) + 1
      <4>1. acc # <<>> /\ p = acc[Len(acc)] /\ c[n - 1] = acc[Len(acc)] /\ c[n] = v
        BY <1>1, <2>3, <3>1, <3>2
      <4> QED BY <2>1, <4>1
    <3>3. CASE n # Len(acc) + 1
      <4>1. n \in 2..Len(acc) /\ n - 1 \in 1..Len(acc) /\ n \in 1..Len(acc)
        BY <2>3, <3>1, <3>3
      <4>2. c[n] = acc[n] /\ c[n - 1] = acc[n - 1]
        BY <2>3, <4>1
      <4> HIDE DEF c
      <4> QED BY <1>1, <4>1, <4>2
    <3> QED BY <3>2, <3>3
  <2> HIDE DEF c
  <2> QED BY <1>3, <1>5, <2>3, <2>4 DEF Chained, c
<1> QED BY <1>4, <1>5

(* The fold takes the readings in their order.                              *)
LEMMA AcceptedIsChained == ASSUME NEW readings \in Seq(RawReading), NEW policy PROVE Reads!Accepted(readings, policy) \in Chained(policy)
<1> DEFINE S == DOMAIN readings
           V == Chained(policy)
           Next(g, s) == IF s = {} THEN <<>> ELSE Taking(g[s \ {Reads!Max(s)}], readings[Reads!Max(s)], policy)
           c == CHOOSE g : g = [s \in SUBSET S |-> Next(g, s)]
<1>1. Reads!Accepted(readings, policy) = c[S]
  BY DEF Reads!Accepted, Reads!Along, Reads!MapThenFoldSet, Taking
<1>2. S \subseteq Int /\ IsFiniteSet(S) /\ \A x \in S : readings[x] \in RawReading
  <2> DEFINE l == Len(readings)
  <2>1. l \in Nat /\ S = 1..l
    OBVIOUS
  <2>2. \A x \in S : readings[x] \in RawReading
    OBVIOUS
  <2> HIDE DEF l, S
  <2>3. 1..l \subseteq Int /\ IsFiniteSet(1..l)
    BY <2>1, FS_Interval
  <2> QED BY <2>1, <2>2, <2>3
<1>3. <<>> \in V
  BY DEF Chained
<1> HIDE DEF S, V, c
<1>4. \A s \in SUBSET S : s # {} => Reads!Max(s) \in s
  <2> SUFFICES ASSUME NEW s \in SUBSET S, s # {} PROVE Reads!Max(s) \in s
    OBVIOUS
  <2>1. s \subseteq Int /\ IsFiniteSet(s)
    BY <1>2, FS_Subset
  <2>2. \E x \in s : \A y \in s : y <= x
    BY <2>1, GreatestExists
  <2>3. \E x \in s : \A y \in s : x >= y
    BY <2>1, <2>2
  <2> QED BY <2>3 DEF Reads!Max
<1>5. \E g \in [SUBSET S -> V] : \A s \in SUBSET S : g[s] = Next(g, s)
  <2>1. CASE S = {}
    <3> DEFINE g == [s \in SUBSET S |-> <<>>]
    <3>1. g \in [SUBSET S -> V] /\ \A s \in SUBSET S : g[s] = Next(g, s)
      BY <1>3, <2>1
    <3> QED BY <3>1
  <2>2. CASE S # {}
    <3> DEFINE any == CHOOSE x \in S : TRUE
               pick == [s \in SUBSET S |-> IF s = {} THEN any ELSE Reads!Max(s)]
               op == [x \in S |-> [acc \in V |-> Taking(acc, readings[x], policy)]]
    <3>1. pick \in [SUBSET S -> S] /\ \A s \in SUBSET S : s # {} => pick[s] \in s /\ pick[s] = Reads!Max(s)
      BY <1>4, <2>2
    <3>2. \A x \in S, acc \in V : Taking(acc, readings[x], policy) \in V
      BY <1>2, TakingKeeps DEF V
    <3>3. op \in [S -> [V -> V]] /\ \A x \in S, acc \in V : op[x][acc] = Taking(acc, readings[x], policy)
      BY <3>2
    <3> HIDE DEF pick, op
    <3>4. PICK g \in [SUBSET S -> V] : Folding(g, op, <<>>, pick, SUBSET S)
      <4>1. Foldable(S, V, <<>>, op, pick)
        BY <1>2, <1>3, <3>1, <3>3 DEF Foldable
      <4> QED BY <4>1, FoldsExist
    <3>5. ASSUME NEW s \in SUBSET S PROVE g[s] = Next(g, s)
      <4>1. CASE s = {}
        BY <3>4, <4>1 DEF Folding
      <4>2. CASE s # {}
        <5> DEFINE x == Reads!Max(s)
        <5>1. x \in S /\ g[s \ {x}] \in V /\ pick[s] = x
          BY <1>4, <3>1, <4>2
        <5>2. g[s] = op[x][g[s \ {x}]]
          BY <3>4, <4>2, <5>1 DEF Folding
        <5> HIDE DEF x
        <5>3. g[s] = Taking(g[s \ {x}], readings[x], policy)
          BY <3>3, <5>1, <5>2
        <5> QED BY <4>2, <5>3 DEF x
      <4> QED BY <4>1, <4>2
    <3> QED BY <3>5
  <2> QED BY <2>1, <2>2
<1>6. PICK g \in [SUBSET S -> V] : \A s \in SUBSET S : g[s] = Next(g, s)
  BY <1>5
<1>7. c = [s \in SUBSET S |-> Next(c, s)]
  <2> HIDE DEF Next
  <2>1. g = [s \in SUBSET S |-> Next(g, s)]
    BY <1>6
  <2> QED BY <2>1, Zenon DEF c
<1>8. \A s \in SUBSET S : c[s] = Next(c, s)
  <2> HIDE DEF Next
  <2> QED BY <1>7
<1> DEFINE Bad == {s \in SUBSET S : c[s] # g[s]}
<1>9. ASSUME Bad # {} PROVE FALSE
  <2>1. PICK s \in Bad : \A r \in Bad : r \subseteq s => r = s
    <3>1. Bad \subseteq SUBSET S
      OBVIOUS
    <3> HIDE DEF Bad
    <3>2. IsFiniteSet(S)
      BY <1>2
    <3> QED BY ONLY <1>9, <3>1, <3>2, SmallestOne
  <2>2. c[s] = Next(c, s) /\ g[s] = Next(g, s)
    <3> HIDE DEF Next
    <3> QED BY <1>6, <1>8
  <2>3. CASE s = {}
    BY <2>2, <2>3
  <2>4. CASE s # {}
    <3> DEFINE x == Reads!Max(s)
    <3>1. x \in s
      BY <1>4, <2>4
    <3> HIDE DEF x
    <3>2. c[s \ {x}] = g[s \ {x}]
      BY <2>1, <3>1
    <3> QED BY <2>2, <2>4, <3>2 DEF x
  <2> QED BY <2>3, <2>4
<1>10. c[S] = g[S] /\ g[S] \in V
  BY <1>6, <1>9
<1> QED BY <1>1, <1>10 DEF V

(* The sum of what a function gives, by its own fold.                       *)
LEMMA SumFunctionIs ==
  ASSUME NEW S, IsFiniteSet(S), NEW h, h = [x \in S |-> h[x]], \A x \in S : h[x] \in Int PROVE Reads!SumFunction(h) = SumOver(h, S)
<1> DEFINE c == CHOOSE g : g = [s \in SUBSET S |-> SumStep(h, g, s)]
<1>0. DOMAIN h = S
  OBVIOUS
<1>1. Reads!SumFunction(h) = c[S]
  BY <1>0 DEF Reads!SumFunction, Reads!SumFunctionOnSet, Reads!FoldFunctionOnSet, Reads!MapThenFoldSet, SumStep
<1>2. HasSums(SumTable(h, S), h, S)
  BY SumsExist
<1>3. SumTable(h, S) = [s \in SUBSET S |-> SumStep(h, SumTable(h, S), s)]
  BY <1>2 DEF HasSums
<1>4. c = [s \in SUBSET S |-> SumStep(h, c, s)]
  BY <1>3, Zenon
<1> HIDE DEF c
<1>5. \A s \in SUBSET S : c[s] = SumStep(h, c, s)
  BY <1>4
<1> QED BY <1>1, <1>5, SumsAgree

LEMMA SumPlus ==
  ASSUME NEW S, IsFiniteSet(S), NEW f, NEW h, NEW k, \A x \in S : f[x] \in Int /\ h[x] \in Int /\ k[x] = f[x] + h[x]
  PROVE SumOver(k, S) = SumOver(f, S) + SumOver(h, S)
<1> DEFINE Bad == {s \in SUBSET S : SumOver(k, s) # SumOver(f, s) + SumOver(h, s)}
<1>1. ASSUME Bad # {} PROVE FALSE
  <2>1. PICK s \in Bad : \A r \in Bad : r \subseteq s => r = s
    <3>1. Bad \subseteq SUBSET S
      OBVIOUS
    <3> HIDE DEF Bad
    <3> QED BY <3>1, <1>1, SmallestOne
  <2>2. s # {}
    <3>1. {} \notin Bad
      BY SumOfNone
    <3> QED BY <2>1, <3>1
  <2>3. PICK a : a \in s
    BY <2>2
  <2>4. IsFiniteSet(s) /\ \A x \in s : f[x] \in Int /\ h[x] \in Int /\ k[x] \in Int
    BY FS_Subset
  <2>5. /\ SumOver(f, s) = f[a] + SumOver(f, s \ {a}) /\ SumOver(f, s \ {a}) \in Int
        /\ SumOver(h, s) = h[a] + SumOver(h, s \ {a}) /\ SumOver(h, s \ {a}) \in Int
        /\ SumOver(k, s) = k[a] + SumOver(k, s \ {a})
    BY <2>3, <2>4, SumAdds
  <2>6. SumOver(k, s \ {a}) = SumOver(f, s \ {a}) + SumOver(h, s \ {a})
    BY <2>1, <2>3
  <2>7. SumOver(k, s) # SumOver(f, s) + SumOver(h, s) /\ k[a] = f[a] + h[a] /\ f[a] \in Int /\ h[a] \in Int
    BY <2>1, <2>3
  <2> HIDE DEF Bad
  <2> QED BY <2>5, <2>6, <2>7
<1>2. S \notin Bad
  BY <1>1
<1> QED BY <1>2

(* Differences from one to the next add up to that from first to last.      *)
LEMMA Telescope ==
  ASSUME NEW l \in Nat, l > 0, NEW w \in [1..l -> Int], NEW d, \A n \in 2..l : d[n] = w[n] - w[n - 1]
  PROVE SumOver(d, 2..l) = w[l] - w[1]
<1> DEFINE T == {k \in Nat : k \in 1..l => SumOver(d, 2..k) = w[k] - w[1]}
<1>1. 0 \in T
  OBVIOUS
<1>2. ASSUME NEW k \in Nat, k \in T PROVE k + 1 \in T
  <2> SUFFICES ASSUME k + 1 \in 1..l PROVE SumOver(d, 2..k + 1) = w[k + 1] - w[1]
    OBVIOUS
  <2>1. CASE k = 0
    <3>1. 2..1 = {}
      OBVIOUS
    <3>2. SumOver(d, 2..1) = 0
      BY <3>1, SumOfNone
    <3> QED BY <2>1, <3>2
  <2>2. CASE k # 0
    <3>1. k \in 1..l /\ k + 1 \in 2..k + 1 /\ k + 1 \in 2..l
      BY <2>2
    <3>7. (2..k + 1) \ {k + 1} = 2..k
      <4>1. ASSUME NEW n \in 2..k + 1, n # k + 1 PROVE n \in 2..k
        BY <4>1
      <4>2. ASSUME NEW n \in 2..k PROVE n \in 2..k + 1 /\ n # k + 1
        OBVIOUS
      <4> DEFINE R == 2..k + 1
                 Q == 2..k
                 a == k + 1
      <4> HIDE DEF R, Q, a
      <4>3. R \ {a} = Q
        BY <4>1, <4>2 DEF R, Q, a
      <4> QED BY <4>3 DEF R, Q, a
    <3>2. IsFiniteSet(2..k + 1)
      BY FS_Interval
    <3>3. \A n \in 2..k + 1 : d[n] \in Int
      <4> SUFFICES ASSUME NEW n \in 2..k + 1 PROVE d[n] \in Int
        OBVIOUS
      <4>1. n \in 2..l /\ n \in 1..l /\ n - 1 \in 1..l
        OBVIOUS
      <4> QED BY <4>1
    <3>4. SumOver(d, 2..k + 1) = d[k + 1] + SumOver(d, 2..k)
      <4> DEFINE R == 2..k + 1
                 a == k + 1
      <4>1. a \in R /\ R \ {a} = 2..k /\ IsFiniteSet(R) /\ \A n \in R : d[n] \in Int
        BY <3>1, <3>2, <3>3, <3>7
      <4> HIDE DEF R, a
      <4>2. SumOver(d, R) = d[a] + SumOver(d, R \ {a})
        BY ONLY <4>1, SumAdds
      <4> QED BY <4>1, <4>2 DEF R, a
    <3>5. SumOver(d, 2..k) = w[k] - w[1]
      BY <1>2, <3>1
    <3>6. d[k + 1] = w[k + 1] - w[k] /\ w[k + 1] \in Int /\ w[k] \in Int /\ w[1] \in Int
      BY <3>1
    <3> QED BY <3>4, <3>5, <3>6
  <2> QED BY <2>1, <2>2
<1> HIDE DEF T
<1>3. \A k \in Nat : k \in T
  BY <1>1, <1>2, EveryNumber
<1> QED BY <1>3 DEF T

(* A quotient times its divisor.                                            *)
LEMMA TruncatedTimes ==
  ASSUME NEW a \in Nat, NEW b \in Nat, b > 0
  PROVE LET q == Reads!Truncated(a, b) IN q \in Int /\ q * b <= a /\ a <= q * b + b
<1>1. Reads!Truncated(a, b) = a \div b
  BY DEF Reads!Truncated
<1>2. (a \div b) \in Int /\ (a \div b) * b <= a /\ a <= (a \div b) * b + b
  <2>1. a = b * (a \div b) + (a % b) /\ (a \div b) \in Int /\ a % b \in 0..b - 1
    OBVIOUS
  <2> DEFINE q == a \div b
             r == a % b
  <2>2. q \in Int /\ r \in Nat /\ r < b /\ a = b * q + r
    BY <2>1
  <2> HIDE DEF q, r
  <2>3. q * b = b * q /\ b * q \in Int
    BY <2>2
  <2>4. q * b <= a /\ a <= q * b + b
    BY <2>2, <2>3
  <2> QED BY <2>2, <2>4 DEF q
<1> QED BY <1>1, <1>2

(* Two readings that are accepted one after the other.                      *)
LEMMA CounterSteps ==
  ASSUME NEW a \in EnergyReading, NEW b \in EnergyReading, a.kind = "counter", b.kind = "counter", b.reset < MaxReset, Reads!ValidCounter(a, b)
  PROVE /\ Reads!EnergyDelta(a, b).ok
        /\ (a.reset = b.reset /\ a.value >= b.value /\ Reads!EnergyDelta(a, b).value = a.value - b.value) \/ a.reset > b.reset
<1>1. a.value \in Int /\ b.value \in Int /\ a.reset \in Nat /\ b.reset \in Nat /\ MaxReset \in Nat
  BY ReadingConstants DEF EnergyReading
<1>2. Reads!EnergyDelta(a, b).ok
  BY DEF Reads!ValidCounter
<1> QED BY <1>1, <1>2 DEF Reads!EnergyDelta, Reads!Delta, Reads!NoDelta

(* A counter is lower than before only where a reset was declared, and what *)
(* is derived between two resets comes to what the counter went up.         *)
LEMMA CountersAddUp == ASSUME NEW readings \in Seq(RawReading), NEW policy PROVE Reads!CountersAddUp(readings, policy)
<1> DEFINE chain == Reads!Accepted(readings, policy)
           l == Len(chain)
           counters == \A n \in DOMAIN chain : chain[n].energy.kind = "counter" /\ chain[n].energy.reset < MaxReset
           steady == counters /\ \A n \in DOMAIN chain : chain[n].energy.reset = chain[1].energy.reset
           steps == 2..l
           elapsed(n) == chain[n].at - chain[n - 1].at
           power == [n \in steps |-> chain[n].power * elapsed(n)]
           time == [n \in steps |-> elapsed(n)]
           growth == (chain[l].energy.value - chain[1].energy.value) * Hour
<1>1. chain \in Seq(Obs) /\ \A n \in 2..l : \E o : Follows(chain[n], o, chain[n - 1], policy)
  BY AcceptedIsChained DEF Chained
<1> SUFFICES ASSUME chain # <<>>
    PROVE /\ counters => \A r \in Reads!CounterResets(chain) : r.declared
          /\ steady /\ (\A n \in steps : chain[n].derived) =>
               Reads!SumFunction(power) <= growth /\ growth - Reads!SumFunction(power) <= Reads!SumFunction(time)
  BY DEF Reads!CountersAddUp
<1> HIDE DEF chain
<1>2. l \in Nat /\ l > 0 /\ DOMAIN chain = 1..l /\ \A n \in 1..l : chain[n] \in Obs
  BY <1>1
<1>3. \A n \in 2..l : n \in 1..l /\ n - 1 \in 1..l
  BY <1>2
<1>4. \A n \in 1..l : chain[n].at \in Int /\ chain[n].energy \in EnergyReading /\ chain[n].energy.value \in Int /\ chain[n].energy.reset \in Nat
  BY <1>2 DEF Obs, EnergyReading
<1>5. ASSUME NEW n \in 2..l
      PROVE /\ Reads!ValidCounter(chain[n].energy, chain[n - 1].energy)
            /\ chain[n].derived =>
                 /\ elapsed(n) \in Nat /\ elapsed(n) > 0
                 /\ chain[n].power = Reads!Truncated(Reads!EnergyDelta(chain[n].energy, chain[n - 1].energy).value * Hour, elapsed(n))
  <2>1. PICK o : Follows(chain[n], o, chain[n - 1], policy)
    BY <1>1
  <2>2. chain[n - 1] \in Obs /\ o \in RawReading
    BY <1>2, <1>3, <2>1 DEF Follows
  <2> DEFINE v == chain[n]
             p == chain[n - 1]
  <2>3. v.at \in Int /\ p.at \in Int
    BY <1>3, <1>4
  <2> HIDE DEF v, p
  <2>4. Follows(v, o, p, policy) /\ p \in Obs
    BY <2>1, <2>2 DEF v, p
  <2>5. /\ v.at = o.at /\ v.energy = o.energy /\ Reads!ValidCounter(o.energy, p.energy)
        /\ v.derived => o.at > p.at /\ v.power = Reads!DerivedPower(o, p)
    BY <2>2, <2>4, ValidatedIs
  <2>6. v.derived => v.at - p.at \in Nat /\ v.at - p.at > 0
    BY <2>3, <2>5
  <2>7. v.derived => v.power = Reads!Truncated(Reads!EnergyDelta(v.energy, p.energy).value * Hour, v.at - p.at)
    BY <2>5 DEF Reads!DerivedPower
  <2> QED BY <2>5, <2>6, <2>7 DEF v, p
<1> HIDE DEF l
<1>6. ASSUME counters, NEW n \in 2..l
      PROVE \/ /\ chain[n].energy.reset = chain[n - 1].energy.reset /\ chain[n].energy.value >= chain[n - 1].energy.value
               /\ Reads!EnergyDelta(chain[n].energy, chain[n - 1].energy).value = chain[n].energy.value - chain[n - 1].energy.value
            \/ chain[n].energy.reset > chain[n - 1].energy.reset
  <2> DEFINE a == chain[n].energy
             b == chain[n - 1].energy
  <2>1. a \in EnergyReading /\ b \in EnergyReading /\ a.kind = "counter" /\ b.kind = "counter" /\ b.reset < MaxReset /\ Reads!ValidCounter(a, b)
    BY <1>2, <1>3, <1>4, <1>5, <1>6
  <2> HIDE DEF a, b
  <2>2. (a.reset = b.reset /\ a.value >= b.value /\ Reads!EnergyDelta(a, b).value = a.value - b.value) \/ a.reset > b.reset
    BY <2>1, CounterSteps
  <2> QED BY <2>2 DEF a, b
<1>7. ASSUME counters, NEW r \in Reads!CounterResets(chain) PROVE r.declared
  <2>1. PICK n \in 2..l :
          /\ r = [at |-> chain[n].at, declared |-> chain[n].energy.reset > chain[n - 1].energy.reset]
          /\ chain[n].energy.reset > chain[n - 1].energy.reset \/ chain[n].energy.value < chain[n - 1].energy.value
    BY DEF Reads!CounterResets, l
  <2>2. chain[n].energy.reset > chain[n - 1].energy.reset
    <3>1. chain[n].energy.value \in Int /\ chain[n - 1].energy.value \in Int
      BY <1>3, <1>4
    <3> QED BY <1>6, <1>7, <2>1, <3>1
  <2> QED BY <2>1, <2>2
<1>8. ASSUME steady, \A n \in steps : chain[n].derived
      PROVE Reads!SumFunction(power) <= growth /\ growth - Reads!SumFunction(power) <= Reads!SumFunction(time)
  <2> DEFINE w == [n \in 1..l |-> chain[n].energy.value * Hour]
             up == [n \in steps |-> w[n] - w[n - 1]]
             over == [n \in steps |-> power[n] + time[n]]
  <2>1. Hour \in Nat
    BY ReadingConstants
  <2>2. w \in [1..l -> Int]
    BY <1>4, <2>1
  <2>3. ASSUME NEW n \in steps PROVE power[n] \in Int /\ time[n] \in Int /\ up[n] \in Int /\ power[n] <= up[n] /\ up[n] <= over[n]
    <3> DEFINE a == chain[n].energy.value
               b == chain[n - 1].energy.value
               t == elapsed(n)
               q == chain[n].power
    <3>1. a \in Int /\ b \in Int /\ t \in Nat /\ t > 0
      BY <1>3, <1>4, <1>5, <1>8
    <3>2. chain[n].energy.reset = chain[n - 1].energy.reset
      BY <1>2, <1>3, <1>8
    <3>3. a >= b /\ Reads!EnergyDelta(chain[n].energy, chain[n - 1].energy).value = a - b
      <4>1. chain[n].energy.reset \in Nat /\ ~(chain[n].energy.reset > chain[n - 1].energy.reset)
        BY <1>3, <1>4, <3>2
      <4> QED BY <1>6, <1>8, <4>1
    <3>4. q = Reads!Truncated((a - b) * Hour, t)
      BY <1>5, <1>8, <3>3
    <3>5. /\ power[n] = q * t /\ time[n] = t /\ over[n] = power[n] + time[n]
          /\ up[n] = a * Hour - b * Hour
      BY <1>3
    <3> HIDE DEF a, b, t, q, power, time, up, over, w
    <3>6. (a - b) * Hour \in Nat /\ (a - b) * Hour = a * Hour - b * Hour
      BY <2>1, <3>1, <3>3
    <3>7. q \in Int /\ q * t <= (a - b) * Hour /\ (a - b) * Hour <= q * t + t
      BY <3>1, <3>4, <3>6, TruncatedTimes
    <3>8. q * t \in Int
      BY <3>1, <3>7
    <3> QED BY <3>1, <3>5, <3>6, <3>7, <3>8
  <2>4. IsFiniteSet(steps)
    BY <1>2, FS_Interval
  <2>5. SumOver(up, steps) = growth
    <3>1. \A n \in 2..l : up[n] = w[n] - w[n - 1]
      OBVIOUS
    <3>2. w[l] = chain[l].energy.value * Hour /\ w[1] = chain[1].energy.value * Hour /\ l \in 1..l /\ 1 \in 1..l
      BY <1>2
    <3>3. growth = chain[l].energy.value * Hour - chain[1].energy.value * Hour
      BY <1>4, <2>1, <3>2
    <3> HIDE DEF up, w, growth
    <3>4. SumOver(up, 2..l) = w[l] - w[1]
      BY <1>2, <2>2, <3>1, Telescope
    <3> QED BY <3>2, <3>3, <3>4
  <2>6. power = [n \in steps |-> power[n]] /\ time = [n \in steps |-> time[n]] /\ \A n \in steps : over[n] = power[n] + time[n]
    OBVIOUS
  <2> HIDE DEF power, time, up, over, growth, steps
  <2>7. Reads!SumFunction(power) = SumOver(power, steps) /\ Reads!SumFunction(time) = SumOver(time, steps)
    BY <2>3, <2>4, <2>6, SumFunctionIs
  <2>8. SumOver(power, steps) <= SumOver(up, steps) /\ SumOver(up, steps) <= SumOver(over, steps)
    <3>1. \A n \in steps : power[n] \in Int /\ up[n] \in Int /\ over[n] \in Int /\ power[n] <= up[n] /\ up[n] <= over[n]
      BY <2>3, <2>6
    <3> QED BY <2>4, <3>1, SumsCompare
  <2>9. SumOver(over, steps) = SumOver(power, steps) + SumOver(time, steps)
    BY <2>3, <2>4, <2>6, SumPlus
  <2>10. SumOver(power, steps) \in Int /\ SumOver(time, steps) \in Int /\ SumOver(up, steps) \in Int
    BY <2>3, <2>4, SumIsInt
  <2> QED BY <2>5, <2>7, <2>8, <2>9, <2>10
<1> HIDE DEF counters, steady, steps, power, time, growth
<1> QED BY <1>7, <1>8 DEF steady

(* Readings are sound whatever is sent: units lose nothing, counters only go*)
(* down where a reset was declared, and the gaps told are those there are.  *)
ReadingInput ==
  /\ rule = "amounts" => sample \in Incoming
  /\ rule = "chain" => sample \in Chains
  /\ rule = "series" => sample \in Series

LEMMA ReadingsHold == ReadingInput => ReadingsAreSound
<1> SUFFICES ASSUME ReadingInput PROVE ReadingsAreSound
  OBVIOUS
<1>1. ASSUME rule = "amounts" PROVE Reads!UnitsAreExact(sample)
  BY <1>1, UnitsAreExact, ReadingConstants DEF ReadingInput, Inputs
<1>2. ASSUME rule = "chain" PROVE Reads!CountersAddUp(sample.readings, sample.policy)
  <2>1. sample.readings \in Seq(RawReading)
    BY <1>2, ReadingConstants DEF ReadingInput
  <2> QED BY <2>1, CountersAddUp
<1>3. ASSUME rule = "series", NEW r \in Ranges PROVE Reads!GapsAreMissing(sample, r.from, r.to, r.expected, r.tolerance)
  <2>1. sample \in Seq(Readings) /\ r.from \in Int /\ r.to \in Int /\ r.expected \in Nat /\ r.expected > 0 /\ r.tolerance \in Nat
    <3>1. sample \in Seq(Readings)
      BY <1>3, ReadingConstants DEF ReadingInput, Readings
    <3>2. r \in [from : Int, to : Int, expected : Nat \ {0}, tolerance : Nat]
      BY ReadingConstants
    <3> QED BY <3>1, <3>2
  <2> QED BY <2>1, GapsAreMissing
<1> QED BY <1>1, <1>2, <1>3 DEF ReadingsAreSound

THEOREM ReadingsInvariant == RulesSpec => []ReadingsAreSound
<1>1. RulesInit => ReadingInput
  BY DEF RulesInit, ReadingInput
<1>2. ReadingInput /\ [RulesNext]_<<rule, sample>> => ReadingInput'
  BY DEF ReadingInput, RulesNext
<1> QED BY <1>1, <1>2, ReadingsHold, PTL DEF RulesSpec


-----------------------------------------------------------------------------
(* Quotients.                                                               *)
LEMMA TimesIsMonotone == ASSUME NEW a \in Int, NEW b \in Int, NEW c \in Nat, a <= b PROVE a * c <= b * c /\ a * c \in Int /\ b * c \in Int
<1>1. b - a \in Nat
  OBVIOUS
<1>2. (b - a) * c \in Nat
  BY <1>1
<1>3. (b - a) * c = b * c - a * c
  OBVIOUS
<1> QED BY <1>2, <1>3

LEMMA QuotientIs ==
  ASSUME NEW a \in Int, NEW b \in Nat, b > 0 PROVE a \div b \in Int /\ (a \div b) * b <= a /\ a < (a \div b) * b + b
<1>1. a = b * (a \div b) + (a % b) /\ (a \div b) \in Int /\ a % b \in 0..b - 1
  OBVIOUS
<1> DEFINE q == a \div b
           r == a % b
<1>2. q \in Int /\ r \in Nat /\ r < b /\ a = b * q + r
  BY <1>1
<1> HIDE DEF q, r
<1>3. q * b = b * q /\ b * q \in Int
  BY <1>2
<1> QED BY <1>2, <1>3 DEF q

LEMMA QuotientAtLeast == ASSUME NEW p \in Int, NEW a \in Int, NEW b \in Nat, b > 0 PROVE p * b <= a <=> p <= a \div b
<1> DEFINE q == a \div b
<1>1. q \in Int /\ q * b <= a /\ a < q * b + b
  BY QuotientIs
<1> HIDE DEF q
<1>2. CASE p <= q
  <2>1. p * b <= q * b /\ p * b \in Int /\ q * b \in Int
    BY <1>1, <1>2, TimesIsMonotone
  <2> QED BY <1>1, <1>2, <2>1 DEF q
<1>3. CASE ~(p <= q)
  <2>1. q + 1 <= p /\ q + 1 \in Int
    BY <1>1, <1>3
  <2>2. (q + 1) * b <= p * b /\ (q + 1) * b \in Int /\ p * b \in Int
    BY <2>1, TimesIsMonotone
  <2>3. (q + 1) * b = q * b + b
    BY <1>1
  <2> QED BY <1>1, <1>3, <2>2, <2>3 DEF q
<1> QED BY <1>2, <1>3

-----------------------------------------------------------------------------
(* Energy and comparisons.                                                  *)
LEMMA TruncatedBounds ==
  ASSUME NEW a \in Int, NEW b \in Nat, b > 0
  PROVE LET t == Model!Truncated(a, b)
        IN t \in Int /\ (a >= 0 => t >= 0 /\ t * b <= a /\ a < t * b + b) /\ (a < 0 => t <= 0 /\ t * b >= a /\ t * b < a + b)
<1>1. CASE a >= 0
  <2>1. a \div b \in Int /\ (a \div b) * b <= a /\ a < (a \div b) * b + b
    BY QuotientIs
  <2>2. 0 <= a \div b
    <3>1. 0 * b <= a
      BY <1>1
    <3> QED BY <3>1, QuotientAtLeast
  <2> QED BY <1>1, <2>1, <2>2 DEF Model!Truncated
<1>2. CASE a < 0
  <2> DEFINE q == (-a) \div b
  <2>1. q \in Int /\ q * b <= -a /\ -a < q * b + b
    BY QuotientIs
  <2>2. 0 <= q
    <3>1. 0 * b <= -a
      BY <1>2
    <3> QED BY <3>1, QuotientAtLeast
  <2>3. Model!Truncated(a, b) = -q
    BY <1>2 DEF Model!Truncated
  <2> HIDE DEF q
  <2>4. (-q) * b = -(q * b) /\ q * b \in Int
    BY <2>1
  <2> QED BY <1>2, <2>1, <2>2, <2>3, <2>4
<1> QED BY <1>1, <1>2

(* A product that is rounded is off by half of the divisor at most.         *)
LEMMA RoundedIsNear ==
  ASSUME NEW p \in Int, NEW b \in Nat, b > 0
  PROVE LET r == Model!Rounded(p, b) IN r \in Int /\ 2 * (r * b - p) <= b /\ -b <= 2 * (r * b - p) /\ (p >= 0 => r >= 0)
<1> DEFINE h == b \div 2
<1>1. h \in Nat /\ 2 * h <= b /\ b <= 2 * h + 1
  OBVIOUS
<1> HIDE DEF h
<1>2. CASE p >= 0
  <2> DEFINE t == Model!Truncated(p + h, b)
  <2>1. t \in Int /\ t >= 0 /\ t * b <= p + h /\ p + h < t * b + b
    BY <1>1, <1>2, TruncatedBounds
  <2>2. Model!Rounded(p, b) = t
    BY <1>2 DEF Model!Rounded, h
  <2> HIDE DEF t
  <2> QED BY <1>1, <1>2, <2>1, <2>2
<1>3. CASE p < 0
  <2> DEFINE t == Model!Truncated(p - h, b)
  <2>1. t \in Int /\ t * b >= p - h /\ t * b < p - h + b
    BY <1>1, <1>3, TruncatedBounds
  <2>2. Model!Rounded(p, b) = t
    BY <1>3 DEF Model!Rounded, h
  <2> HIDE DEF t
  <2> QED BY <1>1, <1>3, <2>1, <2>2
<1> QED BY <1>2, <1>3

(* Rounding keeps the order of products.                                    *)
LEMMA RoundedIsMonotone ==
  ASSUME NEW p \in Int, NEW q \in Int, p <= q, NEW b \in Nat, b > 0 PROVE Model!Rounded(p, b) <= Model!Rounded(q, b)
<1> DEFINE h == b \div 2
           a == IF p >= 0 THEN p + h ELSE p - h
           c == IF q >= 0 THEN q + h ELSE q - h
           t == Model!Truncated(a, b)
           u == Model!Truncated(c, b)
<1>1. h \in Nat
  OBVIOUS
<1>2. Model!Rounded(p, b) = t /\ Model!Rounded(q, b) = u
  BY DEF Model!Rounded
<1> HIDE DEF h
<1>3. a \in Int /\ c \in Int /\ a <= c
  BY <1>1
<1> HIDE DEF a, c
<1>4. t \in Int /\ (a >= 0 => t >= 0 /\ t * b <= a /\ a < t * b + b) /\ (a < 0 => t <= 0 /\ t * b >= a /\ t * b < a + b)
  BY <1>3, TruncatedBounds
<1>5. u \in Int /\ (c >= 0 => u >= 0 /\ u * b <= c /\ c < u * b + b) /\ (c < 0 => u <= 0 /\ u * b >= c /\ u * b < c + b)
  BY <1>3, TruncatedBounds
<1> HIDE DEF t, u
<1>6. ASSUME ~(t <= u) PROVE FALSE
  <2>1. u + 1 <= t
    BY <1>4, <1>5, <1>6
  <2>2. (u + 1) * b <= t * b /\ t * b \in Int
    BY <1>4, <1>5, <2>1, TimesIsMonotone
  <2>3. (u + 1) * b = u * b + b /\ u * b \in Int
    BY <1>5
  <2>4. CASE a >= 0
    BY <1>3, <1>4, <1>5, <2>2, <2>3, <2>4
  <2>5. CASE c < 0
    BY <1>3, <1>4, <1>5, <2>2, <2>3, <2>5
  <2>6. CASE a < 0 /\ c >= 0
    BY <1>3, <1>4, <1>5, <2>1, <2>6
  <2> QED BY <1>3, <2>4, <2>5, <2>6
<1> QED BY <1>2, <1>6

LEMMA EnergyAddsUp ==
  ASSUME NEW power \in Estimated(Int), NEW first \in Int, NEW second \in Int PROVE Model!EnergyAddsUp(power, first, second)
<1> DEFINE v == power.central
           b == Minutes
           w == Model!Rounded(v * (first + second), b)
           x == Model!Rounded(v * first, b)
           y == Model!Rounded(v * second, b)
<1>1. v \in Int /\ b \in Nat /\ b > 0
  BY ModelConstants DEF Estimated
<1>2. Model!Energy(power, first + second).central = w /\ Model!Energy(power, first).central = x /\ Model!Energy(power, second).central = y
  BY DEF Model!Energy, Model!Estimates
<1> HIDE DEF b, v
<1>3. v * first \in Int /\ v * second \in Int /\ v * (first + second) \in Int /\ v * (first + second) = v * first + v * second
  BY <1>1
<1>4. /\ w \in Int /\ 2 * (w * b - v * (first + second)) <= b /\ -b <= 2 * (w * b - v * (first + second))
      /\ x \in Int /\ 2 * (x * b - v * first) <= b /\ -b <= 2 * (x * b - v * first)
      /\ y \in Int /\ 2 * (y * b - v * second) <= b /\ -b <= 2 * (y * b - v * second)
  BY <1>1, <1>3, RoundedIsNear
<1> HIDE DEF w, x, y
<1> DEFINE d == w - (x + y)
<1>5. d \in Int /\ d * b = w * b - x * b - y * b /\ w * b \in Int /\ x * b \in Int /\ y * b \in Int
  BY <1>1, <1>4
<1>6. 2 * (d * b) <= 3 * b /\ -(3 * b) <= 2 * (d * b)
  BY <1>1, <1>3, <1>4, <1>5
<1> HIDE DEF d
<1>7. ASSUME d >= 2 PROVE FALSE
  <2>1. 2 * b <= d * b /\ d * b \in Int
    BY <1>1, <1>5, <1>7, TimesIsMonotone
  <2> QED BY <1>1, <1>6, <2>1
<1>8. ASSUME d <= -2 PROVE FALSE
  <2>1. d * b <= (-2) * b /\ d * b \in Int
    BY <1>1, <1>5, <1>8, TimesIsMonotone
  <2> QED BY <1>1, <1>6, <2>1
<1>9. d \in -1..1
  BY <1>5, <1>7, <1>8
<1> QED BY <1>2, <1>9 DEF Model!EnergyAddsUp, d

LEMMA BasisIsKept ==
  ASSUME NEW metric, NEW basis, NEW kind, NEW actual, NEW modeled \in Figure, actual.energy \in Figure, NEW least
  PROVE Model!BasisIsKept(metric, basis, kind, actual, modeled, least)
<1> DEFINE compared == Model!Compared(metric, basis, "system", actual, modeled, least)
           e == actual.energy
           q == (e * Full) \div modeled
<1> SUFFICES ASSUME Model!Compatible(basis, kind), compared.ratio # NotGiven
             PROVE /\ (metric = "performance") = (kind # "forecast")
                   /\ compared.ratio >= 0 /\ (actual.energy >= modeled <=> compared.ratio >= Full)
  BY DEF Model!BasisIsKept
<1>1. /\ <<metric, basis>> \in {<<"performance", "expected">>, <<"realization", "forecast">>}
      /\ e # NotGiven /\ modeled # NotGiven /\ ~(modeled <= 0) /\ ~(e < 0)
      /\ compared.ratio = q
  BY DEF Model!Compared, Model!Unavailable
<1> HIDE DEF compared
<1>2. (metric = "performance") = (kind # "forecast")
  BY <1>1 DEF Model!Compatible
<1>3. e \in Nat /\ modeled \in Nat /\ modeled > 0 /\ Full \in Nat /\ Full > 0
  BY <1>1, SummaryConstants DEF Figure, MaybeGiven
<1> HIDE DEF e
<1>4. e * Full \in Nat /\ Full * modeled = modeled * Full /\ modeled * Full \in Nat
  BY <1>3
<1>5. 0 <= q
  <2>1. 0 * modeled <= e * Full
    BY <1>3, <1>4
  <2> QED BY <1>3, <1>4, <2>1, QuotientAtLeast
<1>6. Full * modeled <= e * Full <=> Full <= q
  BY <1>3, <1>4, QuotientAtLeast
<1>7. q \in Int
  BY <1>3, <1>4, QuotientIs
<1>8. e >= modeled <=> modeled * Full <= e * Full
  <2>1. CASE modeled <= e
    BY <1>3, <2>1, TimesIsMonotone
  <2>2. CASE ~(modeled <= e)
    <3>1. e + 1 <= modeled
      BY <1>3, <2>2
    <3>2. (e + 1) * Full <= modeled * Full
      BY <1>3, <3>1, TimesIsMonotone
    <3>3. (e + 1) * Full = e * Full + Full
      BY <1>3
    <3> QED BY <1>3, <1>4, <2>2, <3>2, <3>3
  <2> QED BY <2>1, <2>2
<1> HIDE DEF q
<1> QED BY <1>1, <1>2, <1>3, <1>4, <1>5, <1>6, <1>7, <1>8 DEF e

-----------------------------------------------------------------------------
(* Queries.                                                                 *)
Asked(q) ==
  /\ {q.from, q.to, q.maximum, q.interval, q.hot} \subseteq Int
  /\ IsFiniteSet(q.fields) /\ q.available = Plans!RollupNames
  /\ \A r \in {"raw"} \cup Plans!RollupNames : IsCalendar(Starts(r, q.interval), TakenToBe(r, q.interval))

LEMMA RequestsAreAsked == ASSUME NEW b \in Bodies PROVE Asked(Plans!QueryRequest(b)) /\ Asked(Plans!ExportRequest(b))
<1> DEFINE c == [b EXCEPT !.interval = Omitted, !.hot = Omitted]
           From(x) == /\ x.from \in Int /\ x.to \in Int /\ IsFiniteSet(x.fields) /\ {x.maximum, x.interval, x.hot} \subseteq Int \cup {Omitted}
                      /\ x.interval \in {y.interval : y \in Bodies} \cup {Omitted}
<1>1. From(b)
  BY QueryConstants
<1>2. From(c)
  BY QueryConstants
<1>3. ASSUME NEW x, From(x) PROVE Asked(Plans!QueryRequest(x))
  <2> DEFINE q == Plans!QueryRequest(x)
  <2>1. /\ q.from = x.from /\ q.to = x.to /\ q.fields = x.fields /\ q.available = Plans!RollupNames
        /\ q.interval = Plans!Or(x.interval, DefaultInterval) /\ q.hot = Plans!Or(x.hot, Earliest)
        /\ q.maximum = IF x.maximum = Omitted THEN DefaultPoints ELSE IF x.maximum > MostPoints THEN MostPoints ELSE x.maximum
    BY DEF Plans!QueryRequest
  <2> HIDE DEF q
  <2>2. q.interval \in Int /\ q.hot \in Int /\ q.maximum \in Int
    BY <1>3, <2>1, QueryConstants DEF Plans!Or
  <2>3. q.interval \in {y.interval : y \in Bodies} \cup {DefaultInterval} /\ q.interval # Omitted
    BY <1>3, <2>1, QueryConstants DEF Plans!Or
  <2>4. \A r \in {"raw"} \cup Plans!RollupNames : IsCalendar(Starts(r, q.interval), TakenToBe(r, q.interval))
    BY <2>3, QueryConstants
  <2>5. q.from \in Int /\ q.to \in Int /\ IsFiniteSet(q.fields)
    BY <1>3, <2>1
  <2>6. Asked(q)
    <3> HIDE DEF From
    <3> QED BY <2>1, <2>2, <2>4, <2>5 DEF Asked
  <2> QED BY <2>6 DEF q
<1>4. Plans!ExportRequest(b) = Plans!QueryRequest(c)
  BY DEF Plans!ExportRequest
<1> QED BY <1>1, <1>2, <1>3, <1>4

(* What is planned is what was chosen, and fits.                            *)
Planned(q, r) ==
  /\ Plans!ValidRequest(q) /\ r = Plans!Chosen(q) /\ r # "none" /\ Plans!Fits(q, r)
  /\ r = "raw" \/ (r \in Plans!RollupNames /\ Detailed \notin q.fields)
  /\ Plans!Plan(q) = [resolution |-> r, points |-> Plans!PointsOf(q, r), fields |-> q.fields,
                      sources |-> IF r = "raw" THEN Plans!RawSources(q) ELSE {}]

LEMMA MinIsLeast ==
  ASSUME NEW S, S \subseteq Int, IsFiniteSet(S), S # {} PROVE Plans!Min(S) \in S /\ \A y \in S : Plans!Min(S) <= y
<1>1. \E x \in S : \A y \in S : x <= y
  BY LeastExists
<1>2. \E x \in S : \A y \in S : x =< y
  BY <1>1
<1> QED BY <1>2 DEF Plans!Min

LEMMA RollupIndexes == \A T \in SUBSET (DOMAIN Rollups) : IsFiniteSet(T) /\ T \subseteq Int
<1> DEFINE l == Len(Rollups)
<1>1. l \in Nat /\ DOMAIN Rollups = 1..l
  BY QueryConstants
<1> HIDE DEF l
<1>2. IsFiniteSet(1..l) /\ 1..l \subseteq Int
  BY <1>1, FS_Interval
<1> SUFFICES ASSUME NEW T \in SUBSET (1..l) PROVE IsFiniteSet(T) /\ T \subseteq Int
  BY <1>1
<1>3. IsFiniteSet(T)
  BY <1>2, FS_Subset
<1> QED BY <1>2, <1>3

LEMMA AutomaticFits ==
  ASSUME NEW q, Plans!Automatic(q) # "none"
  PROVE /\ Plans!Fits(q, Plans!Automatic(q))
        /\ \/ Plans!Automatic(q) = "raw" /\ Plans!Fits(q, "raw")
           \/ /\ ~Plans!Fits(q, "raw") /\ Plans!Automatic(q) \in q.available
              /\ \E m \in DOMAIN Rollups : /\ Plans!Automatic(q) = Rollups[m]
                   /\ \A k \in DOMAIN Rollups : k < m /\ Rollups[k] \in q.available => ~Plans!Fits(q, Rollups[k])
<1> DEFINE fitting == {n \in DOMAIN Rollups : Rollups[n] \in q.available /\ Plans!Fits(q, Rollups[n])}
           a == Plans!Automatic(q)
<1>1. a = IF Plans!Fits(q, "raw") THEN "raw" ELSE IF fitting = {} THEN "none" ELSE Rollups[Plans!Min(fitting)]
  BY DEF Plans!Automatic
<1>2. fitting \in SUBSET (DOMAIN Rollups)
  OBVIOUS
<1> HIDE DEF a
<1>3. CASE Plans!Fits(q, "raw")
  BY <1>1, <1>3 DEF a
<1>4. CASE ~Plans!Fits(q, "raw")
  <2> DEFINE m == Plans!Min(fitting)
  <2>1. fitting # {} /\ a = Rollups[m]
    BY <1>1, <1>4 DEF a
  <2>2. m \in fitting /\ \A y \in fitting : m <= y
    <3> HIDE DEF fitting
    <3> QED BY <1>2, <2>1, RollupIndexes, MinIsLeast
  <2> HIDE DEF m
  <2>3. m \in DOMAIN Rollups /\ Rollups[m] \in q.available /\ Plans!Fits(q, Rollups[m])
    BY <2>2
  <2>4. ASSUME NEW k \in DOMAIN Rollups, k < m, Rollups[k] \in q.available PROVE ~Plans!Fits(q, Rollups[k])
    <3>1. k \notin fitting
      <4> SUFFICES ASSUME k \in fitting PROVE FALSE
        OBVIOUS
      <4>1. m <= k /\ m \in Int /\ k \in Int
        BY <1>2, <2>2, RollupIndexes
      <4> QED BY <2>4, <4>1
    <3> QED BY <2>4, <3>1
  <2> QED BY <1>4, <2>1, <2>3, <2>4 DEF a
<1> QED BY <1>3, <1>4

LEMMA PlanIs == ASSUME NEW q, Asked(q), Plans!Plan(q) # Plans!NoPlan PROVE Planned(q, Plans!Plan(q).resolution)
<1> DEFINE c == Plans!Chosen(q)
<1>1. /\ Plans!ValidRequest(q) /\ c # "none"
      /\ Plans!Plan(q) = [resolution |-> c, points |-> Plans!PointsOf(q, c), fields |-> q.fields,
                          sources |-> IF c = "raw" THEN Plans!RawSources(q) ELSE {}]
  BY DEF Plans!Plan
<1> HIDE DEF c
<1>2. q.available = Plans!RollupNames
  BY DEF Asked
<1>3. Plans!Fits(q, c) /\ (c = "raw" \/ (c \in Plans!RollupNames /\ Detailed \notin q.fields))
  <2>1. CASE q.resolution = "raw"
    BY <1>1, <2>1 DEF Plans!Chosen, c
  <2>2. CASE q.resolution = "auto" /\ Detailed \notin q.fields
    <3>1. c = Plans!Automatic(q)
      BY <2>2 DEF Plans!Chosen, c
    <3> QED BY <1>1, <1>2, <2>2, <3>1, AutomaticFits
  <2>3. CASE q.resolution = "auto" /\ Detailed \in q.fields
    BY <1>1, <2>3 DEF Plans!Chosen, c
  <2>4. CASE q.resolution \notin {"raw", "auto"}
    BY <1>1, <1>2, <2>4 DEF Plans!Chosen, c
  <2> QED BY <2>1, <2>2, <2>3, <2>4
<1> QED BY <1>1, <1>3 DEF Planned, c

LEMMA PlanIsFinest == ASSUME NEW q, Asked(q) PROVE Plans!PlanIsFinest(q)
<1> DEFINE plan == Plans!Plan(q)
           r == plan.resolution
           coarser == {k \in DOMAIN Rollups : \A j \in DOMAIN Rollups : Rollups[j] = r => k < j}
<1> SUFFICES ASSUME plan # Plans!NoPlan
             PROVE /\ q.resolution \in {"auto", r}
                   /\ Detailed \in q.fields => r = "raw"
                   /\ q.resolution = "auto" /\ r # "raw" =>
                        \A f \in ({"raw"} \cup {Rollups[n] : n \in coarser}) \cap (q.available \cup {"raw"}) : ~Plans!Fits(q, f)
  BY DEF Plans!PlanIsFinest
<1>1. Planned(q, r)
  BY PlanIs
<1> HIDE DEF r
<1>2. r = Plans!Chosen(q) /\ r # "none"
  BY <1>1 DEF Planned
<1>3. q.resolution \in {"auto", r}
  BY <1>2 DEF Plans!Chosen
<1>4. Detailed \in q.fields => r = "raw"
  BY <1>1 DEF Planned
<1>5. ASSUME q.resolution = "auto", r # "raw", NEW f \in ({"raw"} \cup {Rollups[n] : n \in coarser}) \cap (q.available \cup {"raw"})
      PROVE ~Plans!Fits(q, f)
  <2>1. r = Plans!Automatic(q)
    BY <1>2, <1>4, <1>5 DEF Plans!Chosen
  <2>2. ~Plans!Fits(q, "raw")
    BY <1>2, <1>5, <2>1, AutomaticFits
  <2>3. PICK m \in DOMAIN Rollups : r = Rollups[m] /\ \A k \in DOMAIN Rollups : k < m /\ Rollups[k] \in q.available => ~Plans!Fits(q, Rollups[k])
    BY <1>2, <1>5, <2>1, AutomaticFits
  <2>4. CASE f = "raw"
    BY <2>2, <2>4
  <2>5. CASE f # "raw"
    <3>1. PICK n \in coarser : f = Rollups[n]
      BY <1>5, <2>5
    <3>2. n \in DOMAIN Rollups /\ n < m /\ f \in q.available
      BY <1>5, <2>3, <2>5, <3>1
    <3> QED BY <2>3, <3>1, <3>2
  <2> QED BY <2>4, <2>5
<1> QED BY <1>3, <1>4, <1>5
LEMMA SourcesCover == ASSUME NEW q, Asked(q) PROVE Plans!SourcesCover(q)
<1> DEFINE plan == Plans!Plan(q)
           Store(t) == IF t < q.hot THEN "archive" ELSE "hot"
<1> SUFFICES ASSUME plan.resolution = "raw" PROVE plan.sources = {Store(t) : t \in q.from..q.to - 1}
  BY DEF Plans!SourcesCover
<1>1. plan # Plans!NoPlan
  BY DEF Plans!NoPlan
<1>2. Planned(q, "raw")
  BY <1>1, PlanIs
<1>3. plan.sources = Plans!RawSources(q) /\ q.from < q.to
  BY <1>2 DEF Planned, Plans!ValidRequest
<1>4. q.from \in Int /\ q.to \in Int /\ q.hot \in Int
  BY DEF Asked
<1> DEFINE T == q.from..q.to - 1
<1>5. q.from \in T /\ q.to - 1 \in T /\ \A t \in T : q.from <= t /\ t < q.to /\ t \in Int
  BY <1>3, <1>4
<1> HIDE DEF T
<1>6. CASE q.to <= q.hot
  <2>1. \A t \in T : Store(t) = "archive"
    BY <1>4, <1>5, <1>6
  <2> QED BY <1>3, <1>4, <1>5, <1>6, <2>1 DEF Plans!RawSources, T
<1>7. CASE ~(q.to <= q.hot) /\ q.from >= q.hot
  <2>1. \A t \in T : Store(t) = "hot"
    BY <1>4, <1>5, <1>7
  <2> QED BY <1>3, <1>4, <1>5, <1>7, <2>1 DEF Plans!RawSources, T
<1>8. CASE ~(q.to <= q.hot) /\ ~(q.from >= q.hot)
  <2>1. Store(q.from) = "archive" /\ Store(q.to - 1) = "hot"
    BY <1>4, <1>8
  <2> QED BY <1>3, <1>4, <1>5, <1>8, <2>1 DEF Plans!RawSources, T
<1> QED BY <1>6, <1>7, <1>8

(* How far apart the beginnings of buckets are.                             *)
LEMMA EvenSpans ==
  ASSUME NEW starts \in Seq(Int), NEW width \in Nat, IsEven(starts, width), NEW j \in DOMAIN starts
  PROVE \A k \in DOMAIN starts : j <= k => starts[k] - starts[j] >= (k - j) * width
<1> DEFINE l == Len(starts)
           T == {m \in Nat : j + m \in 1..l => starts[j + m] - starts[j] >= m * width}
<1>1. l \in Nat /\ DOMAIN starts = 1..l /\ \A n \in 1..l : starts[n] \in Int
  OBVIOUS
<1>2. \A n \in 1..l - 1 : starts[n + 1] - starts[n] >= width
  BY DEF IsEven
<1> HIDE DEF l
<1>3. j \in Int /\ starts[j] \in Int
  BY <1>1
<1>4. 0 \in T
  BY <1>3
<1>5. ASSUME NEW m \in Nat, m \in T PROVE m + 1 \in T
  <2> SUFFICES ASSUME j + (m + 1) \in 1..l PROVE starts[j + (m + 1)] - starts[j] >= (m + 1) * width
    OBVIOUS
  <2>1. j + m \in 1..l - 1 /\ j + m \in 1..l /\ (j + m) + 1 = j + (m + 1)
    BY <1>1, <1>3
  <2>2. starts[j + m] - starts[j] >= m * width
    BY <1>5, <2>1
  <2>3. starts[j + (m + 1)] - starts[j + m] >= width
    BY <1>2, <2>1
  <2>4. (m + 1) * width = m * width + width /\ m * width \in Int
    OBVIOUS
  <2>5. starts[j + (m + 1)] \in Int /\ starts[j + m] \in Int
    BY <1>1, <2>1
  <2> DEFINE a == starts[j]
             b == starts[j + m]
             c == starts[j + (m + 1)]
             v == m * width
             w == (m + 1) * width
  <2>6. a \in Int /\ b \in Int /\ c \in Int /\ v \in Int /\ w = v + width /\ b - a >= v /\ c - b >= width
    BY <1>3, <2>2, <2>3, <2>4, <2>5
  <2> HIDE DEF a, b, c, v, w
  <2>7. c - a >= w
    BY <2>6
  <2> QED BY <2>7 DEF a, c, w
<1> HIDE DEF T
<1>6. \A m \in Nat : m \in T
  BY <1>4, <1>5, EveryNumber
<1> SUFFICES ASSUME NEW k \in DOMAIN starts, j <= k PROVE starts[k] - starts[j] >= (k - j) * width
  OBVIOUS
<1>7. k - j \in Nat /\ j + (k - j) = k /\ k \in 1..l
  BY <1>1, <1>3
<1> QED BY <1>6, <1>7 DEF T

(* As many buckets as lie within a range, counting those it begins and ends *)
(* in, by what they are taken to be.                                        *)
LEMMA PointsAtLeast ==
  ASSUME NEW m \in Int, NEW d \in Int, NEW w \in Nat, w > 0, m * w <= d + w - 1 PROVE m + 1 <= Plans!Points(d, w) /\ Plans!Points(d, w) \in Int
<1>1. d + w - 1 \in Int
  OBVIOUS
<1>2. m <= (d + w - 1) \div w /\ (d + w - 1) \div w \in Int
  BY <1>1, QuotientAtLeast, QuotientIs
<1> QED BY <1>2 DEF Plans!Points

LEMMA BoundsOfPlan ==
  ASSUME NEW q, Asked(q), Plans!Plan(q) # Plans!NoPlan
  PROVE LET r == Plans!Plan(q).resolution
            w == TakenToBe(r, q.interval)
        IN /\ Planned(q, r) /\ w \in Nat /\ w > 0 /\ q.from < q.to /\ q.from \in Int /\ q.to \in Int /\ q.maximum \in Int
           /\ Plans!Plan(q).points = Plans!Points(q.to - q.from, w) /\ Plans!Plan(q).points <= q.maximum
           /\ IsCalendar(Starts(r, q.interval), w)
<1> DEFINE r == Plans!Plan(q).resolution
           w == TakenToBe(r, q.interval)
<1>1. Planned(q, r)
  BY PlanIs
<1> HIDE DEF r
<1>2. r = "raw" \/ r \in Plans!RollupNames
  BY <1>1 DEF Planned
<1>3. {q.from, q.to, q.maximum, q.interval} \subseteq Int /\ IsCalendar(Starts(r, q.interval), w)
  BY <1>2 DEF Asked
<1>4. q.interval > 0 /\ q.from < q.to
  BY <1>1 DEF Planned, Plans!ValidRequest
<1>5. w \in Nat /\ w > 0
  BY <1>2, <1>3, <1>4, QueryConstants DEF TakenToBe
<1>6. Plans!Plan(q).points = Plans!Points(q.to - q.from, w) /\ Plans!Plan(q).points <= q.maximum
  BY <1>1 DEF Planned, Plans!PointsOf, Plans!Fits, TakenToBe
<1> QED BY <1>1, <1>3, <1>4, <1>5, <1>6 DEF r

LEMMA PlansCardinality == ASSUME NEW S PROVE Plans!Cardinality(S) = Cardinality(S)
BY Zenon DEF Cardinality, Plans!Cardinality

LEMMA PlanIsBounded ==
  ASSUME NEW q, Asked(q)
  PROVE LET r == Plans!Plan(q).resolution
            starts == Starts(r, q.interval)
        IN Plans!PlanIsBounded(q, starts, IsEven(starts, TakenToBe(r, q.interval)))
<1> DEFINE plan == Plans!Plan(q)
           r == plan.resolution
           starts == Starts(r, q.interval)
           w == TakenToBe(r, q.interval)
           even == IsEven(starts, w)
           begun == {s \in Plans!Range(starts) : s < q.to}
           touched == {s \in begun : \A t \in begun : t > s => t > q.from}
<1> SUFFICES ASSUME plan # Plans!NoPlan
             PROVE plan.points <= q.maximum /\ Plans!Cardinality(touched) <= plan.points + (IF even THEN 0 ELSE 2)
  BY Zenon DEF Plans!PlanIsBounded
<1>1. /\ w \in Nat /\ w > 0 /\ q.from < q.to /\ q.from \in Int /\ q.to \in Int /\ q.maximum \in Int
      /\ plan.points = Plans!Points(q.to - q.from, w) /\ plan.points <= q.maximum
      /\ IsCalendar(starts, w)
  BY BoundsOfPlan
<1> HIDE DEF starts, w, plan
<1> DEFINE l == Len(starts)
           d == q.to - q.from
           I == {n \in 1..l : starts[n] < q.to /\ (n < l /\ starts[n + 1] < q.to => starts[n + 1] > q.from)}
<1>2. /\ starts \in Seq(Int) /\ l \in Nat /\ DOMAIN starts = 1..l /\ \A n \in 1..l : starts[n] \in Int
      /\ \A j, k \in 1..l : j < k => starts[j] < starts[k] /\ starts[k] - starts[j] >= (k - j - 1) * w
  <2>1. starts \in Seq(Int) /\ \A j, k \in DOMAIN starts : j < k => starts[j] < starts[k] /\ starts[k] - starts[j] >= (k - j - 1) * w
    BY <1>1, Zenon DEF IsCalendar
  <2>2. DOMAIN starts = 1..l /\ l \in Nat /\ \A n \in 1..l : starts[n] \in Int
    BY <2>1
  <2> QED BY <2>1, <2>2
<1> HIDE DEF l
<1>3. Plans!Range(starts) = {starts[n] : n \in 1..l}
  BY <1>2 DEF Plans!Range
<1>4. ASSUME NEW s \in touched PROVE \E n \in I : s = starts[n]
  <2>1. PICK n \in 1..l : s = starts[n]
    BY <1>3
  <2>2. ASSUME n < l, starts[n + 1] < q.to PROVE starts[n + 1] > q.from
    <3>1. n + 1 \in 1..l /\ starts[n] < starts[n + 1]
      BY <1>2, <2>2
    <3>2. starts[n + 1] \in begun /\ starts[n + 1] > s /\ s \in begun
      BY <1>2, <1>3, <2>1, <2>2, <3>1
    <3> HIDE DEF begun
    <3> QED BY <1>4, <3>2
  <2> QED BY <2>1, <2>2
<1>5. IsFiniteSet(I) /\ I \subseteq Int
  <2>1. IsFiniteSet(1..l) /\ I \in SUBSET (1..l) /\ 1..l \subseteq Int
    BY <1>2, FS_Interval
  <2> HIDE DEF I
  <2> QED BY <2>1, FS_Subset
<1> HIDE DEF touched
<1>6. plan.points \in Int /\ 1 <= plan.points
  <2> DEFINE z == 0
  <2>1. z \in Int /\ d \in Int /\ z * w <= d + w - 1
    BY <1>1
  <2>3. plan.points = Plans!Points(d, w)
    BY <1>1
  <2> HIDE DEF d, z
  <2>2. z + 1 <= Plans!Points(d, w) /\ Plans!Points(d, w) \in Int
    BY <1>1, <2>1, PointsAtLeast
  <2> QED BY <2>2, <2>3 DEF z
<1>9. Plans!Cardinality(touched) \in Nat
  <2>1. touched \subseteq Plans!Range(starts)
    BY DEF touched
  <2>2. IsFiniteSet(1..l)
    BY <1>2, FS_Interval
  <2>3. IsFiniteSet({starts[n] : n \in 1..l})
    BY <2>2, FiniteImage
  <2>4. IsFiniteSet(touched)
    BY <1>3, <2>1, <2>3, FS_Subset
  <2> QED BY <2>4, FS_CardinalityType, PlansCardinality
<1>7. CASE I = {}
  <2>1. touched = {}
    BY <1>4, <1>7
  <2>2. Plans!Cardinality({}) = 0
    BY FS_EmptySet, PlansCardinality
  <2> QED BY <1>1, <1>6, <2>1, <2>2
<1>8. CASE I # {}
  <2>1. PICK a \in I : \A y \in I : a <= y
    BY <1>5, <1>8, LeastExists
  <2>2. PICK z \in I : \A y \in I : y <= z
    BY <1>5, <1>8, GreatestExists
  <2>3. a \in 1..l /\ z \in 1..l /\ a <= z
    BY <2>1, <2>2
  <2>4. Plans!Cardinality(touched) <= z - a + 1
    <3> DEFINE T == {starts[n] : n \in a..z}
               f == [n \in a..z |-> starts[n]]
    <3>1. touched \subseteq T
      BY <1>4, <1>5, <2>1, <2>2
    <3>2. f \in Surjection(a..z, T)
      BY DEF Surjection
    <3>3. IsFiniteSet(a..z) /\ Cardinality(a..z) = z - a + 1
      BY <2>3, FS_Interval
    <3> HIDE DEF T, f
    <3>4. IsFiniteSet(T) /\ Cardinality(T) <= Cardinality(a..z)
      BY <3>2, <3>3, FS_Surjection
    <3>5. Cardinality(touched) <= Cardinality(T) /\ IsFiniteSet(touched)
      BY <3>1, <3>4, FS_Subset
    <3>6. Cardinality(touched) \in Nat /\ Cardinality(T) \in Nat
      BY <3>4, <3>5, FS_CardinalityType
    <3> QED BY <2>3, <3>3, <3>4, <3>5, <3>6, PlansCardinality
  <2>5. CASE a = z
    <3>1. Plans!Cardinality(touched) <= 1
      BY <2>3, <2>4, <2>5
    <3> QED BY <1>1, <1>6, <1>9, <3>1
  <2>6. CASE a < z
    <3> DEFINE u == starts[a + 1]
               v == starts[z]
               m == z - (a + 1)
    <3>1. a + 1 \in 1..l /\ a + 1 <= z /\ m \in Nat /\ u \in Int /\ v \in Int
      BY <1>2, <2>3, <2>6
    <3>2. v < q.to
      BY <2>2
    <3>3. u <= v
      <4>1. CASE a + 1 = z
        BY <3>1, <4>1
      <4>2. CASE a + 1 < z
        <5>1. z \in 1..l
          BY <2>3
        <5>2. u < v
          BY <1>2, <3>1, <4>2, <5>1
        <5> QED BY <3>1, <5>2
      <4> QED BY <2>3, <2>6, <4>1, <4>2
    <3>4. u > q.from
      <4>1. a < l
        BY <1>2, <2>3, <2>6
      <4>2. u < q.to
        <5> HIDE DEF u, v
        <5> QED BY <1>1, <3>1, <3>2, <3>3
      <4> QED BY <2>1, <4>1, <4>2
    <3>5. v - u >= (m - 1) * w
      <4>1. CASE a + 1 = z
        <5>1. v - u = 0 /\ m - 1 = -1
          BY <3>1, <4>1
        <5>2. (-1) * w <= 0
          BY <1>1
        <5> QED BY <5>1, <5>2
      <4>2. CASE a + 1 # z
        <5>1. v - u >= (z - (a + 1) - 1) * w
          BY <1>2, <2>3, <3>1, <4>2
        <5> QED BY <5>1
      <4> QED BY <4>1, <4>2
    <3>6. even => v - u >= m * w
      BY <1>1, <1>2, <2>3, <3>1, EvenSpans
    <3>7. plan.points = Plans!Points(d, w) /\ d \in Int /\ v - u <= d - 2
      BY <1>1, <3>1, <3>2, <3>4
    <3> HIDE DEF u, v, d
    <3>8. (m + 1) * w = m * w + w /\ m * w \in Int /\ (m - 1) * w = m * w - w
      BY <1>1, <3>1
    <3>9. CASE even
      <4>1. (m + 1) * w <= d + w - 1
        BY <1>1, <3>1, <3>6, <3>7, <3>8, <3>9
      <4> DEFINE k == m + 1
      <4>4. k \in Int /\ k * w <= d + w - 1
        BY <3>1, <4>1
      <4> HIDE DEF k
      <4>5. k + 1 <= plan.points
        BY <1>1, <3>7, <4>4, PointsAtLeast
      <4>2. m + 1 + 1 <= plan.points
        BY <4>5 DEF k
      <4>3. z - a + 1 = m + 1 + 1
        BY <2>3
      <4> QED BY <1>1, <1>6, <1>9, <2>3, <2>4, <3>1, <3>9, <4>2, <4>3
    <3>10. CASE ~even
      <4>1. m * w <= d + w - 1
        BY <1>1, <3>1, <3>5, <3>7, <3>8
      <4>4. m \in Int
        BY <3>1
      <4>5. m + 1 <= plan.points
        <5> HIDE DEF m
        <5> QED BY <1>1, <3>7, <4>1, <4>4, PointsAtLeast
      <4>2. m + 1 <= plan.points
        BY <4>5
      <4> QED BY <1>1, <1>6, <1>9, <2>3, <2>4, <3>1, <3>10, <4>2
    <3> QED BY <3>9, <3>10
  <2> QED BY <2>3, <2>5, <2>6
<1> QED BY <1>7, <1>8

(* The order an answer gives the fields in: the order of the set's own      *)
(* sequence, whichever it is.                                               *)
InSomeOrder(S) == CHOOSE order \in [1..Plans!Cardinality(S) -> S] : Plans!IsInjective(order)

(* Every element of a finite set once, in some order.                       *)
LEMMA InSomeOrderIs ==
  ASSUME NEW S, IsFiniteSet(S)
  PROVE LET f == InSomeOrder(S)
            n == Cardinality(S)
        IN /\ n \in Nat /\ f \in [1..n -> S] /\ \A j, k \in 1..n : j # k => f[j] # f[k]
           /\ {f[j] : j \in 1..n} = S
<1> DEFINE n == Cardinality(S)
           f == InSomeOrder(S)
<1>1. n \in Nat /\ ExistsBijection(1..n, S)
  BY FS_CardinalityType
<1>2. PICK b \in Bijection(1..n, S) : TRUE
  BY <1>1 DEF ExistsBijection
<1>3. b \in [1..n -> S] /\ Plans!IsInjective(b)
  BY <1>2 DEF Bijection, Injection, IsInjective, Plans!IsInjective
<1>4. f = CHOOSE g \in [1..n -> S] : Plans!IsInjective(g)
  BY PlansCardinality DEF InSomeOrder
<1> HIDE DEF n, f
<1>5. f \in [1..n -> S] /\ Plans!IsInjective(f)
  BY <1>3, <1>4
<1>6. f \in Injection(1..n, S)
  BY <1>5 DEF Injection, IsInjective, Plans!IsInjective
<1>7. IsFiniteSet(1..n) /\ Cardinality(1..n) = n
  BY <1>1, FS_Interval
<1>8. f \in Surjection(1..n, S)
  BY <1>6, <1>7, FS_Injection DEF n
<1>9. {f[j] : j \in 1..n} = S
  BY <1>5, <1>8 DEF Surjection
<1>10. \A j, k \in 1..n : j # k => f[j] # f[k]
  BY <1>5 DEF Plans!IsInjective
<1> QED BY <1>1, <1>5, <1>9, <1>10 DEF n, f

LEMMA AnswerPasses ==
  ASSUME NEW q, Asked(q), Plans!Plan(q).resolution # "raw"
  PROVE Plans!AnswerPasses(q, Starts(Plans!Plan(q).resolution, q.interval))
<1> DEFINE plan == Plans!Plan(q)
           starts == Starts(plan.resolution, q.interval)
           w == TakenToBe(plan.resolution, q.interval)
           inside == {n \in DOMAIN starts : starts[n] >= q.from /\ starts[n] < q.to}
           c == Plans!Cardinality(inside)
           points == [n \in 1..c |-> [at |-> starts[Plans!Min(inside) + n - 1], coverage |-> Full, origin |-> FALSE]]
           fields == InSomeOrder(plan.fields)
           series == [n \in DOMAIN fields |-> [field |-> fields[n], unit |-> Unit[fields[n]], points |-> points, gaps |-> {}]]
<1> SUFFICES ASSUME plan # Plans!NoPlan PROVE Plans!ValidSeries(series, plan, q)
  BY DEF Plans!AnswerPasses, InSomeOrder
<1>1. /\ w \in Nat /\ w > 0 /\ q.from < q.to /\ q.from \in Int /\ q.to \in Int /\ q.maximum \in Int
      /\ plan.points = Plans!Points(q.to - q.from, w) /\ plan.points <= q.maximum
      /\ IsCalendar(starts, w)
  BY BoundsOfPlan
<1>2. plan.fields = q.fields /\ IsFiniteSet(plan.fields)
  BY PlanIs DEF Planned, Asked
<1>3. plan.resolution # "raw"
  OBVIOUS
<1> HIDE DEF plan, starts, w
<1> DEFINE l == Len(starts)
<1>4. /\ starts \in Seq(Int) /\ l \in Nat /\ DOMAIN starts = 1..l /\ \A n \in 1..l : starts[n] \in Int
      /\ \A j, k \in 1..l : j < k => starts[j] < starts[k] /\ starts[k] - starts[j] >= (k - j - 1) * w
  <2>1. starts \in Seq(Int) /\ \A j, k \in DOMAIN starts : j < k => starts[j] < starts[k] /\ starts[k] - starts[j] >= (k - j - 1) * w
    BY <1>1, Zenon DEF IsCalendar
  <2>2. DOMAIN starts = 1..l /\ l \in Nat /\ \A n \in 1..l : starts[n] \in Int
    BY <2>1
  <2> QED BY <2>1, <2>2
<1> HIDE DEF l
<1>5. inside = {n \in 1..l : starts[n] >= q.from /\ starts[n] < q.to}
  BY <1>4
<1>6. IsFiniteSet(inside) /\ inside \subseteq Int /\ inside \subseteq 1..l
  <2>1. IsFiniteSet(1..l) /\ 1..l \subseteq Int /\ inside \in SUBSET (1..l)
    BY <1>4, <1>5, FS_Interval
  <2> HIDE DEF inside
  <2> QED BY <2>1, FS_Subset
<1> HIDE DEF inside
<1>7. /\ c \in Nat /\ c <= q.maximum + 2
      /\ \A n \in 1..c : Plans!Min(inside) + n - 1 \in inside
      /\ Plans!Min(inside) \in Int \/ c = 0
  <2>1. CASE inside = {}
    <3>1. c = 0
      BY <2>1, FS_EmptySet, PlansCardinality
    <3>2. 0 <= q.maximum + 2
      <4> DEFINE m == 0
                 d == q.to - q.from
      <4>1. m \in Int /\ d \in Int /\ m * w <= d + w - 1
        BY <1>1
      <4>2. plan.points = Plans!Points(d, w)
        BY <1>1
      <4> HIDE DEF m, d
      <4>3. m + 1 <= plan.points /\ plan.points \in Int
        BY <1>1, <4>1, <4>2, PointsAtLeast
      <4> QED BY <1>1, <4>3 DEF m
    <3> QED BY <3>1, <3>2
  <2>2. CASE inside # {}
    <3> DEFINE a == Plans!Min(inside)
    <3>1. a \in inside /\ \A y \in inside : a <= y
      BY <1>6, <2>2, MinIsLeast
    <3>2. PICK z \in inside : \A y \in inside : y <= z
      BY <1>6, <2>2, GreatestExists
    <3> HIDE DEF a
    <3>3. a \in 1..l /\ z \in 1..l /\ a <= z /\ starts[a] >= q.from /\ starts[z] < q.to
      BY <1>5, <3>1, <3>2
    <3>4. inside = a..z
      <4>1. ASSUME NEW n \in a..z PROVE n \in inside
        <5>1. n \in 1..l /\ starts[n] \in Int /\ starts[a] \in Int /\ starts[z] \in Int
          BY <1>4, <3>3
        <5>2. starts[a] <= starts[n]
          BY <1>4, <3>3, <5>1
        <5>3. starts[n] <= starts[z]
          <6>1. CASE n = z
            BY <5>1, <6>1
          <6>2. CASE n # z
            <7>1. n < z
              BY <3>3, <6>2
            <7>2. starts[n] < starts[z]
              BY <1>4, <3>3, <5>1, <7>1
            <7> QED BY <5>1, <7>2
          <6> QED BY <6>1, <6>2
        <5>4. starts[n] >= q.from /\ starts[n] < q.to
          BY <1>1, <3>3, <5>1, <5>2, <5>3
        <5> QED BY <1>5, <5>1, <5>4
      <4>2. ASSUME NEW n \in inside PROVE n \in a..z
        BY <1>6, <3>1, <3>2, <3>3
      <4> QED BY <4>1, <4>2
    <3>5. c = z - a + 1
      BY <3>3, <3>4, FS_Interval, PlansCardinality
    <3>6. c \in Nat /\ \A n \in 1..c : a + n - 1 \in inside
      BY <3>3, <3>4, <3>5
    <3>7. c <= q.maximum
      <4> DEFINE m == z - a
                 d == q.to - q.from
                 u == starts[a]
                 v == starts[z]
      <4>1. m \in Int /\ d \in Int /\ m + 1 = c /\ u \in Int /\ v \in Int
        BY <1>1, <1>4, <3>3, <3>5
      <4>2. v - u <= d - 1
        BY <1>1, <3>3, <4>1
      <4>3. v - u >= (m - 1) * w
        <5>1. CASE a = z
          <6>1. v - u = 0 /\ m - 1 = -1
            BY <3>3, <4>1, <5>1
          <6>2. (-1) * w <= 0
            BY <1>1
          <6> QED BY <6>1, <6>2
        <5>2. CASE a # z
          BY <1>4, <3>3, <5>2
        <5> QED BY <5>1, <5>2
      <4>4. plan.points = Plans!Points(d, w)
        BY <1>1
      <4> HIDE DEF m, d, u, v
      <4>5. (m - 1) * w = m * w - w /\ m * w \in Int
        BY <1>1, <4>1
      <4>6. m * w <= d + w - 1
        BY <1>1, <4>1, <4>2, <4>3, <4>5
      <4>7. m + 1 <= plan.points /\ plan.points \in Int
        BY <1>1, <4>1, <4>4, <4>6, PointsAtLeast
      <4> HIDE DEF c
      <4> QED BY <1>1, <3>6, <4>1, <4>7
    <3> HIDE DEF c
    <3> QED BY <1>1, <3>3, <3>6, <3>7 DEF a
  <2> QED BY <2>1, <2>2
<1> HIDE DEF c
<1> DEFINE b == Plans!Min(inside)
<1>8. DOMAIN points = 1..c /\ Len(points) = c /\ \A n \in 1..c : points[n] = [at |-> starts[b + n - 1], coverage |-> Full, origin |-> FALSE]
  BY <1>7
<1> HIDE DEF points
<1>9. Plans!ValidPoints(points, plan, q)
  <2>1. ASSUME NEW n \in 1..c PROVE points[n].at >= q.from /\ points[n].at < q.to /\ points[n].coverage <= Full /\ ~points[n].origin
    <3>1. b + n - 1 \in inside
      BY <1>7
    <3>2. starts[b + n - 1] >= q.from /\ starts[b + n - 1] < q.to
      BY <1>5, <3>1
    <3> QED BY <1>8, <3>2, SummaryConstants
  <2>2. ASSUME NEW n \in 1..c - 1 PROVE points[n].at < points[n + 1].at
    <3>1. n \in 1..c /\ n + 1 \in 1..c /\ b \in Int
      BY <1>7
    <3>2. b + n - 1 \in 1..l /\ b + (n + 1) - 1 \in 1..l
      BY <1>6, <1>7, <3>1
    <3>3. b + n - 1 < b + (n + 1) - 1
      BY <3>1
    <3>4. starts[b + n - 1] < starts[b + (n + 1) - 1]
      BY <1>4, <3>2, <3>3
    <3> QED BY <1>8, <3>1, <3>4
  <2> QED BY <1>3, <1>8, <2>1, <2>2 DEF Plans!ValidPoints
<1>10. LET m == Cardinality(plan.fields)
       IN /\ m \in Nat /\ fields \in [1..m -> plan.fields] /\ \A j, k \in 1..m : j # k => fields[j] # fields[k]
          /\ {fields[j] : j \in 1..m} = plan.fields
  BY <1>2, InSomeOrderIs
<1> DEFINE m == Cardinality(plan.fields)
<1> HIDE DEF fields, m
<1>11. DOMAIN fields = 1..m /\ \A n \in 1..m : fields[n] \in plan.fields
  BY <1>10 DEF m
<1>12. DOMAIN series = 1..m /\ \A n \in 1..m : series[n] = [field |-> fields[n], unit |-> Unit[fields[n]], points |-> points, gaps |-> {}]
  BY <1>11
<1> HIDE DEF series
<1>13. ASSUME NEW n \in 1..m
       PROVE /\ series[n].field \in plan.fields /\ series[n].unit = Unit[series[n].field]
             /\ Len(series[n].points) <= q.maximum + 2 /\ Plans!ValidPoints(series[n].points, plan, q)
             /\ \A g \in series[n].gaps : g.from >= q.from /\ g.to <= q.to /\ g.from < g.to
  BY <1>7, <1>8, <1>9, <1>11, <1>12
<1>14. \A k, n \in 1..m : k # n => series[k].field # series[n].field
  BY <1>10, <1>12 DEF m
<1>15. {series[n].field : n \in 1..m} = plan.fields
  BY <1>10, <1>12 DEF m
<1> QED BY <1>12, <1>13, <1>14, <1>15 DEF Plans!ValidSeries

LEMMA PlansHoldFor == ASSUME NEW q, Asked(q) PROVE PlansHold(q)
BY PlanIsFinest, SourcesCover, PlanIsBounded, AnswerPasses, Zenon DEF PlansHold

-----------------------------------------------------------------------------
(* Weather.                                                                 *)
LEMMA TransposedIsMonotone ==
  ASSUME NEW sun, {sun.ground, sun.beam, sun.sky} \subseteq Nat,
         NEW g \in Int, NEW d \in Int, NEW h \in Int, NEW g2 \in Int, NEW d2 \in Int, NEW h2 \in Int, g <= g2, d <= d2, h <= h2
  PROVE /\ Model!Transposed(g, d, h, sun) \in Int /\ Model!Transposed(g2, d2, h2, sun) \in Int
        /\ Model!Transposed(g, d, h, sun) <= Model!Transposed(g2, d2, h2, sun)
<1>1. CASE sun.up
  <2> DEFINE a == g * sun.ground + d * sun.beam + h * sun.sky + 5
             b == g2 * sun.ground + d2 * sun.beam + h2 * sun.sky + 5
  <2>1. g * sun.ground <= g2 * sun.ground /\ g * sun.ground \in Int /\ g2 * sun.ground \in Int
    BY TimesIsMonotone
  <2>2. d * sun.beam <= d2 * sun.beam /\ d * sun.beam \in Int /\ d2 * sun.beam \in Int
    BY TimesIsMonotone
  <2>3. h * sun.sky <= h2 * sun.sky /\ h * sun.sky \in Int /\ h2 * sun.sky \in Int
    BY TimesIsMonotone
  <2>4. a \in Int /\ b \in Int /\ a <= b
    BY <2>1, <2>2, <2>3
  <2>5. Model!Transposed(g, d, h, sun) = a \div 10 /\ Model!Transposed(g2, d2, h2, sun) = b \div 10
    BY <1>1 DEF Model!Transposed
  <2> HIDE DEF a, b
  <2> QED BY <2>4, <2>5
<1>2. CASE ~sun.up
  BY <1>2 DEF Model!Transposed
<1> QED BY <1>1, <1>2

LEMMA PlaneIsUsable ==
  ASSUME NEW p \in WeatherPoint, Model!ValidIrradiance(p), NEW sun, {sun.ground, sun.beam, sun.sky} \subseteq Nat,
         p.plane # Model!NoEstimate \/ (p.global # Model!NoEstimate /\ p.direct # Model!NoEstimate /\ p.diffuse # Model!NoEstimate)
  PROVE Model!PlaneOfArray(p, sun) # Model!NoEstimate /\ Model!Ordered(Model!PlaneOfArray(p, sun))
<1>1. CASE p.plane # Model!NoEstimate
  <2>1. Model!PlaneOfArray(p, sun) = p.plane
    BY <1>1 DEF Model!PlaneOfArray
  <2>2. Model!Ordered(p.plane)
    BY <1>1 DEF Model!ValidIrradiance
  <2> QED BY <1>1, <2>1, <2>2
<1>2. CASE p.plane = Model!NoEstimate
  <2> DEFINE g == p.global
             d == p.direct
             h == p.diffuse
             T(x, y, z) == Model!Transposed(x, y, z, sun)
             e == Model!PlaneOfArray(p, sun)
  <2>1. g # Model!NoEstimate /\ d # Model!NoEstimate /\ h # Model!NoEstimate
    BY <1>2
  <2>2. Model!Ordered(g) /\ Model!Ordered(d) /\ Model!Ordered(h)
    BY <2>1 DEF Model!ValidIrradiance
  <2>3. g \in Estimated(Int) /\ d \in Estimated(Int) /\ h \in Estimated(Int)
    BY <2>1 DEF WeatherPoint, Predicted
  <2>4. g.central # NotGiven /\ d.central # NotGiven /\ h.central # NotGiven
    BY <2>3, SummaryConstants DEF Estimated
  <2>5. e = [central |-> T(g.central, d.central, h.central),
             lower |-> IF g.lower # NotGiven /\ d.lower # NotGiven /\ h.lower # NotGiven THEN T(g.lower, d.lower, h.lower) ELSE NotGiven,
             upper |-> IF g.upper # NotGiven /\ d.upper # NotGiven /\ h.upper # NotGiven THEN T(g.upper, d.upper, h.upper) ELSE NotGiven]
    BY <1>2, <2>4 DEF Model!PlaneOfArray
  <2> HIDE DEF e, g, d, h
  <2>6. T(g.central, d.central, h.central) \in Int
    BY <2>3, TransposedIsMonotone DEF Estimated
  <2>7. e # Model!NoEstimate
    BY <2>5, <2>6, SummaryConstants DEF Model!NoEstimate
  <2>8. ASSUME g.lower # NotGiven /\ d.lower # NotGiven /\ h.lower # NotGiven PROVE T(g.lower, d.lower, h.lower) <= T(g.central, d.central, h.central)
    <3>1. g.lower \in Int /\ d.lower \in Int /\ h.lower \in Int /\ g.central \in Int /\ d.central \in Int /\ h.central \in Int
      BY <2>3, <2>8 DEF Estimated, MaybeGiven
    <3>2. g.lower <= g.central /\ d.lower <= d.central /\ h.lower <= h.central
      BY <2>2, <2>8 DEF Model!Ordered
    <3> QED BY <3>1, <3>2, TransposedIsMonotone
  <2>9. ASSUME g.upper # NotGiven /\ d.upper # NotGiven /\ h.upper # NotGiven PROVE T(g.central, d.central, h.central) <= T(g.upper, d.upper, h.upper)
    <3>1. g.upper \in Int /\ d.upper \in Int /\ h.upper \in Int /\ g.central \in Int /\ d.central \in Int /\ h.central \in Int
      BY <2>3, <2>9 DEF Estimated, MaybeGiven
    <3>2. g.central <= g.upper /\ d.central <= d.upper /\ h.central <= h.upper
      BY <2>2, <2>9 DEF Model!Ordered
    <3> QED BY <3>1, <3>2, TransposedIsMonotone
  <2>10. Model!Ordered(e)
    BY <2>5, <2>8, <2>9 DEF Model!Ordered
  <2> QED BY <2>7, <2>10 DEF e
<1> QED BY <1>1, <1>2

(* Intervals of which each begins when the one before is over.              *)
LEMMA InRow ==
  ASSUME NEW l \in Nat, NEW from, NEW to, \A n \in 1..l : from[n] \in Int /\ to[n] \in Int /\ from[n] <= to[n],
         \A n \in 2..l : to[n - 1] <= from[n], NEW j \in 1..l
  PROVE \A k \in 1..l : j < k => to[j] <= from[k]
<1> DEFINE T == {m \in Nat : j + m + 1 \in 1..l => to[j] <= from[j + m + 1]}
<1>1. 0 \in T
  <2> SUFFICES ASSUME j + 1 \in 1..l PROVE to[j] <= from[j + 1]
    OBVIOUS
  <2>1. j + 1 \in 2..l /\ (j + 1) - 1 = j
    OBVIOUS
  <2> QED BY <2>1
<1>2. ASSUME NEW m \in Nat, m \in T PROVE m + 1 \in T
  <2> DEFINE k == j + m + 1
  <2> SUFFICES ASSUME k + 1 \in 1..l PROVE to[j] <= from[k + 1]
    OBVIOUS
  <2>1. k \in 1..l /\ k + 1 \in 2..l /\ (k + 1) - 1 = k /\ k \in Int
    OBVIOUS
  <2>2. to[j] <= from[k]
    BY <1>2, <2>1
  <2> HIDE DEF k
  <2>3. to[k] <= from[k + 1]
    BY <2>1
  <2>4. from[k] <= to[k] /\ from[k] \in Int /\ to[k] \in Int /\ to[j] \in Int /\ from[k + 1] \in Int
    BY <2>1
  <2> QED BY <2>2, <2>3, <2>4
<1> HIDE DEF T
<1>3. \A m \in Nat : m \in T
  BY <1>1, <1>2, EveryNumber
<1> SUFFICES ASSUME NEW k \in 1..l, j < k PROVE to[j] <= from[k]
  OBVIOUS
<1>4. k - j - 1 \in Nat /\ j + (k - j - 1) + 1 = k
  OBVIOUS
<1> QED BY <1>3, <1>4 DEF T

LEMMA RunIsUsable ==
  ASSUME NEW run, run.points \in Seq(WeatherPoint), {run.resolution, run.fetched, run.from, run.to} \subseteq Int,
         NEW request, request.kind \in {"forecast", "observed"}, NEW sun, {sun.ground, sun.beam, sun.sky} \subseteq Nat
  PROVE Model!RunIsUsable(request, run, sun)
<1> DEFINE points == run.points
           l == Len(points)
<1> SUFFICES ASSUME Model!ValidResponse(request, run)
             PROVE /\ request.kind # "forecast" => \A n \in DOMAIN points : points[n].to <= run.fetched
                   /\ \A n \in DOMAIN points :
                        LET p == points[n]
                        IN /\ p.plane # Model!NoEstimate \/ (p.global # Model!NoEstimate /\ p.direct # Model!NoEstimate /\ p.diffuse # Model!NoEstimate)
                              => Model!PlaneOfArray(p, sun) # Model!NoEstimate /\ Model!Ordered(Model!PlaneOfArray(p, sun))
                           /\ \A k \in DOMAIN points : k # n => points[k].to <= p.from \/ p.to <= points[k].from
  BY DEF Model!RunIsUsable
<1>1. DOMAIN points = 1..l /\ l \in Nat /\ \A n \in 1..l : points[n] \in WeatherPoint
  OBVIOUS
<1>2. run.kind = request.kind /\ Model!ValidRun(run)
  BY DEF Model!ValidResponse
<1>3. \A n \in 1..l : /\ points[n].to <= run.to /\ points[n].to - points[n].from = run.resolution
                      /\ n > 1 => points[n - 1].to <= points[n].from
                      /\ Model!ValidIrradiance(points[n])
  BY <1>1, <1>2 DEF Model!ValidRun
<1>4. run.resolution > 0 /\ (run.kind = "observed" => run.to <= run.fetched)
  BY <1>2 DEF Model!ValidRun
<1> HIDE DEF points, l
<1>5. ASSUME request.kind # "forecast", NEW n \in 1..l PROVE points[n].to <= run.fetched
  <2>1. points[n].to \in Int /\ run.to \in Int /\ run.fetched \in Int
    BY <1>1 DEF WeatherPoint
  <2> QED BY <1>2, <1>3, <1>4, <1>5, <2>1
<1> DEFINE from == [n \in 1..l |-> points[n].from]
           to == [n \in 1..l |-> points[n].to]
<1>6. ASSUME NEW j \in 1..l PROVE \A k \in 1..l : j < k => points[j].to <= points[k].from
  <2>1. \A n \in 1..l : from[n] = points[n].from /\ to[n] = points[n].to
    OBVIOUS
  <2>2. \A n \in 1..l : from[n] \in Int /\ to[n] \in Int
    BY <1>1, <2>1 DEF WeatherPoint
  <2> HIDE DEF from, to
  <2>3. \A n \in 1..l : from[n] <= to[n]
    BY <1>3, <1>4, <2>1, <2>2, SMTT(30)
  <2>4. \A n \in 2..l : to[n - 1] <= from[n]
    <3> SUFFICES ASSUME NEW n \in 2..l PROVE to[n - 1] <= from[n]
      OBVIOUS
    <3>1. n \in 1..l /\ n - 1 \in 1..l /\ n > 1
      BY <1>1
    <3> QED BY <1>3, <2>1, <3>1
  <2>5. \A k \in 1..l : j < k => to[j] <= from[k]
    BY <1>1, <2>2, <2>3, <2>4, InRow
  <2> QED BY <2>1, <2>5
<1>7. ASSUME NEW n \in 1..l, NEW k \in 1..l, k # n PROVE points[k].to <= points[n].from \/ points[n].to <= points[k].from
  <2>1. k < n \/ n < k
    BY <1>7
  <2> QED BY <1>6, <2>1
<1>8. ASSUME NEW n \in 1..l,
             points[n].plane # Model!NoEstimate \/ (points[n].global # Model!NoEstimate /\ points[n].direct # Model!NoEstimate /\ points[n].diffuse # Model!NoEstimate)
      PROVE Model!PlaneOfArray(points[n], sun) # Model!NoEstimate /\ Model!Ordered(Model!PlaneOfArray(points[n], sun))
  BY <1>1, <1>3, <1>8, PlaneIsUsable
<1> QED BY <1>1, <1>5, <1>7, <1>8

-----------------------------------------------------------------------------
(* Walks along a sequence: what a fold from the left comes to is the last   *)
(* of as many stages as there are elements.                                 *)
Greatest(S) == CHOOSE x \in S : \A y \in S : x >= y

LEMMA GreatestIs == ASSUME NEW S, S \subseteq Int, IsFiniteSet(S), S # {} PROVE Greatest(S) \in S /\ \A y \in S : y <= Greatest(S)
<1>1. \E x \in S : \A y \in S : y <= x
  BY GreatestExists
<1>2. \E x \in S : \A y \in S : x >= y
  BY <1>1
<1>3. Greatest(S) \in S /\ \A y \in S : Greatest(S) >= y
  BY <1>2 DEF Greatest
<1> QED BY <1>3

LEMMA TopOfInterval == ASSUME NEW k \in Nat, k > 0 PROVE Greatest(1..k) = k /\ (1..k) \ {k} = 1..k - 1 /\ 1..k # {}
<1> DEFINE R == 1..k
           Q == 1..k - 1
<1>1. k \in R /\ \A y \in R : y \in Int /\ y <= k
  OBVIOUS
<1>2. \A y : y \in Q <=> y \in R /\ y # k
  OBVIOUS
<1>3. IsFiniteSet(R) /\ R \subseteq Int
  BY FS_Interval
<1> HIDE DEF R, Q
<1>4. Greatest(R) \in R /\ \A y \in R : y <= Greatest(R)
  BY <1>1, <1>3, GreatestIs
<1>5. Greatest(R) = k
  <2> DEFINE x == Greatest(R)
  <2>1. x \in R /\ k <= x
    BY <1>1, <1>4
  <2>2. x \in Int /\ x <= k
    BY <1>1, <2>1
  <2> HIDE DEF x
  <2>3. x = k
    BY <2>1, <2>2
  <2> QED BY <2>3 DEF x
<1>6. R \ {k} = Q
  BY <1>2
<1> QED BY <1>1, <1>5, <1>6 DEF R, Q

(* What op says of the elements there are, one after the other.             *)
Stage(g, op, base, s) == IF s = {} THEN base ELSE op[Greatest(s)][g[s \ {Greatest(s)}]]

Staged(S, V, op, base) == S \subseteq Int /\ IsFiniteSet(S) /\ base \in V /\ op \in [S -> [V -> V]]
HasStages(g, S, V, op, base) == g \in [SUBSET S -> V] /\ \A s \in SUBSET S : g[s] = Stage(g, op, base, s)

LEMMA StagesExist == ASSUME NEW S, NEW V, NEW op, NEW base, Staged(S, V, op, base) PROVE \E g : HasStages(g, S, V, op, base)
<1>0. S \subseteq Int /\ IsFiniteSet(S) /\ base \in V /\ op \in [S -> [V -> V]]
  BY DEF Staged
<1>3. ASSUME NEW s \in SUBSET S, s # {} PROVE Greatest(s) \in s
  <2>1. s \subseteq Int /\ IsFiniteSet(s)
    BY <1>0, FS_Subset
  <2> QED BY <1>3, <2>1, GreatestIs
<1>4. CASE S = {}
  <2> DEFINE g == [s \in SUBSET S |-> base]
  <2>1. HasStages(g, S, V, op, base)
    BY <1>0, <1>4 DEF Stage, HasStages
  <2> QED BY <2>1
<1>5. CASE S # {}
  <2> DEFINE any == CHOOSE x \in S : TRUE
             pick == [s \in SUBSET S |-> IF s = {} THEN any ELSE Greatest(s)]
  <2>1. pick \in [SUBSET S -> S] /\ \A s \in SUBSET S : s # {} => pick[s] \in s /\ pick[s] = Greatest(s)
    BY <1>3, <1>5
  <2> HIDE DEF pick
  <2>2. Foldable(S, V, base, op, pick)
    BY <1>0, <2>1 DEF Foldable
  <2>3. PICK g \in [SUBSET S -> V] : Folding(g, op, base, pick, SUBSET S)
    BY <2>2, FoldsExist
  <2>4. \A s \in SUBSET S : g[s] = Stage(g, op, base, s)
    BY <2>1, <2>3 DEF Folding, Stage
  <2> QED BY <2>3, <2>4 DEF HasStages
<1> QED BY <1>4, <1>5

-----------------------------------------------------------------------------
(* A string.                                                                *)
Loses(value, loss) == Model!RoundedRatio(value, Full - loss, Full)
Left(value, losses) == Model!Along(LAMBDA v, loss : Model!RoundedRatio(v, Full - loss, Full), value, losses)
IsLossWalk(a, value, losses) ==
  /\ a \in [0..Len(losses) -> Int] /\ a[0] = value
  /\ \A k \in 1..Len(losses) : a[k] = Loses(a[k - 1], losses[k])

LEMMA LosesIsInt == ASSUME NEW v \in Int, NEW loss \in 0..Full PROVE Loses(v, loss) \in Int
<1>1. Full \in Nat /\ Full > 0 /\ v * (Full - loss) \in Int
  BY SummaryConstants
<1> QED BY <1>1, RoundedIsNear DEF Loses, Model!RoundedRatio

LEMMA LossesWalk ==
  ASSUME NEW losses \in Seq(0..Full), NEW value \in Int PROVE \E a : IsLossWalk(a, value, losses) /\ Left(value, losses) = a[Len(losses)]
<1> DEFINE l == Len(losses)
           S == 1..l
           Next(g, s) == IF s = {} THEN value ELSE Loses(g[s \ {Greatest(s)}], losses[Greatest(s)])
           c == CHOOSE g : g = [s \in SUBSET S |-> Next(g, s)]
           op == [x \in S |-> [v \in Int |-> Loses(v, losses[x])]]
<1>1. l \in Nat /\ DOMAIN losses = S /\ \A x \in S : losses[x] \in 0..Full
  <2> DEFINE D == 0..Full
  <2>1. losses \in Seq(D)
    OBVIOUS
  <2> HIDE DEF D
  <2>2. Len(losses) \in Nat /\ DOMAIN losses = 1..Len(losses) /\ \A x \in 1..Len(losses) : losses[x] \in D
    BY <2>1
  <2> QED BY <2>2 DEF D
<1>2. Left(value, losses) = c[S]
  BY <1>1 DEF Left, Model!Along, Model!MapThenFoldSet, Model!Max, Greatest, Loses
<1> HIDE DEF l, c
<1>3. op \in [S -> [Int -> Int]] /\ \A x \in S, v \in Int : op[x][v] = Loses(v, losses[x])
  BY <1>1, LosesIsInt
<1> HIDE DEF op
<1>4. PICK g \in [SUBSET S -> Int] : \A s \in SUBSET S : g[s] = Stage(g, op, value, s)
  <2>1. IsFiniteSet(S) /\ S \subseteq Int
    BY <1>1, FS_Interval
  <2>2. Staged(S, Int, op, value)
    <3> HIDE DEF S
    <3> QED BY <1>3, <2>1 DEF Staged
  <2>3. \E g : HasStages(g, S, Int, op, value)
    BY <2>2, StagesExist
  <2> QED BY <2>3 DEF HasStages
<1>5. ASSUME NEW s \in SUBSET S PROVE g[s] = Next(g, s)
  <2>1. CASE s = {}
    BY <1>4, <2>1 DEF Stage
  <2>2. CASE s # {}
    <3> DEFINE x == Greatest(s)
    <3>1. x \in S
      <4>1. IsFiniteSet(S) /\ S \subseteq Int
        BY <1>1, FS_Interval
      <4> HIDE DEF S
      <4>2. IsFiniteSet(s) /\ s \subseteq Int
        BY <4>1, FS_Subset
      <4> QED BY <2>2, <4>2, GreatestIs
    <3>2. g[s] = op[x][g[s \ {x}]]
      BY <1>4, <2>2 DEF Stage
    <3> HIDE DEF x
    <3>3. g[s \ {x}] \in Int
      OBVIOUS
    <3>4. g[s] = Loses(g[s \ {x}], losses[x])
      BY <1>3, <3>1, <3>2, <3>3
    <3> QED BY <2>2, <3>4 DEF x
  <2> QED BY <2>1, <2>2
<1>6. \A s \in SUBSET S : c[s] = Next(c, s)
  <2> HIDE DEF Next, S
  <2>1. g = [s \in SUBSET S |-> Next(g, s)]
    BY <1>5
  <2>2. c = [s \in SUBSET S |-> Next(c, s)]
    BY <2>1, Zenon DEF c
  <2> QED BY <2>2
<1> DEFINE a == [k \in 0..l |-> c[1..k]]
<1>7. c[{}] = value
  BY <1>6
<1>8. ASSUME NEW k \in 1..l PROVE c[1..k] = Loses(c[1..k - 1], losses[k])
  <2>1. 1..k \in SUBSET S
    BY <1>1
  <2>2. Greatest(1..k) = k /\ (1..k) \ {k} = 1..k - 1 /\ 1..k # {}
    BY TopOfInterval
  <2>3. c[1..k] = Next(c, 1..k)
    BY <1>6, <2>1
  <2> HIDE DEF S
  <2> QED BY <2>2, <2>3
<1>9. 1..0 = {}
  OBVIOUS
<1> DEFINE T == {k \in Nat : k <= l => c[1..k] \in Int}
<1>10. 0 \in T
  BY <1>7, <1>9
<1>11. ASSUME NEW k \in Nat, k \in T PROVE k + 1 \in T
  <2> SUFFICES ASSUME k + 1 <= l PROVE c[1..k + 1] \in Int
    OBVIOUS
  <2>1. k <= l /\ k + 1 \in 1..l /\ (k + 1) - 1 = k
    BY <1>1
  <2>2. c[1..k] \in Int /\ losses[k + 1] \in 0..Full
    BY <1>1, <1>11, <2>1
  <2>3. c[1..k + 1] = Loses(c[1..k], losses[k + 1])
    <3> DEFINE m == k + 1
    <3>1. m \in 1..l /\ m - 1 = k
      BY <2>1
    <3> HIDE DEF m
    <3>2. c[1..m] = Loses(c[1..m - 1], losses[m])
      BY <1>8, <3>1
    <3> QED BY <3>1, <3>2 DEF m
  <2> QED BY <2>2, <2>3, LosesIsInt
<1> HIDE DEF T
<1>12. \A k \in Nat : k \in T
  BY <1>10, <1>11, EveryNumber
<1>13. a \in [0..l -> Int] /\ a[0] = value /\ \A k \in 1..l : a[k] = Loses(a[k - 1], losses[k])
  <2>1. \A k \in 0..l : a[k] = c[1..k]
    OBVIOUS
  <2>2. \A k \in 0..l : c[1..k] \in Int
    BY <1>1, <1>12 DEF T
  <2>3. a \in [0..l -> Int]
    BY <2>2
  <2> HIDE DEF a
  <2>4. 0 \in 0..l /\ \A k \in 1..l : k \in 0..l /\ k - 1 \in 0..l
    BY <1>1
  <2>5. a[0] = value
    BY <1>7, <1>9, <2>1, <2>4
  <2>6. ASSUME NEW k \in 1..l PROVE a[k] = Loses(a[k - 1], losses[k])
    BY <1>8, <2>1, <2>4
  <2> QED BY <2>3, <2>5, <2>6
<1>14. Left(value, losses) = a[l]
  BY <1>1, <1>2
<1> HIDE DEF a
<1> QED BY <1>13, <1>14 DEF IsLossWalk, l

LEMMA LossesKeepOrder ==
  ASSUME NEW losses \in Seq(0..Full), NEW v \in Int, NEW w \in Int, v <= w
  PROVE Left(v, losses) \in Int /\ Left(w, losses) \in Int /\ Left(v, losses) <= Left(w, losses)
<1> DEFINE l == Len(losses)
<1>1. l \in Nat /\ \A k \in 1..l : losses[k] \in 0..Full
  <2> DEFINE D == 0..Full
  <2>1. losses \in Seq(D)
    OBVIOUS
  <2> HIDE DEF D
  <2>2. Len(losses) \in Nat /\ DOMAIN losses = 1..Len(losses) /\ \A x \in 1..Len(losses) : losses[x] \in D
    BY <2>1
  <2> QED BY <2>2 DEF D
<1>2. PICK a : IsLossWalk(a, v, losses) /\ Left(v, losses) = a[l]
  BY LossesWalk
<1>3. PICK b : IsLossWalk(b, w, losses) /\ Left(w, losses) = b[l]
  BY LossesWalk
<1>4. a \in [0..l -> Int] /\ a[0] = v /\ \A k \in 1..l : a[k] = Loses(a[k - 1], losses[k])
  BY <1>2 DEF IsLossWalk
<1>5. b \in [0..l -> Int] /\ b[0] = w /\ \A k \in 1..l : b[k] = Loses(b[k - 1], losses[k])
  BY <1>3 DEF IsLossWalk
<1> HIDE DEF l
<1> DEFINE T == {k \in Nat : k <= l => a[k] <= b[k]}
<1>6. 0 \in T
  BY <1>4, <1>5
<1>7. ASSUME NEW k \in Nat, k \in T PROVE k + 1 \in T
  <2> SUFFICES ASSUME k + 1 <= l PROVE a[k + 1] <= b[k + 1]
    OBVIOUS
  <2> DEFINE m == k + 1
             share == Full - losses[m]
  <2>1. m \in 1..l /\ m - 1 = k /\ k \in 0..l
    BY <1>1
  <2>2. a[k] \in Int /\ b[k] \in Int /\ a[k] <= b[k]
    BY <1>1, <1>4, <1>5, <1>7, <2>1
  <2>3. a[m] = Loses(a[m - 1], losses[m]) /\ b[m] = Loses(b[m - 1], losses[m])
    <3> HIDE DEF m
    <3> QED BY <1>4, <1>5, <2>1
  <2>4. share \in Nat /\ Full \in Nat /\ Full > 0
    BY <1>1, <2>1, SummaryConstants
  <2>5. a[m] = Model!Rounded(a[k] * share, Full) /\ b[m] = Model!Rounded(b[k] * share, Full)
    BY <2>1, <2>3 DEF Loses, Model!RoundedRatio
  <2> HIDE DEF share, m
  <2>6. a[k] * share \in Int /\ b[k] * share \in Int /\ a[k] * share <= b[k] * share
    BY <2>2, <2>4, TimesIsMonotone
  <2>7. a[m] <= b[m]
    BY <2>4, <2>5, <2>6, RoundedIsMonotone
  <2> QED BY <2>7 DEF m
<1> HIDE DEF T
<1>8. \A k \in Nat : k \in T
  BY <1>6, <1>7, EveryNumber
<1>9. a[l] \in Int /\ b[l] \in Int /\ a[l] <= b[l]
  BY <1>1, <1>4, <1>5, <1>8 DEF T
<1> QED BY <1>2, <1>3, <1>9 DEF l

IsModelString(s) ==
  /\ s.nameplate \in Nat /\ s.plane \in Estimated(Int) /\ s.ambient \in Int /\ s.coefficient \in Int
  /\ s.losses \in Seq(0..Full) /\ s.calibration \in Int /\ -Full <= s.calibration
Factor(s, irradiance) ==
  Model!AtLeastZero(One + Model!Truncated(s.coefficient * (Model!ModuleTemperature(s.ambient, irradiance) - Warmth), 1000))
Warmed(s, irradiance) == Model!RoundedRatio(Model!RoundedRatio(s.nameplate, irradiance, Standard), Factor(s, irradiance), One)
Calibrated(s, left) == Model!Capped(Model!AtLeastZero(Model!RoundedRatio(left, Full + s.calibration, Full)), Model!MostDc(s.nameplate))

LEMMA DcValueIs == ASSUME NEW s, NEW i PROVE Model!DcValue(s, i) = Calibrated(s, Left(Warmed(s, i), s.losses))
BY Zenon DEF Model!DcValue, Calibrated, Left, Warmed, Factor

LEMMA WarmedIsInt == ASSUME NEW s, IsModelString(s), NEW i \in Int PROVE Factor(s, i) \in Nat /\ Warmed(s, i) \in Int
<1>1. /\ s.nameplate \in Nat /\ s.ambient \in Int /\ s.coefficient \in Int
      /\ One \in Nat /\ One > 0 /\ Standard \in Nat /\ Standard > 0 /\ RiseAt \in Nat /\ RiseAt > 0 /\ Rise \in Int /\ Warmth \in Int
  BY ModelConstants DEF IsModelString
<1>2. Factor(s, i) \in Nat
  <2> DEFINE t == Model!ModuleTemperature(s.ambient, i) - Warmth
  <2>1. i * Rise \in Int
    BY <1>1
  <2>2. (i * Rise) \div RiseAt \in Int
    BY <1>1, <2>1, QuotientIs
  <2>3. t \in Int
    BY <1>1, <2>2 DEF Model!ModuleTemperature
  <2> HIDE DEF t
  <2> DEFINE p == s.coefficient * t
  <2>4. p \in Int
    BY <1>1, <2>3
  <2> HIDE DEF p
  <2>5. Model!Truncated(p, 1000) \in Int
    BY <2>4, TruncatedBounds
  <2>6. Model!AtLeastZero(One + Model!Truncated(p, 1000)) \in Nat
    BY <1>1, <2>5 DEF Model!AtLeastZero
  <2> QED BY <2>6 DEF Factor, p, t
<1>3. Model!RoundedRatio(s.nameplate, i, Standard) \in Int
  <2>1. s.nameplate * i \in Int
    BY <1>1
  <2> QED BY <1>1, <2>1, RoundedIsNear DEF Model!RoundedRatio
<1>4. Warmed(s, i) \in Int
  <2> DEFINE v == Model!RoundedRatio(s.nameplate, i, Standard)
             f == Factor(s, i)
  <2>1. v \in Int /\ f \in Nat
    BY <1>2, <1>3
  <2> HIDE DEF v, f
  <2>2. v * f \in Int
    BY <2>1
  <2>3. Model!Rounded(v * f, One) \in Int
    BY <1>1, <2>2, RoundedIsNear
  <2> QED BY <2>3 DEF Warmed, Model!RoundedRatio, v, f
<1> QED BY <1>2, <1>4

LEMMA MostDcIsNat == ASSUME NEW nameplate \in Nat PROVE Model!MostDc(nameplate) \in Nat
<1>1. nameplate * MostOfNameplate \in Nat /\ Full \in Nat /\ Full > 0
  BY ModelConstants, SummaryConstants
<1>2. Model!Rounded(nameplate * MostOfNameplate, Full) \in Int /\ Model!Rounded(nameplate * MostOfNameplate, Full) >= 0
  BY <1>1, RoundedIsNear
<1> QED BY <1>2 DEF Model!MostDc, Model!RoundedRatio

(* The calibration and the cap keep the order.                              *)
LEMMA CalibratedKeepsOrder ==
  ASSUME NEW s, IsModelString(s), NEW v \in Int, NEW w \in Int, v <= w
  PROVE Calibrated(s, v) \in 0..Model!MostDc(s.nameplate) /\ Calibrated(s, w) \in Int /\ Calibrated(s, v) <= Calibrated(s, w)
<1> DEFINE share == Full + s.calibration
           most == Model!MostDc(s.nameplate)
           x == Model!Rounded(v * share, Full)
           y == Model!Rounded(w * share, Full)
<1>1. share \in Nat /\ Full \in Nat /\ Full > 0 /\ most \in Nat
  <2>1. s.calibration \in Int /\ -Full <= s.calibration /\ s.nameplate \in Nat
    BY DEF IsModelString
  <2>2. Full \in Nat /\ Full > 0
    BY SummaryConstants
  <2>3. most \in Nat
    BY <2>1, MostDcIsNat
  <2> HIDE DEF most
  <2> QED BY <2>1, <2>2, <2>3
<1> HIDE DEF share, most
<1>2. v * share \in Int /\ w * share \in Int /\ v * share <= w * share
  BY <1>1, TimesIsMonotone
<1>3. x \in Int /\ y \in Int /\ x <= y
  BY <1>1, <1>2, RoundedIsNear, RoundedIsMonotone
<1>4. Calibrated(s, v) = Model!Capped(Model!AtLeastZero(x), most) /\ Calibrated(s, w) = Model!Capped(Model!AtLeastZero(y), most)
  BY DEF Calibrated, Model!RoundedRatio, share, most
<1> HIDE DEF x, y
<1>5. Calibrated(s, v) \in 0..most /\ Calibrated(s, w) \in Int /\ Calibrated(s, v) <= Calibrated(s, w)
  BY <1>1, <1>3, <1>4 DEF Model!Capped, Model!AtLeastZero
<1> QED BY <1>5 DEF most

LEMMA DcKeepsOrder ==
  ASSUME NEW s, IsModelString(s), NEW i \in Int, NEW j \in Int, i <= j, s.coefficient = 0
  PROVE Model!DcValue(s, i) <= Model!DcValue(s, j)
<1>1. /\ s.nameplate \in Nat /\ s.ambient \in Int /\ s.losses \in Seq(0..Full)
      /\ One \in Nat /\ One > 0 /\ Standard \in Nat /\ Standard > 0
  BY ModelConstants DEF IsModelString
<1>2. ASSUME NEW k \in Int PROVE Factor(s, k) = One
  <2> DEFINE t == Model!ModuleTemperature(s.ambient, k) - Warmth
  <2>1. k * Rise \in Int /\ RiseAt \in Nat /\ RiseAt > 0 /\ Warmth \in Int
    BY ModelConstants
  <2>2. (k * Rise) \div RiseAt \in Int
    BY <2>1, QuotientIs
  <2>3. t \in Int
    BY <1>1, <2>1, <2>2 DEF Model!ModuleTemperature
  <2> HIDE DEF t
  <2>4. s.coefficient * t = 0
    BY <2>3
  <2>5. Model!Truncated(0, 1000) = 0
    BY DEF Model!Truncated
  <2>6. Factor(s, k) = Model!AtLeastZero(One + 0)
    BY <2>4, <2>5 DEF Factor, t
  <2> QED BY <1>1, <2>6 DEF Model!AtLeastZero
<1> DEFINE a == Model!RoundedRatio(s.nameplate, i, Standard)
           b == Model!RoundedRatio(s.nameplate, j, Standard)
<1>3. a \in Int /\ b \in Int /\ a <= b
  <2>1. i * s.nameplate <= j * s.nameplate /\ i * s.nameplate \in Int /\ j * s.nameplate \in Int
    BY <1>1, TimesIsMonotone
  <2>2. s.nameplate * i \in Int /\ s.nameplate * j \in Int /\ s.nameplate * i <= s.nameplate * j
    BY <1>1, <2>1
  <2> QED BY <1>1, <2>2, RoundedIsNear, RoundedIsMonotone DEF Model!RoundedRatio
<1>4. Warmed(s, i) = Model!Rounded(a * One, One) /\ Warmed(s, j) = Model!Rounded(b * One, One)
  BY <1>2 DEF Warmed, Model!RoundedRatio
<1> HIDE DEF a, b
<1>5. a * One <= b * One /\ a * One \in Int /\ b * One \in Int
  BY <1>1, <1>3, TimesIsMonotone
<1>6. Warmed(s, i) <= Warmed(s, j) /\ Warmed(s, i) \in Int /\ Warmed(s, j) \in Int
  BY <1>1, <1>4, <1>5, RoundedIsMonotone, WarmedIsInt
<1> DEFINE v == Left(Warmed(s, i), s.losses)
           w == Left(Warmed(s, j), s.losses)
<1>7. v \in Int /\ w \in Int /\ v <= w
  BY <1>1, <1>6, LossesKeepOrder
<1>8. Model!DcValue(s, i) = Calibrated(s, v) /\ Model!DcValue(s, j) = Calibrated(s, w)
  BY DcValueIs
<1> HIDE DEF v, w
<1> QED BY <1>7, <1>8, CalibratedKeepsOrder

LEMMA DcIsCapped == ASSUME NEW s, IsModelString(s), NEW i \in Int PROVE Model!DcValue(s, i) \in 0..Model!MostDc(s.nameplate)
<1>1. Warmed(s, i) \in Int /\ s.losses \in Seq(0..Full)
  BY WarmedIsInt DEF IsModelString
<1>2. Left(Warmed(s, i), s.losses) \in Int
  BY <1>1, LossesKeepOrder
<1> QED BY <1>2, DcValueIs, CalibratedKeepsOrder

LEMMA DcIsBounded == ASSUME NEW s, IsModelString(s) PROVE Model!DcIsBounded(s)
<1> DEFINE dc == Model!StringDc(s)
           e == s.plane
           D(i) == Model!DcValue(s, i)
<1>1. dc.power = [central |-> D(e.central), lower |-> IF e.lower = NotGiven THEN NotGiven ELSE D(e.lower), upper |-> IF e.upper = NotGiven THEN NotGiven ELSE D(e.upper)]
  BY DEF Model!StringDc, Model!Estimates
<1> HIDE DEF dc
<1>2. e.central \in Int /\ (e.lower = NotGiven \/ e.lower \in Int) /\ (e.upper = NotGiven \/ e.upper \in Int)
  BY DEF IsModelString, Estimated, MaybeGiven
<1>3. \A i \in Int : D(i) \in 0..Model!MostDc(s.nameplate) /\ D(i) # NotGiven
  <2> SUFFICES ASSUME NEW i \in Int PROVE D(i) \in 0..Model!MostDc(s.nameplate) /\ D(i) # NotGiven
    OBVIOUS
  <2>1. D(i) \in 0..Model!MostDc(s.nameplate) /\ Model!MostDc(s.nameplate) \in Nat
    BY DcIsCapped, MostDcIsNat DEF IsModelString
  <2>2. D(i) \in Int
    BY <2>1
  <2> QED BY <2>1, <2>2, SummaryConstants
<1>4. dc.power.central \in 0..Model!MostDc(s.nameplate)
  BY <1>1, <1>2, <1>3
<1>5. (dc.power.lower = NotGiven) = (e.lower = NotGiven)
  BY <1>1, <1>2, <1>3
<1>6. ASSUME s.coefficient = 0, Model!Ordered(e) PROVE Model!Ordered(dc.power)
  <2>1. e.lower # NotGiven => D(e.lower) <= D(e.central)
    BY <1>2, <1>6, DcKeepsOrder DEF Model!Ordered
  <2>2. e.upper # NotGiven => D(e.central) <= D(e.upper)
    BY <1>2, <1>6, DcKeepsOrder DEF Model!Ordered
  <2> QED BY <1>1, <2>1, <2>2 DEF Model!Ordered
<1> QED BY <1>4, <1>5, <1>6 DEF Model!DcIsBounded, dc

-----------------------------------------------------------------------------
(* Summaries.                                                               *)
LEMMA SumsFunctionIs ==
  ASSUME NEW S, IsFiniteSet(S), NEW h, h = [x \in S |-> h[x]], \A x \in S : h[x] \in Int PROVE Sums!SumFunction(h) = SumOver(h, S)
<1> DEFINE c == CHOOSE g : g = [s \in SUBSET S |-> SumStep(h, g, s)]
<1>0. DOMAIN h = S
  OBVIOUS
<1>1. Sums!SumFunction(h) = c[S]
  BY <1>0 DEF Sums!SumFunction, Sums!SumFunctionOnSet, Sums!FoldFunctionOnSet, Sums!MapThenFoldSet, SumStep
<1>2. HasSums(SumTable(h, S), h, S)
  BY SumsExist
<1>3. SumTable(h, S) = [s \in SUBSET S |-> SumStep(h, SumTable(h, S), s)]
  BY <1>2 DEF HasSums
<1>4. c = [s \in SUBSET S |-> SumStep(h, c, s)]
  BY <1>3, Zenon
<1> HIDE DEF c
<1>5. \A s \in SUBSET S : c[s] = SumStep(h, c, s)
  BY <1>4
<1> QED BY <1>1, <1>5, SumsAgree

LEMMA SumOfZeros == ASSUME NEW S, IsFiniteSet(S), NEW f, \A x \in S : f[x] = 0 PROVE SumOver(f, S) = 0
<1>1. \A x \in S : f[x] \in Int /\ f[x] = f[x] + f[x]
  OBVIOUS
<1>2. SumOver(f, S) = SumOver(f, S) + SumOver(f, S)
  BY <1>1, SumPlus
<1>3. SumOver(f, S) \in Int
  BY <1>1, SumIsInt
<1>4. \A n \in Int : n = n + n => n = 0
  OBVIOUS
<1> QED BY <1>2, <1>3, <1>4, Zenon

LEMMA SumOfOne == ASSUME NEW x, NEW f, f[x] \in Int PROVE SumOver(f, {x}) = f[x]
<1> DEFINE S == {x}
<1>1. IsFiniteSet(S) /\ x \in S /\ \A y \in S : f[y] \in Int
  BY FS_Singleton
<1>2. S \ {x} = {}
  OBVIOUS
<1> HIDE DEF S
<1>3. SumOver(f, S) = f[x] + SumOver(f, S \ {x})
  BY <1>1, SumAdds
<1>4. SumOver(f, S \ {x}) = 0
  BY <1>2, SumOfNone
<1> QED BY <1>3, <1>4 DEF S

LEMMA LeastOfSums ==
  ASSUME NEW S, S \subseteq Int, IsFiniteSet(S), S # {} PROVE Sums!Min(S) \in S /\ \A y \in S : Sums!Min(S) <= y
<1>1. \E x \in S : \A y \in S : x <= y
  BY LeastExists
<1>2. \E x \in S : \A y \in S : x =< y
  BY <1>1
<1> QED BY <1>2 DEF Sums!Min

Dailies == UNION {[D -> DaySummary] : D \in {E \in SUBSET Int : IsFiniteSet(E)}}
SummaryStates == [daily : Dailies, lifetime : SUBSET {Sums!Lifetime(daily) : daily \in Dailies}, stale : SUBSET Int]
SummaryChange == [kind : {"invalidate", "reconcile"}, day : Int, aggregate : DaySummary]

LEMMA AppliedKeeps == ASSUME NEW p \in SummaryStates, NEW op \in SummaryChange PROVE Sums!Applied(p, op) \in SummaryStates
<1>1. op.day \in Int /\ op.aggregate \in DaySummary
  BY DEF SummaryChange
<1>2. CASE op.kind = "invalidate"
  BY <1>1, <1>2 DEF Sums!Applied, Sums!Invalidate, SummaryStates
<1>3. CASE op.kind # "invalidate"
  <2>1. PICK D \in SUBSET Int : IsFiniteSet(D) /\ p.daily \in [D -> DaySummary]
    BY DEF SummaryStates, Dailies
  <2> DEFINE daily == [d \in DOMAIN p.daily \cup {op.day} |-> IF d = op.day THEN op.aggregate ELSE p.daily[d]]
  <2>2. IsFiniteSet(D \cup {op.day}) /\ D \cup {op.day} \in SUBSET Int
    BY <1>1, <2>1, FS_AddElement
  <2>3. daily \in [D \cup {op.day} -> DaySummary]
    BY <1>1, <2>1
  <2>4. daily \in Dailies
    BY <2>2, <2>3 DEF Dailies
  <2>5. Sums!Applied(p, op) = [daily |-> daily, stale |-> p.stale \ {op.day}, lifetime |-> {Sums!Lifetime(daily)}]
    BY <1>3 DEF Sums!Applied, Sums!Reconcile
  <2> HIDE DEF daily
  <2> QED BY <2>4, <2>5 DEF SummaryStates
<1> QED BY <1>2, <1>3

LEMMA NoSummariesYet == Sums!NoSummaries \in SummaryStates
<1>1. << >> \in [{} -> DaySummary]
  OBVIOUS
<1>2. {} \in SUBSET Int /\ IsFiniteSet({})
  BY FS_EmptySet
<1>3. << >> \in Dailies
  BY <1>1, <1>2 DEF Dailies
<1> QED BY <1>3 DEF Sums!NoSummaries, SummaryStates

(* After some changes the last one has been applied to what there was.      *)
LEMMA AppliedLast ==
  ASSUME NEW ops \in Seq(SummaryChange), ops # <<>>
  PROVE LET p == Sums!Along(Sums!Applied, Sums!NoSummaries, ops)
        IN p \in SummaryStates /\ \E before \in SummaryStates : p = Sums!Applied(before, ops[Len(ops)])
<1> DEFINE l == Len(ops)
           S == 1..l
           V == SummaryStates
           base == Sums!NoSummaries
           Next(g, s) == IF s = {} THEN base ELSE Sums!Applied(g[s \ {Greatest(s)}], ops[Greatest(s)])
           c == CHOOSE g : g = [s \in SUBSET S |-> Next(g, s)]
           op == [x \in S |-> [p \in V |-> Sums!Applied(p, ops[x])]]
<1>1. l \in Nat /\ l > 0 /\ DOMAIN ops = S /\ \A x \in S : ops[x] \in SummaryChange
  OBVIOUS
<1>2. Sums!Along(Sums!Applied, Sums!NoSummaries, ops) = c[S]
  BY <1>1 DEF Sums!Along, Sums!MapThenFoldSet, Sums!Max, Greatest
<1> HIDE DEF l, c
<1>3. op \in [S -> [V -> V]] /\ \A x \in S, p \in V : op[x][p] = Sums!Applied(p, ops[x])
  BY <1>1, AppliedKeeps
<1>4. IsFiniteSet(S) /\ S \subseteq Int /\ l \in S /\ base \in V
  BY <1>1, FS_Interval, NoSummariesYet
<1> HIDE DEF op, S, V, base
<1>5. PICK g : HasStages(g, S, V, op, base)
  <2>1. Staged(S, V, op, base)
    BY <1>3, <1>4 DEF Staged
  <2> QED BY <2>1, StagesExist
<1>6. g \in [SUBSET S -> V] /\ \A s \in SUBSET S : g[s] = Stage(g, op, base, s)
  BY <1>5 DEF HasStages
<1>7. ASSUME NEW s \in SUBSET S PROVE g[s] = Next(g, s)
  <2>1. CASE s = {}
    BY <1>6, <2>1 DEF Stage
  <2>2. CASE s # {}
    <3> DEFINE x == Greatest(s)
    <3>1. x \in S
      <4>1. IsFiniteSet(s) /\ s \subseteq Int
        BY <1>4, FS_Subset
      <4> QED BY <2>2, <4>1, GreatestIs
    <3>2. g[s] = op[x][g[s \ {x}]]
      BY <1>6, <2>2 DEF Stage
    <3> HIDE DEF x
    <3>3. g[s \ {x}] \in V
      BY <1>6
    <3>4. g[s] = Sums!Applied(g[s \ {x}], ops[x])
      BY <1>3, <3>1, <3>2, <3>3
    <3> QED BY <2>2, <3>4 DEF x
  <2> QED BY <2>1, <2>2
<1>8. \A s \in SUBSET S : c[s] = Next(c, s)
  <2> HIDE DEF Next
  <2>1. g = [s \in SUBSET S |-> Next(g, s)]
    BY <1>6, <1>7
  <2>2. c = [s \in SUBSET S |-> Next(c, s)]
    BY <2>1, Zenon DEF c
  <2> QED BY <2>2
<1>9. \A s \in SUBSET S : c[s] \in V
  <2> DEFINE Bad == {s \in SUBSET S : c[s] \notin V}
  <2>1. ASSUME Bad # {} PROVE FALSE
    <3>1. PICK s \in Bad : \A r \in Bad : r \subseteq s => r = s
      <4>1. Bad \subseteq SUBSET S
        OBVIOUS
      <4>2. IsFiniteSet(S)
        BY <1>4
      <4> HIDE DEF Bad
      <4> QED BY ONLY <2>1, <4>1, <4>2, SmallestOne
    <3>2. s \in SUBSET S /\ c[s] \notin V /\ c[s] = Next(c, s)
      <4> HIDE DEF Next
      <4> QED BY <1>8, <3>1
    <3>3. s # {}
      BY <1>4, <3>2
    <3> DEFINE x == Greatest(s)
    <3>4. x \in s
      <4>1. IsFiniteSet(s) /\ s \subseteq Int
        BY <1>4, <3>2, FS_Subset
      <4> QED BY <3>3, <4>1, GreatestIs
    <3>5. c[s] = Sums!Applied(c[s \ {x}], ops[x])
      BY <3>2, <3>3
    <3> HIDE DEF x
    <3>6. c[s \ {x}] \in V
      BY <3>1, <3>2, <3>4
    <3>7. ops[x] \in SummaryChange
      BY <1>1, <3>2, <3>4
    <3> QED BY <3>2, <3>5, <3>6, <3>7, AppliedKeeps DEF V
  <2> QED BY <2>1
<1>10. Greatest(S) = l
  BY <1>1, TopOfInterval DEF S
<1>11. c[S] = Sums!Applied(c[S \ {l}], ops[l])
  <2>1. c[S] = Next(c, S)
    <3> HIDE DEF Next
    <3> QED BY <1>8
  <2>2. S # {}
    BY <1>4
  <2> QED BY <1>10, <2>1, <2>2
<1>12. c[S] \in V /\ c[S \ {l}] \in V
  BY <1>9
<1> QED BY <1>2, <1>11, <1>12 DEF V, l

LEMMA ModeledActual ==
  ASSUME NEW p \in SummaryStates, NEW days, IsFiniteSet(days)
  PROVE LET gen == [d \in DOMAIN p.daily |-> p.daily[d].generation]
        IN Sums!ModeledSummary(p, days).actual = SumOver(gen, DOMAIN p.daily \cap days)
<1> DEFINE gen == [d \in DOMAIN p.daily |-> p.daily[d].generation]
           chosen == DOMAIN p.daily \cap days
           h == [d \in chosen |-> p.daily[d].generation]
<1>1. Sums!ModeledSummary(p, days).actual = Sums!SumFunction(h)
  BY DEF Sums!ModeledSummary
<1>2. PICK D \in SUBSET Int : IsFiniteSet(D) /\ p.daily \in [D -> DaySummary]
  BY DEF SummaryStates, Dailies
<1>3. \A d \in chosen : h[d] \in Int /\ gen[d] = h[d]
  BY <1>2 DEF DaySummary
<1>4. IsFiniteSet(chosen)
  <2>1. chosen \in SUBSET D
    BY <1>2
  <2> HIDE DEF chosen
  <2> QED BY <1>2, <2>1, FS_Subset
<1>5. h = [d \in chosen |-> h[d]]
  OBVIOUS
<1> HIDE DEF h, chosen, gen
<1>6. Sums!SumFunction(h) = SumOver(h, chosen)
  BY <1>3, <1>4, <1>5, SumsFunctionIs
<1>7. SumOver(h, chosen) = SumOver(gen, chosen)
  BY <1>3, <1>4, SumsEqual
<1> QED BY <1>1, <1>6, <1>7 DEF gen, chosen

LEMMA ActualAddsUp ==
  ASSUME NEW p \in SummaryStates, NEW days, IsFiniteSet(days)
  PROVE Sums!ModeledSummary(p, days).actual = Sums!SumFunction([d \in days |-> Sums!ModeledSummary(p, {d}).actual])
<1> DEFINE gen == [d \in DOMAIN p.daily |-> p.daily[d].generation]
           D == DOMAIN p.daily
           h == [d \in days |-> Sums!ModeledSummary(p, {d}).actual]
<1>1. \A d \in D : gen[d] \in Int
  <2>1. PICK E \in SUBSET Int : IsFiniteSet(E) /\ p.daily \in [E -> DaySummary]
    BY DEF SummaryStates, Dailies
  <2> QED BY <2>1 DEF DaySummary
<1>2. Sums!ModeledSummary(p, days).actual = SumOver(gen, D \cap days)
  BY ModeledActual
<1>3. ASSUME NEW d \in days PROVE h[d] = IF d \in D THEN gen[d] ELSE 0
  <2>1. IsFiniteSet({d})
    BY FS_Singleton
  <2>2. Sums!ModeledSummary(p, {d}).actual = SumOver(gen, D \cap {d})
    BY <2>1, ModeledActual
  <2> HIDE DEF gen
  <2>3. CASE d \in D
    <3>1. D \cap {d} = {d}
      BY <2>3
    <3> HIDE DEF D
    <3>2. SumOver(gen, {d}) = gen[d]
      BY <1>1, <2>3, SumOfOne
    <3> QED BY <2>2, <2>3, <3>1, <3>2
  <2>4. CASE d \notin D
    <3>1. D \cap {d} = {}
      BY <2>4
    <3> QED BY <2>2, <2>4, <3>1, SumOfNone
  <2> QED BY <2>3, <2>4
<1>4. h = [d \in days |-> h[d]]
  OBVIOUS
<1> HIDE DEF gen, D, h
<1>5. \A d \in days : h[d] \in Int
  BY <1>1, <1>3
<1>6. Sums!SumFunction(h) = SumOver(h, days)
  BY <1>4, <1>5, SumsFunctionIs
<1> DEFINE A == D \cap days
           B == days \ D
<1>7. days = A \cup B /\ A \cap B = {} /\ A \in SUBSET days /\ B \in SUBSET days
  OBVIOUS
<1>8. IsFiniteSet(A) /\ IsFiniteSet(B)
  <2> HIDE DEF A, B
  <2> QED BY <1>7, FS_Subset
<1>9. (\A d \in A : h[d] = gen[d] /\ h[d] \in Int) /\ \A d \in B : h[d] = 0
  BY <1>3, <1>5
<1> HIDE DEF A, B
<1>10. SumOver(h, A \cup B) = SumOver(h, A) + SumOver(h, B)
  BY <1>5, <1>7, <1>8, SumsJoin
<1>11. SumOver(h, B) = 0
  BY <1>8, <1>9, SumOfZeros
<1>12. SumOver(h, A) = SumOver(gen, A)
  BY <1>8, <1>9, SumsEqual
<1>13. SumOver(h, A) \in Int
  BY <1>8, <1>9, SumIsInt
<1>14. Sums!SumFunction(h) = SumOver(gen, A)
  BY <1>6, <1>7, <1>10, <1>11, <1>12, <1>13
<1>15. Sums!SumFunction(h) = Sums!ModeledSummary(p, days).actual
  BY <1>2, <1>14 DEF A
<1> QED BY <1>15, Zenon DEF h

LEMMA RatioComparesTheSame ==
  ASSUME NEW p \in SummaryStates, NEW days, IsFiniteSet(days), Sums!ModeledSummary(p, days).ratio # NotGiven, NEW d \in DOMAIN p.daily \cap days
  PROVE p.daily[d].expected # NotGiven /\ p.daily[d].coverage > 0
<1> DEFINE chosen == DOMAIN p.daily \cap days
           C == {[x \in chosen |-> p.daily[x].coverage][y] : y \in chosen} \ {NotGiven}
           M == {[x \in chosen |-> p.daily[x].modeled][y] : y \in chosen} \ {NotGiven}
           actual == Sums!ModeledSummary(p, days).actual
           expected == Sums!ModeledSummary(p, days).expected
<1>1. Sums!ModeledSummary(p, days).ratio = Sums!Ratio(actual, expected, Sums!Min(C), Sums!Min(M))
  BY DEF Sums!ModeledSummary
<1> HIDE DEF actual, expected
<1>2. Sums!Min(C) # 0 /\ Sums!Min(M) # 0
  BY <1>1 DEF Sums!Ratio
<1>3. PICK D \in SUBSET Int : IsFiniteSet(D) /\ p.daily \in [D -> DaySummary]
  BY DEF SummaryStates, Dailies
<1>4. \A x \in chosen : /\ p.daily[x].coverage \in Nat /\ p.daily[x].modeled \in Nat
                        /\ p.daily[x].expected = NotGiven => p.daily[x].modeled = 0
  BY <1>3 DEF DaySummary
<1>5. C = {p.daily[y].coverage : y \in chosen} /\ M = {p.daily[y].modeled : y \in chosen}
  <2>1. \A x \in Nat : x # NotGiven
    BY SummaryConstants
  <2>2. \A x \in chosen : p.daily[x].coverage # NotGiven /\ p.daily[x].modeled # NotGiven
    BY <1>4, <2>1
  <2> HIDE DEF chosen
  <2>3. {[x \in chosen |-> p.daily[x].coverage][y] : y \in chosen} = {p.daily[y].coverage : y \in chosen}
    OBVIOUS
  <2>4. {[x \in chosen |-> p.daily[x].modeled][y] : y \in chosen} = {p.daily[y].modeled : y \in chosen}
    OBVIOUS
  <2>5. NotGiven \notin {p.daily[y].coverage : y \in chosen} /\ NotGiven \notin {p.daily[y].modeled : y \in chosen}
    BY <2>2
  <2> QED BY <2>3, <2>4, <2>5
<1>6. IsFiniteSet(chosen) /\ d \in chosen
  <2>1. chosen \in SUBSET D /\ d \in chosen
    BY <1>3
  <2> HIDE DEF chosen
  <2> QED BY <1>3, <2>1, FS_Subset
<1> HIDE DEF C, M, chosen
<1>7. IsFiniteSet(C) /\ C \subseteq Nat
  <2> DEFINE f == [y \in chosen |-> p.daily[y].coverage]
  <2>1. C = {f[y] : y \in chosen}
    BY <1>5
  <2> HIDE DEF f
  <2>2. IsFiniteSet({f[y] : y \in chosen})
    BY <1>6, FiniteImage
  <2> QED BY <1>4, <1>5, <2>1, <2>2
<1>8. IsFiniteSet(M) /\ M \subseteq Nat
  <2> DEFINE f == [y \in chosen |-> p.daily[y].modeled]
  <2>1. M = {f[y] : y \in chosen}
    BY <1>5
  <2> HIDE DEF f
  <2>2. IsFiniteSet({f[y] : y \in chosen})
    BY <1>6, FiniteImage
  <2> QED BY <1>4, <1>5, <2>1, <2>2
<1>9. p.daily[d].coverage \in C /\ p.daily[d].modeled \in M
  BY <1>5, <1>6
<1>10. Sums!Min(C) \in Nat /\ Sums!Min(C) <= p.daily[d].coverage
  <2>1. C \subseteq Int /\ C # {}
    BY <1>7, <1>9
  <2>2. Sums!Min(C) \in C /\ \A y \in C : Sums!Min(C) <= y
    BY <1>7, <2>1, LeastOfSums
  <2> QED BY <1>7, <1>9, <2>2
<1>11. Sums!Min(M) \in Nat /\ Sums!Min(M) <= p.daily[d].modeled
  <2>1. M \subseteq Int /\ M # {}
    BY <1>8, <1>9
  <2>2. Sums!Min(M) \in M /\ \A y \in M : Sums!Min(M) <= y
    BY <1>8, <2>1, LeastOfSums
  <2> QED BY <1>8, <1>9, <2>2
<1> QED BY <1>2, <1>4, <1>6, <1>10, <1>11

LEMMA SummariesAddUp ==
  ASSUME NEW ops \in Seq(SummaryChange), ops # <<>>, NEW days, IsFiniteSet(days) PROVE Sums!SummariesAddUp(ops, days)
<1> DEFINE p == Sums!Along(Sums!Applied, Sums!NoSummaries, ops)
           last == ops[Len(ops)]
<1>1. p \in SummaryStates /\ \E before \in SummaryStates : p = Sums!Applied(before, last)
  BY AppliedLast
<1>2. PICK before \in SummaryStates : p = Sums!Applied(before, last)
  BY <1>1
<1>3. last \in SummaryChange
  OBVIOUS
<1> HIDE DEF p, last
<1>4. CASE last.kind = "invalidate"
  <2>1. p = Sums!Invalidate(before, last.day)
    BY <1>2, <1>4 DEF Sums!Applied
  <2>2. p.lifetime = {}
    BY <2>1 DEF Sums!Invalidate, SummaryStates
  <2>3. \A d \in DOMAIN p.daily \cap days :
          Sums!ModeledSummary(p, days).ratio # NotGiven => p.daily[d].expected # NotGiven /\ p.daily[d].coverage > 0
    BY <1>1, RatioComparesTheSame
  <2>4. Sums!ModeledSummary(p, days).actual = Sums!SumFunction([d \in days |-> Sums!ModeledSummary(p, {d}).actual])
    BY <1>1, ActualAddsUp
  <2> QED BY <1>4, <2>2, <2>3, <2>4, Zenon DEF Sums!SummariesAddUp, p, last
<1>5. CASE last.kind # "invalidate"
  <2>0. last.kind = "reconcile"
    BY <1>3, <1>5 DEF SummaryChange
  <2> DEFINE day == last.day
             daily == [d \in DOMAIN before.daily \cup {day} |-> IF d = day THEN last.aggregate ELSE before.daily[d]]
  <2>1. p = [daily |-> daily, stale |-> before.stale \ {day}, lifetime |-> {Sums!Lifetime(daily)}]
    BY <1>2, <1>5 DEF Sums!Applied, Sums!Reconcile
  <2>2. \A l \in p.lifetime : l = Sums!Lifetime(p.daily)
    <3> HIDE DEF daily
    <3> QED BY <2>1
  <2>3. Sums!Applied(p, last) = p /\ day \notin p.stale
    <3>1. Sums!Applied(p, last) = Sums!Reconcile(p, day, last.aggregate)
      BY <1>5 DEF Sums!Applied
    <3>2. [d \in DOMAIN p.daily \cup {day} |-> IF d = day THEN last.aggregate ELSE p.daily[d]] = daily
      BY <2>1
    <3>3. p.stale \ {day} = p.stale /\ day \notin p.stale
      BY <2>1
    <3>4. Sums!Reconcile(p, day, last.aggregate) = [daily |-> daily, stale |-> p.stale, lifetime |-> {Sums!Lifetime(daily)}]
      BY <3>2, <3>3, Zenon DEF Sums!Reconcile
    <3>5. p.stale = before.stale \ {day}
      BY <2>1
    <3> HIDE DEF daily, day
    <3> QED BY <2>1, <3>1, <3>3, <3>4, <3>5
  <2>4. \A d \in DOMAIN p.daily \cap days :
          Sums!ModeledSummary(p, days).ratio # NotGiven => p.daily[d].expected # NotGiven /\ p.daily[d].coverage > 0
    BY <1>1, RatioComparesTheSame
  <2>5. Sums!ModeledSummary(p, days).actual = Sums!SumFunction([d \in days |-> Sums!ModeledSummary(p, {d}).actual])
    BY <1>1, ActualAddsUp
  <2> QED BY <2>0, <2>2, <2>3, <2>4, <2>5, Zenon DEF Sums!SummariesAddUp, p, last
<1> QED BY <1>4, <1>5

-----------------------------------------------------------------------------
(* Sums over what is moved, left out, or nested.                            *)
Moves(m, S) == \A x, y \in S : m[x] = m[y] => x = y
Image(m, S) == {m[x] : x \in S}

LEMMA SumMoved ==
  ASSUME NEW S, IsFiniteSet(S), NEW m, Moves(m, S), NEW f, NEW h, \A x \in S : f[m[x]] \in Int /\ h[x] = f[m[x]]
  PROVE SumOver(h, S) = SumOver(f, Image(m, S))
<1> DEFINE Bad == {s \in SUBSET S : SumOver(h, s) # SumOver(f, Image(m, s))}
<1>1. ASSUME Bad # {} PROVE FALSE
  <2>1. PICK s \in Bad : \A r \in Bad : r \subseteq s => r = s
    <3>1. Bad \subseteq SUBSET S
      OBVIOUS
    <3> HIDE DEF Bad
    <3> QED BY <3>1, <1>1, SmallestOne
  <2>2. s # {}
    <3>1. Image(m, {}) = {}
      BY DEF Image
    <3>2. {} \notin Bad
      BY <3>1, SumOfNone
    <3> QED BY <2>1, <3>2
  <2>3. PICK a : a \in s
    BY <2>2
  <2>4. s \in SUBSET S /\ SumOver(h, s) # SumOver(f, Image(m, s))
    BY <2>1
  <2>5. SumOver(h, s \ {a}) = SumOver(f, Image(m, s \ {a}))
    BY <2>1, <2>3
  <2> HIDE DEF Bad
  <2>6. IsFiniteSet(s) /\ \A x \in s : h[x] \in Int
    BY <2>4, FS_Subset
  <2>7. SumOver(h, s) = h[a] + SumOver(h, s \ {a})
    BY <2>3, <2>6, SumAdds
  <2>8. Image(m, s) \ {m[a]} = Image(m, s \ {a}) /\ m[a] \in Image(m, s)
    BY <2>3, <2>4 DEF Moves, Image
  <2>9. IsFiniteSet(Image(m, s)) /\ \A y \in Image(m, s) : f[y] \in Int
    BY <2>4, <2>6, FiniteImage DEF Image
  <2>10. SumOver(f, Image(m, s)) = f[m[a]] + SumOver(f, Image(m, s) \ {m[a]})
    BY <2>8, <2>9, SumAdds
  <2>11. h[a] = f[m[a]]
    BY <2>3, <2>4
  <2> QED BY <2>4, <2>5, <2>7, <2>8, <2>10, <2>11
<1>2. S \notin Bad
  BY <1>1
<1> QED BY <1>2

LEMMA SumOfPart ==
  ASSUME NEW S, IsFiniteSet(S), NEW T \in SUBSET S, NEW f, \A x \in S : f[x] \in Nat PROVE SumOver(f, T) <= SumOver(f, S)
<1> DEFINE R == S \ T
<1>1. S = T \cup R /\ T \cap R = {} /\ R \in SUBSET S
  OBVIOUS
<1> HIDE DEF R
<1>2. IsFiniteSet(T) /\ IsFiniteSet(R)
  BY <1>1, FS_Subset
<1>3. \A x \in T \cup R : f[x] \in Nat /\ f[x] \in Int
  BY <1>1
<1>4. SumOver(f, T \cup R) = SumOver(f, T) + SumOver(f, R)
  BY <1>1, <1>2, <1>3, SumsJoin
<1>5. SumOver(f, R) \in Nat /\ SumOver(f, T) \in Nat
  BY <1>1, <1>2, SumOfNaturals
<1>6. SumOver(f, S) = SumOver(f, T) + SumOver(f, R)
  BY <1>1, <1>4
<1> QED BY <1>5, <1>6

(* What is in the rows of a table adds up to the sums of the rows.          *)
PairsOf(I, J) == UNION {{i} \X J[i] : i \in I}

LEMMA PairsAreFinite == ASSUME NEW I, IsFiniteSet(I), NEW J, \A i \in I : IsFiniteSet(J[i]) PROVE IsFiniteSet(PairsOf(I, J))
<1> DEFINE row == [i \in I |-> {i} \X J[i]]
<1>1. PairsOf(I, J) = UNION {row[i] : i \in I}
  BY DEF PairsOf
<1>2. \A i \in I : IsFiniteSet(row[i])
  <2> SUFFICES ASSUME NEW i \in I PROVE IsFiniteSet({i} \X J[i])
    OBVIOUS
  <2>1. IsFiniteSet({i})
    BY FS_Singleton
  <2> QED BY <2>1, FS_Product
<1> HIDE DEF row
<1>3. IsFiniteSet({row[i] : i \in I})
  BY FiniteImage
<1> QED BY <1>1, <1>2, <1>3, FS_UNION

LEMMA SumOfRows ==
  ASSUME NEW I, IsFiniteSet(I), NEW J, \A i \in I : IsFiniteSet(J[i]), NEW f, NEW row,
         \A i \in I : \A j \in J[i] : f[<<i, j>>] \in Int /\ row[i][j] = f[<<i, j>>]
  PROVE SumOver(f, PairsOf(I, J)) = SumOver([i \in I |-> SumOver(row[i], J[i])], I)
<1> DEFINE g == [i \in I |-> SumOver(row[i], J[i])]
           Bad == {s \in SUBSET I : SumOver(f, PairsOf(s, J)) # SumOver(g, s)}
<1>0. \A i \in I : g[i] = SumOver(row[i], J[i]) /\ g[i] \in Int
  <2> SUFFICES ASSUME NEW i \in I PROVE SumOver(row[i], J[i]) \in Int
    OBVIOUS
  <2>1. \A j \in J[i] : row[i][j] \in Int
    OBVIOUS
  <2> QED BY <2>1, SumIsInt
<1> HIDE DEF g
<1>1. ASSUME Bad # {} PROVE FALSE
  <2>1. PICK s \in Bad : \A r \in Bad : r \subseteq s => r = s
    <3>1. Bad \subseteq SUBSET I
      OBVIOUS
    <3> HIDE DEF Bad
    <3> QED BY <3>1, <1>1, SmallestOne
  <2>2. s # {}
    <3>1. PairsOf({}, J) = {}
      BY DEF PairsOf
    <3>2. {} \notin Bad
      BY <3>1, SumOfNone
    <3> QED BY <2>1, <3>2
  <2>3. PICK a : a \in s
    BY <2>2
  <2>4. s \in SUBSET I /\ SumOver(f, PairsOf(s, J)) # SumOver(g, s)
    BY <2>1
  <2>5. SumOver(f, PairsOf(s \ {a}, J)) = SumOver(g, s \ {a})
    BY <2>1, <2>3
  <2> HIDE DEF Bad
  <2> DEFINE A == PairsOf(s \ {a}, J)
             B == {a} \X J[a]
             m == [j \in J[a] |-> <<a, j>>]
  <2>6. PairsOf(s, J) = A \cup B /\ A \cap B = {}
    BY <2>3 DEF PairsOf
  <2>7. IsFiniteSet(s) /\ IsFiniteSet(s \ {a}) /\ IsFiniteSet({a}) /\ IsFiniteSet(J[a])
    BY <2>3, <2>4, FS_Subset, FS_Singleton
  <2>8. IsFiniteSet(A) /\ IsFiniteSet(B)
    <3>1. \A i \in s \ {a} : IsFiniteSet(J[i])
      BY <2>4
    <3> QED BY <2>7, <3>1, PairsAreFinite, FS_Product
  <2>9. \A p \in A \cup B : f[p] \in Int
    BY <2>3, <2>4 DEF PairsOf
  <2>10. Image(m, J[a]) = B /\ Moves(m, J[a]) /\ \A j \in J[a] : f[m[j]] \in Int /\ row[a][j] = f[m[j]]
    <3>1. \A j \in J[a] : m[j] = <<a, j>>
      OBVIOUS
    <3>2. \A x : x \in B <=> \E j \in J[a] : x = <<a, j>>
      OBVIOUS
    <3> HIDE DEF B, m
    <3>3. \A x : x \in Image(m, J[a]) <=> \E j \in J[a] : x = <<a, j>>
      BY <3>1 DEF Image
    <3>4. Moves(m, J[a])
      BY <3>1 DEF Moves
    <3>5. a \in I
      BY <2>3, <2>4
    <3> QED BY <3>1, <3>2, <3>3, <3>4, <3>5
  <2> HIDE DEF A, B, m
  <2>11. SumOver(f, A \cup B) = SumOver(f, A) + SumOver(f, B)
    BY <2>6, <2>8, <2>9, SumsJoin
  <2>12. SumOver(row[a], J[a]) = SumOver(f, B)
    BY <2>7, <2>10, SumMoved
  <2>13. \A i \in s : g[i] \in Int
    BY <1>0, <2>4
  <2>14. SumOver(g, s) = g[a] + SumOver(g, s \ {a}) /\ SumOver(g, s \ {a}) \in Int
    BY <2>3, <2>7, <2>13, SumAdds
  <2>15. g[a] = SumOver(f, B) /\ g[a] \in Int
    BY <1>0, <2>3, <2>4, <2>12
  <2> QED BY <2>4, <2>5, <2>6, <2>11, <2>14, <2>15 DEF A
<1>2. I \notin Bad
  BY <1>1
<1> QED BY <1>2 DEF g

-----------------------------------------------------------------------------
(* A system over its inverters, and these over their strings.               *)
LEMMA ModelSumIs ==
  ASSUME NEW S, IsFiniteSet(S), NEW h, h = [x \in S |-> h[x]], \A x \in S : h[x] \in Int PROVE Model!SumFunction(h) = SumOver(h, S)
<1> DEFINE c == CHOOSE g : g = [s \in SUBSET S |-> SumStep(h, g, s)]
<1>0. DOMAIN h = S
  OBVIOUS
<1>1. Model!SumFunction(h) = c[S]
  BY <1>0 DEF Model!SumFunction, Model!SumFunctionOnSet, Model!FoldFunctionOnSet, Model!MapThenFoldSet, SumStep
<1>2. HasSums(SumTable(h, S), h, S)
  BY SumsExist
<1>3. SumTable(h, S) = [s \in SUBSET S |-> SumStep(h, SumTable(h, S), s)]
  BY <1>2 DEF HasSums
<1>4. c = [s \in SUBSET S |-> SumStep(h, c, s)]
  BY <1>3, Zenon
<1> HIDE DEF c
<1>5. \A s \in SUBSET S : c[s] = SumStep(h, c, s)
  BY <1>4
<1> QED BY <1>1, <1>5, SumsAgree

Nameplates(s, D) == [n \in D |-> s[n].nameplate]
Centrals(s, D) == [n \in D |-> s[n].power.central]
GivenIn(s, D) == {n \in D : s[n].power # Model!NoEstimate}
AreOrdered(s, D) == \A n \in D : s[n].power # Model!NoEstimate => Model!Ordered(s[n].power)

(* The sum of finitely many estimates.                                      *)
LEMMA TogetherIs ==
  ASSUME NEW D, IsFiniteSet(D), NEW e \in [D -> Estimated(Nat)]
  PROVE LET t == Model!Together(e)
        IN /\ t \in Estimated(Nat) /\ t.central = SumOver([n \in D |-> e[n].central], D)
           /\ t.lower # NotGiven => \A n \in D : e[n].lower # NotGiven
           /\ (\A n \in D : Model!Ordered(e[n])) => Model!Ordered(t)
<1> DEFINE c == [n \in D |-> e[n].central]
           l == [n \in D |-> e[n].lower]
           u == [n \in D |-> e[n].upper]
           lower == IF \E n \in D : e[n].lower = NotGiven THEN NotGiven ELSE Model!SumFunction(l)
           upper == IF \E n \in D : e[n].upper = NotGiven THEN NotGiven ELSE Model!SumFunction(u)
<1>1. Model!Together(e) = [central |-> Model!SumFunction(c), lower |-> lower, upper |-> upper]
  BY DEF Model!Together, Model!SumOf
<1>2. \A n \in D : c[n] \in Nat /\ (l[n] = NotGiven \/ l[n] \in Nat) /\ (u[n] = NotGiven \/ u[n] \in Nat)
  BY DEF Estimated, MaybeGiven
<1>3. \A n \in D : Model!Ordered(e[n]) <=> (l[n] = NotGiven \/ l[n] <= c[n]) /\ (u[n] = NotGiven \/ c[n] <= u[n])
  BY DEF Model!Ordered
<1>4. /\ (\E n \in D : e[n].lower = NotGiven) <=> \E n \in D : l[n] = NotGiven
      /\ (\E n \in D : e[n].upper = NotGiven) <=> \E n \in D : u[n] = NotGiven
      /\ \A n \in D : l[n] = e[n].lower
  OBVIOUS
<1>5. c = [n \in D |-> c[n]] /\ l = [n \in D |-> l[n]] /\ u = [n \in D |-> u[n]]
  OBVIOUS
<1> HIDE DEF c, l, u
<1>6. Model!SumFunction(c) = SumOver(c, D) /\ SumOver(c, D) \in Nat
  <2>1. \A n \in D : c[n] \in Int
    BY <1>2
  <2> QED BY <1>2, <1>5, <2>1, ModelSumIs, SumOfNaturals
<1>7. ASSUME \A n \in D : l[n] # NotGiven
      PROVE /\ lower = SumOver(l, D) /\ lower \in Nat
            /\ (\A n \in D : Model!Ordered(e[n])) => lower <= SumOver(c, D)
  <2>1. \A n \in D : l[n] \in Nat /\ l[n] \in Int /\ c[n] \in Int
    BY <1>2, <1>7
  <2>2. Model!SumFunction(l) = SumOver(l, D) /\ SumOver(l, D) \in Nat
    BY <1>5, <2>1, ModelSumIs, SumOfNaturals
  <2>3. lower = SumOver(l, D)
    BY <1>4, <1>7, <2>2
  <2>4. ASSUME \A n \in D : Model!Ordered(e[n]) PROVE SumOver(l, D) <= SumOver(c, D)
    <3>1. \A n \in D : l[n] <= c[n]
      BY <1>3, <1>7, <2>4
    <3> QED BY <2>1, <3>1, SumsCompare
  <2> QED BY <2>2, <2>3, <2>4
<1>8. ASSUME \A n \in D : u[n] # NotGiven
      PROVE /\ upper = SumOver(u, D) /\ upper \in Nat
            /\ (\A n \in D : Model!Ordered(e[n])) => SumOver(c, D) <= upper
  <2>1. \A n \in D : u[n] \in Nat /\ u[n] \in Int /\ c[n] \in Int
    BY <1>2, <1>8
  <2>2. Model!SumFunction(u) = SumOver(u, D) /\ SumOver(u, D) \in Nat
    BY <1>5, <2>1, ModelSumIs, SumOfNaturals
  <2>3. upper = SumOver(u, D)
    BY <1>4, <1>8, <2>2
  <2>4. ASSUME \A n \in D : Model!Ordered(e[n]) PROVE SumOver(c, D) <= SumOver(u, D)
    <3>1. \A n \in D : c[n] <= u[n]
      BY <1>3, <1>8, <2>4
    <3> QED BY <2>1, <3>1, SumsCompare
  <2> QED BY <2>2, <2>3, <2>4
<1>9. (\E n \in D : l[n] = NotGiven) => lower = NotGiven
  BY <1>4
<1>10. (\E n \in D : u[n] = NotGiven) => upper = NotGiven
  BY <1>4
<1> HIDE DEF lower, upper
<1> DEFINE t == Model!Together(e)
<1>11. t = [central |-> SumOver(c, D), lower |-> lower, upper |-> upper]
  BY <1>1, <1>6
<1> HIDE DEF t
<1>12. t \in Estimated(Nat)
  BY <1>6, <1>7, <1>8, <1>9, <1>10, <1>11 DEF Estimated, MaybeGiven
<1>13. t.lower # NotGiven => \A n \in D : e[n].lower # NotGiven
  BY <1>4, <1>9, <1>11
<1>14. ASSUME \A n \in D : Model!Ordered(e[n]) PROVE Model!Ordered(t)
  BY <1>7, <1>8, <1>9, <1>10, <1>11, <1>14 DEF Model!Ordered
<1>15. t.central = SumOver(c, D)
  BY <1>11
<1> QED BY <1>12, <1>13, <1>14, <1>15 DEF t, c

(* What an inverter makes of its direct current is no more than it was, and *)
(* keeps its order.                                                         *)
LEMMA ConvertedIs ==
  ASSUME NEW efficiency \in 0..Full, NEW v \in Nat
  PROVE LET r == Model!RoundedRatio(v, efficiency, Full)
        IN r \in Nat /\ r <= v /\ \A w \in Nat : v <= w => r <= Model!RoundedRatio(w, efficiency, Full)
<1>0. Full \in Nat /\ Full > 0 /\ efficiency \in Nat /\ efficiency <= Full
  BY SummaryConstants
<1> DEFINE R(x) == Model!Rounded(x, Full)
<1>1. \A w \in Nat : w * efficiency \in Nat
  <2> SUFFICES ASSUME NEW w \in Nat PROVE w * efficiency \in Nat
    OBVIOUS
  <2>1. 0 * efficiency <= w * efficiency /\ w * efficiency \in Int
    BY <1>0, TimesIsMonotone
  <2> QED BY <1>0, <2>1
<1>2. efficiency * v <= Full * v /\ efficiency * v \in Int /\ Full * v \in Int
  BY <1>0, TimesIsMonotone
<1>3. v * efficiency <= v * Full /\ v * Full \in Int /\ v * efficiency \in Int
  BY <1>0, <1>2
<1>4. R(v * efficiency) \in Int /\ R(v * efficiency) >= 0 /\ R(v * Full) \in Int
  BY <1>0, <1>1, <1>3, RoundedIsNear
<1>5. R(v * efficiency) <= R(v * Full)
  BY <1>0, <1>3, RoundedIsMonotone
<1>6. R(v * Full) <= v
  <2> DEFINE r == R(v * Full)
  <2>1. r \in Int /\ 2 * (r * Full - v * Full) <= Full
    BY <1>0, <1>3, RoundedIsNear
  <2> HIDE DEF r
  <2>2. ASSUME ~(r <= v) PROVE FALSE
    <3>1. v + 1 <= r /\ v + 1 \in Int
      BY <2>1, <2>2
    <3>2. (v + 1) * Full <= r * Full /\ r * Full \in Int
      BY <1>0, <2>1, <3>1, TimesIsMonotone
    <3>3. (v + 1) * Full = v * Full + Full
      BY <1>0
    <3> QED BY <1>0, <1>3, <2>1, <3>2, <3>3
  <2> QED BY <2>2 DEF r
<1>7. ASSUME NEW w \in Nat, v <= w PROVE R(v * efficiency) <= R(w * efficiency)
  <2>1. v * efficiency <= w * efficiency /\ v * efficiency \in Int /\ w * efficiency \in Int
    BY <1>0, <1>7, TimesIsMonotone
  <2> QED BY <1>0, <2>1, RoundedIsMonotone
<1>8. \A w \in Nat : Model!RoundedRatio(w, efficiency, Full) = R(w * efficiency)
  BY DEF Model!RoundedRatio
<1> HIDE DEF R
<1> QED BY <1>4, <1>5, <1>6, <1>7, <1>8

LEMMA GivenIs ==
  ASSUME NEW s PROVE LET G == GivenIn(s, DOMAIN s) IN Model!Given(s) = [n \in G |-> s[n]] /\ DOMAIN Model!Given(s) = G
BY DEF Model!Given, GivenIn

LEMMA EstimatesAreGiven == ASSUME NEW e \in Estimated(Nat) PROVE e # Model!NoEstimate /\ e.central \in Nat /\ e.central # NotGiven
<1>1. e.central \in Nat
  BY DEF Estimated
<1>2. e.central # NotGiven
  BY <1>1, SummaryConstants
<1> QED BY <1>1, <1>2 DEF Model!NoEstimate

(* What the parts that are given come to.                                   *)
LEMMA GivenTogether ==
  ASSUME NEW s, NEW D, D = DOMAIN s, IsFiniteSet(D), \A n \in D : s[n].power \in Predicted(Nat)
  PROVE LET G == GivenIn(s, D)
            t == Model!Together([n \in DOMAIN Model!Given(s) |-> Model!Given(s)[n].power])
        IN /\ t \in Estimated(Nat) /\ t.central = SumOver(Centrals(s, G), G)
           /\ t.lower # NotGiven => \A n \in G : s[n].power.lower # NotGiven
           /\ AreOrdered(s, D) => Model!Ordered(t)
<1> DEFINE G == GivenIn(s, D)
           e == [n \in G |-> s[n].power]
<1>1. DOMAIN Model!Given(s) = G /\ Model!Given(s) = [n \in G |-> s[n]]
  BY GivenIs
<1>2. [n \in DOMAIN Model!Given(s) |-> Model!Given(s)[n].power] = e
  BY <1>1
<1>3. IsFiniteSet(G)
  <2>1. G \in SUBSET D
    BY DEF GivenIn
  <2> HIDE DEF G
  <2> QED BY <2>1, FS_Subset
<1>4. e \in [G -> Estimated(Nat)]
  BY DEF GivenIn, Predicted
<1>5. \A n \in G : e[n] = s[n].power /\ s[n].power # Model!NoEstimate /\ n \in D
  BY DEF GivenIn
<1>6. [n \in G |-> e[n].central] = Centrals(s, G)
  BY DEF Centrals
<1> HIDE DEF G, e
<1> DEFINE t == Model!Together(e)
<1>7. /\ t \in Estimated(Nat) /\ t.central = SumOver([n \in G |-> e[n].central], G)
      /\ t.lower # NotGiven => \A n \in G : e[n].lower # NotGiven
      /\ (\A n \in G : Model!Ordered(e[n])) => Model!Ordered(t)
  BY <1>3, <1>4, TogetherIs
<1> HIDE DEF t
<1>8. AreOrdered(s, D) => \A n \in G : Model!Ordered(e[n])
  BY <1>5 DEF AreOrdered
<1>9. t.central = SumOver(Centrals(s, G), G)
  BY <1>6, <1>7
<1>10. t.lower # NotGiven => \A n \in G : s[n].power.lower # NotGiven
  BY <1>5, <1>7
<1> QED BY <1>2, <1>7, <1>8, <1>9, <1>10 DEF t, G

LEMMA ReasonsAre ==
  ASSUME NEW reasons, NEW included \in Nat, NEW total \in Nat
  PROVE LET r == Model!Reasons(reasons, included, total)
        IN /\ reasons \subseteq r /\ (included < total => r # {})
           /\ Model!Completeness(included, r) = "complete" => r = {} /\ included # 0
BY DEF Model!Reasons, Model!Completeness

LEMMA InverterIs ==
  ASSUME NEW strings \in Seq(Contribution), NEW efficiency \in 0..Full, NEW most \in Nat
  PROVE LET v == Model!Inverter(strings, efficiency, most)
            D == DOMAIN strings
            G == GivenIn(strings, D)
        IN /\ v.total = SumOver(Nameplates(strings, D), D) /\ v.total \in Nat
           /\ v.included = SumOver(Nameplates(strings, G), G) /\ v.included \in Nat
           /\ v.power \in Predicted(Nat)
           /\ v.power # Model!NoEstimate => v.power.central <= most /\ v.power.central <= SumOver(Centrals(strings, G), G)
           /\ AreOrdered(strings, D) /\ v.power # Model!NoEstimate => Model!Ordered(v.power)
           /\ v.reasons = {} => \A n \in D : strings[n].power # Model!NoEstimate \/ strings[n].reasons = {}
<1> DEFINE v == Model!Inverter(strings, efficiency, most)
           D == DOMAIN strings
           G == GivenIn(strings, D)
           plates == Nameplates(strings, D)
           some == Nameplates(strings, G)
           dc == Model!Together([n \in DOMAIN Model!Given(strings) |-> Model!Given(strings)[n].power])
           converted(value) == Model!RoundedRatio(value, efficiency, Full)
           reasons == UNION {strings[n].reasons : n \in {k \in D : strings[k].power = Model!NoEstimate}}
           included == Model!SumFunction(some)
           total == Model!SumFunction(plates)
           limited(value) == Model!Capped(converted(value), most)
           all == Model!Reasons(reasons, included, total)
<1>1. IsFiniteSet(D) /\ D = DOMAIN strings /\ \A n \in D : strings[n] \in Contribution
  BY FS_Interval
<1>2. G \in SUBSET D
  BY DEF GivenIn
<1>3. IsFiniteSet(G)
  <2> HIDE DEF G, D
  <2> QED BY <1>1, <1>2, FS_Subset
<1>4. /\ v.power = IF included = 0 THEN Model!NoEstimate ELSE Model!Estimates(limited, dc)
      /\ v.included = included /\ v.total = total /\ v.reasons = all
  <2>1. DOMAIN Model!Given(strings) = G /\ Model!Given(strings) = [n \in G |-> strings[n]]
    BY GivenIs
  <2>2. [n \in DOMAIN Model!Given(strings) |-> Model!Given(strings)[n].nameplate] = some
    BY <2>1 DEF Nameplates
  <2>3. [n \in DOMAIN strings |-> strings[n].nameplate] = plates
    BY DEF Nameplates
  <2> HIDE DEF plates, some
  <2>4. Model!SumOf(Model!Given(strings), LAMBDA s : s.nameplate) = included
    BY <2>2 DEF Model!SumOf
  <2>5. Model!SumOf(strings, LAMBDA s : s.nameplate) = total
    BY <2>3 DEF Model!SumOf
  <2> QED BY <2>4, <2>5 DEF Model!Inverter, Model!Estimates
<1>5. \A n \in D : plates[n] \in Nat /\ plates[n] \in Int
  BY <1>1 DEF Nameplates, Contribution
<1>6. \A n \in G : some[n] \in Nat /\ some[n] \in Int
  BY <1>1, <1>2 DEF Nameplates, Contribution
<1>7. plates = [n \in D |-> plates[n]] /\ some = [n \in G |-> some[n]]
  BY DEF Nameplates
<1>8. /\ dc \in Estimated(Nat) /\ dc.central = SumOver(Centrals(strings, G), G)
      /\ AreOrdered(strings, D) => Model!Ordered(dc)
  <2>1. \A n \in D : strings[n].power \in Predicted(Nat)
    BY <1>1 DEF Contribution
  <2> HIDE DEF D
  <2> QED BY <1>1, <2>1, GivenTogether
<1> HIDE DEF D, G, plates, some, dc
<1>9. total = SumOver(plates, D) /\ total \in Nat
  BY <1>1, <1>5, <1>7, ModelSumIs, SumOfNaturals
<1>10. included = SumOver(some, G) /\ included \in Nat
  BY <1>3, <1>6, <1>7, ModelSumIs, SumOfNaturals
<1> HIDE DEF included, total
<1>11. \A x \in Nat : limited(x) \in Nat /\ limited(x) <= most /\ limited(x) <= x
  <2> SUFFICES ASSUME NEW x \in Nat PROVE limited(x) \in Nat /\ limited(x) <= most /\ limited(x) <= x
    OBVIOUS
  <2>1. converted(x) \in Nat /\ converted(x) <= x
    BY ConvertedIs
  <2> HIDE DEF converted
  <2> QED BY <2>1 DEF Model!Capped
<1>12. \A x, y \in Nat : x <= y => limited(x) <= limited(y)
  <2> SUFFICES ASSUME NEW x \in Nat, NEW y \in Nat, x <= y PROVE limited(x) <= limited(y)
    OBVIOUS
  <2>1. converted(x) \in Nat /\ converted(y) \in Nat /\ converted(x) <= converted(y)
    BY ConvertedIs
  <2> HIDE DEF converted
  <2> QED BY <2>1 DEF Model!Capped
<1>13. Model!Estimates(limited, dc) = [central |-> limited(dc.central), lower |-> IF dc.lower = NotGiven THEN NotGiven ELSE limited(dc.lower), upper |-> IF dc.upper = NotGiven THEN NotGiven ELSE limited(dc.upper)]
  BY DEF Model!Estimates
<1> HIDE DEF limited, all, v
<1>14. dc.central \in Nat /\ (dc.lower = NotGiven \/ dc.lower \in Nat) /\ (dc.upper = NotGiven \/ dc.upper \in Nat)
  BY <1>8 DEF Estimated, MaybeGiven
<1>15. \A x \in Nat : limited(x) # NotGiven
  BY <1>11, SummaryConstants
<1> DEFINE p == [central |-> limited(dc.central), lower |-> IF dc.lower = NotGiven THEN NotGiven ELSE limited(dc.lower), upper |-> IF dc.upper = NotGiven THEN NotGiven ELSE limited(dc.upper)]
<1>16. p \in Estimated(Nat) /\ p.central <= most /\ p.central <= dc.central
  BY <1>11, <1>14 DEF Estimated, MaybeGiven
<1>17. Model!Ordered(dc) => Model!Ordered(p)
  BY <1>12, <1>14, <1>15 DEF Model!Ordered
<1>18. v.power = IF included = 0 THEN Model!NoEstimate ELSE p
  BY <1>4, <1>13
<1> HIDE DEF p
<1>19. v.power \in Predicted(Nat)
  BY <1>16, <1>18 DEF Predicted
<1>20. ASSUME v.power # Model!NoEstimate PROVE v.power.central <= most /\ v.power.central <= SumOver(Centrals(strings, G), G)
  BY <1>8, <1>16, <1>18, <1>20
<1>21. ASSUME AreOrdered(strings, D), v.power # Model!NoEstimate PROVE Model!Ordered(v.power)
  BY <1>8, <1>17, <1>18, <1>21
<1>22. v.reasons = {} => \A n \in D : strings[n].power # Model!NoEstimate \/ strings[n].reasons = {}
  <2>1. reasons \subseteq all
    BY <1>9, <1>10, ReasonsAre DEF all
  <2> QED BY <1>4, <2>1
<1>23. v.total = SumOver(plates, D) /\ v.total \in Nat /\ v.included = SumOver(some, G) /\ v.included \in Nat
  BY <1>4, <1>9, <1>10
<1> HIDE DEF reasons
<1> QED BY <1>19, <1>20, <1>21, <1>22, <1>23 DEF v, D, G, plates, some

Connected == [strings : Seq(Contribution), efficiency : 0..Full, most : Nat]

LEMMA SystemAddsUp == ASSUME NEW inverters \in Seq(Connected) PROVE Model!SystemAddsUp(inverters)
<1> DEFINE I == DOMAIN inverters
           each == [n \in I |-> Model!Inverter(inverters[n].strings, inverters[n].efficiency, inverters[n].most)]
           J == [n \in I |-> DOMAIN inverters[n].strings]
           GJ == [n \in I |-> GivenIn(inverters[n].strings, J[n])]
           pairs == UNION {{n} \X DOMAIN inverters[n].strings : n \in I}
           all == [p \in pairs |-> inverters[p[1]].strings[p[2]]]
           GA == GivenIn(all, pairs)
           GE == GivenIn(each, I)
           system == Model!System(each)
<1>1. IsFiniteSet(I) /\ \A n \in I : inverters[n] \in Connected
  BY FS_Interval
<1>2. \A n \in I : /\ inverters[n].strings \in Seq(Contribution) /\ inverters[n].efficiency \in 0..Full /\ inverters[n].most \in Nat
                   /\ IsFiniteSet(J[n]) /\ J[n] = DOMAIN inverters[n].strings
  <2> SUFFICES ASSUME NEW n \in I
               PROVE /\ inverters[n].strings \in Seq(Contribution) /\ inverters[n].efficiency \in 0..Full /\ inverters[n].most \in Nat
                     /\ IsFiniteSet(DOMAIN inverters[n].strings)
    OBVIOUS
  <2>1. inverters[n].strings \in Seq(Contribution) /\ inverters[n].efficiency \in 0..Full /\ inverters[n].most \in Nat
    BY <1>1 DEF Connected
  <2>2. DOMAIN inverters[n].strings = 1..Len(inverters[n].strings) /\ Len(inverters[n].strings) \in Nat
    BY <2>1
  <2> QED BY <2>1, <2>2, FS_Interval
<1>3. pairs = PairsOf(I, J)
  BY DEF PairsOf
<1>4. \A n \in I : \A j \in J[n] : <<n, j>> \in pairs /\ all[<<n, j>>] = inverters[n].strings[j]
  OBVIOUS
<1>5. \A p \in pairs : \E n \in I : \E j \in J[n] : p = <<n, j>>
  OBVIOUS
<1>6. DOMAIN each = I /\ \A n \in I : each[n] = Model!Inverter(inverters[n].strings, inverters[n].efficiency, inverters[n].most)
  OBVIOUS
<1>7. \A n \in I : GJ[n] = GivenIn(inverters[n].strings, J[n]) /\ GJ[n] \in SUBSET J[n]
  BY DEF GivenIn
<1>8. DOMAIN all = pairs
  OBVIOUS
<1> HIDE DEF I, J, GJ, pairs, all, each
<1>9. GA = PairsOf(I, GJ)
  <2>1. \A p : p \in GA <=> \E n \in I : \E j \in GJ[n] : p = <<n, j>>
    <3>1. \A p : p \in GA <=> p \in pairs /\ all[p].power # Model!NoEstimate
      BY DEF GivenIn
    <3>2. \A n \in I : \A j : j \in GJ[n] <=> j \in J[n] /\ inverters[n].strings[j].power # Model!NoEstimate
      BY <1>7 DEF GivenIn
    <3> HIDE DEF GA
    <3>3. ASSUME NEW p \in GA PROVE \E n \in I : \E j \in GJ[n] : p = <<n, j>>
      <4>0. PICK n \in I : \E j \in J[n] : p = <<n, j>>
        BY <1>5, <3>1
      <4>1. PICK j \in J[n] : p = <<n, j>>
        BY <4>0
      <4>2. j \in GJ[n]
        BY <1>4, <3>1, <3>2, <4>1
      <4> QED BY <4>1, <4>2
    <3>4. ASSUME NEW n \in I, NEW j \in GJ[n] PROVE <<n, j>> \in GA
      BY <1>4, <3>1, <3>2
    <3> QED BY <3>3, <3>4
  <2>2. \A p : p \in PairsOf(I, GJ) <=> \E n \in I : \E j \in GJ[n] : p = <<n, j>>
    BY DEF PairsOf
  <2> QED BY <2>1, <2>2
<1>10. \A n \in I : IsFiniteSet(GJ[n])
  BY <1>2, <1>7, FS_Subset
<1>11. IsFiniteSet(pairs) /\ IsFiniteSet(GA)
  BY <1>1, <1>2, <1>3, <1>9, <1>10, PairsAreFinite
<1>12. ASSUME NEW n \in I
       PROVE /\ each[n].total = SumOver(Nameplates(inverters[n].strings, J[n]), J[n]) /\ each[n].total \in Nat
             /\ each[n].included = SumOver(Nameplates(inverters[n].strings, GJ[n]), GJ[n]) /\ each[n].included \in Nat
             /\ each[n].power \in Predicted(Nat)
             /\ each[n].power # Model!NoEstimate =>
                  each[n].power.central <= inverters[n].most /\ each[n].power.central <= SumOver(Centrals(inverters[n].strings, GJ[n]), GJ[n])
             /\ AreOrdered(inverters[n].strings, J[n]) /\ each[n].power # Model!NoEstimate => Model!Ordered(each[n].power)
             /\ each[n].reasons = {} => \A j \in J[n] : inverters[n].strings[j].power # Model!NoEstimate \/ inverters[n].strings[j].reasons = {}
  <2> DEFINE s == inverters[n].strings
             v == Model!Inverter(s, inverters[n].efficiency, inverters[n].most)
             D == DOMAIN s
             G == GivenIn(s, D)
  <2>1. /\ v.total = SumOver(Nameplates(s, D), D) /\ v.total \in Nat
        /\ v.included = SumOver(Nameplates(s, G), G) /\ v.included \in Nat
        /\ v.power \in Predicted(Nat)
        /\ v.power # Model!NoEstimate => v.power.central <= inverters[n].most /\ v.power.central <= SumOver(Centrals(s, G), G)
        /\ AreOrdered(s, D) /\ v.power # Model!NoEstimate => Model!Ordered(v.power)
        /\ v.reasons = {} => \A j \in D : s[j].power # Model!NoEstimate \/ s[j].reasons = {}
    <3>1. s \in Seq(Contribution) /\ inverters[n].efficiency \in 0..Full /\ inverters[n].most \in Nat
      BY <1>2
    <3> HIDE DEF s
    <3> QED BY ONLY <3>1, InverterIs
  <2>2. each[n] = v /\ J[n] = D /\ GJ[n] = G
    BY <1>2, <1>6, <1>7
  <2> HIDE DEF v, G, D
  <2> QED BY <2>1, <2>2 DEF s
<1> HIDE DEF GA
<1>13. ASSUME NEW n \in I, NEW j \in J[n] PROVE inverters[n].strings[j] \in Contribution
  BY <1>2
<1>14. ASSUME NEW n \in I, NEW j \in GJ[n] PROVE inverters[n].strings[j].power \in Estimated(Nat)
  BY <1>7, <1>13, ZenonT(40) DEF Contribution, GivenIn, Predicted
  (* What is included, and all there is. *)
<1> DEFINE inc == [n \in I |-> each[n].included]
           tot == [n \in I |-> each[n].total]
           plates == Nameplates(all, pairs)
           given == Nameplates(all, GA)
<1>15. inc = [n \in I |-> inc[n]] /\ tot = [n \in I |-> tot[n]] /\ \A n \in I : inc[n] \in Nat /\ inc[n] \in Int /\ tot[n] \in Nat /\ tot[n] \in Int
  BY <1>12
<1>16. \A p \in pairs : plates[p] \in Int
  BY <1>4, <1>5, <1>13 DEF Nameplates, Contribution
<1>17. \A p \in GA : given[p] \in Int
  BY <1>4, <1>5, <1>13 DEF Nameplates, Contribution, GA, GivenIn
<1>18. SumOver(plates, pairs) = SumOver(tot, I)
  <2> DEFINE row == [n \in I |-> Nameplates(inverters[n].strings, J[n])]
  <2>2. \A n \in I : row[n] = Nameplates(inverters[n].strings, J[n])
    OBVIOUS
  <2>5. \A p \in pairs : plates[p] = all[p].nameplate
    BY DEF Nameplates
  <2>6. \A n \in I : \A j \in J[n] : row[n][j] = inverters[n].strings[j].nameplate
    <3> HIDE DEF row
    <3> QED BY <2>2 DEF Nameplates
  <2>1. \A n \in I : \A j \in J[n] : plates[<<n, j>>] \in Int /\ row[n][j] = plates[<<n, j>>]
    <3> HIDE DEF row, plates
    <3> SUFFICES ASSUME NEW n \in I, NEW j \in J[n] PROVE plates[<<n, j>>] \in Int /\ row[n][j] = plates[<<n, j>>]
      OBVIOUS
    <3> QED BY <1>4, <1>16, <2>5, <2>6, ZenonT(40)
  <2> HIDE DEF row, plates
  <2>3. SumOver(plates, PairsOf(I, J)) = SumOver([n \in I |-> SumOver(row[n], J[n])], I)
    BY <1>1, <1>2, <2>1, SumOfRows
  <2>4. [n \in I |-> SumOver(row[n], J[n])] = tot
    BY <1>12, <2>2
  <2> QED BY <1>3, <2>3, <2>4
<1>19. SumOver(given, GA) = SumOver(inc, I)
  <2> DEFINE row == [n \in I |-> Nameplates(inverters[n].strings, GJ[n])]
  <2>1. \A n \in I : \A j \in GJ[n] : <<n, j>> \in GA
    BY <1>9 DEF PairsOf
  <2>3. \A n \in I : row[n] = Nameplates(inverters[n].strings, GJ[n])
    OBVIOUS
  <2>6. \A p \in GA : given[p] = all[p].nameplate
    BY DEF Nameplates
  <2>7. \A n \in I : \A j \in GJ[n] : row[n][j] = inverters[n].strings[j].nameplate
    <3> HIDE DEF row
    <3> QED BY <2>3, ZenonT(40) DEF Nameplates
  <2>2. \A n \in I : \A j \in GJ[n] : given[<<n, j>>] \in Int /\ row[n][j] = given[<<n, j>>]
    <3> HIDE DEF row, given
    <3> SUFFICES ASSUME NEW n \in I, NEW j \in GJ[n] PROVE given[<<n, j>>] \in Int /\ row[n][j] = given[<<n, j>>]
      OBVIOUS
    <3> QED BY <1>4, <1>7, <1>17, <2>1, <2>6, <2>7, ZenonT(40)
  <2> HIDE DEF row, given
  <2>4. SumOver(given, PairsOf(I, GJ)) = SumOver([n \in I |-> SumOver(row[n], GJ[n])], I)
    BY <1>1, <1>10, <2>2, SumOfRows
  <2>5. [n \in I |-> SumOver(row[n], GJ[n])] = inc
    BY <1>12, <2>3
  <2> QED BY <1>9, <2>4, <2>5
<1>20. /\ Model!SumOf(each, LAMBDA i : i.total) = SumOver(tot, I) /\ Model!SumOf(each, LAMBDA i : i.included) = SumOver(inc, I)
       /\ SumOver(tot, I) \in Nat /\ SumOver(inc, I) \in Nat
  <2>1. Model!SumOf(each, LAMBDA i : i.total) = Model!SumFunction(tot) /\ Model!SumOf(each, LAMBDA i : i.included) = Model!SumFunction(inc)
    BY <1>6 DEF Model!SumOf
  <2> HIDE DEF tot, inc
  <2> QED BY <1>1, <1>15, <2>1, ModelSumIs, SumOfNaturals
<1>21. /\ Model!SumOf(all, LAMBDA s : s.nameplate) = SumOver(plates, pairs)
       /\ Model!SumOf(Model!Given(all), LAMBDA s : s.nameplate) = SumOver(given, GA)
  <2>1. DOMAIN Model!Given(all) = GA /\ Model!Given(all) = [p \in GA |-> all[p]]
    BY <1>8, GivenIs DEF GA
  <2>2. [p \in DOMAIN Model!Given(all) |-> Model!Given(all)[p].nameplate] = given /\ [p \in DOMAIN all |-> all[p].nameplate] = plates
    BY <1>8, <2>1 DEF Nameplates
  <2>3. given = [p \in GA |-> given[p]] /\ plates = [p \in pairs |-> plates[p]]
    BY DEF Nameplates
  <2> HIDE DEF given, plates
  <2>4. Model!SumOf(all, LAMBDA s : s.nameplate) = Model!SumFunction(plates)
    BY <2>2 DEF Model!SumOf
  <2>5. Model!SumOf(Model!Given(all), LAMBDA s : s.nameplate) = Model!SumFunction(given)
    BY <2>2 DEF Model!SumOf
  <2> QED BY <1>11, <1>16, <1>17, <2>3, <2>4, <2>5, ModelSumIs
<1> DEFINE included == SumOver(inc, I)
           total == SumOver(tot, I)
           reasons == UNION {each[n].reasons : n \in I}
           because == Model!Reasons(reasons, included, total)
           sum == Model!Together([n \in DOMAIN Model!Given(each) |-> Model!Given(each)[n].power])
<1>22. /\ system.included = included /\ system.total = total /\ system.completeness = Model!Completeness(included, because)
       /\ system.power = IF included = 0 THEN Model!NoEstimate ELSE sum
  BY <1>6, <1>20 DEF Model!System
<1>23. /\ sum \in Estimated(Nat) /\ sum.central = SumOver(Centrals(each, GE), GE)
       /\ sum.lower # NotGiven => \A n \in GE : each[n].power.lower # NotGiven
       /\ AreOrdered(each, I) => Model!Ordered(sum)
  <2>1. \A n \in I : each[n].power \in Predicted(Nat)
    BY <1>12
  <2> HIDE DEF sum, GE
  <2> QED BY <1>1, <1>6, <2>1, GivenTogether DEF sum, GE
<1>24. GE \in SUBSET I
  BY DEF GivenIn
<1>25. DOMAIN Model!Given(each) = GE /\ Model!Given(each) = [n \in GE |-> each[n]]
  BY <1>6, GivenIs
<1>26. \A n \in GE : each[n].power # Model!NoEstimate /\ each[n].power \in Estimated(Nat)
  BY <1>12 DEF GivenIn, Predicted
<1>27. included \in Nat /\ total \in Nat
  BY <1>20
<1> HIDE DEF inc, tot, plates, given, included, total, sum, GE, system
<1>28. (system.power # Model!NoEstimate) <=> system.included > 0
  BY <1>22, <1>23, <1>27, EstimatesAreGiven
<1>29. system.included = Model!SumOf(Model!Given(all), LAMBDA s : s.nameplate) /\ system.total = Model!SumOf(all, LAMBDA s : s.nameplate)
  BY <1>18, <1>19, <1>21, <1>22 DEF included, total
<1>30. /\ system.included < system.total => system.completeness # "complete"
       /\ system.completeness = "complete" => \A n \in I : each[n].reasons = {}
  <2>1. reasons \subseteq because /\ (included < total => because # {}) /\ (Model!Completeness(included, because) = "complete" => because = {})
    BY <1>27, ReasonsAre
  <2> HIDE DEF because
  <2> QED BY <1>22, <2>1
<1> HIDE DEF reasons, because
<1>31. system.completeness = "complete" => \A p \in pairs : all[p].power # Model!NoEstimate \/ all[p].reasons = {}
  BY <1>4, <1>5, <1>12, <1>30
<1>32. ASSUME AreOrdered(all, pairs)
       PROVE AreOrdered(each, I) /\ (system.power # Model!NoEstimate => Model!Ordered(system.power))
  <2>1. ASSUME NEW n \in I PROVE AreOrdered(inverters[n].strings, J[n])
    BY <1>4, <1>32 DEF AreOrdered
  <2>2. AreOrdered(each, I)
    BY <1>12, <2>1 DEF AreOrdered
  <2> QED BY <1>22, <1>23, <2>2
<1> DEFINE most == [n \in I |-> inverters[n].most]
           mine == Centrals(each, GE)
           row == [n \in I |-> Centrals(inverters[n].strings, GJ[n])]
           theirs == [n \in I |-> SumOver(row[n], GJ[n])]
           centrals == Centrals(all, GA)
<1>33. \A n \in GE : mine[n] \in Int /\ mine[n] <= most[n] /\ mine[n] <= theirs[n]
  <2> SUFFICES ASSUME NEW n \in GE PROVE mine[n] \in Int /\ mine[n] <= most[n] /\ mine[n] <= theirs[n]
    OBVIOUS
  <2>1. n \in I
    BY <1>24
  <2>2. mine[n] = each[n].power.central /\ most[n] = inverters[n].most /\ theirs[n] = SumOver(Centrals(inverters[n].strings, GJ[n]), GJ[n])
    BY <2>1 DEF Centrals
  <2>3. each[n].power.central \in Int
    BY <1>26 DEF Estimated
  <2> HIDE DEF mine, most, theirs
  <2> QED BY <1>12, <1>26, <2>1, <2>2, <2>3
<1>47. \A p \in GA : centrals[p] = all[p].power.central /\ centrals[p] \in Int
  <2>1. \A p \in GA : centrals[p] = all[p].power.central
    BY DEF Centrals
  <2> HIDE DEF centrals
  <2>2. ASSUME NEW p \in GA PROVE all[p].power.central \in Int
    <3>0. PICK n \in I : \E j \in GJ[n] : p = <<n, j>>
      BY <1>9 DEF PairsOf
    <3>1. PICK j \in GJ[n] : p = <<n, j>>
      BY <3>0
    <3>2. all[p] = inverters[n].strings[j]
      BY <1>4, <1>7, <3>1
    <3>3. inverters[n].strings[j].power.central \in Int
      BY <1>14 DEF Estimated
    <3> QED BY <3>2, <3>3
  <2> QED BY <2>1, <2>2
<1>34. IsFiniteSet(GE)
  BY <1>1, <1>24, FS_Subset
<1>35. \A n \in I : most[n] \in Nat /\ most[n] \in Int
  BY <1>2
<1>36. \A n \in I : theirs[n] \in Nat /\ theirs[n] \in Int
  <2> SUFFICES ASSUME NEW n \in I PROVE SumOver(row[n], GJ[n]) \in Nat
    OBVIOUS
  <2>1. \A j \in GJ[n] : row[n][j] \in Nat
    BY <1>14 DEF Centrals, Estimated
  <2> HIDE DEF row
  <2> QED BY <1>10, <2>1, SumOfNaturals
<1>37. SumOver(centrals, GA) = SumOver(theirs, I)
  <2>1. \A n \in I : \A j \in GJ[n] : <<n, j>> \in GA
    BY <1>9 DEF PairsOf
  <2>4. \A n \in I : row[n] = Centrals(inverters[n].strings, GJ[n])
    OBVIOUS
  <2>5. \A n \in I : \A j \in GJ[n] : row[n][j] = inverters[n].strings[j].power.central
    <3> HIDE DEF row
    <3> QED BY <2>4, ZenonT(40) DEF Centrals
  <2>2. \A n \in I : \A j \in GJ[n] : centrals[<<n, j>>] \in Int /\ row[n][j] = centrals[<<n, j>>]
    <3> HIDE DEF row, centrals
    <3> SUFFICES ASSUME NEW n \in I, NEW j \in GJ[n] PROVE centrals[<<n, j>>] \in Int /\ row[n][j] = centrals[<<n, j>>]
      OBVIOUS
    <3> QED BY <1>4, <1>7, <1>47, <2>1, <2>5, ZenonT(40)
  <2> HIDE DEF row, centrals
  <2>3. SumOver(centrals, PairsOf(I, GJ)) = SumOver([n \in I |-> SumOver(row[n], GJ[n])], I)
    BY <1>1, <1>10, <2>2, SumOfRows
  <2> QED BY <1>9, <2>3
<1>38. Model!SumOf(inverters, LAMBDA i : i.most) = SumOver(most, I)
  <2>1. Model!SumOf(inverters, LAMBDA i : i.most) = Model!SumFunction(most)
    BY DEF Model!SumOf, I
  <2>2. most = [n \in I |-> most[n]]
    OBVIOUS
  <2> HIDE DEF most
  <2> QED BY <1>1, <1>35, <2>1, <2>2, ModelSumIs
<1>39. Model!SumOf(Model!Given(all), LAMBDA s : s.power.central) = SumOver(centrals, GA)
  <2>1. DOMAIN Model!Given(all) = GA /\ Model!Given(all) = [p \in GA |-> all[p]]
    BY <1>8, GivenIs DEF GA
  <2>2. [p \in DOMAIN Model!Given(all) |-> Model!Given(all)[p].power.central] = centrals
    BY <2>1 DEF Centrals
  <2>3. centrals = [p \in GA |-> centrals[p]]
    BY DEF Centrals
  <2>4. \A p \in GA : centrals[p] \in Int
    BY <1>47
  <2> HIDE DEF centrals
  <2>5. Model!SumOf(Model!Given(all), LAMBDA s : s.power.central) = Model!SumFunction(centrals)
    BY <2>2 DEF Model!SumOf
  <2> QED BY <1>11, <2>3, <2>4, <2>5, ModelSumIs
<1> HIDE DEF most, mine, theirs, row, centrals
<1>40. SumOver(mine, GE) <= SumOver(most, I) /\ SumOver(mine, GE) <= SumOver(theirs, I)
  <2>0. \A n \in GE : most[n] \in Int /\ theirs[n] \in Int
    BY <1>24, <1>35, <1>36
  <2>1. SumOver(mine, GE) <= SumOver(most, GE) /\ SumOver(mine, GE) <= SumOver(theirs, GE)
    BY <1>33, <1>34, <2>0, SumsCompare
  <2>2. SumOver(most, GE) <= SumOver(most, I) /\ SumOver(theirs, GE) <= SumOver(theirs, I)
    BY <1>1, <1>24, <1>35, <1>36, SumOfPart
  <2>3. /\ SumOver(mine, GE) \in Int /\ SumOver(most, GE) \in Int /\ SumOver(theirs, GE) \in Int
        /\ SumOver(most, I) \in Int /\ SumOver(theirs, I) \in Int
    BY <1>1, <1>33, <1>34, <1>35, <1>36, <2>0, SumIsInt
  <2> QED BY <2>1, <2>2, <2>3
<1>41. system.power # Model!NoEstimate => /\ system.power.central <= Model!SumOf(inverters, LAMBDA i : i.most)
                                          /\ system.power.central <= Model!SumOf(Model!Given(all), LAMBDA s : s.power.central)
  BY <1>22, <1>23, <1>37, <1>38, <1>39, <1>40 DEF mine
<1>42. system.power.lower # NotGiven => \A n \in DOMAIN Model!Given(each) : Model!Given(each)[n].power.lower # NotGiven
  BY <1>22, <1>23, <1>25 DEF Model!NoEstimate
<1>43. AreOrdered(all, pairs) => AreOrdered(each, I) /\ AreOrdered(<<system>>, DOMAIN <<system>>)
  BY <1>32 DEF AreOrdered
<1> QED BY <1>6, <1>8, <1>28, <1>29, <1>30, <1>31, <1>41, <1>42, <1>43, Zenon DEF Model!SystemAddsUp, AreOrdered, I, each, pairs, all, system

-----------------------------------------------------------------------------
(* Statistics.                                                              *)
KnownOf(u) == {n \in DOMAIN u : u[n] # NotGiven}
Joins(w, u, v) ==
  /\ u \in Seq(Figure) /\ v \in Seq(Figure) /\ w \in Seq(Figure) /\ Len(w) = Len(u) + Len(v)
  /\ \A n \in 1..Len(u) : w[n] = u[n]
  /\ \A n \in 1..Len(v) : w[Len(u) + n] = v[n]

LEMMA KnownIs == ASSUME NEW u PROVE DOMAIN Sums!Known(u) = KnownOf(u) /\ Sums!Known(u) = [n \in KnownOf(u) |-> u[n]]
BY DEF Sums!Known, KnownOf

LEMMA KnownAreInts == ASSUME NEW u \in Seq(Figure) PROVE IsFiniteSet(KnownOf(u)) /\ \A n \in KnownOf(u) : u[n] \in Int
<1> DEFINE D == DOMAIN u
<1>1. IsFiniteSet(D) /\ \A n \in D : u[n] \in Figure
  BY FS_Interval
<1>2. KnownOf(u) \in SUBSET D
  BY DEF KnownOf
<1>3. \A n \in KnownOf(u) : n \in D /\ u[n] # NotGiven
  BY DEF KnownOf
<1> HIDE DEF D
<1>4. IsFiniteSet(KnownOf(u))
  BY <1>1, <1>2, FS_Subset
<1> QED BY <1>1, <1>3, <1>4 DEF Figure, MaybeGiven

LEMMA TotalIs ==
  ASSUME NEW u \in Seq(Figure)
  PROVE /\ Sums!TotalOf(u) = IF KnownOf(u) = {} THEN NotGiven ELSE SumOver(u, KnownOf(u))
        /\ SumOver(u, KnownOf(u)) \in Int
<1> DEFINE K == KnownOf(u)
           h == [n \in K |-> u[n]]
<1>1. Sums!TotalOf(u) = IF K = {} THEN NotGiven ELSE Sums!SumFunction(h)
  BY KnownIs DEF Sums!TotalOf, Sums!Added
<1>2. IsFiniteSet(K) /\ \A n \in K : u[n] \in Int
  BY KnownAreInts
<1>3. h = [n \in K |-> h[n]] /\ \A n \in K : h[n] = u[n]
  OBVIOUS
<1> HIDE DEF h, K
<1>4. Sums!SumFunction(h) = SumOver(h, K) /\ SumOver(h, K) = SumOver(u, K) /\ SumOver(u, K) \in Int
  BY <1>2, <1>3, SumsFunctionIs, SumsEqual, SumIsInt
<1> QED BY <1>1, <1>4 DEF K

LEMMA AddedIs ==
  ASSUME NEW u \in Seq(Int) PROVE Sums!Added(u) = SumOver(u, DOMAIN u) /\ SumOver(u, DOMAIN u) \in Int
<1> DEFINE D == DOMAIN u
<1>1. IsFiniteSet(D) /\ u = [n \in D |-> u[n]] /\ \A n \in D : u[n] \in Int
  BY FS_Interval
<1> HIDE DEF D
<1>2. Sums!SumFunction(u) = SumOver(u, D) /\ SumOver(u, D) \in Int
  BY <1>1, SumsFunctionIs, SumIsInt
<1> QED BY <1>2 DEF Sums!Added, D

LEMMA NumbersAreKnown == ASSUME NEW u \in Seq(Int) PROVE u \in Seq(Figure) /\ KnownOf(u) = DOMAIN u
<1>1. \A n \in DOMAIN u : u[n] # NotGiven
  BY SummaryConstants
<1>2. u \in Seq(Figure)
  BY DEF Figure, MaybeGiven
<1> QED BY <1>1, <1>2 DEF KnownOf

(* The second part of what is joined has moved by the length of the first.  *)
LEMMA JoinedKnown ==
  ASSUME NEW w, NEW u, NEW v, Joins(w, u, v)
  PROVE LET m == [n \in KnownOf(v) |-> Len(u) + n]
        IN /\ KnownOf(w) = KnownOf(u) \cup Image(m, KnownOf(v)) /\ KnownOf(u) \cap Image(m, KnownOf(v)) = {}
           /\ Moves(m, KnownOf(v)) /\ \A n \in KnownOf(v) : w[m[n]] = v[n]
           /\ \A n \in KnownOf(u) : w[n] = u[n]
<1> DEFINE a == Len(u)
           b == Len(v)
           m == [n \in KnownOf(v) |-> a + n]
<1>1. a \in Nat /\ b \in Nat /\ DOMAIN u = 1..a /\ DOMAIN v = 1..b /\ DOMAIN w = 1..(a + b)
  BY DEF Joins
<1>2. (\A n \in 1..a : w[n] = u[n]) /\ \A n \in 1..b : w[a + n] = v[n]
  BY DEF Joins
<1>3. \A n \in KnownOf(v) : n \in 1..b /\ v[n] # NotGiven /\ m[n] = a + n
  BY <1>1 DEF KnownOf
<1>4. \A n \in KnownOf(u) : n \in 1..a /\ u[n] # NotGiven
  BY <1>1 DEF KnownOf
<1>5. \A n \in 1..b : v[n] # NotGiven => n \in KnownOf(v)
  BY <1>1 DEF KnownOf
<1>6. \A n \in 1..a : u[n] # NotGiven => n \in KnownOf(u)
  BY <1>1 DEF KnownOf
<1> HIDE DEF a, b, m
<1>7. Moves(m, KnownOf(v))
  BY <1>1, <1>3 DEF Moves
<1>8. KnownOf(u) \cap Image(m, KnownOf(v)) = {}
  BY <1>1, <1>3, <1>4 DEF Image
<1>9. ASSUME NEW n \in KnownOf(w) PROVE n \in KnownOf(u) \cup Image(m, KnownOf(v))
  <2>1. n \in 1..(a + b) /\ w[n] # NotGiven
    BY <1>1 DEF KnownOf
  <2>2. CASE n <= a
    BY <1>1, <1>2, <1>6, <2>1, <2>2
  <2>3. CASE ~(n <= a)
    <3>1. n - a \in 1..b /\ n = a + (n - a)
      BY <1>1, <2>1, <2>3
    <3>2. n - a \in KnownOf(v)
      BY <1>2, <1>5, <2>1, <3>1
    <3>3. m[n - a] = n
      BY <1>3, <3>1, <3>2
    <3> QED BY <3>2, <3>3 DEF Image
  <2> QED BY <2>2, <2>3
<1>10. ASSUME NEW n \in KnownOf(u) PROVE n \in KnownOf(w)
  <2>1. n \in 1..(a + b) /\ w[n] # NotGiven
    BY <1>1, <1>2, <1>4
  <2> QED BY <1>1, <2>1 DEF KnownOf
<1>11. ASSUME NEW n \in KnownOf(v) PROVE m[n] \in KnownOf(w) /\ w[m[n]] = v[n]
  <2>1. m[n] \in 1..(a + b) /\ w[m[n]] = v[n] /\ v[n] # NotGiven
    BY <1>1, <1>2, <1>3
  <2> QED BY <1>1, <2>1 DEF KnownOf
<1>12. \A n \in Image(m, KnownOf(v)) : n \in KnownOf(w)
  BY <1>11 DEF Image
<1>13. KnownOf(w) = KnownOf(u) \cup Image(m, KnownOf(v))
  BY <1>9, <1>10, <1>12
<1>14. \A n \in KnownOf(u) : w[n] = u[n]
  BY <1>2, <1>4
<1> QED BY <1>7, <1>8, <1>11, <1>13, <1>14 DEF m, a

LEMMA SumJoined ==
  ASSUME NEW w, NEW u, NEW v, Joins(w, u, v)
  PROVE SumOver(w, KnownOf(w)) = SumOver(u, KnownOf(u)) + SumOver(v, KnownOf(v))
<1> DEFINE m == [n \in KnownOf(v) |-> Len(u) + n]
           A == KnownOf(u)
           B == KnownOf(v)
           C == Image(m, B)
<1>1. KnownOf(w) = A \cup C /\ A \cap C = {} /\ Moves(m, B) /\ (\A n \in B : w[m[n]] = v[n]) /\ \A n \in A : w[n] = u[n]
  BY JoinedKnown
<1>2. IsFiniteSet(A) /\ IsFiniteSet(B) /\ (\A n \in A : u[n] \in Int) /\ \A n \in B : v[n] \in Int
  BY KnownAreInts DEF Joins
<1> HIDE DEF m, A, B
<1>3. IsFiniteSet(C)
  BY <1>2, FiniteImage DEF Image
<1>4. \A n \in C : w[n] \in Int
  BY <1>1, <1>2 DEF Image
<1> HIDE DEF C
<1>5. \A n \in A \cup C : w[n] \in Int
  BY <1>1, <1>2, <1>4
<1>6. SumOver(w, A \cup C) = SumOver(w, A) + SumOver(w, C)
  BY <1>1, <1>2, <1>3, <1>5, SumsJoin
<1>7. SumOver(w, A) = SumOver(u, A)
  BY <1>1, <1>2, SumsEqual
<1>8. SumOver(v, B) = SumOver(w, C)
  <2>1. \A n \in B : w[m[n]] \in Int /\ v[n] = w[m[n]]
    BY <1>1, <1>2
  <2> QED BY <1>1, <1>2, <2>1, SumMoved DEF C
<1> QED BY <1>1, <1>6, <1>7, <1>8 DEF A, B

LEMMA TotalOfTwo ==
  ASSUME NEW x \in Figure, NEW y \in Figure
  PROVE Sums!TotalOf(<<x, y>>) = IF x = NotGiven THEN y ELSE IF y = NotGiven THEN x ELSE x + y
<1> DEFINE u == <<x, y>>
<1>1. u \in Seq(Figure) /\ u[1] = x /\ u[2] = y
  OBVIOUS
<1>2. KnownOf(u) = (IF x = NotGiven THEN {} ELSE {1}) \cup (IF y = NotGiven THEN {} ELSE {2})
  BY DEF KnownOf
<1> HIDE DEF u
<1>3. Sums!TotalOf(u) = IF KnownOf(u) = {} THEN NotGiven ELSE SumOver(u, KnownOf(u))
  BY <1>1, TotalIs
<1>4. x # NotGiven => x \in Int
  BY DEF Figure, MaybeGiven
<1>5. y # NotGiven => y \in Int
  BY DEF Figure, MaybeGiven
<1> DEFINE total == Sums!TotalOf(u)
           sum == IF x = NotGiven THEN y ELSE IF y = NotGiven THEN x ELSE x + y
<1>6. ASSUME x = NotGiven, y = NotGiven PROVE total = sum
  BY <1>2, <1>3, <1>6
<1>7. ASSUME x = NotGiven, y # NotGiven PROVE total = sum
  <2>1. KnownOf(u) = {2}
    BY <1>2, <1>7
  <2>2. SumOver(u, {2}) = u[2]
    BY <1>1, <1>5, <1>7, SumOfOne
  <2> QED BY <1>1, <1>3, <1>7, <2>1, <2>2
<1>8. ASSUME x # NotGiven, y = NotGiven PROVE total = sum
  <2>1. KnownOf(u) = {1}
    BY <1>2, <1>8
  <2>2. SumOver(u, {1}) = u[1]
    BY <1>1, <1>4, <1>8, SumOfOne
  <2> QED BY <1>1, <1>3, <1>8, <2>1, <2>2
<1>9. ASSUME x # NotGiven, y # NotGiven PROVE total = sum
  <2> DEFINE S == {1, 2}
  <2>1. KnownOf(u) = S /\ S \ {1} = {2} /\ 1 \in S
    BY <1>2, <1>9
  <2>2. IsFiniteSet(S) /\ \A n \in S : u[n] \in Int
    BY <1>1, <1>4, <1>5, <1>9, <2>1, KnownAreInts
  <2> HIDE DEF S
  <2>3. SumOver(u, S) = u[1] + SumOver(u, S \ {1})
    BY <2>1, <2>2, SumAdds
  <2>4. SumOver(u, {2}) = u[2]
    BY <1>1, <1>5, <1>9, SumOfOne
  <2> QED BY <1>1, <1>3, <1>9, <2>1, <2>3, <2>4
<1> QED BY <1>6, <1>7, <1>8, <1>9 DEF u

LEMMA TotalJoined ==
  ASSUME NEW w, NEW u, NEW v, Joins(w, u, v)
  PROVE /\ Sums!TotalOf(u) \in Figure /\ Sums!TotalOf(v) \in Figure
        /\ Sums!TotalOf(w) = Sums!TotalOf(<<Sums!TotalOf(u), Sums!TotalOf(v)>>)
<1> DEFINE m == [n \in KnownOf(v) |-> Len(u) + n]
           a == SumOver(u, KnownOf(u))
           b == SumOver(v, KnownOf(v))
           c == SumOver(w, KnownOf(w))
           x == Sums!TotalOf(u)
           y == Sums!TotalOf(v)
<1>1. u \in Seq(Figure) /\ v \in Seq(Figure) /\ w \in Seq(Figure)
  BY DEF Joins
<1>2. /\ KnownOf(w) = KnownOf(u) \cup Image(m, KnownOf(v)) /\ KnownOf(u) \cap Image(m, KnownOf(v)) = {}
      /\ Moves(m, KnownOf(v)) /\ \A n \in KnownOf(v) : w[m[n]] = v[n]
      /\ \A n \in KnownOf(u) : w[n] = u[n]
  BY JoinedKnown
<1>3. Image(m, KnownOf(v)) = {} <=> KnownOf(v) = {}
  BY DEF Image
<1>4. KnownOf(w) = {} <=> KnownOf(u) = {} /\ KnownOf(v) = {}
  <2> HIDE DEF m
  <2> QED BY <1>2, <1>3
<1>5. x = (IF KnownOf(u) = {} THEN NotGiven ELSE a) /\ a \in Int
  BY <1>1, TotalIs
<1>6. y = (IF KnownOf(v) = {} THEN NotGiven ELSE b) /\ b \in Int
  BY <1>1, TotalIs
<1>7. Sums!TotalOf(w) = (IF KnownOf(w) = {} THEN NotGiven ELSE c) /\ c = a + b
  BY <1>1, TotalIs, SumJoined
<1>8. (KnownOf(u) = {} => a = 0) /\ (KnownOf(v) = {} => b = 0)
  BY SumOfNone
<1> HIDE DEF a, b, c, x, y
<1>9. x \in Figure /\ y \in Figure
  BY <1>5, <1>6 DEF Figure, MaybeGiven
<1>10. Sums!TotalOf(<<x, y>>) = IF x = NotGiven THEN y ELSE IF y = NotGiven THEN x ELSE x + y
  BY <1>9, TotalOfTwo
<1>11. a # NotGiven /\ b # NotGiven
  BY <1>5, <1>6, SummaryConstants
<1> QED BY <1>4, <1>5, <1>6, <1>7, <1>8, <1>9, <1>10, <1>11 DEF x, y

LEMMA ImageJoined ==
  ASSUME NEW w, NEW u, NEW v, Joins(w, u, v)
  PROVE Image(w, KnownOf(w)) = Image(u, KnownOf(u)) \cup Image(v, KnownOf(v))
<1> DEFINE m == [n \in KnownOf(v) |-> Len(u) + n]
           A == KnownOf(u)
           B == KnownOf(v)
           C == Image(m, B)
<1>1. KnownOf(w) = A \cup C /\ A \cap C = {} /\ Moves(m, B) /\ (\A n \in B : w[m[n]] = v[n]) /\ \A n \in A : w[n] = u[n]
  BY JoinedKnown
<1> HIDE DEF m, A, B
<1>2. C = {m[n] : n \in B}
  BY DEF Image
<1> HIDE DEF C
<1>3. \A x : x \in Image(w, A \cup C) <=> (\E n \in A : x = w[n]) \/ \E n \in C : x = w[n]
  BY DEF Image
<1>4. \A x : (\E n \in C : x = w[n]) <=> \E n \in B : x = v[n]
  BY <1>1, <1>2
<1>5. \A x : (\E n \in A : x = w[n]) <=> \E n \in A : x = u[n]
  BY <1>1
<1>6. \A x : x \in Image(u, A) \cup Image(v, B) <=> (\E n \in A : x = u[n]) \/ \E n \in B : x = v[n]
  BY DEF Image
<1>7. Image(w, A \cup C) = Image(u, A) \cup Image(v, B)
  BY <1>3, <1>4, <1>5, <1>6
<1> QED BY <1>1, <1>7 DEF A, B

LEMMA ImageOfTwo == ASSUME NEW x \in Figure, NEW y \in Figure PROVE <<x, y>> \in Seq(Figure) /\ Image(<<x, y>>, KnownOf(<<x, y>>)) = {x, y} \ {NotGiven}
<1> DEFINE u == <<x, y>>
<1>1. u \in Seq(Figure) /\ u[1] = x /\ u[2] = y /\ DOMAIN u = {1, 2}
  OBVIOUS
<1> HIDE DEF u
<1>2. Image(u, KnownOf(u)) = {x, y} \ {NotGiven}
  BY <1>1 DEF Image, KnownOf
<1> QED BY <1>1, <1>2 DEF u

LEMMA ImageIsFinite ==
  ASSUME NEW u \in Seq(Figure)
  PROVE LET I == Image(u, KnownOf(u)) IN IsFiniteSet(I) /\ I \subseteq Int /\ (I = {} <=> KnownOf(u) = {})
<1>1. IsFiniteSet(KnownOf(u)) /\ \A n \in KnownOf(u) : u[n] \in Int
  BY KnownAreInts
<1>2. IsFiniteSet(Image(u, KnownOf(u)))
  BY <1>1, FiniteImage DEF Image
<1> QED BY <1>1, <1>2 DEF Image

LEMMA GreatestOfSums ==
  ASSUME NEW S, S \subseteq Int, IsFiniteSet(S), S # {} PROVE Sums!Max(S) \in S /\ \A y \in S : y <= Sums!Max(S)
<1>1. \E x \in S : \A y \in S : y <= x
  BY GreatestExists
<1>2. \E x \in S : \A y \in S : x >= y
  BY <1>1
<1>3. Sums!Max(S) \in S /\ \A y \in S : Sums!Max(S) >= y
  BY <1>2 DEF Sums!Max
<1> QED BY <1>3

LEMMA LargestIs ==
  ASSUME NEW u \in Seq(Figure)
  PROVE LET I == Image(u, KnownOf(u)) IN
        IF I = {} THEN Sums!Largest(u) = NotGiven ELSE Sums!Largest(u) \in I /\ \A y \in I : y <= Sums!Largest(u)
<1> DEFINE I == Image(u, KnownOf(u))
<1>1. Sums!Largest(u) = IF KnownOf(u) = {} THEN NotGiven ELSE Sums!Max(I)
  BY KnownIs DEF Sums!Largest, Sums!Range, Image
<1>2. IsFiniteSet(I) /\ I \subseteq Int /\ (I = {} <=> KnownOf(u) = {})
  BY ImageIsFinite
<1> HIDE DEF I
<1>3. I # {} => Sums!Max(I) \in I /\ \A y \in I : y <= Sums!Max(I)
  BY <1>2, GreatestOfSums
<1> QED BY <1>1, <1>2, <1>3 DEF I

LEMMA LargestJoined ==
  ASSUME NEW w, NEW u, NEW v, Joins(w, u, v) PROVE Sums!Largest(w) = Sums!Largest(<<Sums!Largest(u), Sums!Largest(v)>>)
<1> DEFINE A == Image(u, KnownOf(u))
           B == Image(v, KnownOf(v))
           C == Image(w, KnownOf(w))
           x == Sums!Largest(u)
           y == Sums!Largest(v)
           z == Sums!Largest(w)
           p == <<x, y>>
           P == Image(p, KnownOf(p))
           q == Sums!Largest(p)
<1>1. u \in Seq(Figure) /\ v \in Seq(Figure) /\ w \in Seq(Figure)
  BY DEF Joins
<1>2. A \subseteq Int /\ B \subseteq Int
  BY <1>1, ImageIsFinite
<1>3. IF A = {} THEN x = NotGiven ELSE x \in A /\ \A a \in A : a <= x
  BY <1>1, LargestIs
<1>4. IF B = {} THEN y = NotGiven ELSE y \in B /\ \A a \in B : a <= y
  BY <1>1, LargestIs
<1>5. IF C = {} THEN z = NotGiven ELSE z \in C /\ \A a \in C : a <= z
  BY <1>1, LargestIs
<1>6. C = A \cup B
  BY ImageJoined
<1>7. NotGiven \notin Int
  BY SummaryConstants
<1> HIDE DEF A, B, C, x, y, z
<1>8. x \in Figure /\ y \in Figure
  BY <1>2, <1>3, <1>4 DEF Figure, MaybeGiven
<1>9. p \in Seq(Figure) /\ P = {x, y} \ {NotGiven}
  BY <1>8, ImageOfTwo
<1>10. IF P = {} THEN q = NotGiven ELSE q \in P /\ \A a \in P : a <= q
  BY <1>9, LargestIs
<1> HIDE DEF p, P, q
<1> SUFFICES z = q
  BY DEF z, q, p, x, y
<1>11. CASE A = {} /\ B = {}
  BY <1>3, <1>4, <1>5, <1>6, <1>9, <1>10, <1>11
<1>12. CASE A = {} /\ B # {}
  <2>1. x = NotGiven /\ y \in B /\ y \in Int /\ y # NotGiven
    BY <1>2, <1>3, <1>4, <1>7, <1>12
  <2>2. P = {y}
    BY <1>9, <2>1
  <2>3. q = y
    BY <1>10, <2>2
  <2>4. C = B
    BY <1>6, <1>12
  <2>5. z \in B /\ z \in Int /\ y <= z /\ z <= y
    BY <1>2, <1>5, <1>4, <2>1, <2>4
  <2> QED BY <2>1, <2>3, <2>5
<1>13. CASE A # {} /\ B = {}
  <2>1. y = NotGiven /\ x \in A /\ x \in Int /\ x # NotGiven
    BY <1>2, <1>4, <1>3, <1>7, <1>13
  <2>2. P = {x}
    BY <1>9, <2>1
  <2>3. q = x
    BY <1>10, <2>2
  <2>4. C = A
    BY <1>6, <1>13
  <2>5. z \in A /\ z \in Int /\ x <= z /\ z <= x
    BY <1>2, <1>5, <1>3, <2>1, <2>4
  <2> QED BY <2>1, <2>3, <2>5
<1>14. CASE A # {} /\ B # {}
  <2>1. x \in A /\ y \in B /\ x \in Int /\ y \in Int /\ x # NotGiven /\ y # NotGiven
    BY <1>2, <1>3, <1>4, <1>7, <1>14
  <2>2. P = {x, y} /\ q \in {x, y} /\ x <= q /\ y <= q
    BY <1>9, <1>10, <2>1
  <2>3. q \in C /\ \A a \in C : a <= q
    BY <1>2, <1>3, <1>4, <1>6, <1>14, <2>1, <2>2
  <2>4. z \in C /\ z \in Int /\ q \in Int /\ q <= z /\ z <= q
    BY <1>2, <1>5, <1>6, <2>3
  <2> QED BY <2>4
<1> QED BY <1>11, <1>12, <1>13, <1>14

LEMMA SmallestIs ==
  ASSUME NEW u \in Seq(Figure)
  PROVE LET I == Image(u, KnownOf(u)) IN
        IF I = {} THEN Sums!Smallest(u) = NotGiven ELSE Sums!Smallest(u) \in I /\ \A y \in I : Sums!Smallest(u) <= y
<1> DEFINE I == Image(u, KnownOf(u))
<1>1. Sums!Smallest(u) = IF KnownOf(u) = {} THEN NotGiven ELSE Sums!Min(I)
  BY KnownIs DEF Sums!Smallest, Sums!Range, Image
<1>2. IsFiniteSet(I) /\ I \subseteq Int /\ (I = {} <=> KnownOf(u) = {})
  BY ImageIsFinite
<1> HIDE DEF I
<1>3. I # {} => Sums!Min(I) \in I /\ \A y \in I : Sums!Min(I) <= y
  BY <1>2, LeastOfSums
<1> QED BY <1>1, <1>2, <1>3 DEF I

LEMMA SmallestJoined ==
  ASSUME NEW w, NEW u, NEW v, Joins(w, u, v) PROVE Sums!Smallest(w) = Sums!Smallest(<<Sums!Smallest(u), Sums!Smallest(v)>>)
<1> DEFINE A == Image(u, KnownOf(u))
           B == Image(v, KnownOf(v))
           C == Image(w, KnownOf(w))
           x == Sums!Smallest(u)
           y == Sums!Smallest(v)
           z == Sums!Smallest(w)
           p == <<x, y>>
           P == Image(p, KnownOf(p))
           q == Sums!Smallest(p)
<1>1. u \in Seq(Figure) /\ v \in Seq(Figure) /\ w \in Seq(Figure)
  BY DEF Joins
<1>2. A \subseteq Int /\ B \subseteq Int
  BY <1>1, ImageIsFinite
<1>3. IF A = {} THEN x = NotGiven ELSE x \in A /\ \A a \in A : x <= a
  BY <1>1, SmallestIs
<1>4. IF B = {} THEN y = NotGiven ELSE y \in B /\ \A a \in B : y <= a
  BY <1>1, SmallestIs
<1>5. IF C = {} THEN z = NotGiven ELSE z \in C /\ \A a \in C : z <= a
  BY <1>1, SmallestIs
<1>6. C = A \cup B
  BY ImageJoined
<1>7. NotGiven \notin Int
  BY SummaryConstants
<1> HIDE DEF A, B, C, x, y, z
<1>8. x \in Figure /\ y \in Figure
  BY <1>2, <1>3, <1>4 DEF Figure, MaybeGiven
<1>9. p \in Seq(Figure) /\ P = {x, y} \ {NotGiven}
  BY <1>8, ImageOfTwo
<1>10. IF P = {} THEN q = NotGiven ELSE q \in P /\ \A a \in P : q <= a
  BY <1>9, SmallestIs
<1> HIDE DEF p, P, q
<1> SUFFICES z = q
  BY DEF z, q, p, x, y
<1>11. CASE A = {} /\ B = {}
  BY <1>3, <1>4, <1>5, <1>6, <1>9, <1>10, <1>11
<1>12. CASE A = {} /\ B # {}
  <2>1. x = NotGiven /\ y \in B /\ y \in Int /\ y # NotGiven
    BY <1>2, <1>3, <1>4, <1>7, <1>12
  <2>2. P = {y}
    BY <1>9, <2>1
  <2>3. q = y
    BY <1>10, <2>2
  <2>4. C = B
    BY <1>6, <1>12
  <2>5. z \in B /\ z \in Int /\ z <= y /\ y <= z
    BY <1>2, <1>5, <1>4, <2>1, <2>4
  <2> QED BY <2>1, <2>3, <2>5
<1>13. CASE A # {} /\ B = {}
  <2>1. y = NotGiven /\ x \in A /\ x \in Int /\ x # NotGiven
    BY <1>2, <1>4, <1>3, <1>7, <1>13
  <2>2. P = {x}
    BY <1>9, <2>1
  <2>3. q = x
    BY <1>10, <2>2
  <2>4. C = A
    BY <1>6, <1>13
  <2>5. z \in A /\ z \in Int /\ z <= x /\ x <= z
    BY <1>2, <1>5, <1>3, <2>1, <2>4
  <2> QED BY <2>1, <2>3, <2>5
<1>14. CASE A # {} /\ B # {}
  <2>1. x \in A /\ y \in B /\ x \in Int /\ y \in Int /\ x # NotGiven /\ y # NotGiven
    BY <1>2, <1>3, <1>4, <1>7, <1>14
  <2>2. P = {x, y} /\ q \in {x, y} /\ q <= x /\ q <= y
    BY <1>9, <1>10, <2>1
  <2>3. q \in C /\ \A a \in C : q <= a
    BY <1>2, <1>3, <1>4, <1>6, <1>14, <2>1, <2>2
  <2>4. z \in C /\ z \in Int /\ q \in Int /\ z <= q /\ q <= z
    BY <1>2, <1>5, <1>6, <2>3
  <2> QED BY <2>4
<1> QED BY <1>11, <1>12, <1>13, <1>14

(* A ratio of sums lies between the ratios.                                 *)
LEMMA RatioIsBetween ==
  ASSUME NEW a \in Nat, NEW b \in Nat, b > 0, NEW c \in Nat, NEW d \in Nat, d > 0, NEW f \in Nat
  PROVE LET x == (a * f) \div b
            y == (c * f) \div d
            z == ((a + c) * f) \div (b + d)
        IN x \in Int /\ y \in Int /\ z \in Int /\ \A m \in Int : (m <= x /\ m <= y => m <= z) /\ (x <= m /\ y <= m => z <= m)
<1> DEFINE x == (a * f) \div b
           y == (c * f) \div d
           z == ((a + c) * f) \div (b + d)
           p == a * f
           q == c * f
<1>1. p \in Nat /\ q \in Nat /\ (a + c) * f = p + q
  OBVIOUS
<1> HIDE DEF p, q
<1>2. x = p \div b /\ y = q \div d /\ z = (p + q) \div (b + d)
  BY <1>1 DEF p, q
<1> HIDE DEF x, y, z
<1>3. x \in Int /\ y \in Int /\ z \in Int
  <2>1. p \in Int /\ q \in Int /\ p + q \in Int /\ b + d \in Nat /\ b + d > 0
    BY <1>1
  <2> QED BY <1>2, <2>1, QuotientIs
<1>4. ASSUME NEW m \in Int PROVE (m <= x <=> m * b <= p) /\ (m <= y <=> m * d <= q) /\ (m <= z <=> m * (b + d) <= p + q)
  <2>1. p \in Int /\ q \in Int /\ p + q \in Int /\ b + d \in Nat /\ b + d > 0
    BY <1>1
  <2>2. m * b <= p <=> m <= p \div b
    BY <2>1, QuotientAtLeast
  <2>3. m * d <= q <=> m <= q \div d
    BY <2>1, QuotientAtLeast
  <2>4. m * (b + d) <= p + q <=> m <= (p + q) \div (b + d)
    BY <2>1, QuotientAtLeast
  <2> QED BY <1>2, <2>2, <2>3, <2>4
<1>5. ASSUME NEW m \in Int PROVE m * (b + d) = m * b + m * d /\ m * b \in Int /\ m * d \in Int
  OBVIOUS
<1>6. ASSUME NEW m \in Int, m <= x, m <= y PROVE m <= z
  BY <1>1, <1>4, <1>5, <1>6
<1>7. ASSUME NEW m \in Int, x <= m, y <= m PROVE z <= m
  <2>1. m + 1 \in Int /\ ~(m + 1 <= x) /\ ~(m + 1 <= y)
    BY <1>3, <1>7
  <2>2. ~((m + 1) * b <= p) /\ ~((m + 1) * d <= q)
    BY <1>4, <2>1
  <2>3. (m + 1) * (b + d) = (m + 1) * b + (m + 1) * d /\ (m + 1) * b \in Int /\ (m + 1) * d \in Int
    BY <1>5, <2>1
  <2>4. ~((m + 1) * (b + d) <= p + q)
    BY <1>1, <2>2, <2>3
  <2>5. ~(m + 1 <= z)
    BY <1>4, <2>1, <2>4
  <2> QED BY <1>3, <2>5
<1> QED BY <1>3, <1>6, <1>7 DEF x, y, z

SumsIn(s, k) == [n \in DOMAIN s |-> s[n].sums[k]]
PeaksIn(s) == [n \in DOMAIN s |-> s[n].peak]
LowsIn(s) == [n \in DOMAIN s |-> s[n].low]
CoveredIn(s) == [n \in DOMAIN s |-> s[n].covered]
ExpectedIn(s) == [n \in DOMAIN s |-> s[n].expected]
OwnUse(generation, export) ==
  IF generation # NotGiven /\ export # NotGiven THEN IF export > generation THEN 0 ELSE generation - export ELSE NotGiven

LEMMA StatisticsAre ==
  ASSUME NEW s, NEW capacity, Sums!Statistics(s, capacity) # Sums!NoStatistics
  PROVE LET x == Sums!Statistics(s, capacity)
        IN /\ s # <<>> /\ Sums!Added(ExpectedIn(s)) # 0
           /\ x.sums = [k \in Summed |-> Sums!TotalOf(SumsIn(s, k))]
           /\ x.own = OwnUse(x.sums["generation"], x.sums["export"])
           /\ x.peak = Sums!Largest(PeaksIn(s)) /\ x.low = Sums!Smallest(LowsIn(s))
           /\ x.coverage = (Sums!Added(CoveredIn(s)) * Full) \div Sums!Added(ExpectedIn(s))
<1> DEFINE x == Sums!Statistics(s, capacity)
           sums == [k \in Summed |-> Sums!TotalOf(SumsIn(s, k))]
           covered == Sums!Added(CoveredIn(s))
           expected == Sums!Added(ExpectedIn(s))
           refused == \/ s = <<>> \/ capacity = 0 \/ expected = 0
                      \/ \E n \in DOMAIN s : s[n].covered > s[n].expected
                      \/ \E k \in Summed : sums[k] # NotGiven /\ sums[k] > LargestSum
           answer == [sums |-> sums,
                      own |-> IF sums["generation"] # NotGiven /\ sums["export"] # NotGiven
                              THEN IF sums["export"] > sums["generation"] THEN 0 ELSE sums["generation"] - sums["export"] ELSE NotGiven,
                      efficiency |-> IF sums["generation"] # NotGiven /\ capacity # NotGiven THEN (sums["generation"] * 1000) \div capacity ELSE NotGiven,
                      net |-> IF sums["revenue"] # NotGiven /\ sums["cost"] # NotGiven THEN sums["revenue"] - sums["cost"] ELSE NotGiven,
                      peak |-> Sums!Largest(PeaksIn(s)), low |-> Sums!Smallest(LowsIn(s)),
                      coverage |-> (covered * Full) \div expected]
<1>1. x = IF refused THEN Sums!NoStatistics ELSE answer
  BY Zenon DEF Sums!Statistics, SumsIn, PeaksIn, LowsIn, CoveredIn, ExpectedIn
<1>2. ~refused => s # <<>> /\ expected # 0
  OBVIOUS
<1>3. /\ answer.sums = sums /\ answer.own = OwnUse(sums["generation"], sums["export"])
      /\ answer.peak = Sums!Largest(PeaksIn(s)) /\ answer.low = Sums!Smallest(LowsIn(s))
      /\ answer.coverage = (covered * Full) \div expected
  <2> HIDE DEF sums, covered, expected
  <2> QED BY DEF OwnUse
<1> HIDE DEF refused, answer, sums, covered, expected
<1>4. x = answer /\ ~refused
  BY <1>1
<1> QED BY <1>2, <1>3, <1>4 DEF sums, covered, expected

LEMMA ColumnsJoin ==
  ASSUME NEW a \in Seq(SummaryBucket), NEW b \in Seq(SummaryBucket)
  PROVE /\ \A k \in Summed : Joins(SumsIn(a \o b, k), SumsIn(a, k), SumsIn(b, k))
        /\ Joins(PeaksIn(a \o b), PeaksIn(a), PeaksIn(b)) /\ Joins(LowsIn(a \o b), LowsIn(a), LowsIn(b))
        /\ Joins(CoveredIn(a \o b), CoveredIn(a), CoveredIn(b)) /\ Joins(ExpectedIn(a \o b), ExpectedIn(a), ExpectedIn(b))
        /\ \A s \in {a, b, a \o b} : CoveredIn(s) \in Seq(Nat) /\ ExpectedIn(s) \in Seq(Nat)
<1> DEFINE c == a \o b
           p == Len(a)
           q == Len(b)
<1>1. p \in Nat /\ q \in Nat /\ DOMAIN a = 1..p /\ DOMAIN b = 1..q /\ DOMAIN c = 1..(p + q)
  OBVIOUS
<1>2. (\A n \in 1..p : c[n] = a[n] /\ a[n] \in SummaryBucket) /\ \A n \in 1..q : c[p + n] = b[n] /\ b[n] \in SummaryBucket
  OBVIOUS
<1>3. c \in Seq(SummaryBucket) /\ \A n \in 1..(p + q) : c[n] \in SummaryBucket
  OBVIOUS
<1>4. \A x \in SummaryBucket : (\A k \in Summed : x.sums[k] \in Figure) /\ x.peak \in Figure /\ x.low \in Figure /\ x.covered \in Nat /\ x.expected \in Nat
  BY DEF SummaryBucket
<1>5. \A n \in Nat : n \in Figure
  BY DEF Figure, MaybeGiven
<1> HIDE DEF c, p, q
<1>6. ASSUME NEW k \in Summed PROVE Joins(SumsIn(c, k), SumsIn(a, k), SumsIn(b, k))
  BY <1>1, <1>2, <1>3, <1>4 DEF Joins, SumsIn
<1>7. Joins(PeaksIn(c), PeaksIn(a), PeaksIn(b))
  BY <1>1, <1>2, <1>3, <1>4 DEF Joins, PeaksIn
<1>8. Joins(LowsIn(c), LowsIn(a), LowsIn(b))
  BY <1>1, <1>2, <1>3, <1>4 DEF Joins, LowsIn
<1>9. Joins(CoveredIn(c), CoveredIn(a), CoveredIn(b))
  BY <1>1, <1>2, <1>3, <1>4, <1>5 DEF Joins, CoveredIn
<1>10. Joins(ExpectedIn(c), ExpectedIn(a), ExpectedIn(b))
  BY <1>1, <1>2, <1>3, <1>4, <1>5 DEF Joins, ExpectedIn
<1>11. ASSUME NEW s \in Seq(SummaryBucket) PROVE CoveredIn(s) \in Seq(Nat) /\ ExpectedIn(s) \in Seq(Nat)
  <2>1. \A n \in DOMAIN s : s[n].covered \in Nat /\ s[n].expected \in Nat
    <3>1. \A n \in DOMAIN s : s[n] \in SummaryBucket
      OBVIOUS
    <3> QED BY <1>4, <3>1
  <2>2. DOMAIN s = 1..Len(s) /\ Len(s) \in Nat
    OBVIOUS
  <2> QED BY <2>1, <2>2 DEF CoveredIn, ExpectedIn
<1> QED BY <1>3, <1>6, <1>7, <1>8, <1>9, <1>10, <1>11 DEF c

LEMMA AddedJoined ==
  ASSUME NEW w \in Seq(Nat), NEW u \in Seq(Nat), NEW v \in Seq(Nat), Joins(w, u, v)
  PROVE /\ Sums!Added(u) \in Nat /\ Sums!Added(v) \in Nat /\ Sums!Added(w) = Sums!Added(u) + Sums!Added(v)
<1>1. \A x \in Seq(Nat) : x \in Seq(Int)
  OBVIOUS
<1>2. w \in Seq(Int) /\ u \in Seq(Int) /\ v \in Seq(Int)
  BY <1>1
<1>3. Sums!Added(w) = SumOver(w, DOMAIN w) /\ Sums!Added(u) = SumOver(u, DOMAIN u) /\ Sums!Added(v) = SumOver(v, DOMAIN v)
  BY <1>2, AddedIs
<1>4. KnownOf(w) = DOMAIN w /\ KnownOf(u) = DOMAIN u /\ KnownOf(v) = DOMAIN v
  BY <1>2, NumbersAreKnown
<1>5. SumOver(w, KnownOf(w)) = SumOver(u, KnownOf(u)) + SumOver(v, KnownOf(v))
  BY SumJoined
<1>6. ASSUME NEW x \in Seq(Nat) PROVE SumOver(x, DOMAIN x) \in Nat
  <2> DEFINE D == DOMAIN x
  <2>1. IsFiniteSet(D) /\ \A n \in D : x[n] \in Nat
    BY FS_Interval
  <2> HIDE DEF D
  <2>2. SumOver(x, D) \in Nat
    BY <2>1, SumOfNaturals
  <2> QED BY <2>2 DEF D
<1> QED BY <1>3, <1>4, <1>5, <1>6

(* Where both are measured and no more is exported than generated, what is  *)
(* used by oneself is the difference of the sums.                           *)
IsPlain(s) == \A n \in DOMAIN s : s[n].sums["generation"] # NotGiven /\ s[n].sums["export"] # NotGiven
                                  /\ s[n].sums["export"] <= s[n].sums["generation"]

LEMMA PlainOwnUse ==
  ASSUME NEW s \in Seq(SummaryBucket), s # <<>>, IsPlain(s)
  PROVE LET g == Sums!TotalOf(SumsIn(s, "generation"))
            e == Sums!TotalOf(SumsIn(s, "export"))
        IN g \in Int /\ e \in Int /\ g # NotGiven /\ e # NotGiven /\ e <= g /\ OwnUse(g, e) = g - e
<1> DEFINE u == SumsIn(s, "generation")
           v == SumsIn(s, "export")
           D == DOMAIN s
<1>1. "generation" \in Summed /\ "export" \in Summed
  BY SummaryConstants
<1>2. IsFiniteSet(D) /\ D # {}
  <2>1. D = 1..Len(s) /\ Len(s) \in Nat /\ Len(s) # 0
    OBVIOUS
  <2>2. 1 \in D
    BY <2>1
  <2>3. IsFiniteSet(D)
    BY FS_Interval
  <2> QED BY <2>2, <2>3
<1>3. \A n \in D : s[n].sums["generation"] \in Figure /\ s[n].sums["export"] \in Figure
  <2>1. \A n \in D : s[n] \in SummaryBucket
    OBVIOUS
  <2> HIDE DEF D
  <2> QED BY <1>1, <2>1 DEF SummaryBucket
<1>4. u \in Seq(Figure) /\ v \in Seq(Figure)
  BY <1>3 DEF SumsIn
<1>5. \A n \in D : u[n] \in Int /\ v[n] \in Int /\ v[n] <= u[n] /\ u[n] # NotGiven /\ v[n] # NotGiven
  BY <1>3 DEF SumsIn, IsPlain, Figure, MaybeGiven
<1>6. DOMAIN u = D /\ DOMAIN v = D
  BY DEF SumsIn
<1> HIDE DEF u, v, D
<1>7. KnownOf(u) = D /\ KnownOf(v) = D
  BY <1>5, <1>6 DEF KnownOf
<1>8. Sums!TotalOf(u) = SumOver(u, D) /\ Sums!TotalOf(v) = SumOver(v, D)
  BY <1>2, <1>4, <1>7, TotalIs
<1>9. SumOver(u, D) \in Int /\ SumOver(v, D) \in Int /\ SumOver(v, D) <= SumOver(u, D)
  BY <1>2, <1>5, SumIsInt, SumsCompare
<1>10. \A n \in Int : n # NotGiven
  BY SummaryConstants
<1> QED BY <1>8, <1>9, <1>10 DEF OwnUse, u, v

LEMMA StatisticsCombine ==
  ASSUME NEW a \in Seq(SummaryBucket), NEW b \in Seq(SummaryBucket), NEW capacity PROVE Sums!StatisticsCombine(a, b, capacity)
<1> DEFINE c == a \o b
           x == Sums!Statistics(a, capacity)
           y == Sums!Statistics(b, capacity)
           z == Sums!Statistics(c, capacity)
<1> SUFFICES ASSUME x # Sums!NoStatistics, y # Sums!NoStatistics, z # Sums!NoStatistics
             PROVE /\ \A k \in Summed : z.sums[k] = Sums!TotalOf(<<x.sums[k], y.sums[k]>>)
                   /\ z.peak = Sums!Largest(<<x.peak, y.peak>>) /\ z.low = Sums!Smallest(<<x.low, y.low>>)
                   /\ Sums!Least(x.coverage, y.coverage) <= z.coverage /\ z.coverage <= Sums!Max({x.coverage, y.coverage})
                   /\ IsPlain(a) /\ IsPlain(b) => z.own = x.own + y.own
  BY DEF Sums!StatisticsCombine, IsPlain
<1>1. /\ a # <<>> /\ Sums!Added(ExpectedIn(a)) # 0 /\ x.sums = [k \in Summed |-> Sums!TotalOf(SumsIn(a, k))]
      /\ x.own = OwnUse(x.sums["generation"], x.sums["export"])
      /\ x.peak = Sums!Largest(PeaksIn(a)) /\ x.low = Sums!Smallest(LowsIn(a))
      /\ x.coverage = (Sums!Added(CoveredIn(a)) * Full) \div Sums!Added(ExpectedIn(a))
  BY StatisticsAre
<1>2. /\ b # <<>> /\ Sums!Added(ExpectedIn(b)) # 0 /\ y.sums = [k \in Summed |-> Sums!TotalOf(SumsIn(b, k))]
      /\ y.own = OwnUse(y.sums["generation"], y.sums["export"])
      /\ y.peak = Sums!Largest(PeaksIn(b)) /\ y.low = Sums!Smallest(LowsIn(b))
      /\ y.coverage = (Sums!Added(CoveredIn(b)) * Full) \div Sums!Added(ExpectedIn(b))
  BY StatisticsAre
<1>3. /\ z.sums = [k \in Summed |-> Sums!TotalOf(SumsIn(c, k))]
      /\ z.own = OwnUse(z.sums["generation"], z.sums["export"])
      /\ z.peak = Sums!Largest(PeaksIn(c)) /\ z.low = Sums!Smallest(LowsIn(c))
      /\ z.coverage = (Sums!Added(CoveredIn(c)) * Full) \div Sums!Added(ExpectedIn(c))
  BY StatisticsAre
<1>4. /\ \A k \in Summed : Joins(SumsIn(c, k), SumsIn(a, k), SumsIn(b, k))
      /\ Joins(PeaksIn(c), PeaksIn(a), PeaksIn(b)) /\ Joins(LowsIn(c), LowsIn(a), LowsIn(b))
      /\ Joins(CoveredIn(c), CoveredIn(a), CoveredIn(b)) /\ Joins(ExpectedIn(c), ExpectedIn(a), ExpectedIn(b))
      /\ \A s \in {a, b, c} : CoveredIn(s) \in Seq(Nat) /\ ExpectedIn(s) \in Seq(Nat)
  BY ColumnsJoin
<1> HIDE DEF c, x, y, z
<1>5. \A k \in Summed : z.sums[k] = Sums!TotalOf(<<x.sums[k], y.sums[k]>>) /\ x.sums[k] \in Figure /\ y.sums[k] \in Figure
  <2> SUFFICES ASSUME NEW k \in Summed PROVE z.sums[k] = Sums!TotalOf(<<x.sums[k], y.sums[k]>>) /\ x.sums[k] \in Figure /\ y.sums[k] \in Figure
    OBVIOUS
  <2>1. z.sums[k] = Sums!TotalOf(SumsIn(c, k)) /\ x.sums[k] = Sums!TotalOf(SumsIn(a, k)) /\ y.sums[k] = Sums!TotalOf(SumsIn(b, k))
    BY <1>1, <1>2, <1>3
  <2>2. Joins(SumsIn(c, k), SumsIn(a, k), SumsIn(b, k))
    BY <1>4
  <2> QED BY <2>1, <2>2, TotalJoined
<1>6. z.peak = Sums!Largest(<<x.peak, y.peak>>) /\ z.low = Sums!Smallest(<<x.low, y.low>>)
  BY <1>1, <1>2, <1>3, <1>4, LargestJoined, SmallestJoined
<1>7. Sums!Least(x.coverage, y.coverage) <= z.coverage /\ z.coverage <= Sums!Max({x.coverage, y.coverage})
  <2> DEFINE p == Sums!Added(CoveredIn(a))
             q == Sums!Added(ExpectedIn(a))
             r == Sums!Added(CoveredIn(b))
             t == Sums!Added(ExpectedIn(b))
             k == x.coverage
             l == y.coverage
             m == z.coverage
             M == Sums!Max({k, l})
  <2>1. p \in Nat /\ r \in Nat /\ Sums!Added(CoveredIn(c)) = p + r
    BY <1>4, AddedJoined
  <2>2. q \in Nat /\ t \in Nat /\ Sums!Added(ExpectedIn(c)) = q + t
    BY <1>4, AddedJoined
  <2>3. q # 0 /\ t # 0 /\ k = (p * Full) \div q /\ l = (r * Full) \div t /\ m = ((p + r) * Full) \div (q + t)
    BY <1>1, <1>2, <1>3, <2>1, <2>2
  <2>4. Full \in Nat
    BY SummaryConstants
  <2> HIDE DEF p, q, r, t, k, l, m
  <2>5. q > 0 /\ t > 0
    BY <2>2, <2>3
  <2>6. k \in Int /\ l \in Int /\ m \in Int /\ \A n \in Int : (n <= k /\ n <= l => n <= m) /\ (k <= n /\ l <= n => m <= n)
    BY <2>1, <2>2, <2>3, <2>4, <2>5, RatioIsBetween
  <2>7. Sums!Least(k, l) <= m
    BY <2>6 DEF Sums!Least
  <2>8. M \in {k, l} /\ \A n \in {k, l} : n <= M
    <3> DEFINE S == {k, l}
    <3>1. IsFiniteSet(S) /\ S \subseteq Int /\ S # {}
      <4>1. S = {k} \cup {l}
        OBVIOUS
      <4>2. IsFiniteSet({k} \cup {l})
        BY FS_Singleton, FS_AddElement
      <4>3. S \subseteq Int /\ S # {}
        BY <2>6
      <4> HIDE DEF S
      <4> QED BY <4>1, <4>2, <4>3
    <3> HIDE DEF S
    <3>2. Sums!Max(S) \in S /\ \A n \in S : n <= Sums!Max(S)
      BY <3>1, GreatestOfSums
    <3> QED BY <3>2 DEF S
  <2> HIDE DEF M
  <2>9. M \in Int /\ k <= M /\ l <= M
    BY <2>6, <2>8
  <2>10. m <= M
    BY <2>6, <2>9
  <2> QED BY <2>7, <2>10 DEF M, k, l, m
<1>8. ASSUME IsPlain(a), IsPlain(b) PROVE z.own = x.own + y.own
  <2> DEFINE ga == x.sums["generation"]
             gb == y.sums["generation"]
             ea == x.sums["export"]
             eb == y.sums["export"]
  <2>1. "generation" \in Summed /\ "export" \in Summed
    BY SummaryConstants
  <2>2. ga = Sums!TotalOf(SumsIn(a, "generation")) /\ ea = Sums!TotalOf(SumsIn(a, "export"))
    BY <1>1, <2>1
  <2>3. gb = Sums!TotalOf(SumsIn(b, "generation")) /\ eb = Sums!TotalOf(SumsIn(b, "export"))
    BY <1>2, <2>1
  <2>4. z.sums["generation"] = Sums!TotalOf(<<ga, gb>>) /\ z.sums["export"] = Sums!TotalOf(<<ea, eb>>) /\ {ga, gb, ea, eb} \subseteq Figure
    BY <1>5, <2>1
  <2> HIDE DEF ga, gb, ea, eb
  <2>5. ga \in Int /\ ea \in Int /\ ga # NotGiven /\ ea # NotGiven /\ ea <= ga /\ OwnUse(ga, ea) = ga - ea
    BY <1>1, <1>8, <2>2, PlainOwnUse
  <2>6. gb \in Int /\ eb \in Int /\ gb # NotGiven /\ eb # NotGiven /\ eb <= gb /\ OwnUse(gb, eb) = gb - eb
    BY <1>2, <1>8, <2>3, PlainOwnUse
  <2>7. Sums!TotalOf(<<ga, gb>>) = ga + gb /\ Sums!TotalOf(<<ea, eb>>) = ea + eb
    BY <2>4, <2>5, <2>6, TotalOfTwo
  <2>8. ga + gb # NotGiven /\ ea + eb # NotGiven
    BY <2>5, <2>6, SummaryConstants
  <2>9. z.own = OwnUse(ga + gb, ea + eb) /\ x.own = ga - ea /\ y.own = gb - eb
    BY <1>1, <1>2, <1>3, <2>4, <2>5, <2>6, <2>7 DEF ga, gb, ea, eb
  <2>10. OwnUse(ga + gb, ea + eb) = (ga + gb) - (ea + eb)
    BY <2>5, <2>6, <2>8 DEF OwnUse
  <2> QED BY <2>5, <2>6, <2>9, <2>10
<1> QED BY <1>5, <1>6, <1>7, <1>8

-----------------------------------------------------------------------------
(* Rollups.                                                                 *)
Span == [from : Int, to : Int]
AreSamples(samples) == samples \in Seq(Sampled) /\ \A n \in 1..Len(samples) - 1 : samples[n].at < samples[n + 1].at

LEMMA SamplesAre ==
  ASSUME NEW samples, AreSamples(samples)
  PROVE /\ Len(samples) \in Nat /\ DOMAIN samples = 1..Len(samples)
        /\ \A n \in 1..Len(samples) : samples[n].at \in Int /\ samples[n].value \in Int /\ samples[n].covered \in Nat
<1>1. samples \in Seq(Sampled)
  BY DEF AreSamples
<1>2. \A n \in 1..Len(samples) : samples[n] \in Sampled
  BY <1>1
<1> QED BY <1>1, <1>2 DEF Sampled

LEMMA SamplesInOrder ==
  ASSUME NEW samples, AreSamples(samples), NEW j \in 1..Len(samples), NEW k \in 1..Len(samples), j < k PROVE samples[j].at < samples[k].at
<1> DEFINE l == Len(samples)
           from == [n \in 1..l |-> samples[n].at]
           to == [n \in 1..l |-> samples[n].at + 1]
<1>1. l \in Nat /\ \A n \in 1..l : samples[n].at \in Int
  BY SamplesAre
<1>2. \A n \in 1..l - 1 : samples[n].at < samples[n + 1].at
  BY DEF AreSamples
<1>3. j \in 1..l /\ k \in 1..l
  OBVIOUS
<1> HIDE DEF l
<1>4. \A n \in 1..l : from[n] = samples[n].at /\ to[n] = samples[n].at + 1
  OBVIOUS
<1> HIDE DEF from, to
<1>5. \A n \in 1..l : from[n] \in Int /\ to[n] \in Int /\ from[n] <= to[n]
  <2> SUFFICES ASSUME NEW n \in 1..l PROVE from[n] \in Int /\ to[n] \in Int /\ from[n] <= to[n]
    OBVIOUS
  <2>1. samples[n].at \in Int /\ from[n] = samples[n].at /\ to[n] = samples[n].at + 1
    BY <1>1, <1>4
  <2> QED BY <2>1
<1>6. ASSUME NEW n \in 2..l PROVE to[n - 1] <= from[n]
  <2>1. n - 1 \in 1..l - 1 /\ n - 1 \in 1..l /\ n \in 1..l /\ (n - 1) + 1 = n
    BY <1>1
  <2>2. samples[n - 1].at < samples[n].at
    BY <1>2, <2>1
  <2> QED BY <1>1, <1>4, <2>1, <2>2
<1>7. \A m \in 1..l : j < m => to[j] <= from[m]
  BY <1>1, <1>3, <1>5, <1>6, InRow
<1> QED BY <1>1, <1>3, <1>4, <1>7

LEMMA SumsCardinality == ASSUME NEW S PROVE Sums!Cardinality(S) = Cardinality(S)
BY DEF Sums!Cardinality, Cardinality

EndOf(samples, i, t) == i + Sums!Cardinality({n \in i..Len(samples) : samples[n].at < t})

(* Where the samples before a time end.                                     *)
LEMMA EndIs ==
  ASSUME NEW samples, AreSamples(samples), NEW i \in 1..Len(samples) + 1, NEW t \in Int
  PROVE LET e == EndOf(samples, i, t)
        IN e \in i..Len(samples) + 1 /\ \A n \in i..Len(samples) : samples[n].at < t <=> n < e
<1> DEFINE l == Len(samples)
           A == {n \in i..l : samples[n].at < t}
           B == {n \in i..l : ~(samples[n].at < t)}
<1>1. l \in Nat /\ i \in 1..l + 1 /\ \A n \in 1..l : samples[n].at \in Int
  BY SamplesAre
<1> HIDE DEF l
<1>2. PICK m \in i..l + 1 : \A n \in i..l : samples[n].at < t <=> n < m
  <2>1. CASE B = {}
    <3>1. \A n \in i..l : samples[n].at < t
      BY <2>1
    <3>2. l + 1 \in i..l + 1 /\ \A n \in i..l : n < l + 1
      BY <1>1
    <3>3. \A n \in i..l : samples[n].at < t <=> n < l + 1
      BY <3>1, <3>2
    <3> QED BY <3>2, <3>3
  <2>2. CASE B # {}
    <3>1. IsFiniteSet(B) /\ B \subseteq Int
      <4> DEFINE D == i..l
      <4>1. IsFiniteSet(D) /\ B \subseteq D /\ D \subseteq Int
        BY <1>1, FS_Interval
      <4> HIDE DEF D, B
      <4> QED BY <4>1, FS_Subset
    <3>2. PICK m \in B : \A y \in B : m <= y
      <4> HIDE DEF B
      <4> QED BY ONLY <2>2, <3>1, LeastExists
    <3>3. m \in i..l /\ ~(samples[m].at < t) /\ \A n \in i..l : ~(samples[n].at < t) => m <= n
      BY <3>2
    <3>4. ASSUME NEW n \in i..l, samples[n].at < t PROVE n < m
      <4> SUFFICES ASSUME ~(n < m) PROVE FALSE
        OBVIOUS
      <4>1. m \in 1..l /\ n \in 1..l /\ (m = n \/ m < n)
        BY <1>1, <3>3
      <4>2. m < n => samples[m].at < samples[n].at
        BY <4>1, SamplesInOrder DEF l
      <4> QED BY <1>1, <3>3, <3>4, <4>1, <4>2
    <3>5. \A n \in i..l : samples[n].at < t <=> n < m
      <4> SUFFICES ASSUME NEW n \in i..l, n < m PROVE samples[n].at < t
        BY <3>4
      <4>1. ~(m <= n)
        BY <1>1, <3>3
      <4> QED BY <3>3, <4>1
    <3>6. m \in i..l + 1
      BY <1>1, <3>3
    <3> QED BY <3>5, <3>6
  <2> QED BY <2>1, <2>2
<1>3. A = i..m - 1
  BY <1>1, <1>2
<1>4. Cardinality(i..m - 1) = m - i
  BY <1>1, <1>2, FS_Interval
<1>5. EndOf(samples, i, t) = m
  <2>1. EndOf(samples, i, t) = i + Cardinality(A)
    BY SumsCardinality DEF EndOf, l
  <2>2. Cardinality(A) = m - i
    <3> HIDE DEF A
    <3> QED BY <1>3, <1>4
  <2>3. m \in Int /\ i \in Int
    BY <1>1, <1>2
  <2> HIDE DEF A
  <2> QED BY <2>1, <2>2, <2>3
<1> QED BY <1>2, <1>5 DEF l

RollupsOf(samples, windows) ==
  {Sums!Rollup(windows[k], SubSeq(samples, i, j)) : k \in DOMAIN windows, i \in Int, j \in Int}
WalkStates(samples, windows) == [next : 1..Len(samples) + 1, ok : BOOLEAN, rollups : Seq(RollupsOf(samples, windows))]
NoRollups == [next |-> 1, ok |-> TRUE, rollups |-> <<>>]
Walked(samples, windows) == Sums!Along(LAMBDA acc, w : Sums!Take(acc, samples, w), NoRollups, windows)
IsRollupWalk(a, samples, windows) ==
  /\ a \in [0..Len(windows) -> WalkStates(samples, windows)] /\ a[0] = NoRollups
  /\ \A k \in 1..Len(windows) : a[k] = Sums!Take(a[k - 1], samples, windows[k])

(* What taking a window does.                                               *)
LEMMA TakeIs ==
  ASSUME NEW samples, AreSamples(samples), NEW acc, NEW w
  PROVE LET e == EndOf(samples, acc.next, w.to)
            bucket == SubSeq(samples, acc.next, e - 1)
        IN Sums!Take(acc, samples, w) =
             [next |-> e, ok |-> acc.ok /\ \A n \in DOMAIN bucket : bucket[n].at >= w.from,
              rollups |-> IF bucket = <<>> THEN acc.rollups ELSE Append(acc.rollups, Sums!Rollup(w, bucket))]
BY DEF Sums!Take, EndOf

LEMMA TakeKeeps ==
  ASSUME NEW samples, AreSamples(samples), NEW windows \in Seq(Span), NEW acc \in WalkStates(samples, windows), NEW k \in DOMAIN windows
  PROVE Sums!Take(acc, samples, windows[k]) \in WalkStates(samples, windows)
<1> DEFINE w == windows[k]
           i == acc.next
           e == EndOf(samples, i, w.to)
           bucket == SubSeq(samples, i, e - 1)
           l == Len(samples)
           V == RollupsOf(samples, windows)
           t == Sums!Take(acc, samples, w)
<1>1. i \in 1..l + 1 /\ acc.ok \in BOOLEAN /\ acc.rollups \in Seq(V) /\ l \in Nat
  BY SamplesAre DEF WalkStates
<1>2. w.to \in Int
  <2>1. windows[k] \in Span
    OBVIOUS
  <2> QED BY <2>1 DEF Span
<1>3. e \in i..l + 1
  BY <1>1, <1>2, EndIs
<1>4. t = [next |-> e, ok |-> acc.ok /\ \A n \in DOMAIN bucket : bucket[n].at >= w.from,
           rollups |-> IF bucket = <<>> THEN acc.rollups ELSE Append(acc.rollups, Sums!Rollup(w, bucket))]
  BY TakeIs, Zenon
<1>5. Sums!Rollup(w, bucket) \in V
  <2>1. i \in Int /\ e - 1 \in Int
    BY <1>1, <1>3
  <2> HIDE DEF i, e
  <2> QED BY <2>1 DEF RollupsOf
<1> HIDE DEF e, bucket, V, t, l, i
<1>6. e \in 1..l + 1
  BY <1>1, <1>3
<1>7. Append(acc.rollups, Sums!Rollup(w, bucket)) \in Seq(V)
  BY <1>1, <1>5
<1>8. t \in [next : 1..l + 1, ok : BOOLEAN, rollups : Seq(V)]
  BY <1>1, <1>4, <1>6, <1>7
<1> QED BY <1>8 DEF WalkStates, t, l, V, w

LEMMA RollupWalk ==
  ASSUME NEW samples, AreSamples(samples), NEW windows \in Seq(Span)
  PROVE \E a : IsRollupWalk(a, samples, windows) /\ Walked(samples, windows) = a[Len(windows)]
<1> DEFINE l == Len(windows)
           S == 1..l
           V == WalkStates(samples, windows)
           base == NoRollups
           Next(g, s) == IF s = {} THEN base ELSE Sums!Take(g[s \ {Greatest(s)}], samples, windows[Greatest(s)])
           c == CHOOSE g : g = [s \in SUBSET S |-> Next(g, s)]
           op == [x \in S |-> [v \in V |-> Sums!Take(v, samples, windows[x])]]
<1>1. l \in Nat /\ DOMAIN windows = S
  OBVIOUS
<1>2. Walked(samples, windows) = c[S]
  BY <1>1 DEF Walked, Sums!Along, Sums!MapThenFoldSet, Sums!Max, Greatest
<1>0. base \in V
  <2>1. 1 \in 1..Len(samples) + 1
    BY SamplesAre
  <2> QED BY <2>1 DEF NoRollups, WalkStates
<1> HIDE DEF l, c, V, base
<1>16. \A x \in S, v \in V : Sums!Take(v, samples, windows[x]) \in V
  BY <1>1, TakeKeeps DEF V
<1>3. op \in [S -> [V -> V]] /\ \A x \in S, v \in V : op[x][v] = Sums!Take(v, samples, windows[x])
  BY <1>16
<1> HIDE DEF op
<1>4. PICK g \in [SUBSET S -> V] : \A s \in SUBSET S : g[s] = Stage(g, op, base, s)
  <2>1. IsFiniteSet(S) /\ S \subseteq Int
    BY <1>1, FS_Interval
  <2>2. Staged(S, V, op, base)
    <3> HIDE DEF S
    <3> QED BY <1>0, <1>3, <2>1 DEF Staged
  <2>3. \E g : HasStages(g, S, V, op, base)
    BY <2>2, StagesExist
  <2> QED BY <2>3 DEF HasStages
<1>5. ASSUME NEW s \in SUBSET S PROVE g[s] = Next(g, s)
  <2>1. CASE s = {}
    BY <1>4, <2>1 DEF Stage
  <2>2. CASE s # {}
    <3> DEFINE x == Greatest(s)
    <3>1. x \in S
      <4>1. IsFiniteSet(S) /\ S \subseteq Int
        BY <1>1, FS_Interval
      <4> HIDE DEF S
      <4>2. IsFiniteSet(s) /\ s \subseteq Int
        BY <4>1, FS_Subset
      <4> QED BY <2>2, <4>2, GreatestIs
    <3>2. g[s] = op[x][g[s \ {x}]]
      BY <1>4, <2>2 DEF Stage
    <3> HIDE DEF x
    <3>3. g[s \ {x}] \in V
      OBVIOUS
    <3>4. g[s] = Sums!Take(g[s \ {x}], samples, windows[x])
      BY <1>3, <3>1, <3>2, <3>3
    <3> QED BY <2>2, <3>4 DEF x
  <2> QED BY <2>1, <2>2
<1>6. \A s \in SUBSET S : c[s] = Next(c, s)
  <2> HIDE DEF Next, S
  <2>1. g = [s \in SUBSET S |-> Next(g, s)]
    BY <1>5
  <2>2. c = [s \in SUBSET S |-> Next(c, s)]
    BY <2>1, Zenon DEF c
  <2> QED BY <2>2
<1> DEFINE a == [k \in 0..l |-> c[1..k]]
<1>7. c[{}] = base
  BY <1>6
<1>8. ASSUME NEW k \in 1..l PROVE c[1..k] = Sums!Take(c[1..k - 1], samples, windows[k])
  <2>1. 1..k \in SUBSET S
    BY <1>1
  <2>2. Greatest(1..k) = k /\ (1..k) \ {k} = 1..k - 1 /\ 1..k # {}
    BY TopOfInterval
  <2>3. c[1..k] = Next(c, 1..k)
    BY <1>6, <2>1
  <2> HIDE DEF S
  <2> QED BY <2>2, <2>3
<1>9. 1..0 = {}
  OBVIOUS
<1> DEFINE T == {k \in Nat : k <= l => c[1..k] \in V}
<1>10. 0 \in T
  BY <1>0, <1>7, <1>9
<1>11. ASSUME NEW k \in Nat, k \in T PROVE k + 1 \in T
  <2> DEFINE m == k + 1
  <2> SUFFICES ASSUME m <= l PROVE c[1..m] \in V
    OBVIOUS
  <2>1. m \in 1..l /\ m - 1 = k /\ k <= l
    BY <1>1
  <2> HIDE DEF m
  <2>2. c[1..k] \in V
    BY <1>11, <2>1
  <2>3. c[1..m] = Sums!Take(c[1..m - 1], samples, windows[m])
    BY <1>8, <2>1
  <2> QED BY <1>16, <2>1, <2>2, <2>3
<1> HIDE DEF T
<1>12. \A k \in Nat : k \in T
  BY <1>10, <1>11, EveryNumber
<1>13. a \in [0..l -> V] /\ a[0] = base /\ \A k \in 1..l : a[k] = Sums!Take(a[k - 1], samples, windows[k])
  <2>1. \A k \in 0..l : a[k] = c[1..k]
    OBVIOUS
  <2>2. \A k \in 0..l : c[1..k] \in V
    BY <1>1, <1>12 DEF T
  <2>3. a \in [0..l -> V]
    BY <2>2
  <2> HIDE DEF a
  <2>4. 0 \in 0..l /\ \A k \in 1..l : k \in 0..l /\ k - 1 \in 0..l
    BY <1>1
  <2>5. a[0] = base
    BY <1>7, <1>9, <2>1, <2>4
  <2>6. ASSUME NEW k \in 1..l PROVE a[k] = Sums!Take(a[k - 1], samples, windows[k])
    BY <1>8, <2>1, <2>4
  <2> QED BY <2>3, <2>5, <2>6
<1>14. Walked(samples, windows) = a[l]
  BY <1>1, <1>2
<1> HIDE DEF a
<1> QED BY <1>13, <1>14 DEF IsRollupWalk, l, V, base

(* What the rollup of some samples is.                                      *)
Values(samples) == [n \in 1..Len(samples) |-> samples[n].value]
Covers(samples) == [n \in 1..Len(samples) |-> samples[n].covered]

LEMMA ShiftedSum ==
  ASSUME NEW i \in Int, NEW e \in Int, i <= e, NEW f, NEW h, \A n \in i..e - 1 : f[n] \in Int, \A n \in 1..e - i : h[n] = f[i + n - 1]
  PROVE SumOver(h, 1..e - i) = SumOver(f, i..e - 1)
<1> DEFINE S == 1..e - i
           m == [n \in S |-> i + n - 1]
           R == i..e - 1
<1>1. IsFiniteSet(S)
  BY FS_Interval
<1>2. \A n \in S : n \in Int /\ m[n] = i + n - 1 /\ m[n] \in R
  OBVIOUS
<1>3. \A r \in R : \E n \in S : m[n] = r
  <2> SUFFICES ASSUME NEW r \in R PROVE \E n \in S : m[n] = r
    OBVIOUS
  <2>1. r - i + 1 \in S /\ i + (r - i + 1) - 1 = r
    OBVIOUS
  <2>2. m[r - i + 1] = r
    BY <2>1
  <2> QED BY <2>1, <2>2
<1>4. \A n \in S : h[n] = f[i + n - 1]
  OBVIOUS
<1>5. \A r \in R : f[r] \in Int
  OBVIOUS
<1> HIDE DEF S, R, m
<1>6. Image(m, S) = R
  BY <1>2, <1>3 DEF Image
<1>7. Moves(m, S)
  BY <1>2 DEF Moves
<1>8. \A n \in S : f[m[n]] \in Int /\ h[n] = f[m[n]]
  BY <1>2, <1>4, <1>5
<1>9. SumOver(h, S) = SumOver(f, Image(m, S))
  BY <1>1, <1>7, <1>8, SumMoved
<1> QED BY <1>6, <1>9 DEF S, R

LEMMA RollupIs ==
  ASSUME NEW samples, AreSamples(samples), NEW w \in Span, w.from < w.to, NEW i \in 1..Len(samples) + 1, NEW e \in 1..Len(samples) + 1, i < e
  PROVE LET bucket == SubSeq(samples, i, e - 1)
            r == Sums!Rollup(w, bucket)
            v == Values(samples)
            c == Covers(samples)
            R == i..e - 1
        IN /\ r.window = w /\ r.sum = SumOver(v, R) /\ r.count = e - i
           /\ r.covered = Sums!Least(SumOver(c, R), w.to - w.from) /\ r.coverage \in 0..Full
           /\ \E n \in R : r.min = v[n]
           /\ \E n \in R : r.max = v[n]
           /\ \A n \in R : r.min <= v[n] /\ v[n] <= r.max
<1> DEFINE l == Len(samples)
           b == SubSeq(samples, i, e - 1)
           r == Sums!Rollup(w, b)
           v == Values(samples)
           c == Covers(samples)
           R == i..e - 1
           k == e - i
           D == 1..k
           bv == [n \in D |-> b[n].value]
           bc == [n \in D |-> b[n].covered]
           len == w.to - w.from
<1>1. l \in Nat /\ \A n \in 1..l : samples[n].at \in Int /\ samples[n].value \in Int /\ samples[n].covered \in Nat
  BY SamplesAre
<1>2. i \in 1..l + 1 /\ e \in 1..l + 1 /\ i < e
  OBVIOUS
<1>3. Len(b) = k /\ DOMAIN b = D /\ \A n \in D : b[n] = samples[i + n - 1]
  <2>1. samples \in Seq(Sampled) /\ \A n \in i..e - 1 : samples[n] \in Sampled
    BY DEF AreSamples
  <2>2. /\ b \in Seq(Sampled) /\ Len(b) = (IF i <= e - 1 THEN (e - 1) - i + 1 ELSE 0)
        /\ \A n \in 1..(e - 1) - i + 1 : b[n] = samples[i + n - 1]
    <3> DEFINE j == e - 1
    <3>1. i \in Int /\ j \in Int /\ \A n \in i..j : samples[n] \in Sampled
      BY <1>1, <1>2, <2>1
    <3> HIDE DEF j
    <3>2. /\ SubSeq(samples, i, j) \in Seq(Sampled) /\ Len(SubSeq(samples, i, j)) = (IF i <= j THEN j - i + 1 ELSE 0)
          /\ \A n \in 1..j - i + 1 : SubSeq(samples, i, j)[n] = samples[i + n - 1]
      BY ONLY <3>1, SubSeqProperties
    <3> QED BY <3>2 DEF j
  <2>3. (e - 1) - i + 1 = k /\ i <= e - 1
    BY <1>1, <1>2
  <2> HIDE DEF b
  <2> QED BY <2>2, <2>3
<1>4. len \in Nat /\ len > 0
  BY DEF Span
<1>5. k \in Nat /\ k > 0 /\ \A n \in D : i + n - 1 \in R
  BY <1>1, <1>2
<1>6. \A n \in R : n \in 1..l
  BY <1>1, <1>2
<1>7. \A n \in R : v[n] = samples[n].value /\ c[n] = samples[n].covered /\ v[n] \in Int /\ c[n] \in Nat
  BY <1>1, <1>6 DEF Values, Covers
<1>8. \A n \in D : bv[n] = v[i + n - 1] /\ bc[n] = c[i + n - 1] /\ bv[n] \in Int /\ bc[n] \in Nat
  BY <1>3, <1>5, <1>7
<1>9. bv = [n \in D |-> bv[n]] /\ bc = [n \in D |-> bc[n]] /\ IsFiniteSet(D)
  <2>1. bv = [n \in D |-> bv[n]] /\ bc = [n \in D |-> bc[n]]
    <3> HIDE DEF D, b
    <3> QED OBVIOUS
  <2>2. IsFiniteSet(D)
    <3> HIDE DEF k
    <3> QED BY <1>5, FS_Interval
  <2> QED BY <2>1, <2>2
<1>10. r.window = w /\ r.sum = Sums!SumFunction(bv) /\ r.count = Len(b) /\ r.min = Sums!Min(Image(bv, D)) /\ r.max = Sums!Max(Image(bv, D))
       /\ r.covered = Sums!Least(Sums!SumFunction(bc), len) /\ r.coverage = (r.covered * Full) \div len
  <2>1. [n \in DOMAIN b |-> b[n].value] = bv /\ [n \in DOMAIN b |-> b[n].covered] = bc
    BY <1>3
  <2>2. Sums!Range(bv) = Image(bv, D)
    BY DEF Sums!Range, Image
  <2> HIDE DEF b, D, bv, bc
  <2> QED BY <2>1, <2>2 DEF Sums!Rollup, Sums!Added
<1>11. SumOver(bv, 1..e - i) = SumOver(v, i..e - 1) /\ SumOver(bc, 1..e - i) = SumOver(c, i..e - 1)
  <2>1. i \in Int /\ e \in Int /\ i <= e /\ (\A n \in i..e - 1 : v[n] \in Int) /\ (\A n \in 1..e - i : bv[n] = v[i + n - 1])
    BY <1>1, <1>2, <1>7, <1>8
  <2>2. (\A n \in i..e - 1 : c[n] \in Int) /\ (\A n \in 1..e - i : bc[n] = c[i + n - 1])
    BY <1>7, <1>8
  <2> HIDE DEF v, c, bv, bc
  <2> QED BY ONLY <2>1, <2>2, ShiftedSum
<1> HIDE DEF l, b, r, v, c, bv, bc, len
<1>12. \A n \in R : \E d \in D : n = i + d - 1
  <2> SUFFICES ASSUME NEW n \in R PROVE \E d \in D : n = i + d - 1
    OBVIOUS
  <2>1. n - i + 1 \in D /\ n = i + (n - i + 1) - 1
    BY <1>2
  <2> QED BY <2>1
<1>19. D # {}
  <2>1. 1 \in D
    BY <1>5
  <2> QED BY <2>1
<1>20. SumOver(bv, D) = SumOver(v, R) /\ SumOver(bc, D) = SumOver(c, R)
  BY <1>11
<1>21. k = e - i
  OBVIOUS
<1> HIDE DEF D, R, k
<1>13. Sums!SumFunction(bv) = SumOver(bv, D) /\ Sums!SumFunction(bc) = SumOver(bc, D) /\ SumOver(bc, D) \in Nat
  <2>1. \A n \in D : bv[n] \in Int /\ bc[n] \in Int /\ bc[n] \in Nat
    BY <1>8
  <2> QED BY <1>9, <2>1, SumsFunctionIs, SumOfNaturals
<1> DEFINE I == Image(bv, D)
<1>14. IsFiniteSet(I) /\ I \subseteq Int /\ I # {}
  BY <1>8, <1>9, <1>19, FiniteImage DEF Image
<1>15. \A x : x \in I <=> \E n \in R : x = v[n]
  BY <1>5, <1>8, <1>12 DEF Image
<1> HIDE DEF I
<1>16. Sums!Min(I) \in I /\ Sums!Max(I) \in I /\ \A y \in I : Sums!Min(I) <= y /\ y <= Sums!Max(I)
  BY <1>14, LeastOfSums, GreatestOfSums
<1>17. /\ \E n \in R : r.min = v[n]
       /\ \E n \in R : r.max = v[n]
       /\ \A n \in R : r.min <= v[n] /\ v[n] <= r.max
  BY <1>10, <1>15, <1>16 DEF I
<1>18. r.covered = Sums!Least(SumOver(c, R), len) /\ r.coverage \in 0..Full
  <2>1. r.covered = Sums!Least(SumOver(c, R), len) /\ SumOver(c, R) \in Nat
    BY <1>10, <1>13, <1>20
  <2>2. r.covered \in Nat /\ r.covered <= len
    BY <1>4, <2>1 DEF Sums!Least
  <2> DEFINE x == r.covered
  <2>3. 0 * len <= x * Full /\ x * Full \in Int
    <3>1. Full \in Nat
      BY SummaryConstants
    <3>2. 0 * Full <= x * Full /\ x * Full \in Int
      BY <2>2, <3>1, TimesIsMonotone
    <3>3. 0 * Full = 0 /\ 0 * len = 0
      BY <1>4, <3>1
    <3> QED BY <3>2, <3>3
  <2>4. ~((Full + 1) * len <= x * Full)
    <3>1. Full \in Nat /\ x <= len
      BY <2>2, SummaryConstants
    <3>2. x * Full <= len * Full /\ x * Full \in Int /\ len * Full \in Int
      BY <1>4, <2>2, <3>1, TimesIsMonotone
    <3>3. (Full + 1) * len = len * Full + len
      BY <1>4, <3>1
    <3> QED BY <1>4, <3>2, <3>3
  <2> DEFINE q == (x * Full) \div len
  <2>5. q \in Int /\ 0 <= q /\ ~(Full + 1 <= q)
    <3>1. Full + 1 \in Int /\ 0 \in Int
      BY SummaryConstants
    <3> QED BY <1>4, <2>3, <2>4, <3>1, QuotientIs, QuotientAtLeast
  <2>6. q \in 0..Full
    <3> HIDE DEF q
    <3> QED BY <2>5, SummaryConstants
  <2> QED BY <1>10, <2>1, <2>6
<1>22. r.window = w /\ r.sum = SumOver(v, R) /\ r.count = e - i
  BY <1>3, <1>10, <1>13, <1>20, <1>21
<1> QED BY <1>17, <1>18, <1>22 DEF r, v, c, R, b, len

LEMMA SumGrows ==
  ASSUME NEW l \in Nat, NEW f, NEW h, \A n \in 1..l : f[n] \in Int /\ h[n] = f[n], h[l + 1] \in Int
  PROVE SumOver(h, 1..l + 1) = SumOver(f, 1..l) + h[l + 1] /\ SumOver(f, 1..l) \in Int
<1> DEFINE S == 1..l
           T == 1..l + 1
           m == l + 1
<1>1. IsFiniteSet(S) /\ IsFiniteSet(T) /\ m \in T /\ T \ {m} = S
  <2>1. IsFiniteSet(S)
    BY FS_Interval
  <2>2. m \in Int
    OBVIOUS
  <2>3. IsFiniteSet(T)
    <3> HIDE DEF m
    <3>1. IsFiniteSet(1..m)
      BY <2>2, FS_Interval
    <3> QED BY <3>1 DEF m
  <2>4. m \in T /\ \A n : n \in S <=> n \in T /\ n # m
    OBVIOUS
  <2> HIDE DEF S, T, m
  <2> QED BY <2>1, <2>3, <2>4
<1>2. \A n \in T : h[n] \in Int
  <2>1. \A n \in T : n \in S \/ n = m
    OBVIOUS
  <2>2. \A n \in S : h[n] \in Int
    OBVIOUS
  <2>3. h[m] \in Int
    OBVIOUS
  <2> HIDE DEF S, T, m
  <2> QED BY <2>1, <2>2, <2>3
<1>3. \A n \in S : f[n] \in Int /\ h[n] = f[n]
  OBVIOUS
<1> HIDE DEF S, T, m
<1>4. SumOver(h, T) = h[m] + SumOver(h, T \ {m}) /\ SumOver(h, T \ {m}) \in Int
  BY <1>1, <1>2, SumAdds
<1>5. SumOver(f, S) = SumOver(h, S) /\ SumOver(f, S) \in Int
  BY <1>1, <1>3, SumsEqual, SumIsInt
<1>6. h[m] \in Int
  BY <1>1, <1>2
<1>7. SumOver(h, T) = SumOver(f, S) + h[m] /\ SumOver(f, S) \in Int
  BY <1>1, <1>4, <1>5, <1>6
<1> QED BY <1>7, Zenon DEF S, T, m

LEMMA SumOfRange ==
  ASSUME NEW i \in Nat, NEW e \in Nat, 1 <= i, i <= e, NEW f, \A n \in 1..e - 1 : f[n] \in Int
  PROVE /\ SumOver(f, 1..e - 1) = SumOver(f, 1..i - 1) + SumOver(f, i..e - 1)
        /\ SumOver(f, 1..i - 1) \in Int /\ SumOver(f, i..e - 1) \in Int
<1> DEFINE A == 1..i - 1
           B == i..e - 1
           C == 1..e - 1
<1>1. IsFiniteSet(A) /\ IsFiniteSet(B)
  BY FS_Interval
<1>2. C = A \cup B /\ A \cap B = {}
  OBVIOUS
<1>3. \A n \in C : f[n] \in Int
  OBVIOUS
<1> HIDE DEF A, B, C
<1>4. \A n \in A \cup B : f[n] \in Int
  BY <1>2, <1>3
<1>5. SumOver(f, A \cup B) = SumOver(f, A) + SumOver(f, B) /\ SumOver(f, A) \in Int /\ SumOver(f, B) \in Int
  BY <1>1, <1>2, <1>4, SumsJoin, SumIsInt
<1> QED BY <1>2, <1>5 DEF A, B, C

SumColumn(R) == [n \in DOMAIN R |-> R[n].sum]
CountColumn(R) == [n \in DOMAIN R |-> R[n].count]
CoveredColumn(R) == [n \in DOMAIN R |-> R[n].covered]

IsFine(r) == r.sum \in Int /\ r.count \in Nat /\ r.covered \in Nat /\ r.min \in Int /\ r.max \in Int /\ r.min <= r.max /\ r.coverage \in 0..Full

(* The rollups of the samples before i.                                     *)
RollupsAre(samples, i, R) ==
  /\ \A n \in DOMAIN R : IsFine(R[n])
  /\ SumOver(SumColumn(R), DOMAIN R) = SumOver(Values(samples), 1..i - 1)
  /\ SumOver(CountColumn(R), DOMAIN R) = i - 1
  /\ SumOver(CoveredColumn(R), DOMAIN R) <= SumOver(Covers(samples), 1..i - 1)
  /\ \A n \in 1..i - 1 : \E r \in DOMAIN R : R[r].min <= Values(samples)[n]
  /\ \A n \in 1..i - 1 : \E r \in DOMAIN R : Values(samples)[n] <= R[r].max
  /\ \A r \in DOMAIN R : \E n \in 1..i - 1 : R[r].min = Values(samples)[n]
  /\ \A r \in DOMAIN R : \E n \in 1..i - 1 : R[r].max = Values(samples)[n]

LEMMA SamplesAdd ==
  ASSUME NEW samples, AreSamples(samples)
  PROVE \A n \in 1..Len(samples) : Values(samples)[n] \in Int /\ Covers(samples)[n] \in Nat /\ Covers(samples)[n] \in Int
BY SamplesAre DEF Values, Covers

LEMMA NoRollupsAre == ASSUME NEW samples, AreSamples(samples) PROVE RollupsAre(samples, 1, <<>>)
<1>1. DOMAIN << >> = {} /\ 1..1 - 1 = {}
  OBVIOUS
<1>2. \A f : SumOver(f, {}) = 0
  BY SumOfNone
<1> QED BY <1>1, <1>2 DEF RollupsAre

LEMMA OneMoreRollup ==
  ASSUME NEW samples, AreSamples(samples), NEW w \in Span, w.from < w.to, NEW i \in 1..Len(samples) + 1, NEW e \in 1..Len(samples) + 1, i < e,
         NEW V, NEW R \in Seq(V), Sums!Rollup(w, SubSeq(samples, i, e - 1)) \in V, RollupsAre(samples, i, R)
  PROVE LET r == Sums!Rollup(w, SubSeq(samples, i, e - 1))
            Q == Append(R, r)
        IN /\ RollupsAre(samples, e, Q) /\ r.covered <= w.to - w.from
           /\ SumOver(CoveredColumn(Q), DOMAIN Q) = SumOver(CoveredColumn(R), DOMAIN R) + r.covered
           /\ SumOver(CoveredColumn(R), DOMAIN R) \in Int /\ r.covered \in Nat
<1> DEFINE l == Len(samples)
           r == Sums!Rollup(w, SubSeq(samples, i, e - 1))
           Q == Append(R, r)
           k == Len(R)
           v == Values(samples)
           c == Covers(samples)
           P == i..e - 1
<1>1. l \in Nat /\ i \in 1..l + 1 /\ e \in 1..l + 1 /\ i < e /\ \A n \in 1..l : v[n] \in Int /\ c[n] \in Nat /\ c[n] \in Int
  BY SamplesAre, SamplesAdd
<1>2. /\ r.window = w /\ r.sum = SumOver(v, P) /\ r.count = e - i
      /\ r.covered = Sums!Least(SumOver(c, P), w.to - w.from) /\ r.coverage \in 0..Full
      /\ \E n \in P : r.min = v[n]
      /\ \E n \in P : r.max = v[n]
      /\ \A n \in P : r.min <= v[n] /\ v[n] <= r.max
  BY RollupIs
<1>3. k \in Nat /\ DOMAIN R = 1..k /\ DOMAIN Q = 1..k + 1 /\ Q[k + 1] = r /\ \A n \in 1..k : Q[n] = R[n]
  BY DEF Q
<1> HIDE DEF l, r, Q, k, v, c
<1>4. i \in Nat /\ e \in Nat /\ 1 <= i /\ i <= e /\ (\A n \in 1..e - 1 : n \in 1..l) /\ \A n \in P : n \in 1..e - 1
  BY <1>1
<1>5. /\ SumOver(v, 1..e - 1) = SumOver(v, 1..i - 1) + SumOver(v, P) /\ SumOver(v, P) \in Int /\ SumOver(v, 1..i - 1) \in Int
      /\ SumOver(c, 1..e - 1) = SumOver(c, 1..i - 1) + SumOver(c, P) /\ SumOver(c, P) \in Int /\ SumOver(c, 1..i - 1) \in Int
  <2>1. (\A n \in 1..e - 1 : v[n] \in Int) /\ \A n \in 1..e - 1 : c[n] \in Int
    BY <1>1, <1>4
  <2> QED BY ONLY <1>4, <2>1, SumOfRange
<1>6. w.to - w.from \in Nat
  BY DEF Span
<1>7. SumOver(c, P) \in Nat
  <2>1. IsFiniteSet(P)
    BY <1>4, FS_Interval
  <2>2. \A n \in P : c[n] \in Nat
    BY <1>1, <1>4
  <2> HIDE DEF P
  <2> QED BY <2>1, <2>2, SumOfNaturals
<1>8. \A n \in P : v[n] \in Int
  BY <1>1, <1>4
<1> HIDE DEF P
<1>9. r.covered \in Nat /\ r.covered <= w.to - w.from /\ r.covered <= SumOver(c, P)
  BY <1>2, <1>6, <1>7 DEF Sums!Least
<1>10. IsFine(r)
  <2>1. r.min \in Int /\ r.max \in Int /\ r.min <= r.max
    <3>1. PICK n \in P : r.min = v[n]
      BY <1>2
    <3>2. PICK m \in P : r.max = v[m]
      BY <1>2
    <3>3. r.min <= v[m]
      BY <1>2
    <3> QED BY <1>8, <3>1, <3>2, <3>3
  <2>2. r.sum = SumOver(v, P) /\ r.count = e - i /\ r.coverage \in 0..Full
    BY <1>2
  <2>3. r.sum \in Int /\ r.count \in Nat /\ r.covered \in Nat
    BY ONLY <1>4, <1>5, <1>9, <2>2, i < e
  <2> QED BY ONLY <2>1, <2>2, <2>3 DEF IsFine
<1>11. \A n \in 1..k : IsFine(R[n])
  BY <1>3 DEF RollupsAre
<1>12. \A n \in 1..k + 1 : IsFine(Q[n])
  BY <1>3, <1>10, <1>11
<1>13. /\ SumOver(SumColumn(Q), 1..k + 1) = SumOver(SumColumn(R), 1..k) + r.sum
       /\ SumOver(CountColumn(Q), 1..k + 1) = SumOver(CountColumn(R), 1..k) + r.count
       /\ SumOver(CoveredColumn(Q), 1..k + 1) = SumOver(CoveredColumn(R), 1..k) + r.covered
       /\ SumOver(CoveredColumn(R), 1..k) \in Int
  <2>0. k + 1 \in 1..k + 1 /\ \A n \in 1..k : n \in 1..k + 1
    BY <1>3
  <2>1. (\A n \in 1..k : SumColumn(R)[n] \in Int /\ SumColumn(Q)[n] = SumColumn(R)[n]) /\ SumColumn(Q)[k + 1] \in Int /\ SumColumn(Q)[k + 1] = r.sum
    BY <1>3, <1>10, <1>11, <2>0 DEF SumColumn, IsFine
  <2>2. (\A n \in 1..k : CountColumn(R)[n] \in Int /\ CountColumn(Q)[n] = CountColumn(R)[n]) /\ CountColumn(Q)[k + 1] \in Int /\ CountColumn(Q)[k + 1] = r.count
    BY <1>3, <1>10, <1>11, <2>0 DEF CountColumn, IsFine
  <2>3. (\A n \in 1..k : CoveredColumn(R)[n] \in Int /\ CoveredColumn(Q)[n] = CoveredColumn(R)[n]) /\ CoveredColumn(Q)[k + 1] \in Int /\ CoveredColumn(Q)[k + 1] = r.covered
    BY <1>3, <1>10, <1>11, <2>0 DEF CoveredColumn, IsFine
  <2>4. SumOver(SumColumn(Q), 1..k + 1) = SumOver(SumColumn(R), 1..k) + SumColumn(Q)[k + 1]
    BY ONLY <1>3, <2>1, SumGrows
  <2>5. SumOver(CountColumn(Q), 1..k + 1) = SumOver(CountColumn(R), 1..k) + CountColumn(Q)[k + 1]
    BY ONLY <1>3, <2>2, SumGrows
  <2>6. SumOver(CoveredColumn(Q), 1..k + 1) = SumOver(CoveredColumn(R), 1..k) + CoveredColumn(Q)[k + 1] /\ SumOver(CoveredColumn(R), 1..k) \in Int
    BY ONLY <1>3, <2>3, SumGrows
  <2> QED BY <2>1, <2>2, <2>3, <2>4, <2>5, <2>6
<1>14. /\ SumOver(SumColumn(R), 1..k) = SumOver(v, 1..i - 1) /\ SumOver(CountColumn(R), 1..k) = i - 1
       /\ SumOver(CoveredColumn(R), 1..k) <= SumOver(c, 1..i - 1)
  BY <1>3 DEF RollupsAre, v, c
<1>15. SumOver(SumColumn(Q), 1..k + 1) = SumOver(v, 1..e - 1)
  BY <1>2, <1>5, <1>13, <1>14
<1>16. SumOver(CountColumn(Q), 1..k + 1) = e - 1
  BY <1>2, <1>4, <1>13, <1>14
<1>17. SumOver(CoveredColumn(Q), 1..k + 1) <= SumOver(c, 1..e - 1)
  BY <1>5, <1>9, <1>13, <1>14, SMTT(30)
<1>18. k + 1 \in 1..k + 1 /\ \A n \in 1..k : n \in 1..k + 1
  BY <1>3
<1>19. \A n \in 1..e - 1 : n \in 1..i - 1 \/ n \in P
  BY <1>4 DEF P
<1>20. \A n \in 1..e - 1 : \E q \in 1..k + 1 : Q[q].min <= v[n]
  <2> SUFFICES ASSUME NEW n \in 1..e - 1 PROVE \E q \in 1..k + 1 : Q[q].min <= v[n]
    OBVIOUS
  <2>1. ASSUME n \in 1..i - 1 PROVE \E q \in 1..k : R[q].min <= v[n]
    BY <1>3, <2>1 DEF RollupsAre, v
  <2> QED BY <1>2, <1>3, <1>18, <1>19, <2>1
<1>21. \A n \in 1..e - 1 : \E q \in 1..k + 1 : v[n] <= Q[q].max
  <2> SUFFICES ASSUME NEW n \in 1..e - 1 PROVE \E q \in 1..k + 1 : v[n] <= Q[q].max
    OBVIOUS
  <2>1. ASSUME n \in 1..i - 1 PROVE \E q \in 1..k : v[n] <= R[q].max
    BY <1>3, <2>1 DEF RollupsAre, v
  <2> QED BY <1>2, <1>3, <1>18, <1>19, <2>1
<1>22. \A n \in 1..i - 1 : n \in 1..e - 1
  BY <1>4
<1>23. \A q \in 1..k + 1 : q \in 1..k \/ q = k + 1
  BY <1>3
<1>24. \A q \in 1..k + 1 : \E n \in 1..e - 1 : Q[q].min = v[n]
  <2> SUFFICES ASSUME NEW q \in 1..k + 1 PROVE \E n \in 1..e - 1 : Q[q].min = v[n]
    OBVIOUS
  <2>1. ASSUME q \in 1..k PROVE \E n \in 1..i - 1 : R[q].min = v[n]
    BY <1>3, <2>1 DEF RollupsAre, v
  <2> QED BY <1>2, <1>3, <1>4, <1>22, <1>23, <2>1
<1>25. \A q \in 1..k + 1 : \E n \in 1..e - 1 : Q[q].max = v[n]
  <2> SUFFICES ASSUME NEW q \in 1..k + 1 PROVE \E n \in 1..e - 1 : Q[q].max = v[n]
    OBVIOUS
  <2>1. ASSUME q \in 1..k PROVE \E n \in 1..i - 1 : R[q].max = v[n]
    BY <1>3, <2>1 DEF RollupsAre, v
  <2> QED BY <1>2, <1>3, <1>4, <1>22, <1>23, <2>1
<1>26. RollupsAre(samples, e, Q)
  BY <1>3, <1>12, <1>15, <1>16, <1>17, <1>20, <1>21, <1>24, <1>25 DEF RollupsAre, v, c
<1> QED BY <1>3, <1>9, <1>13, <1>26 DEF r, Q

AreWindows(windows) == windows \in Seq(Span) /\ windows # <<>> /\ Sums!ValidWindows(windows)
Within(samples, w) == {n \in DOMAIN samples : w.from <= samples[n].at /\ samples[n].at < w.to}

LEMMA WindowsAre ==
  ASSUME NEW windows, AreWindows(windows)
  PROVE /\ Len(windows) \in Nat /\ Len(windows) > 0 /\ DOMAIN windows = 1..Len(windows)
        /\ \A k \in 1..Len(windows) : windows[k] \in Span /\ windows[k].from \in Int /\ windows[k].to \in Int /\ windows[k].from < windows[k].to
        /\ \A j, k \in 1..Len(windows) : j < k => windows[j].to <= windows[k].from
<1> DEFINE l == Len(windows)
           from == [n \in 1..l |-> windows[n].from]
           to == [n \in 1..l |-> windows[n].to]
<1>1. l \in Nat /\ l > 0 /\ DOMAIN windows = 1..l /\ \A k \in 1..l : windows[k] \in Span
  BY DEF AreWindows
<1>2. (\A k \in 1..l : windows[k].from < windows[k].to) /\ \A k \in 1..l - 1 : windows[k].to <= windows[k + 1].from
  BY <1>1 DEF AreWindows, Sums!ValidWindows
<1>3. \A k \in 1..l : windows[k].from \in Int /\ windows[k].to \in Int
  BY <1>1 DEF Span
<1>4. \A k \in 1..l : from[k] = windows[k].from /\ to[k] = windows[k].to
  OBVIOUS
<1> HIDE DEF l, from, to
<1>5. \A n \in 1..l : from[n] \in Int /\ to[n] \in Int /\ from[n] <= to[n]
  <2> SUFFICES ASSUME NEW n \in 1..l PROVE from[n] \in Int /\ to[n] \in Int /\ from[n] <= to[n]
    OBVIOUS
  <2>1. windows[n].from \in Int /\ windows[n].to \in Int /\ windows[n].from < windows[n].to /\ from[n] = windows[n].from /\ to[n] = windows[n].to
    BY <1>2, <1>3, <1>4
  <2> QED BY <2>1
<1>6. ASSUME NEW n \in 2..l PROVE to[n - 1] <= from[n]
  <2>1. n - 1 \in 1..l - 1 /\ n - 1 \in 1..l /\ n \in 1..l /\ (n - 1) + 1 = n
    BY <1>1
  <2> QED BY <1>2, <1>4, <2>1
<1>7. ASSUME NEW j \in 1..l, NEW k \in 1..l, j < k PROVE windows[j].to <= windows[k].from
  <2>1. to[j] <= from[k]
    BY <1>1, <1>5, <1>6, <1>7, InRow
  <2> QED BY <1>4, <2>1
<1> QED BY <1>1, <1>2, <1>3, <1>7 DEF l

(* What holds after k windows.                                              *)
WalkHolds(samples, windows, k, t) ==
  /\ k = 0 => t.next = 1 /\ t.rollups = <<>>
  /\ k > 0 => /\ \A n \in 1..Len(samples) : n < t.next <=> samples[n].at < windows[k].to
              /\ SumOver(CoveredColumn(t.rollups), DOMAIN t.rollups) <= windows[k].to - windows[1].from
  /\ t.ok <=> \A n \in 1..t.next - 1 : \E j \in 1..k : n \in Within(samples, windows[j])
  /\ RollupsAre(samples, t.next, t.rollups)
  /\ t.ok => \A r \in DOMAIN t.rollups : t.rollups[r].count = Cardinality(Within(samples, t.rollups[r].window))

LEMMA BucketIs ==
  ASSUME NEW samples, AreSamples(samples), NEW i \in 1..Len(samples) + 1, NEW e \in 1..Len(samples) + 1, i <= e
  PROVE LET b == SubSeq(samples, i, e - 1)
        IN /\ b = <<>> <=> i = e
           /\ \A t : (\A n \in DOMAIN b : b[n].at >= t) <=> \A n \in i..e - 1 : samples[n].at >= t
<1> DEFINE l == Len(samples)
           j == e - 1
           b == SubSeq(samples, i, j)
<1>1. l \in Nat /\ i \in 1..l + 1 /\ e \in 1..l + 1 /\ i <= e /\ samples \in Seq(Sampled)
  BY SamplesAre DEF AreSamples
<1>2. i \in Int /\ j \in Int /\ \A n \in i..j : samples[n] \in Sampled
  BY <1>1
<1> HIDE DEF j, l
<1>3. b \in Seq(Sampled) /\ Len(b) = (IF i <= j THEN j - i + 1 ELSE 0) /\ \A n \in 1..j - i + 1 : b[n] = samples[i + n - 1]
  BY ONLY <1>2, SubSeqProperties
<1>4. j = e - 1
  BY DEF j
<1> HIDE DEF b
<1>5. Len(b) = e - i /\ DOMAIN b = 1..e - i /\ \A n \in 1..e - i : b[n] = samples[i + n - 1]
  <2>1. j - i + 1 = e - i /\ (i <= j \/ e - i = 0)
    BY <1>1, <1>4
  <2> QED BY <1>3, <2>1
<1>6. b = <<>> <=> i = e
  BY <1>1, <1>3, <1>5
<1>7. ASSUME NEW t PROVE (\A n \in DOMAIN b : b[n].at >= t) <=> \A n \in i..e - 1 : samples[n].at >= t
  <2>1. \A n \in i..e - 1 : n - i + 1 \in 1..e - i /\ i + (n - i + 1) - 1 = n
    BY <1>1
  <2>2. \A n \in 1..e - i : i + n - 1 \in i..e - 1
    BY <1>1
  <2>3. ASSUME \A n \in 1..e - i : b[n].at >= t, NEW n \in i..e - 1 PROVE samples[n].at >= t
    <3>1. b[n - i + 1].at >= t /\ b[n - i + 1] = samples[n]
      BY <1>5, <2>1, <2>3
    <3> QED BY <3>1
  <2>4. ASSUME \A n \in i..e - 1 : samples[n].at >= t, NEW n \in 1..e - i PROVE b[n].at >= t
    BY <1>5, <2>2, <2>4
  <2> QED BY <1>5, <2>3, <2>4
<1> QED BY <1>6, <1>7 DEF b, j

LEMMA WalkStep ==
  ASSUME NEW samples, AreSamples(samples), NEW windows, AreWindows(windows), NEW k \in 1..Len(windows),
         NEW acc \in WalkStates(samples, windows), WalkHolds(samples, windows, k - 1, acc)
  PROVE WalkHolds(samples, windows, k, Sums!Take(acc, samples, windows[k]))
<1> DEFINE l == Len(samples)
           w == windows[k]
           i == acc.next
           R == acc.rollups
           e == EndOf(samples, i, w.to)
           bucket == SubSeq(samples, i, e - 1)
           r == Sums!Rollup(w, bucket)
           t == Sums!Take(acc, samples, w)
           V == RollupsOf(samples, windows)
           at(n) == samples[n].at
           W(j) == Within(samples, windows[j])
           m == k - 1
           sum == SumOver(CoveredColumn(R), DOMAIN R)
<1>1. l \in Nat /\ DOMAIN samples = 1..l /\ \A n \in 1..l : at(n) \in Int
  BY SamplesAre
<1>2. /\ Len(windows) \in Nat /\ DOMAIN windows = 1..Len(windows) /\ windows \in Seq(Span)
      /\ \A j \in 1..Len(windows) : windows[j] \in Span /\ windows[j].from \in Int /\ windows[j].to \in Int /\ windows[j].from < windows[j].to
      /\ \A j, h \in 1..Len(windows) : j < h => windows[j].to <= windows[h].from
  BY WindowsAre DEF AreWindows
<1>3. i \in 1..l + 1 /\ acc.ok \in BOOLEAN /\ R \in Seq(V)
  BY DEF WalkStates
<1>4. w \in Span /\ w.from \in Int /\ w.to \in Int /\ w.from < w.to
  BY <1>2
<1>5. e \in i..l + 1 /\ \A n \in i..l : at(n) < w.to <=> n < e
  BY <1>3, <1>4, EndIs
<1>6. t = [next |-> e, ok |-> acc.ok /\ \A n \in DOMAIN bucket : bucket[n].at >= w.from, rollups |-> IF bucket = <<>> THEN R ELSE Append(R, r)]
  BY TakeIs, Zenon
<1>7. r \in V
  <2>1. i \in Int /\ e - 1 \in Int /\ k \in DOMAIN windows
    BY <1>1, <1>2, <1>3, <1>5
  <2> HIDE DEF i, e
  <2> QED BY <2>1 DEF RollupsOf
<1>8. /\ bucket = <<>> <=> i = e
      /\ (\A n \in DOMAIN bucket : bucket[n].at >= w.from) <=> \A n \in i..e - 1 : samples[n].at >= w.from
  <2>1. i \in 1..l + 1 /\ e \in 1..l + 1 /\ i <= e
    BY <1>1, <1>3, <1>5
  <2> HIDE DEF i, e
  <2> QED BY <2>1, BucketIs, ZenonT(40)
<1>9. /\ m = 0 => i = 1 /\ R = <<>>
      /\ m > 0 => (\A n \in 1..l : n < i <=> at(n) < windows[m].to) /\ sum <= windows[m].to - windows[1].from
      /\ acc.ok <=> \A n \in 1..i - 1 : \E j \in 1..m : n \in W(j)
      /\ RollupsAre(samples, i, R)
      /\ acc.ok => \A q \in DOMAIN R : R[q].count = Cardinality(Within(samples, R[q].window))
  BY DEF WalkHolds
<1>10. \A j \in 1..Len(windows) : \A n : n \in W(j) <=> n \in 1..l /\ windows[j].from <= at(n) /\ at(n) < windows[j].to
  BY <1>1 DEF Within
<1>11. m \in Nat /\ m + 1 = k /\ k \in Nat /\ k > 0 /\ 1 \in 1..Len(windows) /\ (m > 0 => m \in 1..Len(windows) /\ m < k)
       /\ (\A j \in 1..k : j \in 1..m \/ j = k) /\ (\A j \in 1..m : j \in 1..k /\ j \in 1..Len(windows) /\ m > 0 /\ (j = m \/ j < m)) /\ k \in 1..k
  BY <1>2
<1> HIDE DEF l, i, R, e, bucket, r, t, V, W, m, at, sum
<1>12. \A n \in 1..i - 1 : at(n) < w.from /\ n \in 1..l /\ at(n) \in Int
  <2> SUFFICES ASSUME NEW n \in 1..i - 1 PROVE at(n) < w.from /\ n \in 1..l /\ at(n) \in Int
    OBVIOUS
  <2>1. n \in 1..l /\ n < i /\ i # 1
    BY <1>1, <1>3
  <2>2. m > 0
    BY <1>9, <1>11, <2>1
  <2>3. at(n) < windows[m].to
    BY <1>9, <2>1, <2>2
  <2>4. windows[m].to <= w.from /\ windows[m].to \in Int
    BY <1>2, <1>11, <2>2
  <2> QED BY <1>1, <1>4, <2>1, <2>3, <2>4
<1>13. ASSUME NEW n \in i..l, NEW j \in 1..m PROVE n \notin W(j)
  <2>1. n \in 1..l /\ ~(n < i) /\ m > 0 /\ m \in 1..Len(windows) /\ j \in 1..Len(windows)
    BY <1>1, <1>3, <1>11
  <2>2. ~(at(n) < windows[m].to)
    BY <1>9, <2>1
  <2>3. windows[j].to <= windows[m].to
    <3>1. j = m \/ windows[j].to <= windows[m].from
      BY <1>2, <1>11, <2>1
    <3>2. windows[m].from < windows[m].to /\ windows[m].from \in Int /\ windows[m].to \in Int /\ windows[j].to \in Int
      BY <1>2, <2>1
    <3> QED BY <3>1, <3>2
  <2>4. ~(at(n) < windows[j].to)
    BY <1>1, <1>2, <2>1, <2>2, <2>3
  <2> QED BY <1>10, <2>1, <2>4
<1>14. \A n \in 1..l : n \in i..l \/ n \in 1..i - 1
  BY <1>1, <1>3
<1>15. \A n \in 1..l : n < e <=> at(n) < w.to
  <2> SUFFICES ASSUME NEW n \in 1..l PROVE n < e <=> at(n) < w.to
    OBVIOUS
  <2>1. CASE n \in i..l
    BY <1>5, <2>1
  <2>2. CASE n \in 1..i - 1
    <3>1. n < e
      BY <1>1, <1>3, <1>5, <2>2
    <3>2. at(n) < w.to
      BY <1>4, <1>12, <2>2
    <3> QED BY <3>1, <3>2
  <2> QED BY <1>14, <2>1, <2>2
<1>16. t.next = e /\ (t.ok <=> acc.ok /\ \A n \in i..e - 1 : at(n) >= w.from) /\ t.rollups = IF i = e THEN R ELSE Append(R, r)
  BY <1>6, <1>8 DEF at
<1>17. (\A n \in i..e - 1 : n \in i..l /\ n \in 1..e - 1 /\ n \in 1..l) /\ (\A n \in 1..i - 1 : n \in 1..e - 1) /\ \A n \in 1..e - 1 : n \in 1..i - 1 \/ n \in i..e - 1
  BY <1>1, <1>3, <1>5
<1>18. t.ok <=> \A n \in 1..e - 1 : \E j \in 1..k : n \in W(j)
  <2>1. ASSUME t.ok, NEW n \in 1..e - 1 PROVE \E j \in 1..k : n \in W(j)
    <3>1. CASE n \in 1..i - 1
      <4>1. \E j \in 1..m : n \in W(j)
        BY <1>9, <1>16, <2>1, <3>1
      <4> QED BY <1>11, <4>1
    <3>2. CASE n \in i..e - 1
      <4>1. n \in 1..l /\ n < e /\ at(n) >= w.from /\ at(n) \in Int
        BY <1>1, <1>3, <1>5, <1>16, <1>17, <2>1, <3>2
      <4>2. at(n) < w.to
        BY <1>15, <4>1
      <4>3. n \in W(k)
        BY <1>4, <1>10, <4>1, <4>2
      <4> QED BY <1>11, <4>3
    <3> QED BY <1>17, <3>1, <3>2
  <2>2. ASSUME \A n \in 1..e - 1 : \E j \in 1..k : n \in W(j) PROVE t.ok
    <3>1. ASSUME NEW n \in 1..i - 1 PROVE \E j \in 1..m : n \in W(j)
      <4>1. PICK j \in 1..k : n \in W(j)
        BY <1>17, <2>2
      <4>2. j # k
        <5>1. ~(w.from <= at(n))
          BY <1>4, <1>12
        <5> QED BY <1>10, <4>1, <5>1
      <4> QED BY <1>11, <4>1, <4>2
    <3>2. ASSUME NEW n \in i..e - 1 PROVE at(n) >= w.from
      <4>1. PICK j \in 1..k : n \in W(j)
        BY <1>17, <2>2
      <4>2. n \in W(k)
        BY <1>11, <1>13, <1>17, <4>1
      <4>3. w.from <= at(n) /\ at(n) \in Int
        BY <1>1, <1>10, <1>17, <4>2
      <4> QED BY <1>4, <4>3
    <3> QED BY <1>9, <1>16, <3>1, <3>2
  <2> QED BY <2>1, <2>2
<1>19. sum <= w.from - windows[1].from /\ sum \in Int
  <2>0. sum \in Int
    <3> DEFINE D == DOMAIN R
    <3>1. IsFiniteSet(D) /\ \A n \in D : CoveredColumn(R)[n] \in Int
      <4>1. ASSUME NEW n \in D PROVE CoveredColumn(R)[n] \in Int
        <5>1. RollupsAre(samples, i, R) /\ n \in DOMAIN R
          BY <1>9
        <5> HIDE DEF R, i
        <5>2. IsFine(R[n])
          BY <5>1, Zenon DEF RollupsAre
        <5>3. R[n].covered \in Int
          BY <5>2 DEF IsFine
        <5>4. CoveredColumn(R)[n] = R[n].covered
          BY <5>1 DEF CoveredColumn
        <5> QED BY <5>3, <5>4
      <4>2. D = 1..Len(R) /\ Len(R) \in Nat
        BY <1>3
      <4>3. IsFiniteSet(1..Len(R))
        BY <4>2, FS_Interval
      <4> QED BY <4>1, <4>2, <4>3
    <3> HIDE DEF D
    <3>2. SumOver(CoveredColumn(R), D) \in Int
      BY <3>1, SumIsInt
    <3> QED BY <3>2 DEF sum, D
  <2>1. CASE m = 0
    <3>1. R = <<>> /\ k = 1
      BY <1>9, <1>11, <2>1
    <3>2. sum = 0
      BY <3>1, SumOfNone DEF sum
    <3>3. w.from = windows[1].from
      BY <3>1
    <3> QED BY <1>4, <3>2, <3>3
  <2>2. CASE m > 0
    <3>1. sum <= windows[m].to - windows[1].from /\ windows[m].to <= w.from
      BY <1>2, <1>9, <1>11, <2>2
    <3>2. windows[m].to \in Int /\ windows[1].from \in Int
      BY <1>2, <1>11, <2>2
    <3> QED BY <1>4, <2>0, <3>1, <3>2
  <2> QED BY <1>11, <2>1, <2>2
<1>20. windows[1].from \in Int
  BY <1>2, <1>11
<1> DEFINE Q == t.rollups
<1>21. ASSUME i = e
       PROVE /\ RollupsAre(samples, e, Q) /\ SumOver(CoveredColumn(Q), DOMAIN Q) <= w.to - windows[1].from
             /\ t.ok => \A q \in DOMAIN Q : Q[q].count = Cardinality(Within(samples, Q[q].window))
  <2>1. Q = R
    BY <1>16, <1>21
  <2>2. sum <= w.to - windows[1].from
    BY <1>4, <1>19, <1>20
  <2> QED BY <1>9, <1>16, <1>21, <2>1, <2>2 DEF sum
<1>22. ASSUME i # e
       PROVE /\ RollupsAre(samples, e, Q) /\ SumOver(CoveredColumn(Q), DOMAIN Q) <= w.to - windows[1].from
             /\ t.ok => \A q \in DOMAIN Q : Q[q].count = Cardinality(Within(samples, Q[q].window))
  <2>1. Q = Append(R, r)
    BY <1>16, <1>22
  <2>2. i \in 1..l + 1 /\ e \in 1..l + 1 /\ i < e
    BY <1>1, <1>3, <1>5, <1>22
  <2>3. /\ RollupsAre(samples, e, Append(R, r)) /\ r.covered <= w.to - w.from
        /\ SumOver(CoveredColumn(Append(R, r)), DOMAIN Append(R, r)) = SumOver(CoveredColumn(R), DOMAIN R) + r.covered
        /\ r.covered \in Nat
    <3>1. RollupsAre(samples, i, R) /\ Sums!Rollup(w, SubSeq(samples, i, e - 1)) \in V
      BY <1>7, <1>9 DEF r, bucket
    <3> QED BY <1>3, <1>4, <2>2, <3>1, OneMoreRollup DEF r, bucket, l
  <2>4. SumOver(CoveredColumn(Q), DOMAIN Q) <= w.to - windows[1].from
    <3>1. SumOver(CoveredColumn(Q), DOMAIN Q) = sum + r.covered
      BY <2>1, <2>3 DEF sum
    <3> QED BY <1>4, <1>19, <1>20, <2>3, <3>1, SMTT(30)
  <2>5. ASSUME t.ok, NEW q \in DOMAIN Q PROVE Q[q].count = Cardinality(Within(samples, Q[q].window))
    <3>1. CASE q \in DOMAIN R
      <4>1. Q[q] = R[q]
        BY <1>3, <2>1, <3>1
      <4> QED BY <1>9, <1>16, <2>5, <3>1, <4>1
    <3>2. CASE q \notin DOMAIN R
      <4>1. Q[q] = r
        BY <1>3, <2>1, <2>5, <3>2
      <4>2. r.window = w /\ r.count = e - i
        BY <1>4, <2>2, RollupIs DEF r, bucket, l
      <4>3. Within(samples, w) = i..e - 1
        <5>1. ASSUME NEW n \in W(k) PROVE n \in i..e - 1
          <6>1. n \in 1..l /\ w.from <= at(n) /\ at(n) < w.to /\ at(n) \in Int
            BY <1>1, <1>10
          <6>2. n < e
            BY <1>15, <6>1
          <6>3. n \notin 1..i - 1
            <7>1. n \in 1..i - 1 => at(n) < w.from
              BY <1>12
            <7> QED BY <1>4, <6>1, <7>1
          <6> QED BY <1>1, <1>3, <1>5, <6>1, <6>2, <6>3
        <5>2. ASSUME NEW n \in i..e - 1 PROVE n \in W(k)
          <6>1. n \in 1..l /\ n < e /\ at(n) >= w.from /\ at(n) \in Int
            BY <1>1, <1>3, <1>5, <1>16, <1>17, <2>5
          <6>2. at(n) < w.to
            BY <1>15, <6>1
          <6> QED BY <1>4, <1>10, <6>1, <6>2
        <5>3. W(k) = i..e - 1
          BY <5>1, <5>2
        <5> QED BY <5>3 DEF W
      <4>4. Cardinality(i..e - 1) = e - i
        <5>1. i \in Int /\ e - 1 \in Int /\ i <= e - 1 /\ (e - 1) - i + 1 = e - i
          BY <1>1, <2>2
        <5> DEFINE j == e - 1
        <5>2. Cardinality(i..j) = IF i <= j THEN j - i + 1 ELSE 0
          <6>1. j \in Int
            BY <5>1
          <6> HIDE DEF j
          <6> QED BY <5>1, <6>1, FS_Interval
        <5> QED BY <5>1, <5>2
      <4> QED BY <4>1, <4>2, <4>3, <4>4
    <3> QED BY <3>1, <3>2
  <2> QED BY <2>1, <2>3, <2>4, <2>5
<1> HIDE DEF Q
<1>23. k # 0
  BY <1>11
<1>24. \A n \in 1..Len(samples) : n < t.next <=> samples[n].at < windows[k].to
  BY <1>15, <1>16 DEF at, l
<1>25. t.ok <=> \A n \in 1..t.next - 1 : \E j \in 1..k : n \in Within(samples, windows[j])
  BY <1>16, <1>18 DEF W
<1> QED BY <1>16, <1>21, <1>22, <1>23, <1>24, <1>25 DEF WalkHolds, Q, t

LEMMA WalkEnds ==
  ASSUME NEW samples, AreSamples(samples), NEW windows, AreWindows(windows)
  PROVE LET t == Walked(samples, windows)
        IN t \in WalkStates(samples, windows) /\ WalkHolds(samples, windows, Len(windows), t)
<1> DEFINE l == Len(windows)
           V == WalkStates(samples, windows)
<1>1. l \in Nat /\ l > 0 /\ windows \in Seq(Span)
  BY WindowsAre DEF AreWindows
<1>2. PICK a : IsRollupWalk(a, samples, windows) /\ Walked(samples, windows) = a[l]
  BY <1>1, RollupWalk
<1> DEFINE T == {k \in Nat : k \in 0..l => WalkHolds(samples, windows, k, a[k])}
<1>3. a \in [0..l -> V] /\ a[0] = NoRollups /\ \A k \in 1..l : a[k] = Sums!Take(a[k - 1], samples, windows[k])
  BY <1>2 DEF IsRollupWalk
<1>4. WalkHolds(samples, windows, 0, a[0])
  <2>1. a[0].next = 1 /\ a[0].ok /\ a[0].rollups = <<>>
    BY <1>3 DEF NoRollups
  <2>2. RollupsAre(samples, 1, <<>>)
    BY NoRollupsAre
  <2>3. 1..1 - 1 = {} /\ DOMAIN << >> = {} /\ ~(0 > 0)
    OBVIOUS
  <2> QED BY <2>1, <2>2, <2>3 DEF WalkHolds
<1>5. ASSUME NEW k \in Nat, k \in T PROVE k + 1 \in T
  <2> SUFFICES ASSUME k + 1 \in 0..l PROVE WalkHolds(samples, windows, k + 1, a[k + 1])
    OBVIOUS
  <2> DEFINE j == k + 1
  <2>1. j \in 1..l /\ j - 1 = k /\ k \in 0..l
    BY <1>1
  <2>2. WalkHolds(samples, windows, j - 1, a[j - 1]) /\ a[j - 1] \in V
    BY <1>3, <1>5, <2>1
  <2>3. a[j] = Sums!Take(a[j - 1], samples, windows[j])
    BY <1>3, <2>1
  <2> HIDE DEF j
  <2>4. WalkHolds(samples, windows, j, Sums!Take(a[j - 1], samples, windows[j]))
    BY <2>1, <2>2, WalkStep
  <2>5. WalkHolds(samples, windows, j, a[j])
    BY <2>3, <2>4
  <2> QED BY <2>5 DEF j
<1>6. 0 \in T
  BY <1>4
<1>7. \A k \in Nat : k \in T
  <2> HIDE DEF T
  <2> QED BY <1>5, <1>6, EveryNumber
<1>8. l \in T /\ l \in 0..l
  BY <1>1, <1>7
<1> QED BY <1>2, <1>3, <1>8

(* When samples can be built into rollups, and what is built.               *)
LEMMA BuiltIs ==
  ASSUME NEW samples, AreSamples(samples), NEW windows, AreWindows(windows)
  PROVE LET t == Walked(samples, windows)
            b == Sums!BuildRollups(samples, windows)
        IN /\ b.ok <=> t.ok /\ t.next = Len(samples) + 1
           /\ b.ok => b.rollups = t.rollups
<1> DEFINE t == Walked(samples, windows)
           b == Sums!BuildRollups(samples, windows)
<1>1. Sums!ValidWindows(windows) /\ \A n \in 1..Len(samples) - 1 : samples[n].at < samples[n + 1].at
  BY DEF AreWindows, AreSamples
<1>2. b = IF /\ Sums!ValidWindows(windows)
             /\ \A n \in 1..Len(samples) - 1 : samples[n].at < samples[n + 1].at
             /\ t.ok /\ t.next = Len(samples) + 1
          THEN [rollups |-> t.rollups, ok |-> TRUE] ELSE Sums!Failed
  BY DEF Sums!BuildRollups, Walked, NoRollups
<1> HIDE DEF t, b
<1>3. b = IF t.ok /\ t.next = Len(samples) + 1 THEN [rollups |-> t.rollups, ok |-> TRUE] ELSE Sums!Failed
  BY <1>1, <1>2
<1> QED BY <1>3 DEF Sums!Failed, t, b

LEMMA BuiltHolds ==
  ASSUME NEW samples, AreSamples(samples), NEW windows, AreWindows(windows)
  PROVE LET b == Sums!BuildRollups(samples, windows)
            R == b.rollups
            l == Len(samples)
            K == Len(windows)
        IN /\ b.ok <=> \A n \in 1..l : \E k \in 1..K : n \in Within(samples, windows[k])
           /\ b.ok => /\ R \in Seq(RollupsOf(samples, windows)) /\ RollupsAre(samples, l + 1, R)
                      /\ \A n \in 1..l : samples[n].at < windows[K].to
                      /\ SumOver(CoveredColumn(R), DOMAIN R) <= windows[K].to - windows[1].from
                      /\ \A r \in DOMAIN R : R[r].count = Cardinality(Within(samples, R[r].window))
<1> DEFINE t == Walked(samples, windows)
           b == Sums!BuildRollups(samples, windows)
           l == Len(samples)
           K == Len(windows)
           W(j) == Within(samples, windows[j])
<1>1. l \in Nat /\ DOMAIN samples = 1..l /\ \A n \in 1..l : samples[n].at \in Int
  BY SamplesAre
<1>2. /\ K \in Nat /\ K > 0
      /\ \A j \in 1..K : windows[j].from \in Int /\ windows[j].to \in Int /\ windows[j].from < windows[j].to
      /\ \A j, h \in 1..K : j < h => windows[j].to <= windows[h].from
  BY WindowsAre
<1>3. t \in WalkStates(samples, windows) /\ WalkHolds(samples, windows, K, t)
  BY WalkEnds
<1>4. (b.ok <=> t.ok /\ t.next = l + 1) /\ (b.ok => b.rollups = t.rollups)
  BY BuiltIs
<1> HIDE DEF t, b
<1>5. t.next \in 1..l + 1 /\ t.rollups \in Seq(RollupsOf(samples, windows))
  BY <1>3 DEF WalkStates, l
<1> HIDE DEF l, K
<1>6. /\ \A n \in 1..l : n < t.next <=> samples[n].at < windows[K].to
      /\ SumOver(CoveredColumn(t.rollups), DOMAIN t.rollups) <= windows[K].to - windows[1].from
  BY <1>2, <1>3 DEF WalkHolds, l
<1>7. /\ t.ok <=> \A n \in 1..t.next - 1 : \E j \in 1..K : n \in W(j)
      /\ RollupsAre(samples, t.next, t.rollups)
      /\ t.ok => \A r \in DOMAIN t.rollups : t.rollups[r].count = Cardinality(Within(samples, t.rollups[r].window))
  BY <1>3 DEF WalkHolds
<1>8. ASSUME NEW n \in 1..l, NEW j \in 1..K, n \in W(j) PROVE samples[n].at < windows[K].to
  <2>1. samples[n].at < windows[j].to
    BY <1>8 DEF Within
  <2>2. j = K \/ windows[j].to <= windows[K].from
    BY <1>2
  <2>3. windows[j].to \in Int /\ windows[K].from \in Int /\ windows[K].to \in Int /\ windows[K].from < windows[K].to /\ samples[n].at \in Int
    BY <1>1, <1>2
  <2> QED BY <2>1, <2>2, <2>3
<1>9. ASSUME b.ok, NEW n \in 1..l PROVE \E j \in 1..K : n \in W(j)
  <2>1. n \in 1..t.next - 1 /\ t.ok
    BY <1>1, <1>4, <1>9
  <2> QED BY <1>7, <2>1
<1>10. ASSUME \A n \in 1..l : \E j \in 1..K : n \in W(j) PROVE b.ok
  <2>1. \A n \in 1..t.next - 1 : n \in 1..l
    BY <1>1, <1>5
  <2>2. t.ok
    BY <1>7, <1>10, <2>1
  <2>3. \A n \in 1..l : n < t.next
    BY <1>6, <1>8, <1>10
  <2>4. t.next = l + 1
    <3>1. l = 0 \/ l < t.next
      BY <1>1, <2>3
    <3> QED BY <1>1, <1>5, <3>1
  <2> QED BY <1>4, <2>2, <2>4
<1>11. ASSUME b.ok, NEW n \in 1..l PROVE samples[n].at < windows[K].to
  BY <1>8, <1>9, <1>11
<1>12. b.ok <=> \A n \in 1..l : \E j \in 1..K : n \in W(j)
  BY <1>9, <1>10
<1> HIDE DEF W
<1>13. b.ok => /\ b.rollups \in Seq(RollupsOf(samples, windows)) /\ RollupsAre(samples, l + 1, b.rollups)
               /\ SumOver(CoveredColumn(b.rollups), DOMAIN b.rollups) <= windows[K].to - windows[1].from
               /\ \A r \in DOMAIN b.rollups : b.rollups[r].count = Cardinality(Within(samples, b.rollups[r].window))
  BY <1>4, <1>5, <1>6, <1>7
<1> QED BY <1>11, <1>12, <1>13 DEF b, l, K, W

Whole(windows) == [from |-> windows[1].from, to |-> windows[Len(windows)].to]

LEMMA WholeIsWindow ==
  ASSUME NEW windows, AreWindows(windows) PROVE AreWindows(<<Whole(windows)>>) /\ Whole(windows) \in Span /\ Whole(windows).from < Whole(windows).to
<1> DEFINE K == Len(windows)
           w == Whole(windows)
<1>1. /\ K \in Nat /\ K > 0
      /\ \A j \in 1..K : windows[j].from \in Int /\ windows[j].to \in Int /\ windows[j].from < windows[j].to
      /\ \A j, h \in 1..K : j < h => windows[j].to <= windows[h].from
  BY WindowsAre
<1>2. w.from = windows[1].from /\ w.to = windows[K].to /\ w = [from |-> windows[1].from, to |-> windows[K].to]
  BY DEF Whole
<1> HIDE DEF K, w
<1>3. w \in Span
  BY <1>1, <1>2 DEF Span
<1>4. w.from < w.to
  <2>1. K = 1 \/ windows[1].to <= windows[K].from
    BY <1>1
  <2>2. /\ windows[1].from < windows[1].to /\ windows[K].from < windows[K].to
        /\ windows[1].from \in Int /\ windows[1].to \in Int /\ windows[K].from \in Int /\ windows[K].to \in Int
    BY <1>1
  <2> QED BY <1>2, <2>1, <2>2
<1> DEFINE s == <<w>>
<1>5. s \in Seq(Span) /\ s # <<>> /\ Len(s) = 1 /\ s[1] = w /\ DOMAIN s = 1..1
  BY <1>3
<1>6. Sums!ValidWindows(s)
  <2>1. \A n \in DOMAIN s : s[n].from < s[n].to
    BY <1>4, <1>5
  <2>2. 1..Len(s) - 1 = {}
    BY <1>5
  <2> HIDE DEF s
  <2> QED BY <2>1, <2>2 DEF Sums!ValidWindows
<1> QED BY <1>3, <1>4, <1>5, <1>6 DEF AreWindows, w

(* A day whose hours are built has one rollup, of all its samples.          *)
LEMMA DayIs ==
  ASSUME NEW samples, AreSamples(samples), samples # <<>>, NEW windows, AreWindows(windows), Sums!BuildRollups(samples, windows).ok
  PROVE LET d == Sums!BuildRollups(samples, <<Whole(windows)>>)
        IN d.rollups[1] = Sums!Rollup(Whole(windows), SubSeq(samples, 1, Len(samples)))
<1> DEFINE w == Whole(windows)
           s == <<w>>
           l == Len(samples)
           K == Len(windows)
           t == Walked(samples, s)
           e == EndOf(samples, 1, w.to)
           bucket == SubSeq(samples, 1, e - 1)
           r == Sums!Rollup(w, bucket)
<1>1. l \in Nat /\ l > 0 /\ \A n \in 1..l : samples[n].at \in Int
  BY SamplesAre DEF AreSamples
<1>2. AreWindows(s) /\ w \in Span /\ w.from < w.to
  BY WholeIsWindow
<1>3. w.from = windows[1].from /\ w.to = windows[K].to /\ w.from \in Int /\ w.to \in Int
  BY <1>2 DEF Whole, Span
<1>4. (\A n \in 1..l : \E k \in 1..K : n \in Within(samples, windows[k])) /\ \A n \in 1..l : samples[n].at < windows[K].to
  BY BuiltHolds
<1>5. Len(s) = 1 /\ s[1] = w /\ s \in Seq(Span)
  BY <1>2
<1>6. PICK a : IsRollupWalk(a, samples, s) /\ t = a[Len(s)]
  BY <1>5, RollupWalk
<1>7. t = Sums!Take(NoRollups, samples, w)
  <2>1. a[0] = NoRollups /\ \A k \in 1..Len(s) : a[k] = Sums!Take(a[k - 1], samples, s[k])
    BY <1>6 DEF IsRollupWalk
  <2>2. a[1] = Sums!Take(a[1 - 1], samples, s[1])
    BY <1>5, <2>1
  <2> HIDE DEF t, s
  <2> QED BY <1>5, <1>6, <2>1, <2>2
<1>8. NoRollups.next = 1 /\ NoRollups.ok /\ NoRollups.rollups = <<>>
  BY DEF NoRollups
<1> HIDE DEF t
<1>9. t = [next |-> e, ok |-> TRUE /\ \A n \in DOMAIN bucket : bucket[n].at >= w.from, rollups |-> IF bucket = <<>> THEN <<>> ELSE Append(<<>>, r)]
  <2>1. Sums!Take(NoRollups, samples, w) =
          [next |-> EndOf(samples, NoRollups.next, w.to),
           ok |-> NoRollups.ok /\ \A n \in DOMAIN SubSeq(samples, NoRollups.next, EndOf(samples, NoRollups.next, w.to) - 1) :
                                    SubSeq(samples, NoRollups.next, EndOf(samples, NoRollups.next, w.to) - 1)[n].at >= w.from,
           rollups |-> IF SubSeq(samples, NoRollups.next, EndOf(samples, NoRollups.next, w.to) - 1) = <<>> THEN NoRollups.rollups
                       ELSE Append(NoRollups.rollups, Sums!Rollup(w, SubSeq(samples, NoRollups.next, EndOf(samples, NoRollups.next, w.to) - 1)))]
    BY TakeIs, ZenonT(40)
  <2>2. NoRollups = [next |-> 1, ok |-> TRUE, rollups |-> <<>>]
    BY DEF NoRollups
  <2> QED BY <1>7, <1>8, <2>1
<1>10. e = l + 1
  <2>1. 1 \in 1..l + 1 /\ w.to \in Int
    BY <1>1, <1>3
  <2>2. e \in 1..l + 1 /\ \A n \in 1..l : samples[n].at < w.to <=> n < e
    BY <2>1, EndIs
  <2>3. l < e
    BY <1>1, <1>3, <1>4, <2>2
  <2> HIDE DEF e, l
  <2> QED BY <1>1, <2>2, <2>3
<1> HIDE DEF e, l
<1>11. bucket # <<>> /\ \A n \in DOMAIN bucket : bucket[n].at >= w.from
  <2>1. 1 \in 1..l + 1 /\ e \in 1..l + 1 /\ 1 <= e /\ 1 # e
    BY <1>1, <1>10
  <2>2. /\ bucket = <<>> <=> 1 = e
        /\ (\A n \in DOMAIN bucket : bucket[n].at >= w.from) <=> \A n \in 1..e - 1 : samples[n].at >= w.from
    <3>1. ASSUME NEW i \in 1..l + 1, i <= e
          PROVE LET b == SubSeq(samples, i, e - 1)
                IN (b = <<>> <=> i = e) /\ \A x : (\A n \in DOMAIN b : b[n].at >= x) <=> \A n \in i..e - 1 : samples[n].at >= x
      BY <2>1, <3>1, BucketIs, Zenon DEF l
    <3> QED BY <2>1, <3>1
  <2>3. ASSUME NEW n \in 1..e - 1 PROVE samples[n].at >= w.from
    <3>1. n \in 1..l
      BY <1>1, <1>10
    <3>2. PICK k \in 1..K : n \in Within(samples, windows[k])
      BY <1>4, <3>1
    <3>3. windows[k].from <= samples[n].at
      BY <3>2 DEF Within
    <3>4. /\ windows[k].from \in Int /\ windows[1].from \in Int /\ windows[1].to \in Int /\ windows[1].from < windows[1].to
          /\ (1 = k \/ windows[1].to <= windows[k].from)
      BY WindowsAre
    <3>5. windows[1].from <= samples[n].at /\ samples[n].at \in Int
      BY <1>1, <3>1, <3>3, <3>4
    <3> QED BY <1>3, <3>5
  <2> QED BY <2>1, <2>2, <2>3
<1> HIDE DEF bucket, r
<1>12. t.ok /\ t.next = l + 1 /\ t.rollups = <<r>>
  <2>1. t.ok = (TRUE /\ \A n \in DOMAIN bucket : bucket[n].at >= w.from) /\ t.next = e
    BY <1>9
  <2>2. t.rollups = IF bucket = <<>> THEN <<>> ELSE Append(<<>>, r)
    BY <1>9
  <2>3. t.ok
    BY <1>11, <2>1
  <2>4. t.rollups = <<r>>
    BY <1>11, <2>2
  <2> QED BY <1>10, <2>1, <2>3, <2>4
<1>13. Sums!BuildRollups(samples, s).rollups = t.rollups
  BY <1>2, <1>12, BuiltIs DEF t, l
<1>14. e - 1 = l
  BY <1>1, <1>10
<1> QED BY <1>12, <1>13, <1>14 DEF s, r, bucket, l, w

MinColumn(R) == [n \in DOMAIN R |-> R[n].min]
MaxColumn(R) == [n \in DOMAIN R |-> R[n].max]

(* What a day comes to is what its rollups come to.                         *)
LEMMA DayAddsUp ==
  ASSUME NEW samples, AreSamples(samples), samples # <<>>, NEW windows, AreWindows(windows), NEW V, NEW R \in Seq(V),
         RollupsAre(samples, Len(samples) + 1, R), SumOver(CoveredColumn(R), DOMAIN R) <= Whole(windows).to - Whole(windows).from
  PROVE LET d == Sums!Rollup(Whole(windows), SubSeq(samples, 1, Len(samples)))
        IN /\ d.sum = Sums!Added(SumColumn(R)) /\ d.count = Sums!Added(CountColumn(R))
           /\ d.min = Sums!Min(Sums!Range(MinColumn(R))) /\ d.max = Sums!Max(Sums!Range(MaxColumn(R)))
           /\ d.covered >= Sums!Added(CoveredColumn(R))
<1> DEFINE l == Len(samples)
           w == Whole(windows)
           d == Sums!Rollup(w, SubSeq(samples, 1, l))
           v == Values(samples)
           c == Covers(samples)
           P == 1..l
           D == DOMAIN R
           m == MinColumn(R)
           x == MaxColumn(R)
<1>1. l \in Nat /\ l > 0 /\ \A n \in P : v[n] \in Int /\ c[n] \in Nat /\ c[n] \in Int
  BY SamplesAre, SamplesAdd DEF AreSamples
<1>2. w \in Span /\ w.from < w.to
  BY WholeIsWindow
<1>3. w.from \in Int /\ w.to \in Int
  BY <1>2 DEF Span
<1>4. /\ d.sum = SumOver(v, P) /\ d.count = l /\ d.covered = Sums!Least(SumOver(c, P), w.to - w.from)
      /\ \E n \in P : d.min = v[n]
      /\ \E n \in P : d.max = v[n]
      /\ \A n \in P : d.min <= v[n] /\ v[n] <= d.max
  <2>1. 1 \in 1..l + 1 /\ l + 1 \in 1..l + 1 /\ 1 < l + 1 /\ (l + 1) - 1 = l
    BY <1>1
  <2>2. ASSUME NEW i \in 1..l + 1, NEW e \in 1..l + 1, i < e
        PROVE LET r == Sums!Rollup(w, SubSeq(samples, i, e - 1))
              IN /\ r.window = w /\ r.sum = SumOver(v, i..e - 1) /\ r.count = e - i
                 /\ r.covered = Sums!Least(SumOver(c, i..e - 1), w.to - w.from) /\ r.coverage \in 0..Full
                 /\ \E n \in i..e - 1 : r.min = v[n]
                 /\ \E n \in i..e - 1 : r.max = v[n]
                 /\ \A n \in i..e - 1 : r.min <= v[n] /\ v[n] <= r.max
    <3>1. i \in 1..Len(samples) + 1 /\ e \in 1..Len(samples) + 1
      BY <2>2
    <3> HIDE DEF w
    <3> QED BY <1>2, <2>2, <3>1, RollupIs
  <2> HIDE DEF v, c, w, l
  <2>3. LET r == Sums!Rollup(w, SubSeq(samples, 1, (l + 1) - 1))
        IN /\ r.sum = SumOver(v, 1..(l + 1) - 1) /\ r.count = (l + 1) - 1 /\ r.covered = Sums!Least(SumOver(c, 1..(l + 1) - 1), w.to - w.from)
           /\ \E n \in 1..(l + 1) - 1 : r.min = v[n]
           /\ \E n \in 1..(l + 1) - 1 : r.max = v[n]
           /\ \A n \in 1..(l + 1) - 1 : r.min <= v[n] /\ v[n] <= r.max
    BY <2>1, <2>2
  <2>4. (l + 1) - 1 = l
    BY <1>1
  <2> QED BY <2>3, <2>4
<1>5. /\ \A n \in D : IsFine(R[n])
      /\ SumOver(SumColumn(R), D) = SumOver(v, P) /\ SumOver(CountColumn(R), D) = l /\ SumOver(CoveredColumn(R), D) <= SumOver(c, P)
      /\ \A n \in P : \E r \in D : R[r].min <= v[n]
      /\ \A n \in P : \E r \in D : v[n] <= R[r].max
      /\ \A r \in D : \E n \in P : R[r].min = v[n]
      /\ \A r \in D : \E n \in P : R[r].max = v[n]
  <2>1. (l + 1) - 1 = l
    BY <1>1
  <2>2. RollupsAre(samples, l + 1, R)
    OBVIOUS
  <2> HIDE DEF l
  <2>3. 1..(l + 1) - 1 = P
    BY <2>1
  <2> HIDE DEF v, c, P
  <2> QED BY <2>1, <2>2, <2>3 DEF RollupsAre, v, c
<1>6. IsFiniteSet(D)
  <2>1. Len(R) \in Nat /\ D = 1..Len(R)
    OBVIOUS
  <2>2. IsFiniteSet(1..Len(R))
    BY <2>1, FS_Interval
  <2> QED BY <2>1, <2>2
<1>7. SumOver(CoveredColumn(R), D) <= w.to - w.from
  OBVIOUS
<1>8. IsFiniteSet(P) /\ 1 \in P
  BY <1>1, FS_Interval
<1> HIDE DEF l, w, d, v, c, P, D
<1>9. /\ SumColumn(R) = [n \in D |-> R[n].sum] /\ CountColumn(R) = [n \in D |-> R[n].count] /\ CoveredColumn(R) = [n \in D |-> R[n].covered]
      /\ m = [n \in D |-> R[n].min] /\ x = [n \in D |-> R[n].max]
  BY DEF SumColumn, CountColumn, CoveredColumn, MinColumn, MaxColumn, D
<1>10. \A n \in D : R[n].sum \in Int /\ R[n].count \in Int /\ R[n].covered \in Int /\ R[n].min \in Int /\ R[n].max \in Int
  BY <1>5 DEF IsFine
<1> HIDE DEF m, x
<1>11. ASSUME NEW h, h = [n \in D |-> h[n]], \A n \in D : h[n] \in Int PROVE Sums!Added(h) = SumOver(h, D) /\ SumOver(h, D) \in Int
  BY <1>6, <1>11, SumsFunctionIs, SumIsInt DEF Sums!Added
<1>12. Sums!Added(SumColumn(R)) = SumOver(SumColumn(R), D)
  <2> DEFINE h == SumColumn(R)
  <2>1. h = [n \in D |-> h[n]] /\ \A n \in D : h[n] \in Int
    BY <1>9, <1>10
  <2> HIDE DEF h
  <2>2. Sums!Added(h) = SumOver(h, D)
    BY <1>11, <2>1
  <2> QED BY <2>2 DEF h
<1>13. Sums!Added(CountColumn(R)) = SumOver(CountColumn(R), D)
  <2> DEFINE h == CountColumn(R)
  <2>1. h = [n \in D |-> h[n]] /\ \A n \in D : h[n] \in Int
    BY <1>9, <1>10
  <2> HIDE DEF h
  <2>2. Sums!Added(h) = SumOver(h, D)
    BY <1>11, <2>1
  <2> QED BY <2>2 DEF h
<1>14. Sums!Added(CoveredColumn(R)) = SumOver(CoveredColumn(R), D) /\ SumOver(CoveredColumn(R), D) \in Int
  <2> DEFINE h == CoveredColumn(R)
  <2>1. h = [n \in D |-> h[n]] /\ \A n \in D : h[n] \in Int
    BY <1>9, <1>10
  <2> HIDE DEF h
  <2>2. Sums!Added(h) = SumOver(h, D) /\ SumOver(h, D) \in Int
    BY <1>11, <2>1
  <2> QED BY <2>2 DEF h
<1>15. d.covered >= Sums!Added(CoveredColumn(R))
  <2> DEFINE s == SumOver(CoveredColumn(R), D)
             y == SumOver(c, P)
             g == w.to - w.from
  <2>1. s \in Int /\ y \in Int /\ g \in Int /\ s <= y /\ s <= g
    BY <1>1, <1>3, <1>5, <1>7, <1>8, <1>14, SumIsInt
  <2>2. d.covered = IF y < g THEN y ELSE g
    BY <1>4 DEF Sums!Least
  <2>3. Sums!Added(CoveredColumn(R)) = s
    BY <1>14
  <2> HIDE DEF s, y, g
  <2> QED BY <2>1, <2>2, <2>3
<1>16. ASSUME NEW h, h = [n \in D |-> h[n]], \A n \in D : h[n] \in Int
       PROVE /\ Sums!Range(h) = {h[n] : n \in D} /\ Sums!Range(h) \subseteq Int /\ IsFiniteSet(Sums!Range(h)) /\ (D # {} => Sums!Range(h) # {})
  <2>1. DOMAIN h = D
    BY <1>16
  <2>2. Sums!Range(h) = {h[n] : n \in D}
    BY <2>1 DEF Sums!Range
  <2>3. IsFiniteSet({h[n] : n \in D})
    BY <1>6, FiniteImage
  <2> QED BY <1>16, <2>2, <2>3
<1>17. D # {}
  BY <1>5, <1>8
<1>18. d.min = Sums!Min(Sums!Range(m))
  <2>1. m = [n \in D |-> m[n]] /\ \A n \in D : m[n] = R[n].min /\ m[n] \in Int
    BY <1>9, <1>10
  <2>2. Sums!Range(m) = {m[n] : n \in D} /\ Sums!Range(m) \subseteq Int /\ IsFiniteSet(Sums!Range(m)) /\ Sums!Range(m) # {}
    BY <1>16, <1>17, <2>1
  <2> DEFINE S == Sums!Range(m)
             q == Sums!Min(S)
  <2>3. q \in S /\ \A y \in S : q <= y
    BY <2>2, LeastOfSums
  <2> HIDE DEF q
  <2>4. PICK j \in D : q = R[j].min
    BY <2>1, <2>2, <2>3
  <2>5. PICK n \in P : q = v[n]
    BY <1>5, <2>4
  <2>6. d.min <= q
    BY <1>4, <2>5
  <2>7. PICK i \in P : d.min = v[i]
    BY <1>4
  <2>8. PICK h \in D : R[h].min <= d.min
    BY <1>5, <2>7
  <2>9. q <= R[h].min
    BY <2>1, <2>2, <2>3
  <2>10. q \in Int /\ d.min \in Int /\ R[h].min \in Int
    BY <1>1, <1>10, <2>5, <2>7
  <2>11. q = d.min
    BY <2>6, <2>8, <2>9, <2>10
  <2> QED BY <2>11 DEF q
<1>19. d.max = Sums!Max(Sums!Range(x))
  <2>1. x = [n \in D |-> x[n]] /\ \A n \in D : x[n] = R[n].max /\ x[n] \in Int
    BY <1>9, <1>10
  <2>2. Sums!Range(x) = {x[n] : n \in D} /\ Sums!Range(x) \subseteq Int /\ IsFiniteSet(Sums!Range(x)) /\ Sums!Range(x) # {}
    BY <1>16, <1>17, <2>1
  <2> DEFINE S == Sums!Range(x)
             q == Sums!Max(S)
  <2>3. q \in S /\ \A y \in S : y <= q
    BY <2>2, GreatestOfSums
  <2> HIDE DEF q
  <2>4. PICK j \in D : q = R[j].max
    BY <2>1, <2>2, <2>3
  <2>5. PICK n \in P : q = v[n]
    BY <1>5, <2>4
  <2>6. q <= d.max
    BY <1>4, <2>5
  <2>7. PICK i \in P : d.max = v[i]
    BY <1>4
  <2>8. PICK h \in D : d.max <= R[h].max
    BY <1>5, <2>7
  <2>9. R[h].max <= q
    BY <2>1, <2>2, <2>3
  <2>10. q \in Int /\ d.max \in Int /\ R[h].max \in Int
    BY <1>1, <1>10, <2>5, <2>7
  <2>11. q = d.max
    BY <2>6, <2>8, <2>9, <2>10
  <2> QED BY <2>11 DEF q
<1> QED BY <1>4, <1>5, <1>12, <1>13, <1>15, <1>18, <1>19, Zenon DEF d, l, w, m, x

LEMMA RollupsPartition ==
  ASSUME NEW samples, AreSamples(samples), NEW windows, AreWindows(windows) PROVE Sums!RollupsPartition(samples, windows)
<1> DEFINE l == Len(samples)
           K == Len(windows)
           built == Sums!BuildRollups(samples, windows)
           R == built.rollups
           day == Sums!BuildRollups(samples, <<Whole(windows)>>)
           d == day.rollups[1]
<1>1. DOMAIN samples = 1..l /\ DOMAIN windows = 1..K
  BY SamplesAre, WindowsAre
<1>2. /\ built.ok <=> \A n \in 1..l : \E k \in 1..K : n \in Within(samples, windows[k])
      /\ built.ok => /\ R \in Seq(RollupsOf(samples, windows)) /\ RollupsAre(samples, l + 1, R)
                     /\ SumOver(CoveredColumn(R), DOMAIN R) <= windows[K].to - windows[1].from
                     /\ \A r \in DOMAIN R : R[r].count = Cardinality(Within(samples, R[r].window))
  BY BuiltHolds
<1>3. ASSUME built.ok, samples # <<>>
      PROVE /\ d.sum = Sums!Added(SumColumn(R)) /\ d.count = Sums!Added(CountColumn(R))
            /\ d.min = Sums!Min(Sums!Range(MinColumn(R))) /\ d.max = Sums!Max(Sums!Range(MaxColumn(R)))
            /\ d.covered >= Sums!Added(CoveredColumn(R))
  <2>1. d = Sums!Rollup(Whole(windows), SubSeq(samples, 1, Len(samples)))
    BY <1>3, DayIs
  <2>2. /\ R \in Seq(RollupsOf(samples, windows)) /\ RollupsAre(samples, Len(samples) + 1, R)
        /\ SumOver(CoveredColumn(R), DOMAIN R) <= Whole(windows).to - Whole(windows).from
    BY <1>2, <1>3 DEF Whole
  <2> HIDE DEF R, d
  <2>3. LET D == Sums!Rollup(Whole(windows), SubSeq(samples, 1, Len(samples)))
        IN /\ D.sum = Sums!Added(SumColumn(R)) /\ D.count = Sums!Added(CountColumn(R))
           /\ D.min = Sums!Min(Sums!Range(MinColumn(R))) /\ D.max = Sums!Max(Sums!Range(MaxColumn(R)))
           /\ D.covered >= Sums!Added(CoveredColumn(R))
    BY <1>3, <2>2, DayAddsUp
  <2> QED BY <2>1, <2>3
<1>4. ASSUME built.ok, NEW n \in DOMAIN R
      PROVE R[n].count = Sums!Cardinality(Within(samples, R[n].window)) /\ R[n].coverage \in 0..Full /\ R[n].min <= R[n].max
  <2>1. IsFine(R[n])
    BY <1>2, <1>4 DEF RollupsAre
  <2>2. R[n].count = Cardinality(Within(samples, R[n].window))
    BY <1>2, <1>4
  <2> QED BY <2>1, <2>2, SumsCardinality DEF IsFine
<1> HIDE DEF d, R, built
<1>5. Sums!RollupsPartition(samples, windows) <=>
        /\ built.ok <=> \A n \in DOMAIN samples : \E k \in DOMAIN windows : n \in Within(samples, windows[k])
        /\ built.ok => \A n \in DOMAIN R :
             R[n].count = Sums!Cardinality(Within(samples, R[n].window)) /\ R[n].coverage \in 0..Full /\ R[n].min <= R[n].max
        /\ built.ok /\ samples # <<>> =>
             /\ d.sum = Sums!Added(SumColumn(R)) /\ d.count = Sums!Added(CountColumn(R))
             /\ d.min = Sums!Min(Sums!Range(MinColumn(R))) /\ d.max = Sums!Max(Sums!Range(MaxColumn(R)))
             /\ d.covered >= Sums!Added(CoveredColumn(R))
  BY Zenon DEF Sums!RollupsPartition, Within, SumColumn, CountColumn, MinColumn, MaxColumn, CoveredColumn, Whole, d, R, built, day
<1> QED BY <1>1, <1>2, <1>3, <1>4, <1>5

-----------------------------------------------------------------------------
(* The figures of every input add up.                                       *)
FiguresInput ==
  /\ rule = "query" => sample \in Bodies
  /\ rule = "rollup" => sample \in Samples
  /\ rule = "statistics" => sample \in Statements
  /\ rule = "summary" => sample \in Changes
  /\ rule = "weather" => sample \in Weather
  /\ rule = "string" => sample \in ModelStrings
  /\ rule = "park" => sample \in Parks
  /\ rule = "energy" => sample \in Intervals
  /\ rule = "comparison" => sample \in Comparisons

LEMMA FiguresHold == FiguresInput => FiguresAddUp
<1> SUFFICES ASSUME FiguresInput PROVE FiguresAddUp
  OBVIOUS
<1>1. ASSUME rule = "query" PROVE PlansHold(Plans!QueryRequest(sample)) /\ PlansHold(Plans!ExportRequest(sample))
  <2>1. sample \in Bodies
    BY <1>1 DEF FiguresInput
  <2>2. Asked(Plans!QueryRequest(sample)) /\ Asked(Plans!ExportRequest(sample))
    BY <2>1, RequestsAreAsked
  <2> QED BY <2>2, PlansHoldFor
<1>2. ASSUME rule = "rollup", NEW w \in Windows PROVE Sums!RollupsPartition(sample, w)
  <2>1. AreSamples(sample)
    BY <1>2, SummaryConstants DEF FiguresInput, AreSamples
  <2>2. AreWindows(w)
    BY SummaryConstants DEF AreWindows, Span
  <2> QED BY <2>1, <2>2, RollupsPartition
<1>3. ASSUME rule = "statistics" PROVE Sums!StatisticsCombine(sample.first, sample.second, sample.capacity)
  <2>1. sample.first \in Seq(SummaryBucket) /\ sample.second \in Seq(SummaryBucket)
    BY <1>3, SummaryConstants DEF FiguresInput
  <2> QED BY <2>1, StatisticsCombine
<1>4. ASSUME rule = "summary", NEW days \in DaySets PROVE Sums!SummariesAddUp(sample, days)
  <2>1. sample \in Seq(SummaryChange) /\ sample # <<>> /\ IsFiniteSet(days)
    BY <1>4, SummaryConstants DEF FiguresInput, SummaryChange
  <2> QED BY <2>1, SummariesAddUp
<1>5. ASSUME rule = "weather", NEW sun \in Suns, NEW kind \in {"forecast", "observed"}
      PROVE Model!RunIsUsable([kind |-> kind, place |-> "p"], sample, sun)
  <2> DEFINE request == [kind |-> kind, place |-> "p"]
  <2>1. /\ sample.points \in Seq(WeatherPoint) /\ {sample.resolution, sample.fetched, sample.from, sample.to} \subseteq Int
        /\ {sun.ground, sun.beam, sun.sky} \subseteq Nat
    BY <1>5, ModelConstants DEF FiguresInput
  <2>2. request.kind \in {"forecast", "observed"}
    OBVIOUS
  <2> HIDE DEF request
  <2>3. Model!RunIsUsable(request, sample, sun)
    BY <2>1, <2>2, RunIsUsable
  <2> QED BY <2>3 DEF request
<1>6. ASSUME rule = "string" PROVE Model!DcIsBounded(sample)
  <2>1. IsModelString(sample)
    BY <1>6, ModelConstants DEF FiguresInput, IsModelString
  <2> QED BY <2>1, DcIsBounded
<1>7. ASSUME rule = "park" PROVE Model!SystemAddsUp(sample)
  <2>1. sample \in Seq(Connected)
    BY <1>7, ModelConstants DEF FiguresInput, Connected
  <2> QED BY <2>1, SystemAddsUp
<1>8. ASSUME rule = "energy" PROVE Model!EnergyAddsUp(sample.power, sample.first, sample.second)
  <2>1. sample.power \in Estimated(Int) /\ sample.first \in Int /\ sample.second \in Int
    BY <1>8, ModelConstants DEF FiguresInput
  <2> QED BY <2>1, EnergyAddsUp
<1>9. ASSUME rule = "comparison"
      PROVE Model!BasisIsKept(sample.metric, sample.basis, sample.kind, sample.actual, sample.modeled, sample.least)
  <2>1. sample.modeled \in Figure /\ sample.actual.energy \in Figure
    BY <1>9, ModelConstants DEF FiguresInput
  <2> QED BY <2>1, BasisIsKept
<1> QED BY <1>1, <1>2, <1>3, <1>4, <1>5, <1>6, <1>7, <1>8, <1>9 DEF FiguresAddUp

(* Figures add up whatever they are made of: a plan is the finest that fits *)
(* and bounds the answer, rollups, statistics and summaries are sums of what*)
(* went into them, an estimate stays within its bounds and on its basis.    *)
THEOREM FiguresInvariant == RulesSpec => []FiguresAddUp
<1>1. RulesInit => FiguresInput
  BY DEF RulesInit, FiguresInput
<1>2. FiguresInput /\ [RulesNext]_<<rule, sample>> => FiguresInput'
  BY DEF FiguresInput, RulesNext
<1> QED BY <1>1, <1>2, FiguresHold, PTL DEF RulesSpec
=============================================================================

------------------------------ MODULE FiniteSums ------------------------------
(***************************************************************************)
(* Lemmas about the sums of natural numbers that the models of the quota   *)
(* compare with the quota's record.  SumFunctionOnSet of module Functions  *)
(* adds in an order nobody knows; here it is shown to be the sum whatever  *)
(* the order.  What holds for all finite sets is proved from the smallest  *)
(* set for which it would not hold.                                        *)
(***************************************************************************)
EXTENDS Integers, FiniteSets, Functions, FiniteSetTheorems, TLAPS

\* Of some subsets of a finite set one contains no other.
LEMMA SmallestSubset ==
  ASSUME NEW S, IsFiniteSet(S), NEW Sets \in SUBSET SUBSET S, Sets # {}
  PROVE  \E T \in Sets : \A U \in Sets : ~(U \subseteq T /\ U # T)
<1> DEFINE R == StrictSubsetOrdering(S)
<1>1. FiniteSubsetsOf(S) = SUBSET S
  BY FS_FiniteSubsetsOfFinite
<1>2. IsWellFoundedOn(R, SUBSET S)
  BY <1>1, FS_StrictSubsetOrderingWellFounded
<1>3. PICK T \in Sets : \A U \in Sets : <<U, T>> \notin R
  <2> HIDE DEF R
  <2> QED
    BY <1>2, WFMin
<1>4. \A U \in Sets : U \subseteq T /\ U # T => <<U, T>> \in R
  BY DEF StrictSubsetOrdering
<1> HIDE DEF R
<1>5. \A U \in Sets : ~(U \subseteq T /\ U # T)
  BY <1>3, <1>4
<1> QED
  BY <1>5

-----------------------------------------------------------------------------
(* The recursive function inside SumFunctionOnSet exists and is unique. *)

SumElement(s) == CHOOSE x \in s : TRUE

SumNext(f, h, s) == IF s = {} THEN 0 ELSE f[SumElement(s)] + h[s \ {SumElement(s)}]

AddsUp(f, S, h) ==
  /\ h \in [SUBSET S -> Nat]
  /\ \A s \in SUBSET S : h[s] = SumNext(f, h, s)

\* The element taken out of a set is one of it.
LEMMA ElementIn ==
  ASSUME NEW s, s # {}
  PROVE  SumElement(s) \in s
BY DEF SumElement

\* On the subsets two of them share, such functions agree.
LEMMA AddsUnique ==
  ASSUME NEW S, IsFiniteSet(S), NEW f, NEW A \in SUBSET S, NEW B \in SUBSET S,
         NEW g, NEW h, AddsUp(f, A, g), AddsUp(f, B, h), NEW T \in SUBSET (A \cap B)
  PROVE  g[T] = h[T]
<1> DEFINE Bad == {s \in SUBSET (A \cap B) : g[s] # h[s]}
<1> SUFFICES ASSUME Bad # {}
             PROVE  FALSE
  OBVIOUS
<1>1. PICK s \in Bad : \A u \in Bad : ~(u \subseteq s /\ u # s)
  <2>1. Bad \in SUBSET SUBSET S
    OBVIOUS
  <2> HIDE DEF Bad
  <2> QED
    BY <2>1, SmallestSubset
<1>2. g[s] = SumNext(f, g, s) /\ h[s] = SumNext(f, h, s)
  BY DEF AddsUp
<1>3. s # {}
  BY <1>2 DEF SumNext
<1>4. SumElement(s) \in s
  BY <1>3, ElementIn
<1>5. s \ {SumElement(s)} \notin Bad
  <2>1. s \ {SumElement(s)} \subseteq s /\ s \ {SumElement(s)} # s
    BY <1>4
  <2> HIDE DEF Bad
  <2> QED
    BY <1>1, <2>1
<1>6. g[s \ {SumElement(s)}] = h[s \ {SumElement(s)}]
  BY <1>5
<1> QED
  BY <1>2, <1>6 DEF SumNext

\* There is one, for every finite set of natural numbers.
LEMMA AddsExists ==
  ASSUME NEW S, IsFiniteSet(S), NEW f, \A x \in S : f[x] \in Nat
  PROVE  \E h : AddsUp(f, S, h)
<1> DEFINE Bad == {T \in SUBSET S : ~ \E h : AddsUp(f, T, h)}
<1> SUFFICES ASSUME Bad # {}
             PROVE  FALSE
  OBVIOUS
<1>1. PICK T \in Bad : \A U \in Bad : ~(U \subseteq T /\ U # T)
  <2>1. Bad \in SUBSET SUBSET S
    OBVIOUS
  <2> HIDE DEF Bad
  <2> QED
    BY <2>1, SmallestSubset
<1>2. T \in SUBSET S /\ ~ \E h : AddsUp(f, T, h)
  OBVIOUS
<1>3. \A s \in SUBSET T : s # T => \E h : AddsUp(f, s, h)
  BY <1>1
<1> HIDE DEF Bad
<1> DEFINE part(s) == CHOOSE h : AddsUp(f, s, h)
           rest(s) == s \ {SumElement(s)}
           value(s) == IF s # T THEN part(s)[s]
                       ELSE IF T = {} THEN 0 ELSE f[SumElement(T)] + part(rest(T))[rest(T)]
           h == [s \in SUBSET T |-> value(s)]
<1>4. \A s \in SUBSET T : s # T => AddsUp(f, s, part(s))
  BY <1>3
<1>5. \A s \in SUBSET T : s # {} =>
        /\ rest(s) \in SUBSET T /\ rest(s) # T /\ rest(s) \subseteq s /\ SumElement(s) \in S
  BY <1>2, ElementIn
<1> HIDE DEF part, rest
<1>6. \A s \in SUBSET T : value(s) \in Nat
  <2> SUFFICES ASSUME NEW s \in SUBSET T
               PROVE  value(s) \in Nat
    OBVIOUS
  <2>1. CASE s # T
    <3>1. AddsUp(f, s, part(s))
      BY <1>4, <2>1
    <3> QED
      BY <2>1, <3>1 DEF AddsUp
  <2>2. CASE s = T /\ T = {}
    BY <2>2
  <2>3. CASE s = T /\ T # {}
    <3>1. rest(T) \in SUBSET T /\ rest(T) # T /\ f[SumElement(T)] \in Nat
      BY <1>5, <2>3
    <3>2. AddsUp(f, rest(T), part(rest(T)))
      BY <1>4, <3>1
    <3>3. part(rest(T))[rest(T)] \in Nat
      BY <3>2 DEF AddsUp
    <3> QED
      BY <2>3, <3>1, <3>3
  <2> QED
    BY <2>1, <2>2, <2>3
<1>7. \A s \in SUBSET T : value(s) = SumNext(f, h, s)
  <2> SUFFICES ASSUME NEW s \in SUBSET T
               PROVE  value(s) = SumNext(f, h, s)
    OBVIOUS
  <2>1. CASE s = {} /\ s = T
    BY <2>1 DEF SumNext
  <2>2. CASE s = {} /\ s # T
    <3>1. AddsUp(f, s, part(s))
      BY <1>4, <2>2
    <3> QED
      BY <2>2, <3>1 DEF AddsUp, SumNext
  <2>3. CASE s # {}
    <3>1. rest(s) \in SUBSET T /\ rest(s) # T /\ rest(s) \subseteq s
      BY <1>5, <2>3
    <3>2. h[rest(s)] = part(rest(s))[rest(s)] /\ AddsUp(f, rest(s), part(rest(s)))
      BY <1>4, <3>1
    <3>3. SumNext(f, h, s) = f[SumElement(s)] + part(rest(s))[rest(s)]
      <4> HIDE DEF h
      <4> QED
        BY <2>3, <3>2 DEF SumNext, rest
    <3>4. CASE s = T
      BY <2>3, <3>3, <3>4
    <3>5. CASE s # T
      <4>1. AddsUp(f, s, part(s))
        BY <1>4, <3>5
      <4>2. part(s)[s] = f[SumElement(s)] + part(s)[rest(s)]
        BY <2>3, <4>1 DEF AddsUp, SumNext, rest
      <4>3. part(s)[rest(s)] = part(rest(s))[rest(s)]
        <5>1. s \in SUBSET S /\ rest(s) \in SUBSET S /\ rest(s) \in SUBSET (s \cap rest(s))
          BY <1>2, <3>1
        <5> QED
          BY <3>2, <4>1, <5>1, AddsUnique
      <4> QED
        BY <3>3, <3>5, <4>2, <4>3
    <3> QED
      BY <3>4, <3>5
  <2> QED
    BY <2>1, <2>2, <2>3
<1>8. AddsUp(f, T, h)
  <2> HIDE DEF value
  <2>1. h \in [SUBSET T -> Nat]
    BY <1>6
  <2>2. \A s \in SUBSET T : h[s] = SumNext(f, h, s)
    BY <1>7
  <2> HIDE DEF h
  <2> QED
    BY <2>1, <2>2 DEF AddsUp
<1> QED
  BY <1>2, <1>8

-----------------------------------------------------------------------------
(* Sums *)

\* SumFunctionOnSet chooses one, and so is its value.
LEMMA SumAdds ==
  ASSUME NEW S, IsFiniteSet(S), NEW f, NEW h, AddsUp(f, S, h)
  PROVE  SumFunctionOnSet(f, S) = h[S]
<1> DEFINE Is(g) == g = [s \in SUBSET S |-> SumNext(f, g, s)]
<1>1. Is(h)
  BY DEF AddsUp
<1>2. PICK g : g = (CHOOSE it : Is(it))
  OBVIOUS
<1>3. Is(g)
  BY <1>1, <1>2
<1>4. SumFunctionOnSet(f, S) = g[S]
  BY <1>2 DEF SumFunctionOnSet, FoldFunctionOnSet, MapThenFoldSet, SumNext, SumElement
<1> DEFINE Bad == {s \in SUBSET S : g[s] # h[s]}
<1>5. \A s \in SUBSET S : g[s] = SumNext(f, g, s)
  BY <1>3
<1>6. \A s \in SUBSET S : h[s] = SumNext(f, h, s)
  BY DEF AddsUp
<1>7. ASSUME Bad # {}
      PROVE  FALSE
  <2>1. PICK s \in Bad : \A u \in Bad : ~(u \subseteq s /\ u # s)
    <3>1. Bad \in SUBSET SUBSET S
      OBVIOUS
    <3> HIDE DEF Bad
    <3> QED
      BY <1>7, <3>1, SmallestSubset
  <2>2. s # {}
    BY <1>5, <1>6 DEF SumNext
  <2>3. SumElement(s) \in s
    BY <2>2, ElementIn
  <2>4. s \ {SumElement(s)} \notin Bad
    <3>1. s \ {SumElement(s)} \subseteq s /\ s \ {SumElement(s)} # s
      BY <2>3
    <3> HIDE DEF Bad
    <3> QED
      BY <2>1, <3>1
  <2>5. g[s \ {SumElement(s)}] = h[s \ {SumElement(s)}]
    BY <2>4
  <2> QED
    BY <1>5, <1>6, <2>5 DEF SumNext
<1> QED
  BY <1>4, <1>7

\* A sum is a natural number, of nothing 0, else an element and the rest.
LEMMA SumUnfolds ==
  ASSUME NEW S, IsFiniteSet(S), NEW f, \A x \in S : f[x] \in Nat
  PROVE  /\ SumFunctionOnSet(f, S) \in Nat
         /\ S = {} => SumFunctionOnSet(f, S) = 0
         /\ S # {} => SumFunctionOnSet(f, S) =
                        f[SumElement(S)] + SumFunctionOnSet(f, S \ {SumElement(S)})
<1>1. PICK h : AddsUp(f, S, h)
  BY AddsExists
<1>2. SumFunctionOnSet(f, S) = h[S] /\ h[S] = SumNext(f, h, S) /\ h[S] \in Nat
  BY <1>1, SumAdds DEF AddsUp
<1>3. ASSUME S # {}
      PROVE  SumFunctionOnSet(f, S \ {SumElement(S)}) = h[S \ {SumElement(S)}]
  <2> DEFINE rest == S \ {SumElement(S)}
  <2>1. IsFiniteSet(rest) /\ rest \in SUBSET S /\ \A x \in rest : f[x] \in Nat
    BY FS_RemoveElement
  <2> HIDE DEF rest
  <2>2. PICK g : AddsUp(f, rest, g)
    BY <2>1, AddsExists
  <2>3. SumFunctionOnSet(f, rest) = g[rest]
    BY <2>1, <2>2, SumAdds
  <2>4. g[rest] = h[rest]
    BY <1>1, <2>1, <2>2, AddsUnique
  <2> QED
    BY <2>3, <2>4 DEF rest
<1> QED
  BY <1>2, <1>3 DEF SumNext

\* Any element may be taken out first.
LEMMA SumRemove ==
  ASSUME NEW S, IsFiniteSet(S), NEW f, \A x \in S : f[x] \in Nat, NEW x \in S
  PROVE  /\ SumFunctionOnSet(f, S) = f[x] + SumFunctionOnSet(f, S \ {x})
         /\ SumFunctionOnSet(f, S) \in Nat /\ SumFunctionOnSet(f, S \ {x}) \in Nat
<1> DEFINE sum(T) == SumFunctionOnSet(f, T)
           Bad == {T \in SUBSET S : \E y \in T : sum(T) # f[y] + sum(T \ {y})}
<1>1. \A T \in SUBSET S : /\ IsFiniteSet(T) /\ sum(T) \in Nat
                          /\ T # {} => sum(T) = f[SumElement(T)] + sum(T \ {SumElement(T)})
  BY FS_Subset, SumUnfolds
<1> HIDE DEF sum
<1>2. ASSUME Bad # {}
      PROVE  FALSE
  <2>1. PICK T \in Bad : \A U \in Bad : ~(U \subseteq T /\ U # T)
    <3>1. Bad \in SUBSET SUBSET S
      OBVIOUS
    <3> HIDE DEF Bad
    <3> QED
      BY <1>2, <3>1, SmallestSubset
  <2>2. PICK y \in T : sum(T) # f[y] + sum(T \ {y})
    BY <2>1
  <2>3. PICK e : e = SumElement(T)
    OBVIOUS
  <2>4. e \in T /\ T \in SUBSET S /\ sum(T) = f[e] + sum(T \ {e})
    BY <1>1, <2>2, <2>3, ElementIn
  <2>5. e # y
    BY <2>2, <2>4
  <2>6. \A z \in T : T \ {z} \notin Bad
    <3>1. \A z \in T : T \ {z} \subseteq T /\ T \ {z} # T
      OBVIOUS
    <3> HIDE DEF Bad
    <3> QED
      BY <2>1, <3>1
  <2>7. sum(T \ {e}) = f[y] + sum((T \ {e}) \ {y})
    BY <2>2, <2>4, <2>5, <2>6
  <2>8. sum(T \ {y}) = f[e] + sum((T \ {y}) \ {e})
    BY <2>2, <2>4, <2>5, <2>6
  <2>9. (T \ {e}) \ {y} = (T \ {y}) \ {e} /\ (T \ {e}) \ {y} \in SUBSET S
    BY <2>4
  <2>10. sum((T \ {e}) \ {y}) \in Nat /\ f[e] \in Nat /\ f[y] \in Nat
    BY <1>1, <2>4, <2>9
  <2> HIDE DEF Bad
  <2> QED
    BY <2>2, <2>4, <2>7, <2>8, <2>9, <2>10
<1> QED
  BY <1>1, <1>2 DEF sum

\* The same for every subset at once.
LEMMA SubsetSums ==
  ASSUME NEW S, IsFiniteSet(S), NEW f, \A x \in S : f[x] \in Nat, NEW T \in SUBSET S
  PROVE  /\ SumFunctionOnSet(f, T) \in Nat
         /\ T = {} => SumFunctionOnSet(f, T) = 0
         /\ \A x \in T : SumFunctionOnSet(f, T) = f[x] + SumFunctionOnSet(f, T \ {x})
<1>1. IsFiniteSet(T) /\ \A x \in T : f[x] \in Nat
  BY FS_Subset
<1> QED
  BY <1>1, SumUnfolds, SumRemove

\* Sums grow with their summands.
LEMMA SumAtMost ==
  ASSUME NEW S, IsFiniteSet(S), NEW f, NEW g, \A x \in S : f[x] \in Nat /\ g[x] \in Nat,
         \A x \in S : f[x] <= g[x]
  PROVE  SumFunctionOnSet(f, S) <= SumFunctionOnSet(g, S)
<1> DEFINE a(T) == SumFunctionOnSet(f, T)
           b(T) == SumFunctionOnSet(g, T)
           Bad == {T \in SUBSET S : ~(a(T) <= b(T))}
<1>1. \A T \in SUBSET S :
        /\ a(T) \in Nat /\ b(T) \in Nat
        /\ T = {} => a(T) = 0 /\ b(T) = 0
        /\ \A x \in T : a(T) = f[x] + a(T \ {x}) /\ b(T) = g[x] + b(T \ {x})
  <2> SUFFICES ASSUME NEW T \in SUBSET S
               PROVE  /\ a(T) \in Nat /\ b(T) \in Nat
                      /\ T = {} => a(T) = 0 /\ b(T) = 0
                      /\ \A x \in T : a(T) = f[x] + a(T \ {x}) /\ b(T) = g[x] + b(T \ {x})
    OBVIOUS
  <2>1. a(T) \in Nat /\ (T = {} => a(T) = 0) /\ \A x \in T : a(T) = f[x] + a(T \ {x})
    BY SubsetSums
  <2>2. b(T) \in Nat /\ (T = {} => b(T) = 0) /\ \A x \in T : b(T) = g[x] + b(T \ {x})
    BY SubsetSums
  <2> QED
    BY <2>1, <2>2
<1> HIDE DEF a, b
<1>2. ASSUME Bad # {}
      PROVE  FALSE
  <2>1. PICK T \in Bad : \A U \in Bad : ~(U \subseteq T /\ U # T)
    <3>1. Bad \in SUBSET SUBSET S
      OBVIOUS
    <3> HIDE DEF Bad
    <3> QED
      BY <1>2, <3>1, SmallestSubset
  <2>2. T \in SUBSET S /\ ~(a(T) <= b(T))
    OBVIOUS
  <2>3. PICK x \in T : TRUE
    BY <1>1, <2>2
  <2>4. T \ {x} \notin Bad /\ T \ {x} \in SUBSET S
    <3>1. T \ {x} \subseteq T /\ T \ {x} # T
      BY <2>3
    <3> HIDE DEF Bad
    <3> QED
      BY <2>1, <2>2, <3>1
  <2>5. a(T \ {x}) <= b(T \ {x}) /\ a(T \ {x}) \in Nat /\ b(T \ {x}) \in Nat
    BY <1>1, <2>4
  <2>6. f[x] \in Nat /\ g[x] \in Nat /\ f[x] <= g[x]
    BY <2>2, <2>3
  <2>7. a(T) = f[x] + a(T \ {x}) /\ b(T) = g[x] + b(T \ {x})
    BY <1>1, <2>2, <2>3
  <2> HIDE DEF Bad
  <2> QED
    BY <2>2, <2>5, <2>6, <2>7
<1> QED
  BY <1>2 DEF a, b

\* Equal summands have equal sums.
LEMMA SumEqual ==
  ASSUME NEW S, IsFiniteSet(S), NEW f, NEW g, \A x \in S : f[x] \in Nat,
         \A x \in S : f[x] = g[x]
  PROVE  SumFunctionOnSet(f, S) = SumFunctionOnSet(g, S)
<1>1. \A x \in S : g[x] \in Nat /\ f[x] <= g[x] /\ g[x] <= f[x]
  OBVIOUS
<1> DEFINE a == SumFunctionOnSet(f, S)
           b == SumFunctionOnSet(g, S)
<1>2. a <= b /\ b <= a
  BY <1>1, SumAtMost
<1>3. a \in Nat /\ b \in Nat
  BY <1>1, SumUnfolds
<1> HIDE DEF a, b
<1>4. a = b
  BY <1>2, <1>3
<1> QED
  BY <1>4 DEF a, b

\* Where one summand changes, the sum changes by as much.
LEMMA SumChange ==
  ASSUME NEW S, IsFiniteSet(S), NEW f, NEW g, \A x \in S : f[x] \in Nat /\ g[x] \in Nat,
         NEW x \in S, \A y \in S : y # x => f[y] = g[y]
  PROVE  SumFunctionOnSet(g, S) = SumFunctionOnSet(f, S) - f[x] + g[x]
<1>1. IsFiniteSet(S \ {x})
  BY FS_RemoveElement
<1>2. SumFunctionOnSet(f, S \ {x}) = SumFunctionOnSet(g, S \ {x})
  BY <1>1, SumEqual
<1>3. /\ SumFunctionOnSet(f, S) = f[x] + SumFunctionOnSet(f, S \ {x})
      /\ SumFunctionOnSet(f, S \ {x}) \in Nat
  BY SumRemove
<1>4. SumFunctionOnSet(g, S) = g[x] + SumFunctionOnSet(g, S \ {x})
  BY SumRemove
<1> QED
  BY <1>2, <1>3, <1>4

\* Where no other summand grows, the sum grows by no more than this one.
LEMMA SumBalance ==
  ASSUME NEW S, IsFiniteSet(S), NEW f, NEW g, \A x \in S : f[x] \in Nat /\ g[x] \in Nat,
         NEW x \in S, \A y \in S : y # x => g[y] <= f[y]
  PROVE  SumFunctionOnSet(g, S) <= SumFunctionOnSet(f, S) - f[x] + g[x]
<1>1. IsFiniteSet(S \ {x})
  BY FS_RemoveElement
<1>2. SumFunctionOnSet(g, S \ {x}) <= SumFunctionOnSet(f, S \ {x})
  BY <1>1, SumAtMost
<1>3. /\ SumFunctionOnSet(f, S) = f[x] + SumFunctionOnSet(f, S \ {x})
      /\ SumFunctionOnSet(f, S \ {x}) \in Nat
  BY SumRemove
<1>4. /\ SumFunctionOnSet(g, S) = g[x] + SumFunctionOnSet(g, S \ {x})
      /\ SumFunctionOnSet(g, S \ {x}) \in Nat
  BY SumRemove
<1> QED
  BY <1>2, <1>3, <1>4

\* Nothing but zeros.
LEMMA SumZero ==
  ASSUME NEW S, IsFiniteSet(S), NEW f, \A x \in S : f[x] = 0
  PROVE  SumFunctionOnSet(f, S) = 0
<1> DEFINE a(T) == SumFunctionOnSet(f, T)
           Bad == {T \in SUBSET S : a(T) # 0}
<1>1. \A T \in SUBSET S :
        /\ T = {} => a(T) = 0
        /\ \A x \in T : a(T) = f[x] + a(T \ {x})
  <2>1. \A x \in S : f[x] \in Nat
    OBVIOUS
  <2> QED
    BY <2>1, SubsetSums
<1> HIDE DEF a
<1>2. ASSUME Bad # {}
      PROVE  FALSE
  <2>1. PICK T \in Bad : \A U \in Bad : ~(U \subseteq T /\ U # T)
    <3>1. Bad \in SUBSET SUBSET S
      OBVIOUS
    <3> HIDE DEF Bad
    <3> QED
      BY <1>2, <3>1, SmallestSubset
  <2>2. T \in SUBSET S /\ a(T) # 0
    OBVIOUS
  <2>3. PICK x \in T : TRUE
    BY <1>1, <2>2
  <2>4. T \ {x} \notin Bad /\ T \ {x} \in SUBSET S
    <3>1. T \ {x} \subseteq T /\ T \ {x} # T
      BY <2>3
    <3> HIDE DEF Bad
    <3> QED
      BY <2>1, <2>2, <3>1
  <2>5. a(T \ {x}) = 0 /\ f[x] = 0
    BY <2>2, <2>3, <2>4
  <2>6. a(T) = f[x] + a(T \ {x})
    BY <1>1, <2>2, <2>3
  <2> HIDE DEF Bad
  <2> QED
    BY <2>2, <2>5, <2>6
<1> QED
  BY <1>2 DEF a

\* The sum over some of a set's elements is one over all of them.
LEMMA SumMasked ==
  ASSUME NEW S, IsFiniteSet(S), NEW T \in SUBSET S, NEW f, \A x \in T : f[x] \in Nat,
         NEW g, \A x \in S : g[x] = IF x \in T THEN f[x] ELSE 0
  PROVE  SumFunctionOnSet(f, T) = SumFunctionOnSet(g, S)
<1> DEFINE a(U) == SumFunctionOnSet(f, U)
           b(U) == SumFunctionOnSet(g, U)
           Bad == {U \in SUBSET S : a(U \cap T) # b(U)}
<1>1. ASSUME NEW U \in SUBSET S
      PROVE  /\ U = {} => a(U \cap T) = 0 /\ b(U) = 0
             /\ \A x \in U : b(U) = g[x] + b(U \ {x}) /\ b(U \ {x}) \in Nat
             /\ \A x \in U \cap T : a(U \cap T) = f[x] + a((U \cap T) \ {x}) /\ a((U \cap T) \ {x}) \in Nat
  <2>1. IsFiniteSet(T) /\ U \cap T \in SUBSET T /\ \A x \in S : g[x] \in Nat
    BY FS_Subset
  <2>2. ASSUME NEW V \in SUBSET S PROVE b(V) \in Nat /\ (V = {} => b(V) = 0) /\ \A x \in V : b(V) = g[x] + b(V \ {x})
    BY <2>1, SubsetSums
  <2>3. ASSUME NEW V \in SUBSET T PROVE a(V) \in Nat /\ (V = {} => a(V) = 0) /\ \A x \in V : a(V) = f[x] + a(V \ {x})
    BY <2>1, SubsetSums
  <2> HIDE DEF a, b
  <2>4. U = {} => U \cap T = {}
    OBVIOUS
  <2>5. \A x \in U : U \ {x} \in SUBSET S
    OBVIOUS
  <2>6. \A x \in U \cap T : (U \cap T) \ {x} \in SUBSET T
    OBVIOUS
  <2> QED
    BY <2>1, <2>2, <2>3, <2>4, <2>5, <2>6
<1> HIDE DEF a, b
<1>2. ASSUME Bad # {} PROVE FALSE
  <2>1. PICK U \in Bad : \A V \in Bad : ~(V \subseteq U /\ V # U)
    <3>1. Bad \in SUBSET SUBSET S
      OBVIOUS
    <3> HIDE DEF Bad
    <3> QED
      BY <1>2, <3>1, SmallestSubset
  <2>2. PICK x \in U : TRUE
    BY <1>1
  <2>3. a((U \ {x}) \cap T) = b(U \ {x})
    BY <2>1, <2>2
  <2>4. CASE x \in T
    <3>1. (U \ {x}) \cap T = (U \cap T) \ {x}
      OBVIOUS
    <3>2. a(U \cap T) = f[x] + a((U \cap T) \ {x}) /\ b(U) = g[x] + b(U \ {x}) /\ g[x] = f[x]
      BY <1>1, <2>2, <2>4
    <3>3. PICK r : r = b(U \ {x}) /\ r = a((U \cap T) \ {x})
      BY <2>3, <3>1
    <3>4. a(U \cap T) = b(U)
      BY <3>2, <3>3
    <3> QED
      BY <2>1, <3>4
  <2>5. CASE x \notin T
    <3>1. (U \ {x}) \cap T = U \cap T
      BY <2>5
    <3>2. b(U) = g[x] + b(U \ {x}) /\ b(U \ {x}) \in Nat /\ g[x] = 0
      BY <1>1, <2>2, <2>5
    <3>3. PICK r : r = b(U \ {x}) /\ r = a(U \cap T) /\ r \in Nat
      BY <2>3, <3>1, <3>2
    <3>4. a(U \cap T) = b(U)
      BY <3>2, <3>3
    <3> QED
      BY <2>1, <3>4
  <2> QED
    BY <2>4, <2>5
<1>3. S \cap T = T /\ S \in SUBSET S
  OBVIOUS
<1>4. a(S \cap T) = b(S)
  BY <1>2, <1>3
<1> QED
  BY <1>3, <1>4 DEF a, b
=============================================================================

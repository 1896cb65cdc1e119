----------------------------- MODULE SumLemmas -----------------------------
(***************************************************************************)
(* Sums of a function over a finite set: what SumFunctionOnSet, a          *)
(* recursion over the subsets of the set that takes out one chosen element *)
(* at a time, adds up to. The balances, subtotals and refunds of the       *)
(* models are such sums, and each step of theirs changes one summand or    *)
(* one element.                                                            *)
(*                                                                         *)
(* Each induction over subsets is an argument by a smallest                *)
(* counterexample: a nonempty set of subsets of a finite set has a         *)
(* smallest member.                                                        *)
(***************************************************************************)
EXTENDS Integers, FiniteSetTheorems, Functions, WellFoundedInduction, TLAPS

-----------------------------------------------------------------------------
(* The recursion. *)

\* The element that the sum takes out of s.
Chosen(s) == CHOOSE x \in s : TRUE

\* g sums f over every subset of S.
IsSummation(g, f, S) ==
    g = [s \in SUBSET S |-> IF s = {} THEN 0 ELSE f[Chosen(s)] + g[s \ {Chosen(s)}]]

LEMMA ChosenIn == \A s : s # {} => Chosen(s) \in s
BY DEF Chosen

\* The sum is what the recursion gives for the whole set.
LEMMA Unfold == \A f, S : SumFunctionOnSet(f, S) = (CHOOSE g : IsSummation(g, f, S))[S]
BY DEF SumFunctionOnSet, FoldFunctionOnSet, MapThenFoldSet, IsSummation, Chosen

\* Subsets of a finite set are well-founded.
LEMMA SmallestSubset ==
    ASSUME NEW S, IsFiniteSet(S), NEW B, B \subseteq SUBSET S, B # {}
    PROVE  \E T \in B : \A U \in B : U \subseteq T => U = T
<1>1. B \subseteq FiniteSubsetsOf(S)
  BY FS_FiniteSubsetsOfFinite
<1>2. \E T \in B : \A U \in B : ~ (<<U, T>> \in StrictSubsetOrdering(S))
  <2> HIDE DEF StrictSubsetOrdering, FiniteSubsetsOf
  <2>1. IsWellFoundedOn(StrictSubsetOrdering(S), FiniteSubsetsOf(S))
    BY FS_StrictSubsetOrderingWellFounded
  <2> QED
    BY <1>1, <2>1, WFMin
<1>3. \A U, T \in SUBSET S :
        U \subseteq T /\ U # T => <<U, T>> \in StrictSubsetOrdering(S)
  BY DEF StrictSubsetOrdering
<1> QED
  BY <1>2, <1>3

\* The recursion has one solution at most ...
LEMMA SummationUnique ==
    ASSUME NEW f, NEW S, IsFiniteSet(S), NEW g, NEW h,
           IsSummation(g, f, S), IsSummation(h, f, S)
    PROVE  g = h
<1> DEFINE B == {s \in SUBSET S : g[s] # h[s]}
<1>1. SUFFICES ASSUME B # {} PROVE FALSE
  BY DEF IsSummation
<1>2. B \subseteq SUBSET S
  OBVIOUS
<1>3. PICK s \in B : \A U \in B : U \subseteq s => U = s
  <2> HIDE DEF B
  <2> QED BY <1>1, <1>2, SmallestSubset
<1>4. /\ g[s] = IF s = {} THEN 0 ELSE f[Chosen(s)] + g[s \ {Chosen(s)}]
      /\ h[s] = IF s = {} THEN 0 ELSE f[Chosen(s)] + h[s \ {Chosen(s)}]
  BY DEF IsSummation
<1>5. s # {}
  BY <1>4
<1>6. g[s \ {Chosen(s)}] = h[s \ {Chosen(s)}]
  BY <1>3, <1>5, ChosenIn
<1> QED
  BY <1>4, <1>5, <1>6

\* ... which is that of a smaller set too ...
LEMMA SummationRestricts ==
    ASSUME NEW f, NEW S, NEW g, IsSummation(g, f, S), NEW T \in SUBSET S
    PROVE  IsSummation([s \in SUBSET T |-> g[s]], f, T)
<1> DEFINE h == [s \in SUBSET T |-> g[s]]
<1>1. \A s \in SUBSET T : h[s] = IF s = {} THEN 0 ELSE f[Chosen(s)] + h[s \ {Chosen(s)}]
  <2> TAKE s \in SUBSET T
  <2>1. s \in SUBSET S /\ s \ {Chosen(s)} \in SUBSET T
    OBVIOUS
  <2>2. g[s] = IF s = {} THEN 0 ELSE f[Chosen(s)] + g[s \ {Chosen(s)}]
    BY <2>1 DEF IsSummation
  <2> QED
    BY <2>1, <2>2
<1> QED
  BY <1>1 DEF IsSummation

\* ... and one at least: a smallest set without any would be given one by the
\* solutions of its proper subsets.
LEMMA SummationExists ==
    ASSUME NEW f, NEW S, IsFiniteSet(S)
    PROVE  \E g : IsSummation(g, f, S)
<1> DEFINE B == {s \in SUBSET S : ~ \E g : IsSummation(g, f, s)}
<1>1. SUFFICES ASSUME B # {} PROVE FALSE
  OBVIOUS
<1>2. PICK T \in B : \A U \in B : U \subseteq T => U = T
  <2>1. B \subseteq SUBSET S
    OBVIOUS
  <2> HIDE DEF B
  <2> QED BY <1>1, <2>1, SmallestSubset
<1> DEFINE part(s) == CHOOSE g : IsSummation(g, f, s)
<1>3. \A s \in SUBSET T : s # T => IsSummation(part(s), f, s)
  BY <1>2
<1> DEFINE h == [s \in SUBSET T |->
                    IF s = {} THEN 0
                    ELSE f[Chosen(s)] + part(s \ {Chosen(s)})[s \ {Chosen(s)}]]
<1>4. \A s \in SUBSET T : s # T => h[s] = part(s)[s]
  <2> SUFFICES ASSUME NEW s \in SUBSET T, s # T
               PROVE  h[s] = part(s)[s]
    OBVIOUS
  <2>1. part(s)[s] = IF s = {} THEN 0 ELSE f[Chosen(s)] + part(s)[s \ {Chosen(s)}]
    <3>1. IsSummation(part(s), f, s)
      BY <1>3
    <3> HIDE DEF part
    <3> QED BY <3>1 DEF IsSummation
  <2>2. CASE s = {}
    BY <2>1, <2>2
  <2>3. CASE s # {}
    <3> DEFINE u == s \ {Chosen(s)}
    <3>1. u \in SUBSET s /\ u \in SUBSET T /\ u # T /\ IsFiniteSet(u)
      BY <2>3, ChosenIn, FS_Subset
    <3>2. IsSummation([w \in SUBSET u |-> part(s)[w]], f, u)
      BY <1>3, <3>1, SummationRestricts
    <3>3. IsSummation(part(u), f, u)
      BY <1>3, <3>1
    <3>4. part(u) = [w \in SUBSET u |-> part(s)[w]]
      <4> HIDE DEF part, u
      <4> QED BY <3>1, <3>2, <3>3, SummationUnique
    <3>5. part(u)[u] = part(s)[u]
      <4> HIDE DEF part, u
      <4> QED BY <3>4
    <3> QED
      BY <2>1, <2>3, <3>5
  <2> QED BY <2>2, <2>3
<1>5. \A s \in SUBSET T : h[s] = IF s = {} THEN 0 ELSE f[Chosen(s)] + h[s \ {Chosen(s)}]
  <2> TAKE s \in SUBSET T
  <2>1. CASE s = {}
    BY <2>1
  <2>2. CASE s # {}
    <3> DEFINE u == s \ {Chosen(s)}
    <3>1. u \in SUBSET T /\ u # T
      BY <2>2, ChosenIn
    <3>2. h[u] = part(u)[u]
      <4> HIDE DEF part, u, h
      <4> QED BY <1>4, <3>1
    <3> QED
      BY <2>2, <3>2
  <2> QED BY <2>1, <2>2
<1>6. IsSummation(h, f, T)
  <2> HIDE DEF part
  <2>1. h = [s \in SUBSET T |-> h[s]]
    OBVIOUS
  <2> HIDE DEF h
  <2> QED BY <1>5, <2>1 DEF IsSummation
<1> QED
  BY <1>2, <1>6

-----------------------------------------------------------------------------
(* What a sum is. *)

\* Nothing sums up to zero.
LEMMA SumOfNone == \A f : SumFunctionOnSet(f, {}) = 0
<1> SUFFICES ASSUME NEW f PROVE SumFunctionOnSet(f, {}) = 0
  OBVIOUS
<1>1. IsSummation(CHOOSE g : IsSummation(g, f, {}), f, {})
  BY SummationExists, FS_EmptySet
<1> QED
  BY <1>1, Unfold DEF IsSummation

\* A sum is the chosen element's summand and the sum of the rest.
LEMMA SumPicksOne ==
    ASSUME NEW f, NEW S, IsFiniteSet(S), S # {}
    PROVE  SumFunctionOnSet(f, S) = f[Chosen(S)] + SumFunctionOnSet(f, S \ {Chosen(S)})
<1> DEFINE g == CHOOSE h : IsSummation(h, f, S)
           T == S \ {Chosen(S)}
           k == CHOOSE h : IsSummation(h, f, T)
<1>1. IsSummation(g, f, S)
  BY SummationExists
<1>2. IsFiniteSet(T) /\ T \in SUBSET S
  BY FS_Subset
<1>3. IsSummation(k, f, T)
  <2> HIDE DEF T
  <2> QED BY <1>2, SummationExists
<1>4. k = [s \in SUBSET T |-> g[s]]
  <2>1. IsSummation([s \in SUBSET T |-> g[s]], f, T)
    <3> HIDE DEF T, g
    <3> QED BY <1>1, <1>2, SummationRestricts
  <2> HIDE DEF T, g, k
  <2> QED BY <1>2, <1>3, <2>1, SummationUnique
<1>5. k[T] = g[T]
  <2> HIDE DEF T, g, k
  <2> QED BY <1>4
<1>6. g[S] = f[Chosen(S)] + g[T]
  <2> HIDE DEF g
  <2> QED BY <1>1 DEF IsSummation
<1> QED
  BY <1>5, <1>6, Unfold

\* The summands are integers, and finitely many.
Summands(f, S) == IsFiniteSet(S) /\ \A x \in S : f[x] \in Int

LEMMA SummandsLess ==
    ASSUME NEW f, NEW S, Summands(f, S), NEW T \in SUBSET S
    PROVE  Summands(f, T)
BY FS_Subset DEF Summands

\* A sum of integers is an integer.
LEMMA SumIsInt ==
    ASSUME NEW f, NEW S, Summands(f, S)
    PROVE  SumFunctionOnSet(f, S) \in Int
<1> DEFINE B == {T \in SUBSET S : SumFunctionOnSet(f, T) \notin Int}
<1>1. SUFFICES ASSUME B # {} PROVE FALSE
  OBVIOUS
<1>2. PICK T \in B : \A U \in B : U \subseteq T => U = T
  <2>1. B \subseteq SUBSET S /\ IsFiniteSet(S)
    BY DEF Summands
  <2> HIDE DEF B
  <2> QED BY <1>1, <2>1, SmallestSubset
<1>3. T # {}
  BY SumOfNone
<1>4. Chosen(T) \in T
  BY <1>3, ChosenIn
<1>5. SumFunctionOnSet(f, T \ {Chosen(T)}) \in Int
  BY <1>2, <1>4
<1>6. SumFunctionOnSet(f, T) = f[Chosen(T)] + SumFunctionOnSet(f, T \ {Chosen(T)})
  BY <1>3, SumPicksOne, SummandsLess DEF Summands
<1> QED
  BY <1>4, <1>5, <1>6 DEF Summands

\* It does not matter which element is taken out.
LEMMA SumTakesOut ==
    ASSUME NEW f, NEW S, Summands(f, S), NEW x \in S
    PROVE  SumFunctionOnSet(f, S) = f[x] + SumFunctionOnSet(f, S \ {x})
<1> DEFINE B == {T \in SUBSET S : \E y \in T :
                    SumFunctionOnSet(f, T) # f[y] + SumFunctionOnSet(f, T \ {y})}
<1>1. SUFFICES ASSUME B # {} PROVE FALSE
  OBVIOUS
<1>2. PICK T \in B : \A U \in B : U \subseteq T => U = T
  <2>1. B \subseteq SUBSET S /\ IsFiniteSet(S)
    BY DEF Summands
  <2> HIDE DEF B
  <2> QED BY <1>1, <2>1, SmallestSubset
<1>3. PICK y \in T : SumFunctionOnSet(f, T) # f[y] + SumFunctionOnSet(f, T \ {y})
  BY <1>2
<1> DEFINE p == Chosen(T)
<1>4. p \in T
  BY <1>3, ChosenIn
<1>5. Summands(f, T) /\ Summands(f, T \ {y}) /\ Summands(f, (T \ {y}) \ {p})
  BY SummandsLess
<1>6. SumFunctionOnSet(f, T) = f[p] + SumFunctionOnSet(f, T \ {p})
  BY <1>4, <1>5, SumPicksOne DEF Summands
<1>7. CASE y = p
  BY <1>3, <1>6, <1>7
<1>8. CASE y # p
  <2>1. T \ {p} \in SUBSET S /\ T \ {p} \subseteq T /\ T \ {p} # T /\ y \in T \ {p}
    BY <1>4, <1>8
  <2>2. SumFunctionOnSet(f, T \ {p}) = f[y] + SumFunctionOnSet(f, (T \ {p}) \ {y})
    <3> HIDE DEF p
    <3> QED BY <1>2, <2>1
  <2>3. T \ {y} \in SUBSET S /\ T \ {y} \subseteq T /\ T \ {y} # T /\ p \in T \ {y}
    BY <1>4, <1>8
  <2>4. SumFunctionOnSet(f, T \ {y}) = f[p] + SumFunctionOnSet(f, (T \ {y}) \ {p})
    <3> HIDE DEF p
    <3> QED BY <1>2, <2>3
  <2>5. (T \ {p}) \ {y} = (T \ {y}) \ {p}
    OBVIOUS
  <2>6. f[p] \in Int /\ f[y] \in Int /\ SumFunctionOnSet(f, (T \ {y}) \ {p}) \in Int
    BY <1>4, <1>5, SumIsInt DEF Summands
  <2>7. SumFunctionOnSet(f, T) = f[p] + (f[y] + SumFunctionOnSet(f, (T \ {y}) \ {p}))
    BY <1>6, <2>2, <2>5
  <2> HIDE DEF p
  <2> QED BY <1>3, <2>4, <2>6, <2>7
<1> QED
  BY <1>7, <1>8

\* A new element adds its summand.
LEMMA SumAddsOne ==
    ASSUME NEW f, NEW S, NEW x, x \notin S, Summands(f, S \cup {x})
    PROVE  SumFunctionOnSet(f, S \cup {x}) = SumFunctionOnSet(f, S) + f[x]
<1>1. (S \cup {x}) \ {x} = S /\ x \in S \cup {x} /\ S \in SUBSET (S \cup {x})
  OBVIOUS
<1>2. SumFunctionOnSet(f, S) \in Int /\ f[x] \in Int
  BY <1>1, SumIsInt, SummandsLess DEF Summands
<1> QED
  BY <1>1, <1>2, SumTakesOut

-----------------------------------------------------------------------------
(* Comparing sums. *)

\* Summand by summand no larger, no larger in sum.
LEMMA SumMonotone ==
    ASSUME NEW f, NEW g, NEW S, Summands(f, S), Summands(g, S), \A x \in S : f[x] <= g[x]
    PROVE  SumFunctionOnSet(f, S) <= SumFunctionOnSet(g, S)
<1> DEFINE B == {T \in SUBSET S : ~ (SumFunctionOnSet(f, T) <= SumFunctionOnSet(g, T))}
<1>1. SUFFICES ASSUME B # {} PROVE FALSE
  OBVIOUS
<1>2. PICK T \in B : \A U \in B : U \subseteq T => U = T
  <2>1. B \subseteq SUBSET S /\ IsFiniteSet(S)
    BY DEF Summands
  <2> HIDE DEF B
  <2> QED BY <1>1, <2>1, SmallestSubset
<1>3. T # {}
  <2> SUFFICES ASSUME T = {} PROVE FALSE
    OBVIOUS
  <2>1. SumFunctionOnSet(f, T) = 0 /\ SumFunctionOnSet(g, T) = 0
    BY SumOfNone
  <2> QED BY <2>1
<1>4. PICK x \in T : TRUE
  BY <1>3
<1>5. /\ Summands(f, T) /\ Summands(g, T)
      /\ Summands(f, T \ {x}) /\ Summands(g, T \ {x})
  BY SummandsLess
<1>6. /\ SumFunctionOnSet(f, T) = f[x] + SumFunctionOnSet(f, T \ {x})
      /\ SumFunctionOnSet(g, T) = g[x] + SumFunctionOnSet(g, T \ {x})
  BY <1>5, SumTakesOut
<1>7. SumFunctionOnSet(f, T \ {x}) <= SumFunctionOnSet(g, T \ {x})
  BY <1>2
<1>8. /\ f[x] \in Int /\ g[x] \in Int /\ f[x] <= g[x]
      /\ SumFunctionOnSet(f, T \ {x}) \in Int /\ SumFunctionOnSet(g, T \ {x}) \in Int
  BY <1>5, SumIsInt DEF Summands
<1> QED
  BY <1>2, <1>6, <1>7, <1>8

\* Equal summands, equal sums.
LEMMA SumSame ==
    ASSUME NEW f, NEW g, NEW S, Summands(f, S), \A x \in S : f[x] = g[x]
    PROVE  SumFunctionOnSet(f, S) = SumFunctionOnSet(g, S)
<1>1. Summands(g, S) /\ \A x \in S : f[x] <= g[x] /\ g[x] <= f[x]
  BY DEF Summands
<1>2. /\ SumFunctionOnSet(f, S) <= SumFunctionOnSet(g, S)
      /\ SumFunctionOnSet(g, S) <= SumFunctionOnSet(f, S)
  BY <1>1, SumMonotone
<1> QED
  BY <1>1, <1>2, SumIsInt

\* Changing one summand changes the sum by as much.
LEMMA SumChangesOne ==
    ASSUME NEW f, NEW g, NEW S, Summands(f, S), Summands(g, S), NEW x \in S,
           \A y \in S : y # x => f[y] = g[y]
    PROVE  SumFunctionOnSet(g, S) = SumFunctionOnSet(f, S) + g[x] - f[x]
<1>1. Summands(f, S \ {x}) /\ Summands(g, S \ {x})
  BY SummandsLess
<1>2. SumFunctionOnSet(f, S \ {x}) = SumFunctionOnSet(g, S \ {x})
  BY <1>1, SumSame
<1>3. /\ SumFunctionOnSet(f, S) = f[x] + SumFunctionOnSet(f, S \ {x})
      /\ SumFunctionOnSet(g, S) = g[x] + SumFunctionOnSet(g, S \ {x})
  BY SumTakesOut
<1>4. f[x] \in Int /\ g[x] \in Int /\ SumFunctionOnSet(f, S \ {x}) \in Int
  BY <1>1, SumIsInt DEF Summands
<1> QED
  BY <1>2, <1>3, <1>4

\* The sum over two disjoint sets.
LEMMA SumDisjoint ==
    ASSUME NEW f, NEW S, NEW T, Summands(f, S \cup T), S \cap T = {}
    PROVE  SumFunctionOnSet(f, S \cup T) = SumFunctionOnSet(f, S) + SumFunctionOnSet(f, T)
<1> DEFINE B == {U \in SUBSET T : SumFunctionOnSet(f, S \cup U)
                                   # SumFunctionOnSet(f, S) + SumFunctionOnSet(f, U)}
<1>1. SUFFICES ASSUME B # {} PROVE FALSE
  OBVIOUS
<1>2. PICK U \in B : \A V \in B : V \subseteq U => V = U
  <2>1. B \subseteq SUBSET T /\ IsFiniteSet(T)
    BY FS_Subset DEF Summands
  <2> HIDE DEF B
  <2> QED BY <1>1, <2>1, SmallestSubset
<1>3. Summands(f, S) /\ Summands(f, U)
  BY SummandsLess
<1>4. U # {}
  <2>1. SumFunctionOnSet(f, {}) = 0 /\ SumFunctionOnSet(f, S) \in Int
    BY <1>3, SumOfNone, SumIsInt
  <2> SUFFICES ASSUME U = {} PROVE FALSE
    OBVIOUS
  <2>2. S \cup U = S
    OBVIOUS
  <2> QED BY <2>1, <2>2
<1>5. PICK x \in U : TRUE
  BY <1>4
<1>6. /\ Summands(f, S \cup U) /\ Summands(f, U \ {x})
      /\ (S \cup U) \ {x} = S \cup (U \ {x})
  BY SummandsLess
<1>7. /\ SumFunctionOnSet(f, S \cup U) = f[x] + SumFunctionOnSet(f, S \cup (U \ {x}))
      /\ SumFunctionOnSet(f, U) = f[x] + SumFunctionOnSet(f, U \ {x})
  BY <1>3, <1>6, SumTakesOut
<1>8. SumFunctionOnSet(f, S \cup (U \ {x}))
        = SumFunctionOnSet(f, S) + SumFunctionOnSet(f, U \ {x})
  BY <1>2
<1>9. /\ f[x] \in Int /\ SumFunctionOnSet(f, S) \in Int
      /\ SumFunctionOnSet(f, U \ {x}) \in Int
  BY <1>3, <1>6, SumIsInt DEF Summands
<1> QED
  BY <1>2, <1>7, <1>8, <1>9

\* A sum of naturals is a natural.
LEMMA SumIsNat ==
    ASSUME NEW f, NEW S, IsFiniteSet(S), \A x \in S : f[x] \in Nat
    PROVE  Summands(f, S) /\ SumFunctionOnSet(f, S) \in Nat
<1> DEFINE B == {T \in SUBSET S : SumFunctionOnSet(f, T) \notin Nat}
<1>0. Summands(f, S)
  BY DEF Summands
<1>1. SUFFICES ASSUME B # {} PROVE FALSE
  BY <1>0
<1>2. PICK T \in B : \A U \in B : U \subseteq T => U = T
  <2>1. B \subseteq SUBSET S
    OBVIOUS
  <2> HIDE DEF B
  <2> QED BY <1>1, <2>1, SmallestSubset
<1>3. T # {}
  BY SumOfNone
<1>4. PICK x \in T : TRUE
  BY <1>3
<1>5. Summands(f, T)
  BY <1>0, SummandsLess
<1>6. SumFunctionOnSet(f, T) = f[x] + SumFunctionOnSet(f, T \ {x})
  BY <1>5, SumTakesOut
<1>7. f[x] \in Nat /\ SumFunctionOnSet(f, T \ {x}) \in Nat
  BY <1>2
<1> QED
  BY <1>2, <1>6, <1>7

\* A sum of naturals over a part is no more than over the whole.
LEMMA SumGrows ==
    ASSUME NEW f, NEW S, IsFiniteSet(S), \A x \in S : f[x] \in Nat, NEW T \in SUBSET S
    PROVE  SumFunctionOnSet(f, T) <= SumFunctionOnSet(f, S)
<1>1. T \cup (S \ T) = S /\ T \cap (S \ T) = {}
  OBVIOUS
<1>2. /\ SumFunctionOnSet(f, T) \in Nat /\ SumFunctionOnSet(f, S \ T) \in Nat
      /\ Summands(f, S)
  BY SumIsNat, FS_Subset
<1>3. SumFunctionOnSet(f, S) = SumFunctionOnSet(f, T) + SumFunctionOnSet(f, S \ T)
  BY <1>1, <1>2, SumDisjoint
<1> QED
  BY <1>2, <1>3

\* Summands added one by one.
LEMMA SumAdds ==
    ASSUME NEW f, NEW g, NEW h, NEW S, Summands(f, S), Summands(g, S),
           \A x \in S : h[x] = f[x] + g[x]
    PROVE  SumFunctionOnSet(h, S) = SumFunctionOnSet(f, S) + SumFunctionOnSet(g, S)
<1> DEFINE B == {T \in SUBSET S : SumFunctionOnSet(h, T)
                                   # SumFunctionOnSet(f, T) + SumFunctionOnSet(g, T)}
<1>1. SUFFICES ASSUME B # {} PROVE FALSE
  OBVIOUS
<1>2. PICK T \in B : \A U \in B : U \subseteq T => U = T
  <2>1. B \subseteq SUBSET S /\ IsFiniteSet(S)
    BY DEF Summands
  <2> HIDE DEF B
  <2> QED BY <1>1, <2>1, SmallestSubset
<1>3. T # {}
  BY SumOfNone
<1>4. PICK x \in T : TRUE
  BY <1>3
<1>5. Summands(h, S)
  BY DEF Summands
<1>6. /\ Summands(f, T) /\ Summands(g, T) /\ Summands(h, T)
      /\ Summands(f, T \ {x}) /\ Summands(g, T \ {x})
  BY <1>5, SummandsLess
<1>7. /\ SumFunctionOnSet(f, T) = f[x] + SumFunctionOnSet(f, T \ {x})
      /\ SumFunctionOnSet(g, T) = g[x] + SumFunctionOnSet(g, T \ {x})
      /\ SumFunctionOnSet(h, T) = h[x] + SumFunctionOnSet(h, T \ {x})
  BY <1>6, SumTakesOut
<1>8. SumFunctionOnSet(h, T \ {x})
        = SumFunctionOnSet(f, T \ {x}) + SumFunctionOnSet(g, T \ {x})
  BY <1>2
<1>9. /\ f[x] \in Int /\ g[x] \in Int /\ h[x] = f[x] + g[x]
      /\ SumFunctionOnSet(f, T \ {x}) \in Int /\ SumFunctionOnSet(g, T \ {x}) \in Int
  BY <1>6, SumIsInt DEF Summands
<1> QED
  BY <1>2, <1>7, <1>8, <1>9

\* A sum of zeros is zero.
LEMMA SumOfZeros ==
    ASSUME NEW f, NEW S, IsFiniteSet(S), \A x \in S : f[x] = 0
    PROVE  SumFunctionOnSet(f, S) = 0
<1>1. Summands(f, S) /\ SumFunctionOnSet(f, S) \in Int
  BY SumIsNat
<1>2. SumFunctionOnSet(f, S) = SumFunctionOnSet(f, S) + SumFunctionOnSet(f, S)
  BY <1>1, SumAdds
<1> QED
  BY <1>1, <1>2

\* A sum over a part of a domain, before and after a change that only concerns x:
\* its summand, whether it is in the part, or both.
LEMMA SumChangesAt ==
    ASSUME NEW f, NEW g, NEW S, NEW T, NEW x, Summands(f, S), Summands(g, T),
           S \ {x} = T \ {x}, \A y \in S \ {x} : f[y] = g[y]
    PROVE  SumFunctionOnSet(g, T) = SumFunctionOnSet(f, S)
                                      - (IF x \in S THEN f[x] ELSE 0)
                                      + (IF x \in T THEN g[x] ELSE 0)
<1>1. Summands(f, S \ {x}) /\ Summands(g, T \ {x})
  BY SummandsLess
<1>2. /\ SumFunctionOnSet(f, S \ {x}) = SumFunctionOnSet(g, T \ {x})
      /\ SumFunctionOnSet(f, S \ {x}) \in Int
  BY <1>1, SumSame, SumIsInt
<1>3. SumFunctionOnSet(f, S)
        = SumFunctionOnSet(f, S \ {x}) + (IF x \in S THEN f[x] ELSE 0)
  <2>1. CASE x \in S
    BY <1>2, <2>1, SumTakesOut DEF Summands
  <2>2. CASE x \notin S
    <3>1. SumFunctionOnSet(f, S \ {x}) = SumFunctionOnSet(f, S)
      <4>1. S \ {x} = S
        BY <2>2
      <4> QED BY <4>1
    <3> QED BY <1>2, <2>2, <3>1
  <2> QED BY <2>1, <2>2
<1>4. SumFunctionOnSet(g, T)
        = SumFunctionOnSet(g, T \ {x}) + (IF x \in T THEN g[x] ELSE 0)
  <2>0. SumFunctionOnSet(g, T \ {x}) \in Int
    BY <1>2
  <2>1. CASE x \in T
    BY <2>0, <2>1, SumTakesOut DEF Summands
  <2>2. CASE x \notin T
    <3>1. SumFunctionOnSet(g, T \ {x}) = SumFunctionOnSet(g, T)
      <4>1. T \ {x} = T
        BY <2>2
      <4> QED BY <4>1
    <3> QED BY <2>0, <2>2, <3>1
  <2> QED BY <2>1, <2>2
<1>5. (x \in S => f[x] \in Int) /\ (x \in T => g[x] \in Int)
  BY DEF Summands
<1> QED
  BY <1>2, <1>3, <1>4, <1>5
=============================================================================

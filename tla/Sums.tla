-------------------------------- MODULE Sums --------------------------------
(***************************************************************************)
(* Sums over finite sets, as MapThenSumSet computes them.                  *)
(*                                                                         *)
(* The summands are a function f, so that the lemmas have no operator as a *)
(* parameter.  Induction over finite sets is by a smallest counterexample. *)
(***************************************************************************)
EXTENDS Integers, FiniteSets, FiniteSetsExt, FiniteSetTheorems, WellFoundedInduction, TLAPS

Sum(f, S) == MapThenSumSet(LAMBDA x : f[x], S)

\* The element that the fold takes next.
Taken(s) == CHOOSE x \in s : TRUE

\* it is the function by which the fold is defined.
Iterates(it, f, S) ==
    it = [s \in SUBSET S |-> IF s = {} THEN 0 ELSE f[Taken(s)] + it[s \ {Taken(s)}]]

LEMMA TakenIn == \A s : s # {} => Taken(s) \in s
    BY DEF Taken

\* A set of subsets of a finite set has a smallest one.
LEMMA Smallest ==
    ASSUME NEW S, IsFiniteSet(S), NEW C, C \subseteq SUBSET S, C # {}
    PROVE  \E x \in C : \A y \in C : y \subseteq x => y = x
<1>1. IsWellFoundedOn(StrictSubsetOrdering(S), FiniteSubsetsOf(S))
    BY FS_StrictSubsetOrderingWellFounded
<1>2. FiniteSubsetsOf(S) = SUBSET S
    BY FS_FiniteSubsetsOfFinite
<1>3. PICK x \in C : \A y \in C : <<y, x>> \notin StrictSubsetOrdering(S)
    BY <1>1, <1>2, WFMin
<1>4. \A y \in C : y \subseteq x => y = x
    BY <1>3 DEF StrictSubsetOrdering
<1>5. QED
    BY <1>4

LEMMA IteratesUnique ==
    ASSUME NEW S, IsFiniteSet(S), NEW T, NEW f, NEW i, NEW j,
           Iterates(i, f, S), Iterates(j, f, T)
    PROVE  \A s \in SUBSET (S \cap T) : i[s] = j[s]
<1> DEFINE C == {s \in SUBSET (S \cap T) : i[s] # j[s]}
<1> SUFFICES ASSUME C # {} PROVE FALSE
    OBVIOUS
<1>1. C \subseteq SUBSET S /\ \A x \in C : x \in SUBSET (S \cap T) /\ i[x] # j[x]
    OBVIOUS
<1> HIDE DEF C
<1>2. PICK x \in C : \A y \in C : y \subseteq x => y = x
    BY <1>1, Smallest
<1>3. x \in SUBSET (S \cap T) /\ i[x] # j[x]
    BY <1>1
<1>4. /\ i[x] = IF x = {} THEN 0 ELSE f[Taken(x)] + i[x \ {Taken(x)}]
      /\ j[x] = IF x = {} THEN 0 ELSE f[Taken(x)] + j[x \ {Taken(x)}]
    BY <1>3 DEF Iterates
<1>5. x # {} /\ Taken(x) \in x
    BY <1>3, <1>4, TakenIn
<1>6. x \ {Taken(x)} \in SUBSET (S \cap T) /\ x \ {Taken(x)} # x /\ x \ {Taken(x)} \subseteq x
    BY <1>3, <1>5
<1>7. i[x \ {Taken(x)}] = j[x \ {Taken(x)}]
    BY <1>2, <1>6 DEF C
<1>8. QED
    BY <1>3, <1>4, <1>7

LEMMA IteratesExists ==
    ASSUME NEW S, IsFiniteSet(S), NEW f
    PROVE  \E it : Iterates(it, f, S)
<1> DEFINE C == {s \in SUBSET S : ~\E it : Iterates(it, f, s)}
           It(s) == CHOOSE it : Iterates(it, f, s)
<1> SUFFICES ASSUME C # {} PROVE FALSE
    OBVIOUS
<1>1. PICK T \in C : \A y \in C : y \subseteq T => y = T
    <2>1. C \subseteq SUBSET S
        OBVIOUS
    <2> HIDE DEF C
    <2>2. QED
        BY <2>1, Smallest
<1>2. T \in SUBSET S /\ ~\E it : Iterates(it, f, T)
    OBVIOUS
<1>3. ASSUME NEW s \in SUBSET T, s # T
      PROVE  Iterates(It(s), f, s)
    <2>1. s \in SUBSET S /\ s \notin C
        BY <1>1, <1>2, <1>3
    <2>2. \E it : Iterates(it, f, s)
        BY <2>1
    <2>3. QED
        BY <2>2
<1> HIDE DEF C
<1> DEFINE Rest(s) == s \ {Taken(s)}
           g == [s \in SUBSET T |-> IF s = {} THEN 0 ELSE f[Taken(s)] + It(Rest(s))[Rest(s)]]
<1>4. ASSUME NEW s \in SUBSET T, s # {}
      PROVE  Rest(s) \in SUBSET T /\ Rest(s) # T
    BY <1>4, TakenIn
<1>5. ASSUME NEW u \in SUBSET T, u # T
      PROVE  g[u] = It(u)[u]
    <2>1. Iterates(It(u), f, u)
        BY <1>3, <1>5
    <2> HIDE DEF It
    <2>2. It(u)[u] = IF u = {} THEN 0 ELSE f[Taken(u)] + It(u)[Rest(u)]
        BY <2>1 DEF Iterates
    <2>3. ASSUME u # {}
          PROVE  It(u)[Rest(u)] = It(Rest(u))[Rest(u)]
        <3>1. Iterates(It(Rest(u)), f, Rest(u))
            BY <1>3, <1>4, <2>3
        <3>2. IsFiniteSet(u)
            BY <1>2, FS_Subset
        <3>3. Rest(u) \in SUBSET (u \cap Rest(u))
            OBVIOUS
        <3>4. QED
            BY <2>1, <3>1, <3>2, <3>3, IteratesUnique
    <2>4. QED
        BY <2>2, <2>3
<1>6. ASSUME NEW s \in SUBSET T
      PROVE  g[s] = IF s = {} THEN 0 ELSE f[Taken(s)] + g[Rest(s)]
    <2> HIDE DEF It, Rest
    <2>1. CASE s = {}
        BY <2>1
    <2>2. CASE s # {}
        <3>1. g[Rest(s)] = It(Rest(s))[Rest(s)]
            BY <1>4, <1>5, <2>2
        <3>2. QED
            BY <2>2, <3>1
    <2>3. QED
        BY <2>1, <2>2
<1>7. g = [s \in SUBSET T |-> g[s]]
    OBVIOUS
<1> HIDE DEF g
<1>8. Iterates(g, f, T)
    BY <1>6, <1>7 DEF Iterates
<1>9. QED
    BY <1>2, <1>8

LEMMA SumIterates ==
    ASSUME NEW S, IsFiniteSet(S), NEW f
    PROVE  \E it : Iterates(it, f, S) /\ Sum(f, S) = it[S]
<1> DEFINE it == CHOOSE it : Iterates(it, f, S)
<1>1. Iterates(it, f, S)
    BY IteratesExists
<1>2. Sum(f, S) = it[S]
    BY DEF Sum, MapThenSumSet, MapThenFoldSet, Iterates, Taken
<1>3. QED
    BY <1>1, <1>2

\* Whatever satisfies the equation of the fold computes the sum.  This is how a
\* MapThenSumSet of an operator, whose equation is the same, becomes a Sum.
LEMMA IteratesSum ==
    ASSUME NEW S, IsFiniteSet(S), NEW f, NEW i, Iterates(i, f, S)
    PROVE  i[S] = Sum(f, S)
<1>1. PICK j : Iterates(j, f, S) /\ Sum(f, S) = j[S]
    BY SumIterates
<1>2. i[S] = j[S]
    BY <1>1, IteratesUnique
<1>3. QED
    BY <1>1, <1>2

\* One step of the fold.
LEMMA SumStep ==
    ASSUME NEW S, IsFiniteSet(S), NEW f
    PROVE  Sum(f, S) = IF S = {} THEN 0 ELSE f[Taken(S)] + Sum(f, S \ {Taken(S)})
<1> DEFINE R == S \ {Taken(S)}
<1>1. PICK i : Iterates(i, f, S) /\ Sum(f, S) = i[S]
    BY SumIterates
<1>2. i[S] = IF S = {} THEN 0 ELSE f[Taken(S)] + i[R]
    BY <1>1 DEF Iterates
<1>3. IsFiniteSet(R)
    BY FS_Subset
<1>4. PICK j : Iterates(j, f, R) /\ Sum(f, R) = j[R]
    BY <1>3, SumIterates
<1>5. R \in SUBSET (S \cap R)
    OBVIOUS
<1> HIDE DEF R
<1>6. i[R] = j[R]
    BY <1>1, <1>4, <1>5, IteratesUnique
<1>7. Sum(f, S) = IF S = {} THEN 0 ELSE f[Taken(S)] + Sum(f, R)
    BY <1>1, <1>2, <1>4, <1>6
<1>8. QED
    BY <1>7 DEF R

LEMMA SumEmpty == \A f : Sum(f, {}) = 0
    BY SumStep, FS_EmptySet

LEMMA SumType ==
    ASSUME NEW S, IsFiniteSet(S), NEW f, \A x \in S : f[x] \in Int
    PROVE  Sum(f, S) \in Int
<1> DEFINE C == {s \in SUBSET S : Sum(f, s) \notin Int}
<1>1. C \subseteq SUBSET S /\ \A s \in SUBSET S : s \in C <=> Sum(f, s) \notin Int
    OBVIOUS
<1> HIDE DEF C
<1>2. ASSUME C # {} PROVE FALSE
    <2>1. PICK x \in C : \A y \in C : y \subseteq x => y = x
        BY <1>1, <1>2, Smallest
    <2>2. IsFiniteSet(x)
        BY <1>1, FS_Subset
    <2>3. Sum(f, x) = IF x = {} THEN 0 ELSE f[Taken(x)] + Sum(f, x \ {Taken(x)})
        BY <2>2, SumStep
    <2>4. x # {} /\ Taken(x) \in x
        BY <1>1, <2>3, TakenIn
    <2>5. Sum(f, x \ {Taken(x)}) \in Int
        BY <1>1, <2>1, <2>4
    <2>6. QED
        BY <1>1, <2>3, <2>4, <2>5
<1>3. QED
    BY <1>1, <1>2

\* Any element can be the first one.
LEMMA SumRemove ==
    ASSUME NEW S, IsFiniteSet(S), NEW f, \A x \in S : f[x] \in Int, NEW e \in S
    PROVE  Sum(f, S) = f[e] + Sum(f, S \ {e})
<1> DEFINE Splits(s) == \A x \in s : Sum(f, s) = f[x] + Sum(f, s \ {x})
           C == {s \in SUBSET S : ~Splits(s)}
<1>1. C \subseteq SUBSET S /\ \A s \in SUBSET S : s \in C <=> ~Splits(s)
    OBVIOUS
<1> HIDE DEF C
<1>2. ASSUME C # {} PROVE FALSE
    <2>1. PICK s \in C : \A y \in C : y \subseteq s => y = s
        BY <1>1, <1>2, Smallest
    <2>2. PICK x \in s : Sum(f, s) # f[x] + Sum(f, s \ {x})
        BY <1>1, <2>1
    <2> DEFINE t == Taken(s)
               r == s \ {x, t}
    <2>3. IsFiniteSet(s) /\ IsFiniteSet(s \ {t}) /\ IsFiniteSet(s \ {x}) /\ IsFiniteSet(r)
        BY <1>1, FS_Subset
    <2>4. t \in s /\ Sum(f, s) = f[t] + Sum(f, s \ {t})
        BY <2>3, SumStep, TakenIn
    <2>5. x # t
        BY <2>2, <2>4
    <2> HIDE DEF t
    <2>6. Splits(s \ {t}) /\ Splits(s \ {x})
        BY <1>1, <2>1, <2>4
    <2>7. (s \ {t}) \ {x} = r /\ (s \ {x}) \ {t} = r
        OBVIOUS
    <2> HIDE DEF r
    <2>8. Sum(f, s \ {t}) = f[x] + Sum(f, r) /\ Sum(f, s \ {x}) = f[t] + Sum(f, r)
        BY <2>4, <2>5, <2>6, <2>7
    <2>9. Sum(f, r) \in Int /\ f[x] \in Int /\ f[t] \in Int
        BY <1>1, <2>1, <2>3, <2>4, SumType DEF r
    <2>10. QED
        BY <2>2, <2>4, <2>8, <2>9
<1>3. Splits(S)
    BY <1>1, <1>2
<1>4. QED
    BY <1>3

\* Only the summands count.
LEMMA SumSame ==
    ASSUME NEW S, IsFiniteSet(S), NEW f, NEW g, \A x \in S : f[x] = g[x]
    PROVE  Sum(f, S) = Sum(g, S)
<1> DEFINE C == {s \in SUBSET S : Sum(f, s) # Sum(g, s)}
<1>1. C \subseteq SUBSET S /\ \A s \in SUBSET S : s \in C <=> Sum(f, s) # Sum(g, s)
    OBVIOUS
<1> HIDE DEF C
<1>2. ASSUME C # {} PROVE FALSE
    <2>1. PICK x \in C : \A y \in C : y \subseteq x => y = x
        BY <1>1, <1>2, Smallest
    <2> DEFINE r == x \ {Taken(x)}
    <2>2. IsFiniteSet(x)
        BY <1>1, FS_Subset
    <2>3. /\ Sum(f, x) = IF x = {} THEN 0 ELSE f[Taken(x)] + Sum(f, r)
          /\ Sum(g, x) = IF x = {} THEN 0 ELSE g[Taken(x)] + Sum(g, r)
        BY <2>2, SumStep
    <2>4. x # {} /\ Taken(x) \in x
        BY <1>1, <2>3, TakenIn
    <2>5. Sum(f, r) = Sum(g, r)
        BY <1>1, <2>1, <2>4
    <2>6. f[Taken(x)] = g[Taken(x)]
        BY <1>1, <2>1, <2>4
    <2> HIDE DEF r
    <2>7. QED
        BY <1>1, <2>1, <2>3, <2>5, <2>6
<1>3. QED
    BY <1>1, <1>2

\* One summand changes.
LEMMA SumChange ==
    ASSUME NEW S, IsFiniteSet(S), NEW f, NEW g, NEW e \in S,
           \A x \in S : f[x] \in Int /\ g[x] \in Int,
           \A x \in S \ {e} : f[x] = g[x]
    PROVE  Sum(g, S) = Sum(f, S) + (g[e] - f[e])
<1>1. Sum(f, S) = f[e] + Sum(f, S \ {e}) /\ Sum(g, S) = g[e] + Sum(g, S \ {e})
    BY SumRemove
<1>2. IsFiniteSet(S \ {e})
    BY FS_Subset
<1>3. Sum(f, S \ {e}) = Sum(g, S \ {e}) /\ Sum(f, S \ {e}) \in Int
    BY <1>2, SumSame, SumType
<1>4. QED
    BY <1>1, <1>3

LEMMA SumZero ==
    ASSUME NEW S, IsFiniteSet(S), NEW f, \A x \in S : f[x] = 0
    PROVE  Sum(f, S) = 0
<1> DEFINE C == {s \in SUBSET S : Sum(f, s) # 0}
<1>1. C \subseteq SUBSET S /\ \A s \in SUBSET S : s \in C <=> Sum(f, s) # 0
    OBVIOUS
<1> HIDE DEF C
<1>2. ASSUME C # {} PROVE FALSE
    <2>1. PICK x \in C : \A y \in C : y \subseteq x => y = x
        BY <1>1, <1>2, Smallest
    <2>2. IsFiniteSet(x)
        BY <1>1, FS_Subset
    <2>3. Sum(f, x) = IF x = {} THEN 0 ELSE f[Taken(x)] + Sum(f, x \ {Taken(x)})
        BY <2>2, SumStep
    <2>4. x # {} /\ Taken(x) \in x
        BY <1>1, <2>3, TakenIn
    <2>5. Sum(f, x \ {Taken(x)}) = 0 /\ f[Taken(x)] = 0
        BY <1>1, <2>1, <2>4
    <2>6. QED
        BY <1>1, <2>1, <2>3, <2>4, <2>5
<1>3. QED
    BY <1>1, <1>2

LEMMA SumUnion ==
    ASSUME NEW A, IsFiniteSet(A), NEW B, IsFiniteSet(B), A \cap B = {},
           NEW f, \A x \in A \cup B : f[x] \in Int
    PROVE  Sum(f, A \cup B) = Sum(f, A) + Sum(f, B)
<1> DEFINE C == {b \in SUBSET B : Sum(f, A \cup b) # Sum(f, A) + Sum(f, b)}
<1>1. C \subseteq SUBSET B /\ \A b \in SUBSET B : b \in C <=> Sum(f, A \cup b) # Sum(f, A) + Sum(f, b)
    OBVIOUS
<1> HIDE DEF C
<1>2. ASSUME C # {} PROVE FALSE
    <2>1. PICK b \in C : \A y \in C : y \subseteq b => y = b
        BY <1>1, <1>2, Smallest
    <2>2. b \subseteq B /\ IsFiniteSet(b) /\ IsFiniteSet(A \cup b)
        BY <1>1, FS_Subset, FS_Union
    <2>3. Sum(f, A) \in Int
        BY SumType
    <2>4. b # {}
        <3>1. A \cup {} = A /\ Sum(f, {}) = 0
            BY SumEmpty
        <3>2. Sum(f, A \cup {}) = Sum(f, A) + Sum(f, {})
            BY <2>3, <3>1
        <3>3. QED
            BY <1>1, <3>2
    <2>5. PICK e \in b : TRUE
        BY <2>4
    <2> DEFINE r == b \ {e}
    <2>6. Sum(f, b) = f[e] + Sum(f, r)
        BY <2>2, SumRemove
    <2>7. Sum(f, A \cup b) = f[e] + Sum(f, (A \cup b) \ {e})
        BY <2>2, SumRemove
    <2>8. (A \cup b) \ {e} = A \cup r /\ r \in SUBSET B /\ r # b /\ r \subseteq b
        BY <2>2
    <2> HIDE DEF r
    <2>9. Sum(f, A \cup r) = Sum(f, A) + Sum(f, r)
        BY <1>1, <2>1, <2>8
    <2>10. IsFiniteSet(r) /\ \A x \in r : f[x] \in Int
        BY <2>2, <2>8, FS_Subset
    <2>11. Sum(f, r) \in Int /\ f[e] \in Int
        BY <2>2, <2>10, SumType
    <2> DEFINE all == Sum(f, A \cup b)
    <2>12. all = Sum(f, A) + Sum(f, b)
        <3>1. all = f[e] + Sum(f, A \cup r)
            BY <2>7, <2>8
        <3> HIDE DEF all
        <3>2. QED
            BY <2>3, <2>6, <2>9, <2>11, <3>1
    <2>13. QED
        BY <1>1, <2>2, <2>12
<1>3. B \notin C
    BY <1>2
<1>4. QED
    BY <1>1, <1>3

\* Elements that add nothing may be left out.
LEMMA SumSupport ==
    ASSUME NEW S, IsFiniteSet(S), NEW T \in SUBSET S, NEW f, \A x \in S : f[x] \in Int,
           \A x \in S \ T : f[x] = 0
    PROVE  Sum(f, S) = Sum(f, T)
<1>1. IsFiniteSet(T) /\ IsFiniteSet(S \ T) /\ T \cup (S \ T) = S /\ T \cap (S \ T) = {}
    BY FS_Subset
<1>2. Sum(f, T \cup (S \ T)) = Sum(f, T) + Sum(f, S \ T)
    BY <1>1, SumUnion
<1>3. Sum(f, S \ T) = 0 /\ Sum(f, T) \in Int
    BY <1>1, SumZero, SumType
<1>4. Sum(f, S) = Sum(f, T) + Sum(f, S \ T)
    BY <1>1, <1>2
<1>5. QED
    BY <1>3, <1>4

\* A sum over a set that h enumerates without repetition.
LEMMA SumImage ==
    ASSUME NEW S, IsFiniteSet(S), NEW h, \A x, y \in S : h[x] = h[y] => x = y,
           NEW f, NEW g, \A x \in S : g[x] = f[h[x]] /\ g[x] \in Int
    PROVE  Sum(f, {h[x] : x \in S}) = Sum(g, S)
<1> DEFINE Im(s) == {h[x] : x \in s}
           C == {s \in SUBSET S : Sum(f, Im(s)) # Sum(g, s)}
<1>1. C \subseteq SUBSET S /\ \A s \in SUBSET S : s \in C <=> Sum(f, Im(s)) # Sum(g, s)
    OBVIOUS
<1> HIDE DEF C
<1>2. ASSUME C # {} PROVE FALSE
    <2>1. PICK s \in C : \A y \in C : y \subseteq s => y = s
        BY <1>1, <1>2, Smallest
    <2>2. s \subseteq S /\ IsFiniteSet(s) /\ IsFiniteSet(Im(s))
        <3> DEFINE j == [x \in s |-> h[x]]
        <3>1. s \subseteq S /\ IsFiniteSet(s)
            BY <1>1, FS_Subset
        <3>2. j \in [s -> Im(s)]
            OBVIOUS
        <3>3. (\A x, y \in s : j[x] = j[y] => x = y) /\ \A z \in Im(s) : \E x \in s : j[x] = z
            BY <3>1
        <3>4. j \in Bijection(s, Im(s))
            BY <3>2, <3>3 DEF Bijection, Injection, IsInjective, Surjection
        <3>5. IsFiniteSet(Im(s))
            BY <3>1, <3>4, FS_Bijection DEF ExistsBijection
        <3>6. QED
            BY <3>1, <3>5
    <2>3. s # {}
        <3>1. Im({}) = {}
            OBVIOUS
        <3>2. Sum(f, Im({})) = Sum(g, {})
            BY <3>1, SumEmpty
        <3>3. QED
            BY <1>1, <3>2
    <2>4. PICK e \in s : TRUE
        BY <2>3
    <2> DEFINE r == s \ {e}
    <2>5. r \in SUBSET S /\ r # s /\ r \subseteq s
        BY <2>2
    <2>6. Sum(f, Im(r)) = Sum(g, r)
        BY <1>1, <2>1, <2>5
    <2>7. Sum(g, s) = g[e] + Sum(g, r)
        BY <2>2, SumRemove
    <2>8. Im(s) \ {h[e]} = Im(r) /\ h[e] \in Im(s)
        BY <2>2
    <2>9. \A y \in Im(s) : f[y] \in Int
        BY <2>2
    <2> HIDE DEF Im, r
    <2>10. Sum(f, Im(s)) = f[h[e]] + Sum(f, Im(r))
        BY <2>2, <2>8, <2>9, SumRemove
    <2>11. g[e] = f[h[e]]
        BY <2>2
    <2>12. QED
        BY <1>1, <2>1, <2>2, <2>6, <2>7, <2>10, <2>11
<1>3. S \notin C
    BY <1>2
<1>4. QED
    BY <1>1, <1>3
=============================================================================

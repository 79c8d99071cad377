----------------------------- MODULE FiniteSums -----------------------------
(***************************************************************************)
(* Sums over finite sets, as SumFunctionOnSet of the community modules      *)
(* defines them: by a recursive function that folds the subsets of the set. *)
(* The smallest set on which a statement fails takes the place of an        *)
(* induction scheme.  Used in the proofs about money: of the ledger, of its *)
(* snapshots and of the browser's simulated balances.                       *)
(***************************************************************************)
EXTENDS Integers, Functions, FiniteSetTheorems, TLAPS

\* the element the fold takes first, and what it leaves
Pick(s) == CHOOSE x \in s : TRUE
Rest(s) == s \ {Pick(s)}

\* One round of the recursion by which SumFunctionOnSet is defined.
Round(f, S, g) == [s \in SUBSET S |-> IF s = {} THEN 0 ELSE f[Pick(s)] + g[Rest(s)]]
Adds(f, S, g) == g = Round(f, S, g)

\* Of finite sets with a property there is one none of whose proper subsets has it.
LEMMA SmallestSet ==
    ASSUME NEW S, IsFiniteSet(S), NEW F \in SUBSET SUBSET S, F # {}
    PROVE  \E s \in F : \A t \in F : t \subseteq s => t = s
<1>1. /\ IsWellFoundedOn(StrictSubsetOrdering(S), FiniteSubsetsOf(S))
      /\ F \subseteq FiniteSubsetsOf(S)
    BY FS_StrictSubsetOrderingWellFounded, FS_FiniteSubsetsOfFinite
<1>2. PICK s \in F : \A t \in F : ~(<<t, s>> \in StrictSubsetOrdering(S))
    BY <1>1, WFMin
<1>3. \A t \in F : t \subseteq s => t = s
    BY <1>2 DEF StrictSubsetOrdering
<1>. QED
    BY <1>3

\* Pick takes an element of the set.
LEMMA PickIn == ASSUME NEW s, s # {} PROVE Pick(s) \in s
BY DEF Pick

\* Two solutions of the recursion agree where both are defined.
LEMMA AddsAgree ==
    ASSUME NEW f, NEW S, NEW U, NEW g, NEW h, Adds(f, S, g), Adds(f, U, h),
           NEW T, IsFiniteSet(T), T \subseteq S, T \subseteq U
    PROVE  g[T] = h[T]
<1> SUFFICES ASSUME g[T] # h[T] PROVE FALSE
    OBVIOUS
<1> DEFINE F == {s \in SUBSET T : g[s] # h[s]}
<1>1. T \in F
    OBVIOUS
<1>2. F \in SUBSET SUBSET T /\ F # {}
    BY <1>1
<1>3. FALSE
    <2> HIDE DEF F
    <2>1. PICK s \in F : \A t \in F : t \subseteq s => t = s
        BY <1>2, SmallestSet
    <2> USE DEF F
    <2>2. s \in SUBSET T /\ s \in SUBSET S /\ s \in SUBSET U
        OBVIOUS
    <2>3. /\ g[s] = IF s = {} THEN 0 ELSE f[Pick(s)] + g[Rest(s)]
          /\ h[s] = IF s = {} THEN 0 ELSE f[Pick(s)] + h[Rest(s)]
        BY <2>2 DEF Adds, Round
    <2>4. s # {}
        BY <2>3
    <2>5. Rest(s) \subseteq s /\ Rest(s) # s
        BY <2>4, PickIn DEF Rest
    <2>6. g[Rest(s)] = h[Rest(s)]
        BY <2>1, <2>2, <2>5
    <2>. QED
        BY <2>3, <2>4, <2>6
<1>. QED
    BY <1>3

\* The recursion has a solution on every finite set.
LEMMA AddsExists ==
    ASSUME NEW f, NEW S, IsFiniteSet(S)
    PROVE  \E g : Adds(f, S, g)
<1> SUFFICES ASSUME ~\E g : Adds(f, S, g) PROVE FALSE
    OBVIOUS
<1> DEFINE F == {s \in SUBSET S : ~\E g : Adds(f, s, g)}
<1>1. S \in F
    OBVIOUS
<1>2. F \in SUBSET SUBSET S /\ F # {}
    BY <1>1
<1>3. FALSE
    <2> HIDE DEF F
    <2>1. PICK s \in F : \A t \in F : t \subseteq s => t = s
        BY <1>2, SmallestSet
    <2> USE DEF F
    <2> DEFINE Of(t) == CHOOSE g : Adds(f, t, g)
               Value(t) == IF t = {} THEN 0 ELSE f[Pick(t)] + Of(Rest(t))[Rest(t)]
               h == [t \in SUBSET s |-> Value(t)]
    <2>2. \A t \in SUBSET s : t # s => Adds(f, t, Of(t))
        <3> SUFFICES ASSUME NEW t \in SUBSET s, t # s PROVE Adds(f, t, Of(t))
            OBVIOUS
        <3>1. \E g : Adds(f, t, g)
            BY <2>1
        <3>. QED
            BY <3>1
    <2> HIDE DEF Of
    <2>3. \A t \in SUBSET s : t # {} => Rest(t) \in SUBSET s /\ Rest(t) # s /\ Rest(t) \subseteq t
        BY PickIn DEF Rest
    <2>4. ASSUME NEW t \in SUBSET s, t # s
          PROVE  Of(t)[t] = Value(t)
        <3>1. Of(t)[t] = IF t = {} THEN 0 ELSE f[Pick(t)] + Of(t)[Rest(t)]
            BY <2>2, <2>4 DEF Adds, Round
        <3>2. CASE t = {}
            BY <3>1, <3>2
        <3>3. CASE t # {}
            <4>1. /\ Adds(f, t, Of(t)) /\ Adds(f, Rest(t), Of(Rest(t)))
                  /\ Rest(t) \subseteq t
                BY <2>2, <2>3, <2>4, <3>3
            <4>2. IsFiniteSet(Rest(t))
                BY <2>3, <3>3, FS_Subset
            <4>3. Of(t)[Rest(t)] = Of(Rest(t))[Rest(t)]
                BY <4>1, <4>2, AddsAgree
            <4>. QED
                BY <3>1, <3>3, <4>3
        <3>. QED
            BY <3>2, <3>3
    <2>5. \A t \in SUBSET s : h[t] = IF t = {} THEN 0 ELSE f[Pick(t)] + h[Rest(t)]
        BY <2>3, <2>4
    <2>6. Adds(f, s, h)
        <3>1. h = [t \in SUBSET s |-> h[t]]
            OBVIOUS
        <3> HIDE DEF h
        <3>. QED
            BY <2>5, <3>1 DEF Adds, Round
    <2>. QED
        BY <2>1, <2>6
<1>. QED
    BY <1>3

\* SumFunctionOnSet is a solution of the recursion.
LEMMA SumIs ==
    ASSUME NEW f, NEW S, IsFiniteSet(S)
    PROVE  \E g : Adds(f, S, g) /\ SumFunctionOnSet(f, S) = g[S]
<1> DEFINE it == CHOOSE g : g = [s \in SUBSET S |-> IF s = {} THEN 0 ELSE f[CHOOSE x \in s : TRUE] + g[s \ {CHOOSE x \in s : TRUE}]]
<1>1. SumFunctionOnSet(f, S) = it[S]
    BY DEF SumFunctionOnSet, FoldFunctionOnSet, MapThenFoldSet
<1>2. it = CHOOSE g : Adds(f, S, g)
    BY DEF Adds, Round, Pick, Rest
<1>3. Adds(f, S, it)
    BY <1>2, AddsExists
<1>. QED
    BY <1>1, <1>3

\* The sum over a set is the first element's value and the sum of the rest.
LEMMA SumRest ==
    ASSUME NEW f, NEW S, IsFiniteSet(S), S # {}
    PROVE  SumFunctionOnSet(f, S) = f[Pick(S)] + SumFunctionOnSet(f, Rest(S))
<1>1. PICK g : Adds(f, S, g) /\ SumFunctionOnSet(f, S) = g[S]
    BY SumIs
<1>2. IsFiniteSet(Rest(S)) /\ Rest(S) \subseteq S
    BY FS_Subset DEF Rest
<1>3. PICK h : Adds(f, Rest(S), h) /\ SumFunctionOnSet(f, Rest(S)) = h[Rest(S)]
    BY <1>2, SumIs
<1>4. g[Rest(S)] = h[Rest(S)]
    BY <1>1, <1>2, <1>3, AddsAgree
<1>5. g[S] = f[Pick(S)] + g[Rest(S)]
    BY <1>1 DEF Adds, Round
<1>. QED
    BY <1>1, <1>3, <1>4, <1>5

\* The sum over no element is zero.
LEMMA SumEmpty ==
    ASSUME NEW f
    PROVE  SumFunctionOnSet(f, {}) = 0
<1>1. PICK g : Adds(f, {}, g) /\ SumFunctionOnSet(f, {}) = g[{}]
    BY SumIs, FS_EmptySet
<1>2. g[{}] = 0
    BY <1>1 DEF Adds, Round
<1>. QED
    BY <1>1, <1>2

\* Integers add up to an integer.
LEMMA SumInt ==
    ASSUME NEW f, NEW S, IsFiniteSet(S), \A i \in S : f[i] \in Int
    PROVE  SumFunctionOnSet(f, S) \in Int
<1> SUFFICES ASSUME SumFunctionOnSet(f, S) \notin Int PROVE FALSE
    OBVIOUS
<1> DEFINE F == {s \in SUBSET S : SumFunctionOnSet(f, s) \notin Int}
<1>1. S \in F
    OBVIOUS
<1>2. F \in SUBSET SUBSET S /\ F # {}
    BY <1>1
<1>3. FALSE
    <2> HIDE DEF F
    <2>1. PICK s \in F : \A t \in F : t \subseteq s => t = s
        BY <1>2, SmallestSet
    <2> USE DEF F
    <2>2. s # {}
        BY SumEmpty
    <2>3. Rest(s) \subseteq s /\ Rest(s) # s /\ Pick(s) \in s
        BY <2>2, PickIn DEF Rest
    <2>4. SumFunctionOnSet(f, Rest(s)) \in Int
        BY <2>1, <2>3
    <2>5. IsFiniteSet(s)
        BY FS_Subset
    <2>. QED
        BY <2>2, <2>3, <2>4, <2>5, SumRest
<1>. QED
    BY <1>3

\* The order of the elements does not matter: any one can be taken first.
LEMMA SumWithout ==
    ASSUME NEW f, NEW S, IsFiniteSet(S), \A i \in S : f[i] \in Int, NEW x \in S
    PROVE  SumFunctionOnSet(f, S) = f[x] + SumFunctionOnSet(f, S \ {x})
<1> SUFFICES ASSUME SumFunctionOnSet(f, S) # f[x] + SumFunctionOnSet(f, S \ {x})
             PROVE FALSE
    OBVIOUS
<1> DEFINE Wrong(s, y) == SumFunctionOnSet(f, s) # f[y] + SumFunctionOnSet(f, s \ {y})
           F == {s \in SUBSET S : \E y \in s : Wrong(s, y)}
<1>1. S \in F
    OBVIOUS
<1>2. F \in SUBSET SUBSET S /\ F # {}
    BY <1>1
<1> HIDE DEF F
<1>3. PICK s \in F : \A t \in F : t \subseteq s => t = s
    BY <1>2, SmallestSet
<1> USE DEF F
<1>4. PICK y \in s : Wrong(s, y)
    OBVIOUS
<1> DEFINE p == Pick(s)
           rest == (s \ {p}) \ {y}
<1>5. p \in s /\ Rest(s) = s \ {p}
    BY PickIn DEF Rest
<1>6. SumFunctionOnSet(f, s) = f[p] + SumFunctionOnSet(f, s \ {p})
    BY <1>5, SumRest, FS_Subset
<1>7. p # y
    BY <1>4, <1>6
<1> HIDE DEF p
<1>8. /\ s \ {p} \notin F /\ s \ {p} \in SUBSET S
      /\ s \ {y} \notin F /\ s \ {y} \in SUBSET S
    BY <1>3, <1>5
<1>9. SumFunctionOnSet(f, s \ {p}) = f[y] + SumFunctionOnSet(f, rest)
    BY <1>7, <1>8
<1>10. SumFunctionOnSet(f, s \ {y}) = f[p] + SumFunctionOnSet(f, rest)
    <2>1. (s \ {y}) \ {p} = rest
        OBVIOUS
    <2>. QED
        BY <1>5, <1>7, <1>8, <2>1
<1>11. /\ f[p] \in Int /\ f[y] \in Int
       /\ SumFunctionOnSet(f, rest) \in Int
    BY <1>5, SumInt, FS_Subset
<1>. QED
    BY <1>4, <1>6, <1>9, <1>10, <1>11

\* Adding an element to the set adds its value.
LEMMA SumAdd ==
    ASSUME NEW f, NEW S, IsFiniteSet(S), NEW x, x \notin S,
           \A i \in S \union {x} : f[i] \in Int
    PROVE  SumFunctionOnSet(f, S \union {x}) = f[x] + SumFunctionOnSet(f, S)
<1> DEFINE T == S \union {x}
<1>1. IsFiniteSet(T) /\ x \in T /\ T \ {x} = S
    BY FS_AddElement
<1>2. \A i \in T : f[i] \in Int
    OBVIOUS
<1> HIDE DEF T
<1>3. SumFunctionOnSet(f, T) = f[x] + SumFunctionOnSet(f, T \ {x})
    BY <1>1, <1>2, SumWithout
<1>. QED
    BY <1>1, <1>3 DEF T

\* Functions that agree on a set have the same sum.
LEMMA SumSame ==
    ASSUME NEW f, NEW g, NEW S, IsFiniteSet(S), \A i \in S : f[i] = g[i]
    PROVE  SumFunctionOnSet(f, S) = SumFunctionOnSet(g, S)
<1> SUFFICES ASSUME SumFunctionOnSet(f, S) # SumFunctionOnSet(g, S) PROVE FALSE
    OBVIOUS
<1> DEFINE F == {s \in SUBSET S : SumFunctionOnSet(f, s) # SumFunctionOnSet(g, s)}
<1>1. F \in SUBSET SUBSET S /\ F # {}
    OBVIOUS
<1> HIDE DEF F
<1>2. PICK s \in F : \A t \in F : t \subseteq s => t = s
    BY <1>1, SmallestSet
<1> USE DEF F
<1>3. s # {}
    BY <1>2, SumEmpty
<1>4. Rest(s) \subseteq s /\ Rest(s) # s /\ Pick(s) \in s
    BY <1>3, PickIn DEF Rest
<1>5. SumFunctionOnSet(f, Rest(s)) = SumFunctionOnSet(g, Rest(s))
    BY <1>2, <1>4
<1>6. IsFiniteSet(s) /\ f[Pick(s)] = g[Pick(s)]
    BY <1>2, <1>4, FS_Subset
<1>. QED
    BY <1>2, <1>3, <1>5, <1>6, SumRest

\* The sum of sums is the sum of the functions' sum.
LEMMA SumPlus ==
    ASSUME NEW f, NEW g, NEW h, NEW S, IsFiniteSet(S),
           \A i \in S : f[i] \in Int /\ g[i] \in Int /\ h[i] = f[i] + g[i]
    PROVE  SumFunctionOnSet(h, S) = SumFunctionOnSet(f, S) + SumFunctionOnSet(g, S)
<1> DEFINE Wrong(s) == SumFunctionOnSet(h, s)
                       # SumFunctionOnSet(f, s) + SumFunctionOnSet(g, s)
           F == {s \in SUBSET S : Wrong(s)}
<1> SUFFICES ASSUME Wrong(S) PROVE FALSE
    OBVIOUS
<1>1. F \in SUBSET SUBSET S /\ F # {}
    OBVIOUS
<1> HIDE DEF F
<1>2. PICK s \in F : \A t \in F : t \subseteq s => t = s
    BY <1>1, SmallestSet
<1> USE DEF F
<1>3. s # {}
    <2>1. ~Wrong({})
        <3>1. /\ SumFunctionOnSet(f, {}) = 0 /\ SumFunctionOnSet(g, {}) = 0
              /\ SumFunctionOnSet(h, {}) = 0
            BY SumEmpty
        <3>. QED
            BY <3>1
    <2>. QED
        BY <1>2, <2>1
<1>4. Rest(s) \subseteq s /\ Rest(s) # s /\ Pick(s) \in s
    BY <1>3, PickIn DEF Rest
<1>5. ~Wrong(Rest(s))
    BY <1>2, <1>4
<1>6. IsFiniteSet(s) /\ IsFiniteSet(Rest(s))
    BY <1>2, <1>4, FS_Subset
<1>7. /\ f[Pick(s)] \in Int /\ g[Pick(s)] \in Int
      /\ h[Pick(s)] = f[Pick(s)] + g[Pick(s)]
      /\ SumFunctionOnSet(f, Rest(s)) \in Int
      /\ SumFunctionOnSet(g, Rest(s)) \in Int
    BY <1>2, <1>4, <1>6, SumInt
<1>8. /\ SumFunctionOnSet(f, s) = f[Pick(s)] + SumFunctionOnSet(f, Rest(s))
      /\ SumFunctionOnSet(g, s) = g[Pick(s)] + SumFunctionOnSet(g, Rest(s))
      /\ SumFunctionOnSet(h, s) = h[Pick(s)] + SumFunctionOnSet(h, Rest(s))
    BY <1>3, <1>6, SumRest
<1>. QED
    BY <1>2, <1>5, <1>7, <1>8

\* Zeros add up to zero.
LEMMA SumZero ==
    ASSUME NEW f, NEW S, IsFiniteSet(S), \A i \in S : f[i] = 0
    PROVE  SumFunctionOnSet(f, S) = 0
<1> DEFINE F == {s \in SUBSET S : SumFunctionOnSet(f, s) # 0}
<1> SUFFICES ASSUME SumFunctionOnSet(f, S) # 0 PROVE FALSE
    OBVIOUS
<1>1. F \in SUBSET SUBSET S /\ F # {}
    OBVIOUS
<1> HIDE DEF F
<1>2. PICK s \in F : \A t \in F : t \subseteq s => t = s
    BY <1>1, SmallestSet
<1> USE DEF F
<1>3. s # {}
    BY <1>2, SumEmpty
<1>4. Rest(s) \subseteq s /\ Rest(s) # s /\ Pick(s) \in s
    BY <1>3, PickIn DEF Rest
<1>5. IsFiniteSet(s) /\ SumFunctionOnSet(f, Rest(s)) = 0 /\ f[Pick(s)] = 0
    BY <1>2, <1>4, FS_Subset
<1>. QED
    BY <1>2, <1>3, <1>5, SumRest

\* Of a function that is zero but at one element the sum is its value there.
LEMMA SumOne ==
    ASSUME NEW f, NEW S, IsFiniteSet(S), NEW x \in S, f[x] \in Int,
           \A i \in S \ {x} : f[i] = 0
    PROVE  SumFunctionOnSet(f, S) = f[x]
<1>1. IsFiniteSet(S \ {x}) /\ \A i \in S : f[i] \in Int
    BY FS_RemoveElement
<1>2. SumFunctionOnSet(f, S \ {x}) = 0
    BY <1>1, SumZero
<1>. QED
    BY <1>1, <1>2, SumWithout

\* The sum over disjoint sets is the sum of their sums.
LEMMA SumUnion ==
    ASSUME NEW f, NEW S, IsFiniteSet(S), NEW T, IsFiniteSet(T), S \intersect T = {},
           \A i \in S \union T : f[i] \in Int
    PROVE  SumFunctionOnSet(f, S \union T)
               = SumFunctionOnSet(f, S) + SumFunctionOnSet(f, T)
<1> DEFINE Wrong(t) == SumFunctionOnSet(f, S \union t)
                       # SumFunctionOnSet(f, S) + SumFunctionOnSet(f, t)
           F == {t \in SUBSET T : Wrong(t)}
<1> SUFFICES ASSUME Wrong(T) PROVE FALSE
    OBVIOUS
<1>1. F \in SUBSET SUBSET T /\ F # {}
    OBVIOUS
<1> HIDE DEF F
<1>2. PICK s \in F : \A t \in F : t \subseteq s => t = s
    BY <1>1, SmallestSet
<1> USE DEF F
<1>3. SumFunctionOnSet(f, S) \in Int
    BY SumInt
<1>4. s # {}
    <2>1. ~Wrong({})
        BY <1>3, SumEmpty
    <2>. QED
        BY <1>2, <2>1
<1>5. PICK x \in s : TRUE
    BY <1>4
<1>6. IsFiniteSet(s) /\ IsFiniteSet(s \ {x}) /\ x \in T /\ f[x] \in Int
    BY <1>2, FS_Subset, FS_RemoveElement
<1>7. ~Wrong(s \ {x})
    BY <1>2
<1>8. SumFunctionOnSet(f, s \ {x}) \in Int
    BY <1>6, SumInt
<1>9. SumFunctionOnSet(f, s) = f[x] + SumFunctionOnSet(f, s \ {x})
    BY <1>6, SumWithout
<1>10. SumFunctionOnSet(f, S \union s) = f[x] + SumFunctionOnSet(f, S \union (s \ {x}))
    <2> DEFINE U == S \union s
    <2>1. IsFiniteSet(U) /\ x \in U /\ U \ {x} = S \union (s \ {x})
        BY <1>6, FS_Union
    <2>2. \A i \in U : f[i] \in Int
        OBVIOUS
    <2> HIDE DEF U
    <2>3. SumFunctionOnSet(f, U) = f[x] + SumFunctionOnSet(f, U \ {x})
        BY <2>1, <2>2, SumWithout
    <2>. QED
        BY <2>1, <2>3 DEF U
<1>. QED
    BY <1>2, <1>3, <1>6, <1>7, <1>8, <1>9, <1>10
=============================================================================

----------------------------- MODULE SumTheorems -----------------------------
(***************************************************************************)
(* Facts about SumFunctionOnSet, the sum of a function's values over a     *)
(* finite set, that hold for every function and set.  The provers have no  *)
(* induction over finite sets; they are given a least counterexample       *)
(* instead (MinimalSet).                                                   *)
(***************************************************************************)
EXTENDS Integers, Functions, FiniteSetTheorems, WellFoundedInduction, TLAPS

\* A family of finite sets has a member that no other is a part of.
LEMMA MinimalSet ==
    ASSUME NEW S, NEW F \in SUBSET FiniteSubsetsOf(S), F # {}
    PROVE  \E T \in F : \A U \in F : U \subseteq T => U = T
<1>1. \E T \in F : \A U \in F : ~ (<<U, T>> \in StrictSubsetOrdering(S))
  BY FS_StrictSubsetOrderingWellFounded, WFMin
<1>2. QED
  BY <1>1 DEF StrictSubsetOrdering, FiniteSubsetsOf

-----------------------------------------------------------------------------
\* The recursion that the sum is defined by.

Pick(S) == CHOOSE x \in S : TRUE

Unfolded(f, g, S) == IF S = {} THEN 0 ELSE f[Pick(S)] + g[S \ {Pick(S)}]

\* g gives the sum of f over each subset of S.
SumsUp(f, g, S) == g = [T \in SUBSET S |-> Unfolded(f, g, T)]

LEMMA SumIsChosen ==
    ASSUME NEW f, NEW S
    PROVE  SumFunctionOnSet(f, S) = (CHOOSE g : SumsUp(f, g, S))[S]
BY DEF SumFunctionOnSet, FoldFunctionOnSet, MapThenFoldSet, SumsUp, Unfolded, Pick

LEMMA PickIsIn == \A S : S # {} => Pick(S) \in S
BY DEF Pick

\* Two functions that sum up agree where both are defined.
LEMMA SumsAgree ==
    ASSUME NEW f, NEW S, IsFiniteSet(S), NEW T, IsFiniteSet(T),
           NEW g, SumsUp(f, g, S), NEW h, SumsUp(f, h, T),
           NEW U, U \subseteq S, U \subseteq T
    PROVE  g[U] = h[U]
<1> DEFINE F == {V \in SUBSET U : g[V] # h[V]}
<1>1. F \in SUBSET FiniteSubsetsOf(U)
  BY FS_Subset DEF FiniteSubsetsOf
<1>2. SUFFICES ASSUME F # {} PROVE FALSE
  OBVIOUS
<1> HIDE DEF F
<1>3. PICK V \in F : \A W \in F : W \subseteq V => W = V
  BY <1>1, <1>2, MinimalSet
<1> USE DEF F
<1>4. V \in SUBSET S /\ V \in SUBSET T /\ g[V] # h[V]
  OBVIOUS
<1>5. g[V] = Unfolded(f, g, V) /\ h[V] = Unfolded(f, h, V)
  BY <1>4 DEF SumsUp
<1>6. V # {}
  BY <1>4, <1>5 DEF Unfolded
<1>7. V \ {Pick(V)} \notin F
  BY <1>3, <1>6, PickIsIn
<1>8. g[V \ {Pick(V)}] = h[V \ {Pick(V)}]
  BY <1>7
<1>9. QED
  BY <1>4, <1>5, <1>6, <1>8 DEF Unfolded

\* For every finite set there is one.
LEMMA SumsExist ==
    ASSUME NEW f, NEW S, IsFiniteSet(S)
    PROVE  \E g : SumsUp(f, g, S)
<1> DEFINE F == {T \in SUBSET S : ~ \E g : SumsUp(f, g, T)}
<1>1. F \in SUBSET FiniteSubsetsOf(S)
  BY FS_Subset DEF FiniteSubsetsOf
<1>2. SUFFICES ASSUME F # {} PROVE FALSE
  OBVIOUS
<1> HIDE DEF F
<1>3. PICK T \in F : \A U \in F : U \subseteq T => U = T
  BY <1>1, <1>2, MinimalSet
<1> USE DEF F
<1> DEFINE G(U) == CHOOSE g : SumsUp(f, g, U)
           h == [U \in SUBSET T |->
                    IF U = {} THEN 0
                    ELSE f[Pick(U)] + G(U \ {Pick(U)})[U \ {Pick(U)}]]
<1>4. ASSUME NEW U, U \subseteq T, U # T
      PROVE  IsFiniteSet(U) /\ SumsUp(f, G(U), U)
  <2>1. U \notin F /\ U \in SUBSET S
    BY <1>3, <1>4
  <2>2. IsFiniteSet(U)
    BY <2>1, FS_Subset
  <2>3. \E g : SumsUp(f, g, U)
    BY <2>1
  <2>4. QED
    BY <2>2, <2>3
<1>5. ASSUME NEW U, U \subseteq T, U # T
      PROVE  h[U] = G(U)[U]
  <2> DEFINE V == U \ {Pick(U)}
  <2>1. G(U)[U] = Unfolded(f, G(U), U)
    <3>1. \A g : SumsUp(f, g, U) => g[U] = Unfolded(f, g, U)
      BY DEF SumsUp
    <3> HIDE DEF G
    <3>2. QED
      BY <1>4, <1>5, <3>1
  <2>2. CASE U = {}
    BY <2>1, <2>2 DEF Unfolded
  <2>3. CASE U # {}
    <3>1. V \subseteq U /\ V \subseteq T /\ V # T
      BY <1>5, <2>3, PickIsIn
    <3>2. G(U)[V] = G(V)[V]
      <4> HIDE DEF G, V
      <4>1. QED
        BY <1>4, <1>5, <3>1, SumsAgree
    <3>3. h[U] = f[Pick(U)] + G(V)[V]
      BY <1>5, <2>3
    <3>4. G(U)[U] = f[Pick(U)] + G(U)[V]
      BY <2>1, <2>3 DEF Unfolded
    <3>5. QED
      BY <3>2, <3>3, <3>4
  <2>4. QED
    BY <2>2, <2>3
<1>6. ASSUME NEW U \in SUBSET T PROVE h[U] = Unfolded(f, h, U)
  <2>1. CASE U = {}
    BY <2>1 DEF Unfolded
  <2>2. CASE U # {}
    <3>1. U \ {Pick(U)} \subseteq T /\ U \ {Pick(U)} # T
      BY <2>2, PickIsIn
    <3>2. h[U \ {Pick(U)}] = G(U \ {Pick(U)})[U \ {Pick(U)}]
      BY <1>5, <3>1
    <3>3. QED
      BY <2>2, <3>2 DEF Unfolded
  <2>3. QED
    BY <2>1, <2>2
<1> HIDE DEF G
<1>7. SumsUp(f, h, T)
  <2>1. h = [U \in SUBSET T |-> h[U]]
    OBVIOUS
  <2> HIDE DEF h
  <2>2. QED
    BY <1>6, <2>1 DEF SumsUp
<1>8. QED
  BY <1>7

\* The sum unfolds.
LEMMA SumUnfolds ==
    ASSUME NEW f, NEW S, IsFiniteSet(S)
    PROVE  SumFunctionOnSet(f, S) =
              IF S = {} THEN 0
              ELSE f[Pick(S)] + SumFunctionOnSet(f, S \ {Pick(S)})
<1> DEFINE g == CHOOSE g : SumsUp(f, g, S)
           T == S \ {Pick(S)}
           h == CHOOSE h : SumsUp(f, h, T)
<1>1. IsFiniteSet(T)
  BY FS_Subset
<1>2. SumsUp(f, g, S)
  BY SumsExist
<1>3. SumsUp(f, h, T)
  BY <1>1, SumsExist
<1>4. SumFunctionOnSet(f, S) = g[S] /\ SumFunctionOnSet(f, T) = h[T]
  BY SumIsChosen
<1> HIDE DEF g, h
<1>5. g[S] = Unfolded(f, g, S)
  BY <1>2 DEF SumsUp
<1>6. g[T] = h[T]
  BY <1>1, <1>2, <1>3, SumsAgree
<1>7. QED
  BY <1>4, <1>5, <1>6 DEF Unfolded

-----------------------------------------------------------------------------
\* What follows of the sum, whichever element it picks first.

\* The sum over a set of numbers is one.
LEMMA SumType ==
    ASSUME NEW f, NEW S, IsFiniteSet(S), \A x \in S : f[x] \in Int
    PROVE  SumFunctionOnSet(f, S) \in Int
<1> DEFINE F == {T \in SUBSET S : SumFunctionOnSet(f, T) \notin Int}
<1>1. F \in SUBSET FiniteSubsetsOf(S)
  BY FS_Subset DEF FiniteSubsetsOf
<1>2. SUFFICES ASSUME F # {} PROVE FALSE
  OBVIOUS
<1> HIDE DEF F
<1>3. PICK T \in F : \A U \in F : U \subseteq T => U = T
  BY <1>1, <1>2, MinimalSet
<1> USE DEF F
<1>4. IsFiniteSet(T) /\ T \subseteq S
  BY FS_Subset
<1>5. SumFunctionOnSet(f, T) =
         IF T = {} THEN 0 ELSE f[Pick(T)] + SumFunctionOnSet(f, T \ {Pick(T)})
  BY <1>4, SumUnfolds
<1>6. T # {}
  BY <1>5
<1>7. f[Pick(T)] \in Int /\ T \ {Pick(T)} \notin F
  BY <1>3, <1>4, <1>6, PickIsIn
<1>8. QED
  BY <1>4, <1>5, <1>6, <1>7

\* Any element can be taken out.
LEMMA SumRemove ==
    ASSUME NEW f, NEW S, IsFiniteSet(S), \A x \in S : f[x] \in Int, NEW y \in S
    PROVE  SumFunctionOnSet(f, S) = f[y] + SumFunctionOnSet(f, S \ {y})
<1> DEFINE Sum(T) == SumFunctionOnSet(f, T)
           F == {T \in SUBSET S : \E x \in T : Sum(T) # f[x] + Sum(T \ {x})}
<1>1. F \in SUBSET FiniteSubsetsOf(S)
  BY FS_Subset DEF FiniteSubsetsOf
<1>2. SUFFICES ASSUME F # {} PROVE FALSE
  OBVIOUS
<1> HIDE DEF F
<1>3. PICK T \in F : \A U \in F : U \subseteq T => U = T
  BY <1>1, <1>2, MinimalSet
<1> USE DEF F
<1>4. PICK x \in T : Sum(T) # f[x] + Sum(T \ {x})
  OBVIOUS
<1> DEFINE p == Pick(T)
<1>5. p \in T /\ T \subseteq S
  BY PickIsIn
<1>6. \A U \in SUBSET S : IsFiniteSet(U) /\ Sum(U) \in Int
  BY FS_Subset, SumType
<1>7. Sum(T) = f[p] + Sum(T \ {p})
  BY <1>5, <1>6, SumUnfolds
<1>8. x # p
  BY <1>4, <1>7
<1>9. T \ {p} \notin F /\ T \ {x} \notin F
  BY <1>3, <1>5
<1> HIDE DEF p, Sum
<1>10. Sum(T \ {p}) = f[x] + Sum((T \ {p}) \ {x})
  BY <1>5, <1>8, <1>9
<1>11. Sum(T \ {x}) = f[p] + Sum((T \ {x}) \ {p})
  BY <1>5, <1>8, <1>9
<1>12. Sum((T \ {p}) \ {x}) = Sum((T \ {x}) \ {p})
  <2>1. (T \ {p}) \ {x} = (T \ {x}) \ {p}
    OBVIOUS
  <2>2. QED
    BY <2>1
<1>13. /\ f[x] \in Int /\ f[p] \in Int
       /\ Sum((T \ {x}) \ {p}) \in Int
  BY <1>5, <1>6
<1>14. \A a, b, c \in Int : a + (b + c) = b + (a + c)
  OBVIOUS
<1>15. QED
  BY <1>4, <1>7, <1>10, <1>11, <1>12, <1>13, <1>14

LEMMA SumEmpty == \A f : SumFunctionOnSet(f, {}) = 0
BY SumUnfolds, FS_EmptySet

LEMMA SumAdd ==
    ASSUME NEW f, NEW S, IsFiniteSet(S), NEW y, y \notin S,
           \A x \in S \cup {y} : f[x] \in Int
    PROVE  SumFunctionOnSet(f, S \cup {y}) = f[y] + SumFunctionOnSet(f, S)
<1>1. IsFiniteSet(S \cup {y}) /\ (S \cup {y}) \ {y} = S
  BY FS_AddElement
<1>2. QED
  BY <1>1, SumRemove

\* Only the values on the set matter.
LEMMA SumSame ==
    ASSUME NEW f, NEW g, NEW S, IsFiniteSet(S), \A x \in S : f[x] = g[x]
    PROVE  SumFunctionOnSet(f, S) = SumFunctionOnSet(g, S)
<1> DEFINE F == {T \in SUBSET S : SumFunctionOnSet(f, T) # SumFunctionOnSet(g, T)}
<1>1. F \in SUBSET FiniteSubsetsOf(S)
  BY FS_Subset DEF FiniteSubsetsOf
<1>2. SUFFICES ASSUME F # {} PROVE FALSE
  OBVIOUS
<1> HIDE DEF F
<1>3. PICK T \in F : \A U \in F : U \subseteq T => U = T
  BY <1>1, <1>2, MinimalSet
<1> USE DEF F
<1>4. IsFiniteSet(T) /\ T \subseteq S
  BY FS_Subset
<1>5. /\ SumFunctionOnSet(f, T) =
             IF T = {} THEN 0 ELSE f[Pick(T)] + SumFunctionOnSet(f, T \ {Pick(T)})
      /\ SumFunctionOnSet(g, T) =
             IF T = {} THEN 0 ELSE g[Pick(T)] + SumFunctionOnSet(g, T \ {Pick(T)})
  BY <1>4, SumUnfolds
<1>6. T # {}
  BY <1>5
<1>7. f[Pick(T)] = g[Pick(T)] /\ T \ {Pick(T)} \notin F
  BY <1>3, <1>4, <1>6, PickIsIn
<1>8. QED
  BY <1>4, <1>5, <1>6, <1>7

\* The sum of numbers that are not negative is not.
LEMMA SumIsNat ==
    ASSUME NEW f, NEW S, IsFiniteSet(S), \A x \in S : f[x] \in Nat
    PROVE  SumFunctionOnSet(f, S) \in Nat
<1> DEFINE F == {T \in SUBSET S : SumFunctionOnSet(f, T) \notin Nat}
<1>1. F \in SUBSET FiniteSubsetsOf(S)
  BY FS_Subset DEF FiniteSubsetsOf
<1>2. SUFFICES ASSUME F # {} PROVE FALSE
  OBVIOUS
<1> HIDE DEF F
<1>3. PICK T \in F : \A U \in F : U \subseteq T => U = T
  BY <1>1, <1>2, MinimalSet
<1> USE DEF F
<1>4. IsFiniteSet(T) /\ T \subseteq S
  BY FS_Subset
<1>5. SumFunctionOnSet(f, T) =
         IF T = {} THEN 0 ELSE f[Pick(T)] + SumFunctionOnSet(f, T \ {Pick(T)})
  BY <1>4, SumUnfolds
<1>6. T # {}
  BY <1>5
<1>7. f[Pick(T)] \in Nat /\ T \ {Pick(T)} \notin F
  BY <1>3, <1>4, <1>6, PickIsIn
<1>8. QED
  BY <1>4, <1>5, <1>6, <1>7

\* Renaming the elements, one to one, leaves the sum as it is.
Renames(h, f, g, S, T) ==
    /\ \A x, y \in S : h[x] = h[y] => x = y
    /\ \A x \in S : h[x] \in T
    /\ \A z \in T : \E x \in S : h[x] = z
    /\ \A x \in S : f[x] \in Int /\ g[h[x]] = f[x]

LEMMA SumRenamed ==
    ASSUME NEW f, NEW g, NEW S, IsFiniteSet(S), NEW h, NEW R, Renames(h, f, g, S, R)
    PROVE  SumFunctionOnSet(g, R) = SumFunctionOnSet(f, S)
<1>0. /\ \A x, y \in S : h[x] = h[y] => x = y
      /\ \A x \in S : f[x] \in Int /\ g[h[x]] = f[x]
      /\ \A x \in S : h[x] \in R
      /\ \A z \in R : \E x \in S : h[x] = z
  BY DEF Renames
<1> DEFINE Named(T) == {h[x] : x \in T}
           F == {T \in SUBSET S : SumFunctionOnSet(g, Named(T)) # SumFunctionOnSet(f, T)}
<1>1. F \in SUBSET FiniteSubsetsOf(S)
  BY FS_Subset DEF FiniteSubsetsOf
<1>2. SUFFICES ASSUME F # {} PROVE FALSE
  <2>1. Named(S) = R
    BY <1>0
  <2>2. S \notin F => SumFunctionOnSet(g, Named(S)) = SumFunctionOnSet(f, S)
    OBVIOUS
  <2>3. QED
    BY <2>1, <2>2
<1> HIDE DEF F
<1>3. PICK T \in F : \A U \in F : U \subseteq T => U = T
  BY <1>1, <1>2, MinimalSet
<1>4. T \in SUBSET S /\ SumFunctionOnSet(g, Named(T)) # SumFunctionOnSet(f, T)
  BY DEF F
<1>5. IsFiniteSet(T) /\ IsFiniteSet(Named(T))
  <2> DEFINE p == [x \in T |-> h[x]]
  <2>1. IsFiniteSet(T)
    BY <1>4, FS_Subset
  <2>2. p \in [T -> Named(T)] /\ \A z \in Named(T) : \E x \in T : p[x] = z
    OBVIOUS
  <2> HIDE DEF p, Named
  <2>3. p \in Surjection(T, Named(T))
    BY <2>2 DEF Surjection
  <2>4. QED
    BY <2>1, <2>3, FS_Surjection
<1>6. T # {}
  <2>1. Named({}) = {}
    OBVIOUS
  <2>2. QED
    BY <1>4, <2>1, SumEmpty
<1>7. PICK y \in T : TRUE
  BY <1>6
<1> DEFINE U == T \ {y}
<1>8. SumFunctionOnSet(g, Named(U)) = SumFunctionOnSet(f, U)
  <2>1. U \subseteq T /\ U # T
    BY <1>7
  <2>2. U \notin F
    BY <1>3, <2>1
  <2>3. QED
    BY <1>4, <2>1, <2>2 DEF F
<1>9. Named(T) \ {h[y]} = Named(U) /\ h[y] \in Named(T)
  BY <1>0, <1>4, <1>7
<1>10. SumFunctionOnSet(f, T) = f[y] + SumFunctionOnSet(f, U)
  BY <1>0, <1>4, <1>5, <1>7, SumRemove
<1>11. SumFunctionOnSet(g, Named(T)) = g[h[y]] + SumFunctionOnSet(g, Named(U))
  <2>1. \A z \in Named(T) : g[z] \in Int
    BY <1>0, <1>4
  <2> HIDE DEF Named, U
  <2>2. QED
    BY <1>5, <1>9, <2>1, SumRemove
<1>12. QED
  BY <1>0, <1>4, <1>7, <1>8, <1>10, <1>11

-----------------------------------------------------------------------------
\* The same of SumFunction, which sums over the domain.

LEMMA SumFunctionEmpty ==
    ASSUME NEW f, DOMAIN f = {}
    PROVE  SumFunction(f) = 0
BY SumEmpty DEF SumFunction

LEMMA SumFunctionType ==
    ASSUME NEW f, IsFiniteSet(DOMAIN f), \A x \in DOMAIN f : f[x] \in Int
    PROVE  SumFunction(f) \in Int
BY SumType DEF SumFunction

\* One value more.
LEMMA SumFunctionAdd ==
    ASSUME NEW f, NEW g, NEW y, IsFiniteSet(DOMAIN f), y \notin DOMAIN f,
           DOMAIN g = DOMAIN f \cup {y},
           \A x \in DOMAIN f : g[x] = f[x],
           \A x \in DOMAIN g : g[x] \in Int
    PROVE  SumFunction(g) = SumFunction(f) + g[y]
<1>1. SumFunction(g) = g[y] + SumFunctionOnSet(g, DOMAIN f)
  BY SumAdd DEF SumFunction
<1>2. SumFunctionOnSet(g, DOMAIN f) = SumFunction(f)
  BY SumSame DEF SumFunction
<1>3. SumFunction(f) \in Int
  <2>1. \A x \in DOMAIN f : f[x] \in Int
    OBVIOUS
  <2>2. QED
    BY <2>1, SumFunctionType
<1>4. QED
  BY <1>1, <1>2, <1>3
=============================================================================

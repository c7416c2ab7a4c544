------------------------------ MODULE Folding -------------------------------
(***************************************************************************)
(* Induction over the data of the models, which fold over sets and over    *)
(* sequences with the operators of the community modules.  These are       *)
(* defined by recursion over sets; what a recursion computes is proved by  *)
(* looking at a smallest set for which it would be wrong.                  *)
(*                                                                         *)
(* The step of a fold over a sequence is a constant operator: the lemmas   *)
(* about it hold for whatever operator a module puts in its place with     *)
(* INSTANCE.  The lemmas about sums say that the order does not matter.    *)
(***************************************************************************)
EXTENDS Integers, FiniteSets, FiniteSetsExt, FiniteSetTheorems,
        SequenceTheorems, WellFoundedInduction, TLAPS

CONSTANT Op(_, _)  \* what a fold makes of its result so far and an element

-----------------------------------------------------------------------------
(* Smallest sets *)

\* Among subsets of a finite set there is a smallest one.
LEMMA Smallest ==
  ASSUME NEW S, IsFiniteSet(S), NEW X, X \subseteq SUBSET S, X # {}
  PROVE  \E m \in X : \A y \in X : ~ (y \subseteq m /\ y # m)
<1>1. IsWellFoundedOn(StrictSubsetOrdering(S), SUBSET S)
  BY FS_StrictSubsetOrderingWellFounded, FS_FiniteSubsetsOfFinite
<1>2. \E m \in X : \A y \in X : ~ (<<y, m>> \in StrictSubsetOrdering(S))
  BY <1>1, WFMin
<1> QED BY <1>2 DEF StrictSubsetOrdering

-----------------------------------------------------------------------------
(* Sums over a set *)

SumOf(f, S) == MapThenSumSet(LAMBDA x : f[x], S)

\* The element the recursion takes from a set.
Taken(s) == CHOOSE x \in s : TRUE

\* A function that does what the recursion inside MapThenSumSet says.
SumsUp(f, S, it) ==
  it = [s \in SUBSET S |-> IF s = {} THEN 0
                           ELSE f[Taken(s)] + it[s \ {Taken(s)}]]

\* Some element is taken.
LEMMA TakenIn == ASSUME NEW s, s # {} PROVE Taken(s) \in s
BY DEF Taken

\* Two such functions, for a set and for a subset of it, agree on the subset.
LEMMA SumsAgree ==
  ASSUME NEW S, IsFiniteSet(S), NEW T, T \subseteq S, NEW f, NEW a, NEW b,
         SumsUp(f, S, a), SumsUp(f, T, b)
  PROVE  \A v \in SUBSET T : a[v] = b[v]
<1> DEFINE Wrong == {v \in SUBSET T : a[v] # b[v]}
<1>1. SUFFICES ASSUME Wrong # {} PROVE FALSE
  OBVIOUS
<1>2. IsFiniteSet(T)
  BY FS_Subset
<1>3. PICK m \in Wrong : \A y \in Wrong : ~ (y \subseteq m /\ y # m)
  <2> HIDE DEF Wrong
  <2>1. Wrong \subseteq SUBSET T
    BY DEF Wrong
  <2> QED BY <1>1, <1>2, <2>1, Smallest
<1>4. m \subseteq T /\ m \subseteq S
  OBVIOUS
<1>5. m # {}
  BY <1>3 DEF SumsUp
<1> DEFINE n == m \ {Taken(m)}
<1>6. n \subseteq T /\ n \subseteq m /\ n # m
  BY <1>4, <1>5, TakenIn
<1>7. a[n] = b[n]
  BY <1>3, <1>6
<1>8. a[m] = f[Taken(m)] + a[n] /\ b[m] = f[Taken(m)] + b[n]
  BY <1>4, <1>5 DEF SumsUp
<1> QED BY <1>7, <1>8

\* There is such a function, so that CHOOSE finds it.
LEMMA SumsExist ==
  ASSUME NEW S, IsFiniteSet(S), NEW f
  PROVE  \E it : SumsUp(f, S, it)
<1> DEFINE Without == {T \in SUBSET S : ~ \E it : SumsUp(f, T, it)}
<1>1. SUFFICES ASSUME Without # {} PROVE FALSE
  OBVIOUS
<1>2. PICK m \in Without : \A y \in Without : ~ (y \subseteq m /\ y # m)
  <2> HIDE DEF Without
  <2>1. Without \subseteq SUBSET S
    BY DEF Without
  <2> QED BY <1>1, <2>1, Smallest
<1>3. m \subseteq S /\ ~ \E it : SumsUp(f, m, it)
  OBVIOUS
<1> DEFINE W(T) == CHOOSE it : SumsUp(f, T, it)
<1>4. \A T \in SUBSET m : T # m => SumsUp(f, T, W(T)) /\ IsFiniteSet(T)
  <2> TAKE T \in SUBSET m
  <2> HAVE T # m
  <2>1. T \subseteq S /\ T \notin Without
    BY <1>2, <1>3
  <2>2. \E it : SumsUp(f, T, it)
    BY <2>1
  <2>3. SumsUp(f, T, W(T))
    BY <2>2
  <2> QED BY <2>1, <2>3, FS_Subset
<1> DEFINE whole == [s \in SUBSET m |-> IF s = {} THEN 0
                       ELSE f[Taken(s)]
                            + W(s \ {Taken(s)})[s \ {Taken(s)}]]
<1>5. \A u \in SUBSET m : u # m => W(u)[u] = whole[u]
  <2> TAKE u \in SUBSET m
  <2> HAVE u # m
  <2> DEFINE v == u \ {Taken(u)}
  <2>1. SumsUp(f, u, W(u)) /\ IsFiniteSet(u)
    BY <1>4
  <2>2. CASE u = {}
    <3> HIDE DEF W
    <3>1. W(u)[u] = 0
      BY <2>1, <2>2 DEF SumsUp
    <3> QED BY <2>2, <3>1
  <2>3. CASE u # {}
    <3>1. v \subseteq u /\ v \in SUBSET m /\ v # m
      BY <2>3, TakenIn
    <3>2. SumsUp(f, v, W(v))
      BY <1>4, <3>1
    <3> HIDE DEF W
    <3>3. W(u)[v] = W(v)[v]
      BY <2>1, <3>1, <3>2, SumsAgree
    <3>4. W(u)[u] = f[Taken(u)] + W(u)[v]
      BY <2>1, <2>3 DEF SumsUp
    <3>5. whole[u] = f[Taken(u)] + W(v)[v]
      BY <2>3
    <3> QED BY <3>3, <3>4, <3>5
  <2> QED BY <2>2, <2>3
<1>6. \A s \in SUBSET m : s # {} =>
        /\ s \ {Taken(s)} \in SUBSET m
        /\ s \ {Taken(s)} # m
  BY TakenIn
<1>7. SumsUp(f, m, whole)
  <2> HIDE DEF W
  <2>1. \A s \in SUBSET m :
          whole[s] = IF s = {} THEN 0
                     ELSE f[Taken(s)] + whole[s \ {Taken(s)}]
    BY <1>5, <1>6
  <2>2. whole = [s \in SUBSET m |-> whole[s]]
    OBVIOUS
  <2> HIDE DEF whole
  <2> QED BY <2>1, <2>2 DEF SumsUp
<1> QED BY <1>3, <1>7

\* The sum is what the recursion gives for any function that does what it says.
LEMMA SumIs ==
  ASSUME NEW S, IsFiniteSet(S), NEW f, NEW T, T \subseteq S, NEW it,
         SumsUp(f, S, it)
  PROVE  SumOf(f, T) = it[T]
<1> DEFINE W == CHOOSE w : SumsUp(f, T, w)
<1>1. SumOf(f, T) = W[T]
  BY DEF SumOf, MapThenSumSet, MapThenFoldSet, SumsUp, Taken
<1>2. IsFiniteSet(T)
  BY FS_Subset
<1>3. \E w : SumsUp(f, T, w)
  BY <1>2, SumsExist
<1>4. SumsUp(f, T, W)
  BY <1>3
<1> HIDE DEF W
<1>5. it[T] = W[T]
  BY <1>4, SumsAgree
<1> QED BY <1>1, <1>5

\* The sum over nothing is zero; any other takes one element away.
LEMMA SumEmpty == ASSUME NEW f PROVE SumOf(f, {}) = 0
<1>1. IsFiniteSet({})
  BY FS_EmptySet
<1>2. PICK it : SumsUp(f, {}, it)
  BY <1>1, SumsExist
<1>3. SumOf(f, {}) = it[{}]
  BY <1>1, <1>2, SumIs
<1> QED BY <1>2, <1>3 DEF SumsUp

LEMMA SumTakes ==
  ASSUME NEW S, IsFiniteSet(S), S # {}, NEW f
  PROVE  SumOf(f, S) = f[Taken(S)] + SumOf(f, S \ {Taken(S)})
<1>1. PICK it : SumsUp(f, S, it)
  BY SumsExist
<1>2. SumOf(f, S) = it[S] /\ SumOf(f, S \ {Taken(S)}) = it[S \ {Taken(S)}]
  BY <1>1, SumIs
<1> QED BY <1>1, <1>2 DEF SumsUp

\* A sum of integers is an integer, and any element may be taken first.
LEMMA SumRemove ==
  ASSUME NEW D, NEW f \in [D -> Int], NEW S, IsFiniteSet(S), S \subseteq D
  PROVE  /\ SumOf(f, S) \in Int
         /\ \A x \in S : SumOf(f, S) = f[x] + SumOf(f, S \ {x})
<1> DEFINE Good(T) == /\ SumOf(f, T) \in Int
                      /\ \A x \in T : SumOf(f, T) = f[x] + SumOf(f, T \ {x})
           Bad == {T \in SUBSET S : ~ Good(T)}
<1>1. SUFFICES ASSUME Bad # {} PROVE FALSE
  OBVIOUS
<1>2. PICK m \in Bad : \A y \in Bad : ~ (y \subseteq m /\ y # m)
  <2> HIDE DEF Bad
  <2>1. Bad \subseteq SUBSET S
    BY DEF Bad
  <2> QED BY <1>1, <2>1, Smallest
<1>3. m \subseteq S /\ ~ Good(m)
  OBVIOUS
<1>4. \A T \in SUBSET m : T # m => Good(T)
  BY <1>2, <1>3
<1> HIDE DEF Good, Bad
<1>5. IsFiniteSet(m)
  BY <1>3, FS_Subset
<1>6. CASE m = {}
  BY <1>3, <1>6, SumEmpty DEF Good
<1>7. CASE m # {}
  <2> DEFINE c == Taken(m)
  <2>1. c \in m
    BY <1>7, TakenIn
  <2>2. SumOf(f, m) = f[c] + SumOf(f, m \ {c})
    BY <1>5, <1>7, SumTakes
  <2>3. Good(m \ {c})
    BY <1>4, <2>1
  <2> HIDE DEF c
  <2>4. f[c] \in Int /\ SumOf(f, m \ {c}) \in Int
    BY <1>3, <2>1, <2>3 DEF Good
  <2>5. SumOf(f, m) \in Int
    BY <2>2, <2>4
  <2>6. ASSUME NEW x \in m PROVE SumOf(f, m) = f[x] + SumOf(f, m \ {x})
    <3>1. CASE x = c
      BY <2>2, <3>1
    <3>2. CASE x # c
      <4> DEFINE r == m \ {c, x}
      <4>1. (m \ {c}) \ {x} = r /\ (m \ {x}) \ {c} = r
        OBVIOUS
      <4>2. Good(m \ {x}) /\ Good(r)
        BY <1>4, <2>6
      <4>3. SumOf(f, m \ {c}) = f[x] + SumOf(f, r)
        BY <2>3, <2>6, <3>2, <4>1 DEF Good
      <4>4. SumOf(f, m \ {x}) = f[c] + SumOf(f, r)
        BY <2>1, <3>2, <4>1, <4>2 DEF Good
      <4>5. f[x] \in Int /\ SumOf(f, r) \in Int
        BY <1>3, <2>6, <4>2 DEF Good
      <4> HIDE DEF r
      <4> QED BY ONLY <2>2, <2>4, <4>3, <4>4, <4>5
    <3> QED BY <3>1, <3>2
  <2> QED BY <1>3, <2>5, <2>6 DEF Good
<1> QED BY <1>6, <1>7

\* One element more.
LEMMA SumAdd ==
  ASSUME NEW D, NEW f \in [D -> Int], NEW S, IsFiniteSet(S), S \subseteq D,
         NEW x \in D, x \notin S
  PROVE  SumOf(f, S \cup {x}) = SumOf(f, S) + f[x]
<1> DEFINE T == S \cup {x}
<1>1. IsFiniteSet(T)
  BY FS_AddElement
<1>2. x \in T /\ T \subseteq D /\ T \ {x} = S
  OBVIOUS
<1>3. SumOf(f, S) \in Int
  BY SumRemove
<1> HIDE DEF T
<1>4. SumOf(f, T) = f[x] + SumOf(f, S)
  BY <1>1, <1>2, SumRemove
<1>5. f[x] \in Int
  OBVIOUS
<1> QED BY <1>3, <1>4, <1>5 DEF T

\* A sum of natural numbers is one.
LEMMA SumNatural ==
  ASSUME NEW D, NEW f \in [D -> Nat], NEW S, IsFiniteSet(S), S \subseteq D
  PROVE  SumOf(f, S) \in Nat
<1> DEFINE Bad == {T \in SUBSET S : SumOf(f, T) \notin Nat}
<1>1. SUFFICES ASSUME Bad # {} PROVE FALSE
  <2>1. S \in SUBSET S
    OBVIOUS
  <2>. QED BY <2>1
<1>2. PICK m \in Bad : \A y \in Bad : ~ (y \subseteq m /\ y # m)
  <2>1. Bad \subseteq SUBSET S
    OBVIOUS
  <2> HIDE DEF Bad
  <2>. QED BY <1>1, <2>1, Smallest
<1>3. m # {}
  <2>1. SumOf(f, m) \notin Nat
    OBVIOUS
  <2>2. SumOf(f, {}) = 0
    BY SumEmpty
  <2>. QED BY ONLY <2>1, <2>2
<1>4. PICK x \in m : TRUE
  BY <1>3
<1>5. m \ {x} \in SUBSET S /\ m \ {x} \notin Bad
  BY <1>2, <1>4
<1>6. SumOf(f, m \ {x}) \in Nat
  BY <1>5
<1>7. IsFiniteSet(m) /\ m \subseteq D /\ f \in [D -> Int]
  BY FS_Subset
<1>8. SumOf(f, m) = f[x] + SumOf(f, m \ {x})
  BY <1>4, <1>7, SumRemove
<1>. QED BY <1>4, <1>6, <1>7, <1>8

LEMMA SumZero ==
  ASSUME NEW D, NEW f \in [D -> Int], NEW S, IsFiniteSet(S), S \subseteq D,
         \A x \in S : f[x] = 0
  PROVE  SumOf(f, S) = 0
<1> DEFINE Bad == {T \in SUBSET S : SumOf(f, T) # 0}
<1>1. SUFFICES ASSUME Bad # {} PROVE FALSE
  <2>1. S \in SUBSET S
    OBVIOUS
  <2>. QED BY <2>1
<1>2. PICK m \in Bad : \A y \in Bad : ~ (y \subseteq m /\ y # m)
  <2>1. Bad \subseteq SUBSET S
    OBVIOUS
  <2> HIDE DEF Bad
  <2>. QED BY <1>1, <2>1, Smallest
<1>3. m # {}
  <2>1. SumOf(f, m) # 0
    OBVIOUS
  <2>2. SumOf(f, {}) = 0
    BY SumEmpty
  <2>. QED BY ONLY <2>1, <2>2
<1>4. PICK x \in m : TRUE
  BY <1>3
<1>5. m \ {x} \in SUBSET S /\ m \ {x} \notin Bad
  BY <1>2, <1>4
<1>6. SumOf(f, m \ {x}) = 0 /\ f[x] = 0
  BY <1>5
<1>7. IsFiniteSet(m) /\ m \subseteq D
  BY FS_Subset
<1>8. SumOf(f, m) = f[x] + SumOf(f, m \ {x})
  BY <1>4, <1>7, SumRemove
<1>. QED BY <1>6, <1>8

\* A sum of smaller terms is smaller.
LEMMA SumBelow ==
  ASSUME NEW D, NEW f \in [D -> Int], NEW g \in [D -> Int],
         NEW S, IsFiniteSet(S), S \subseteq D,
         \A x \in S : f[x] <= g[x]
  PROVE  SumOf(f, S) <= SumOf(g, S)
<1> DEFINE Bad == {T \in SUBSET S : ~ (SumOf(f, T) <= SumOf(g, T))}
<1>1. SUFFICES ASSUME Bad # {} PROVE FALSE
  OBVIOUS
<1>2. PICK m \in Bad : \A y \in Bad : ~ (y \subseteq m /\ y # m)
  <2>1. Bad \subseteq SUBSET S
    OBVIOUS
  <2> HIDE DEF Bad
  <2>. QED BY <1>1, <2>1, Smallest
<1>3. IsFiniteSet(m) /\ m \subseteq D /\ m \subseteq S
  BY FS_Subset
<1>4. m # {}
  <2>1. SumOf(f, {}) = 0 /\ SumOf(g, {}) = 0
    BY SumEmpty
  <2>. QED BY <2>1
<1>5. PICK x \in m : TRUE
  BY <1>4
<1>6. /\ SumOf(f, m) = f[x] + SumOf(f, m \ {x})
      /\ SumOf(g, m) = g[x] + SumOf(g, m \ {x})
  BY <1>3, <1>5, SumRemove
<1>7. IsFiniteSet(m \ {x}) /\ m \ {x} \subseteq D
  BY <1>3, FS_Subset
<1>8. SumOf(f, m \ {x}) \in Int /\ SumOf(g, m \ {x}) \in Int
  BY <1>7, SumRemove
<1>9. SumOf(f, m \ {x}) <= SumOf(g, m \ {x})
  <2>1. m \ {x} \subseteq m /\ m \ {x} # m
    BY <1>5
  <2>2. m \ {x} \notin Bad
    BY <1>2, <2>1
  <2>. QED BY <1>3, <2>2
<1>10. f[x] \in Int /\ g[x] \in Int /\ f[x] <= g[x]
  BY <1>3, <1>5
<1>11. SumOf(f, m) <= SumOf(g, m)
  BY ONLY <1>6, <1>8, <1>9, <1>10
<1>. QED BY <1>2, <1>11

-----------------------------------------------------------------------------
(* The ends of a finite set of integers *)

LEMMA LargestExists ==
  ASSUME NEW S, IsFiniteSet(S), S \subseteq Int, S # {}
  PROVE  \E x \in S : \A y \in S : x >= y
<1> DEFINE Bad == {T \in SUBSET S :
                    T # {} /\ ~ \E x \in T : \A y \in T : x >= y}
<1>1. SUFFICES ASSUME Bad # {} PROVE FALSE
  OBVIOUS
<1>2. PICK m \in Bad : \A y \in Bad : ~ (y \subseteq m /\ y # m)
  <2>1. Bad \subseteq SUBSET S
    OBVIOUS
  <2>2. IsFiniteSet(S)
    OBVIOUS
  <2> HIDE DEF Bad
  <2>. QED BY ONLY <1>1, <2>1, <2>2, Smallest
<1>3. PICK x \in m : TRUE
  OBVIOUS
<1>4. m \ {x} # {}
  BY <1>3
<1>5. m \ {x} \notin Bad /\ m \ {x} \in SUBSET S
  BY <1>2, <1>3
<1>6. PICK y \in m \ {x} : \A z \in m \ {x} : y >= z
  BY <1>4, <1>5
<1>7. x \in Int /\ y \in Int /\ m \subseteq Int
  BY <1>3, <1>6
<1>8. CASE x >= y
  <2>1. \A z \in m : x >= z
    BY <1>6, <1>7, <1>8
  <2>. QED BY <1>2, <1>3, <2>1
<1>9. CASE y >= x
  <2>1. \A z \in m : y >= z
    BY <1>6, <1>7, <1>9
  <2>. QED BY <1>2, <1>6, <2>1
<1>. QED BY <1>7, <1>8, <1>9

LEMMA MaxIsLargest ==
  ASSUME NEW S, IsFiniteSet(S), S \subseteq Int, S # {}
  PROVE  Max(S) \in S /\ \A y \in S : y <= Max(S)
<1>1. \E x \in S : \A y \in S : x >= y
  BY LargestExists
<1>2. Max(S) \in S /\ \A y \in S : Max(S) >= y
  BY <1>1 DEF Max
<1>. QED BY <1>2

\* The smallest is the largest of the opposites.
LEMMA MinIsSmallest ==
  ASSUME NEW S, IsFiniteSet(S), S \subseteq Int, S # {}
  PROVE  Min(S) \in S /\ \A y \in S : Min(S) <= y
<1> DEFINE Bad == {T \in SUBSET S :
                    T # {} /\ ~ \E x \in T : \A y \in T : x <= y}
<1>1. Bad = {}
  <2>1. SUFFICES ASSUME Bad # {} PROVE FALSE
    OBVIOUS
  <2>2. PICK m \in Bad : \A y \in Bad : ~ (y \subseteq m /\ y # m)
    <3>1. Bad \subseteq SUBSET S
      OBVIOUS
    <3>2. IsFiniteSet(S)
      OBVIOUS
    <3> HIDE DEF Bad
    <3>. QED BY ONLY <2>1, <3>1, <3>2, Smallest
  <2>3. PICK x \in m : TRUE
    OBVIOUS
  <2>4. m \ {x} # {}
    BY <2>3
  <2>5. m \ {x} \notin Bad /\ m \ {x} \in SUBSET S
    BY <2>2, <2>3
  <2>6. PICK y \in m \ {x} : \A z \in m \ {x} : y <= z
    BY <2>4, <2>5
  <2>7. x \in Int /\ y \in Int /\ m \subseteq Int
    BY <2>3, <2>6
  <2>8. CASE x <= y
    <3>1. \A z \in m : x <= z
      BY <2>6, <2>7, <2>8
    <3>. QED BY <2>2, <2>3, <3>1
  <2>9. CASE y <= x
    <3>1. \A z \in m : y <= z
      BY <2>6, <2>7, <2>9
    <3>. QED BY <2>2, <2>6, <3>1
  <2>. QED BY <2>7, <2>8, <2>9
<1>2. \E x \in S : \A y \in S : x <= y
  BY <1>1
<1>. QED BY <1>2 DEF Min

-----------------------------------------------------------------------------
(* Sums of steps *)

(***************************************************************************)
(* Points are integers at which g has a value, and g never falls from one  *)
(* to a later one.  What is summed up are bounds of steps between adjacent *)
(* points: all of it is at most what g grew by.                            *)
(***************************************************************************)
LEMMA SumOfSteps ==
  ASSUME NEW Points, Points \subseteq Int, NEW g \in [Points -> Int],
         \A i, j \in Points : i <= j => g[i] <= g[j],
         NEW W, IsFiniteSet(W), NEW D, NEW f \in [D -> Int],
         W \subseteq D, W \subseteq Points,
         \A i \in W : i - 1 \in Points /\ f[i] <= g[i] - g[i - 1],
         NEW a \in Points, \A i \in W : a < i
  PROVE  \A b \in Points : a <= b /\ (\A i \in W : i <= b) =>
           SumOf(f, W) <= g[b] - g[a]
<1> DEFINE Fits(T) == \A b \in Points : a <= b /\ (\A i \in T : i <= b) =>
                        SumOf(f, T) <= g[b] - g[a]
           Bad == {T \in SUBSET W : ~ Fits(T)}
<1>1. SUFFICES ASSUME Bad # {} PROVE FALSE
  OBVIOUS
<1>2. PICK m \in Bad : \A y \in Bad : ~ (y \subseteq m /\ y # m)
  <2>1. Bad \subseteq SUBSET W
    OBVIOUS
  <2>2. IsFiniteSet(W)
    OBVIOUS
  <2> HIDE DEF Bad
  <2>. QED BY ONLY <1>1, <2>1, <2>2, Smallest
<1>3. PICK b \in Points : /\ a <= b /\ \A i \in m : i <= b
                         /\ ~ (SumOf(f, m) <= g[b] - g[a])
  OBVIOUS
<1>4. IsFiniteSet(m) /\ m \subseteq W /\ m \subseteq D /\ m \subseteq Int
  BY FS_Subset
<1>5. g[a] \in Int /\ g[b] \in Int /\ g[a] <= g[b]
  BY <1>3
<1>6. m # {}
  <2>1. SumOf(f, {}) = 0
    BY SumEmpty
  <2>2. 0 <= g[b] - g[a]
    BY ONLY <1>5
  <2>. QED BY <1>3, <2>1, <2>2
<1> DEFINE x == Max(m)
<1>7. x \in m /\ \A y \in m : y <= x
  BY <1>4, <1>6, MaxIsLargest
<1> HIDE DEF x
<1>8. /\ x \in Points /\ x - 1 \in Points /\ f[x] <= g[x] - g[x - 1]
      /\ f[x] \in Int /\ g[x] \in Int /\ g[x - 1] \in Int
      /\ x \in Int /\ a \in Int /\ b \in Int /\ a < x /\ x <= b
  BY <1>3, <1>4, <1>7
<1>9. a <= x - 1 /\ \A i \in m \ {x} : i <= x - 1
  BY <1>4, <1>7, <1>8
<1>10. SumOf(f, m \ {x}) <= g[x - 1] - g[a]
  <2>1. Fits(m \ {x})
    BY <1>2, <1>4, <1>7
  <2>. QED BY <1>8, <1>9, <2>1
<1>11. SumOf(f, m) = f[x] + SumOf(f, m \ {x})
  <2>1. f \in [D -> Int]
    OBVIOUS
  <2>2. IsFiniteSet(m) /\ m \subseteq D
    BY <1>4
  <2>3. \A y \in m : SumOf(f, m) = f[y] + SumOf(f, m \ {y})
    BY ONLY <2>1, <2>2, SumRemove
  <2>. QED BY <1>7, <2>3
<1>12. SumOf(f, m \ {x}) \in Int
  <2>1. IsFiniteSet(m \ {x}) /\ m \ {x} \subseteq D
    BY <1>4, FS_Subset
  <2>. QED BY <2>1, SumRemove
<1>13. g[x] <= g[b]
  BY <1>8
<1>14. SumOf(f, m) <= g[b] - g[a]
  BY ONLY <1>5, <1>8, <1>10, <1>11, <1>12, <1>13
<1>. QED BY <1>3, <1>14

LEMMA LeastNatural ==
  ASSUME NEW S \in SUBSET Nat, S # {}
  PROVE  \E m \in S : \A k \in S : m <= k
<1>1. PICK n \in S : TRUE
  OBVIOUS
<1> DEFINE T == S \cap (0..n)
<1>2. IsFiniteSet(T) /\ T \subseteq Int /\ n \in T
  <2>1. IsFiniteSet(0..n)
    BY FS_Interval
  <2>. QED BY <2>1, FS_Subset
<1>3. Min(T) \in T /\ \A y \in T : Min(T) <= y
  <2> HIDE DEF T
  <2>. QED BY <1>2, MinIsSmallest
<1>4. ASSUME NEW k \in S PROVE Min(T) <= k
  <2>1. CASE k \in T
    BY <1>3, <2>1
  <2>2. CASE k \notin T
    <3>1. k \in Nat /\ k > n
      BY <2>2
    <3>. QED BY <1>2, <1>3, <3>1
  <2>. QED BY <2>1, <2>2
<1>. QED BY <1>3, <1>4

-----------------------------------------------------------------------------
(* Sums of sequences *)

\* Two functions that agree on a set have the same sum over it.
LEMMA SumSame ==
  ASSUME NEW D, NEW f \in [D -> Int], NEW E, NEW g \in [E -> Int],
         NEW S, IsFiniteSet(S), S \subseteq D, S \subseteq E,
         \A x \in S : f[x] = g[x]
  PROVE  SumOf(f, S) = SumOf(g, S)
<1> DEFINE Bad == {T \in SUBSET S : SumOf(f, T) # SumOf(g, T)}
<1>1. SUFFICES ASSUME Bad # {} PROVE FALSE
  OBVIOUS
<1>2. PICK m \in Bad : \A y \in Bad : ~ (y \subseteq m /\ y # m)
  <2>1. Bad \subseteq SUBSET S
    OBVIOUS
  <2> HIDE DEF Bad
  <2>. QED BY <1>1, <2>1, Smallest
<1>3. IsFiniteSet(m) /\ m \subseteq S
  BY FS_Subset
<1>4. m # {}
  BY SumEmpty
<1>5. PICK x \in m : TRUE
  BY <1>4
<1>6. SumOf(f, m) = f[x] + SumOf(f, m \ {x})
  BY <1>3, <1>5, SumRemove
<1>7. SumOf(g, m) = g[x] + SumOf(g, m \ {x})
  BY <1>3, <1>5, SumRemove
<1>8. m \ {x} \notin Bad
  BY <1>2, <1>5
<1>9. SumOf(f, m \ {x}) = SumOf(g, m \ {x})
  BY <1>3, <1>8
<1>. QED BY <1>3, <1>5, <1>6, <1>7, <1>9

\* One element more at the end of a sequence of integers.
LEMMA SumAppend ==
  ASSUME NEW seq \in Seq(Int), NEW x \in Int
  PROVE  /\ SumOf(seq, DOMAIN seq) \in Int
         /\ SumOf(Append(seq, x), DOMAIN Append(seq, x)) =
              SumOf(seq, DOMAIN seq) + x
<1> DEFINE n == Len(seq)
           more == Append(seq, x)
<1>1. /\ n \in Nat /\ seq \in [1..n -> Int] /\ DOMAIN seq = 1..n
      /\ more \in [1..(n + 1) -> Int] /\ DOMAIN more = 1..(n + 1)
      /\ more[n + 1] = x /\ \A i \in 1..n : more[i] = seq[i]
  <2>1. more \in Seq(Int) /\ Len(more) = n + 1
    OBVIOUS
  <2>2. more \in [1..Len(more) -> Int]
    BY <2>1, LenProperties
  <2>. QED BY <2>1, <2>2
<1> HIDE DEF n, more
<1>2. IsFiniteSet(1..n) /\ n + 1 \notin 1..n /\ 1..(n + 1) = 1..n \cup {n + 1}
  <2>1. IsFiniteSet(1..n)
    BY <1>1, FS_Interval
  <2>. QED BY <1>1, <2>1
<1>3. SumOf(seq, 1..n) \in Int
  BY <1>1, <1>2, SumRemove
<1>4. SumOf(more, 1..n) = SumOf(seq, 1..n)
  <2>1. 1..n \subseteq 1..(n + 1)
    BY <1>1
  <2>. QED BY <1>1, <1>2, <2>1, SumSame
<1>5. SumOf(more, 1..n \cup {n + 1}) = SumOf(more, 1..n) + more[n + 1]
  <2>1. 1..n \subseteq 1..(n + 1) /\ n + 1 \in 1..(n + 1)
    BY <1>1
  <2>. QED BY <1>1, <1>2, <2>1, SumAdd
<1>. QED BY <1>1, <1>2, <1>3, <1>4, <1>5 DEF more

\* One term of a sum is exchanged.
LEMMA SumUpdate ==
  ASSUME NEW S, IsFiniteSet(S), NEW f \in [S -> Int], NEW g \in [S -> Int],
         NEW x \in S, \A y \in S \ {x} : g[y] = f[y]
  PROVE  /\ SumOf(f, S) \in Int
         /\ SumOf(g, S) = SumOf(f, S) - f[x] + g[x]
<1> DEFINE T == S \ {x}
<1>1. g \in [S -> Int] /\ \A y \in T : g[y] = f[y]
  OBVIOUS
<1>2. IsFiniteSet(T) /\ T \subseteq S
  BY FS_Subset
<1>3. SumOf(f, S) \in Int /\ SumOf(f, S) = f[x] + SumOf(f, T)
  BY SumRemove
<1>4. SumOf(g, S) = g[x] + SumOf(g, T)
  BY <1>1, SumRemove
<1> HIDE DEF T
<1>5. SumOf(g, T) = SumOf(f, T) /\ SumOf(f, T) \in Int
  <2>1. SumOf(g, T) = SumOf(f, T)
    BY <1>1, <1>2, SumSame
  <2>2. SumOf(f, T) \in Int
    BY <1>2, SumRemove
  <2>. QED BY <2>1, <2>2
<1>6. f[x] \in Int /\ g[x] \in Int
  OBVIOUS
<1>. QED BY <1>3, <1>4, <1>5, <1>6

-----------------------------------------------------------------------------
(* Folds over sequences, which take the last element first *)

\* What FoldLeft of the community modules computes with Op, of the elements
\* whose places are in S.
FoldUpTo(base, seq, S) ==
  LET iter[s \in SUBSET S] == IF s = {} THEN base
                              ELSE Op(iter[s \ {Max(s)}], seq[Max(s)])
  IN  iter[S]

FoldOf(base, seq) == FoldUpTo(base, seq, DOMAIN seq)

\* A function that does what this recursion says.
FoldsUp(base, seq, S, it) ==
  it = [s \in SUBSET S |-> IF s = {} THEN base
                           ELSE Op(it[s \ {Max(s)}], seq[Max(s)])]

\* The largest element of a part is in it.
LEMMA MaxIn ==
  ASSUME NEW S, IsFiniteSet(S), S \subseteq Int, NEW s \in SUBSET S, s # {}
  PROVE  Max(s) \in s
<1>1. IsFiniteSet(s) /\ s \subseteq Int
  BY FS_Subset
<1>. QED BY <1>1, MaxIsLargest

\* The places of a sequence, or some of them.
Places(S) == IsFiniteSet(S) /\ S \subseteq Int

\* Two such functions, for a set and for a subset of it, agree on the subset.
LEMMA FoldsAgree ==
  ASSUME NEW base, NEW seq, NEW S, NEW a, FoldsUp(base, seq, S, a), Places(S),
         NEW T \in SUBSET S, NEW b, FoldsUp(base, seq, T, b)
  PROVE  a[T] = b[T]
<1> DEFINE Wrong == {v \in SUBSET T : a[v] # b[v]}
<1>1. SUFFICES ASSUME Wrong # {} PROVE FALSE
  <2>1. T \in SUBSET T
    OBVIOUS
  <2>. QED BY <2>1
<1>2. IsFiniteSet(T) /\ T \subseteq Int
  BY FS_Subset DEF Places
<1>3. PICK m \in Wrong : \A y \in Wrong : ~ (y \subseteq m /\ y # m)
  <2>1. Wrong \subseteq SUBSET T
    OBVIOUS
  <2>2. IsFiniteSet(T)
    BY <1>2
  <2> HIDE DEF Wrong
  <2>. QED BY ONLY <1>1, <2>1, <2>2, Smallest
<1>4. m \subseteq T /\ m \subseteq S
  OBVIOUS
<1>5. m # {}
  BY <1>3 DEF FoldsUp
<1> DEFINE c == Max(m)
           n == m \ {c}
<1>6. c \in m
  BY <1>2, <1>4, <1>5, MaxIn
<1>7. a[n] = b[n]
  BY <1>3, <1>6
<1>8. a[m] = Op(a[n], seq[c])
  BY <1>4, <1>5 DEF FoldsUp
<1>9. b[m] = Op(b[n], seq[c])
  BY <1>4, <1>5 DEF FoldsUp
<1>. QED BY <1>3, <1>7, <1>8, <1>9

\* For every finite set of places there is such a function.
LEMMA FoldsExist ==
  ASSUME NEW S, IsFiniteSet(S), S \subseteq Int, NEW base, NEW seq
  PROVE  \E it : FoldsUp(base, seq, S, it)
<1> DEFINE Without == {T \in SUBSET S : ~ \E it : FoldsUp(base, seq, T, it)}
<1>1. SUFFICES ASSUME Without # {} PROVE FALSE
  OBVIOUS
<1>2. PICK m \in Without : \A y \in Without : ~ (y \subseteq m /\ y # m)
  <2>1. Without \subseteq SUBSET S
    OBVIOUS
  <2>2. IsFiniteSet(S)
    OBVIOUS
  <2> HIDE DEF Without
  <2>. QED BY ONLY <1>1, <2>1, <2>2, Smallest
<1>3. m \subseteq S /\ ~ \E it : FoldsUp(base, seq, m, it)
  OBVIOUS
<1> DEFINE W(T) == CHOOSE it : FoldsUp(base, seq, T, it)
<1>4. \A T \in SUBSET m : T # m =>
        FoldsUp(base, seq, T, W(T)) /\ IsFiniteSet(T) /\ T \subseteq Int
  <2> TAKE T \in SUBSET m
  <2> HAVE T # m
  <2>1. T \subseteq S /\ T \notin Without
    BY <1>2, <1>3
  <2>2. \E it : FoldsUp(base, seq, T, it)
    BY <2>1
  <2>3. FoldsUp(base, seq, T, W(T))
    BY <2>2
  <2>. QED BY <2>1, <2>3, FS_Subset
<1> DEFINE whole == [s \in SUBSET m |-> IF s = {} THEN base
                       ELSE Op(W(s \ {Max(s)})[s \ {Max(s)}], seq[Max(s)])]
<1>5. \A u \in SUBSET m : u # m => W(u)[u] = whole[u]
  <2> TAKE u \in SUBSET m
  <2> HAVE u # m
  <2> DEFINE v == u \ {Max(u)}
  <2>1. FoldsUp(base, seq, u, W(u)) /\ IsFiniteSet(u) /\ u \subseteq Int
    BY <1>4
  <2>2. CASE u = {}
    <3> HIDE DEF W
    <3>1. W(u)[u] = base
      BY <2>1, <2>2 DEF FoldsUp
    <3>. QED BY <2>2, <3>1
  <2>3. CASE u # {}
    <3>1. v \subseteq u /\ v \in SUBSET m /\ v # m
      BY <2>1, <2>3, MaxIn
    <3>2. FoldsUp(base, seq, v, W(v))
      BY <1>4, <3>1
    <3> HIDE DEF W
    <3>3. W(u)[v] = W(v)[v]
      <4>1. Places(u) /\ v \in SUBSET u
        BY <2>1, <3>1 DEF Places
      <4>2. FoldsUp(base, seq, u, W(u))
        BY <2>1
      <4> HIDE DEF v
      <4>. QED BY ONLY <3>2, <4>1, <4>2, FoldsAgree
    <3>4. W(u)[u] = Op(W(u)[v], seq[Max(u)])
      BY <2>1, <2>3 DEF FoldsUp
    <3>5. whole[u] = Op(W(v)[v], seq[Max(u)])
      BY <2>3
    <3>. QED BY <3>3, <3>4, <3>5
  <2>. QED BY <2>2, <2>3
<1>6. \A s \in SUBSET m : s # {} =>
        s \ {Max(s)} \in SUBSET m /\ s \ {Max(s)} # m
  BY <1>3, MaxIn
<1>7. FoldsUp(base, seq, m, whole)
  <2> HIDE DEF W
  <2>1. \A s \in SUBSET m :
          whole[s] = IF s = {} THEN base
                     ELSE Op(whole[s \ {Max(s)}], seq[Max(s)])
    BY <1>5, <1>6
  <2>2. whole = [s \in SUBSET m |-> whole[s]]
    OBVIOUS
  <2> HIDE DEF whole
  <2>. QED BY <2>1, <2>2 DEF FoldsUp
<1>. QED BY <1>3, <1>7

\* The fold is what any such function says it is.
LEMMA FoldIs ==
  ASSUME NEW S, IsFiniteSet(S), S \subseteq Int, NEW T, T \subseteq S,
         NEW base, NEW seq, NEW it, FoldsUp(base, seq, S, it)
  PROVE  FoldUpTo(base, seq, T) = it[T]
<1> DEFINE W == CHOOSE w : FoldsUp(base, seq, T, w)
<1>1. FoldUpTo(base, seq, T) = W[T]
  BY DEF FoldUpTo, FoldsUp
<1>2. IsFiniteSet(T) /\ T \subseteq Int
  BY FS_Subset
<1>3. \E w : FoldsUp(base, seq, T, w)
  BY <1>2, FoldsExist
<1>4. FoldsUp(base, seq, T, W)
  BY <1>3
<1> HIDE DEF W
<1>5. Places(S)
  BY DEF Places
<1>6. FoldsUp(base, seq, S, it) /\ T \in SUBSET S
  OBVIOUS
<1>7. it[T] = W[T]
  BY ONLY <1>4, <1>5, <1>6, FoldsAgree
<1>. QED BY <1>1, <1>7

\* A fold over the first n places: nothing at all;
LEMMA FoldNone ==
  ASSUME NEW base, NEW seq PROVE FoldUpTo(base, seq, {}) = base
<1>1. IsFiniteSet({})
  BY FS_EmptySet
<1>2. PICK it : FoldsUp(base, seq, {}, it)
  BY <1>1, FoldsExist
<1>3. FoldUpTo(base, seq, {}) = it[{}]
  BY <1>1, <1>2, FoldIs
<1>. QED BY <1>2, <1>3 DEF FoldsUp

\* one place more than n;
LEMMA FoldOneMore ==
  ASSUME NEW base, NEW seq, NEW n \in Nat
  PROVE  FoldUpTo(base, seq, 1..(n + 1)) =
           Op(FoldUpTo(base, seq, 1..n), seq[n + 1])
<1> DEFINE S == 1..(n + 1)
<1>1. IsFiniteSet(S) /\ S \subseteq Int /\ S # {} /\ 1..n \subseteq S
  <2>1. IsFiniteSet(S)
    BY FS_Interval
  <2>2. n + 1 \in S
    OBVIOUS
  <2>. QED BY <2>1, <2>2
<1>2. Max(S) \in S /\ \A y \in S : y <= Max(S)
  <2> HIDE DEF S
  <2>. QED BY <1>1, MaxIsLargest
<1>3. Max(S) = n + 1
  <2>1. n + 1 \in S /\ Max(S) \in Int /\ Max(S) <= n + 1
    BY <1>2
  <2>. QED BY <1>2, <2>1
<1>4. S \ {n + 1} = 1..n
  OBVIOUS
<1> HIDE DEF S
<1>5. PICK it : FoldsUp(base, seq, S, it)
  BY <1>1, FoldsExist
<1>6. FoldUpTo(base, seq, S) = it[S]
  BY <1>1, <1>5, FoldIs
<1>7. FoldUpTo(base, seq, 1..n) = it[1..n]
  BY <1>1, <1>5, FoldIs
<1>8. it[S] = Op(it[S \ {Max(S)}], seq[Max(S)])
  BY <1>1, <1>5 DEF FoldsUp
<1>. QED BY <1>3, <1>4, <1>6, <1>7, <1>8 DEF S

\* and what is at the other places makes no difference.
LEMMA FoldSame ==
  ASSUME NEW n \in Nat, NEW base, NEW seq, NEW tes,
         \A i \in 1..n : seq[i] = tes[i]
  PROVE  FoldUpTo(base, seq, 1..n) = FoldUpTo(base, tes, 1..n)
<1> PICK T : T = 1..n
  OBVIOUS
<1>0. IsFiniteSet(T) /\ T \subseteq Int
  BY FS_Interval
<1>1. PICK it : FoldsUp(base, seq, T, it)
  BY <1>0, FoldsExist
<1>2. \A s \in SUBSET T : s # {} => seq[Max(s)] = tes[Max(s)]
  BY <1>0, MaxIn
<1>3. FoldsUp(base, tes, T, it)
  BY <1>1, <1>2 DEF FoldsUp
<1>4. FoldUpTo(base, seq, T) = it[T]
  BY <1>0, <1>1, FoldIs
<1>5. FoldUpTo(base, tes, T) = it[T]
  BY <1>0, <1>3, FoldIs
<1>. QED BY <1>4, <1>5

\* What holds of the base, and after every element if it held before it, holds
\* of the fold: A[i] are the results that are right after i elements.
LEMMA FoldInduction ==
  ASSUME NEW n \in Nat, NEW base, NEW seq, NEW A, base \in A[0],
         \A i \in 1..n : \A a \in A[i - 1] : Op(a, seq[i]) \in A[i]
  PROVE  \A i \in 0..n : FoldUpTo(base, seq, 1..i) \in A[i]
<1> DEFINE Bad == {i \in 0..n : FoldUpTo(base, seq, 1..i) \notin A[i]}
<1>1. SUFFICES ASSUME Bad # {} PROVE FALSE
  OBVIOUS
<1>2. PICK m \in Bad : \A k \in Bad : m <= k
  <2>1. Bad \in SUBSET Nat
    OBVIOUS
  <2> HIDE DEF Bad
  <2>. QED BY <1>1, <2>1, LeastNatural
<1>3. m # 0
  <2>1. 1..0 = {}
    OBVIOUS
  <2>. QED BY <2>1, FoldNone
<1>4. m \in 1..n /\ m - 1 \in 0..n /\ m - 1 \in Nat /\ (m - 1) + 1 = m
  BY <1>3
<1>5. FoldUpTo(base, seq, 1..(m - 1)) \in A[m - 1]
  BY <1>2, <1>4
<1>6. FoldUpTo(base, seq, 1..m) =
        Op(FoldUpTo(base, seq, 1..(m - 1)), seq[m])
  <2> PICK k : k = m - 1
    OBVIOUS
  <2>1. k \in Nat /\ k + 1 = m
    BY <1>4
  <2>2. FoldUpTo(base, seq, 1..(k + 1)) =
          Op(FoldUpTo(base, seq, 1..k), seq[k + 1])
    BY <2>1, FoldOneMore
  <2>. QED BY <2>1, <2>2
<1>. QED BY <1>4, <1>5, <1>6

\* A fold over two sequences, one after the other.
LEMMA FoldConcat ==
  ASSUME NEW T, NEW s \in Seq(T), NEW t \in Seq(T), NEW base
  PROVE  FoldOf(base, s \o t) = FoldOf(FoldOf(base, s), t)
<1> DEFINE c == s \o t
           n == Len(s)
           m == Len(t)
           A == [i \in 0..m |-> {FoldUpTo(base, c, 1..(n + i))}]
<1>1. /\ n \in Nat /\ DOMAIN s = 1..n /\ m \in Nat /\ DOMAIN t = 1..m
      /\ DOMAIN c = 1..(n + m)
      /\ \A i \in 1..n : c[i] = s[i]
      /\ \A i \in 1..m : c[n + i] = t[i]
  OBVIOUS
<1> HIDE DEF c, n, m
<1>2. FoldOf(base, s) \in A[0]
  <2>1. FoldUpTo(base, s, 1..n) = FoldUpTo(base, c, 1..n)
    BY <1>1, FoldSame
  <2>2. n + 0 = n /\ 0 \in 0..m
    BY <1>1
  <2>. QED BY <1>1, <2>1, <2>2 DEF FoldOf
<1>3. \A i \in 1..m : \A a \in A[i - 1] : Op(a, t[i]) \in A[i]
  <2> SUFFICES ASSUME NEW i \in 1..m, NEW a \in A[i - 1]
               PROVE  Op(a, t[i]) \in A[i]
    OBVIOUS
  <2>1. PICK k \in Nat : k = n + (i - 1)
    BY <1>1
  <2>2. i - 1 \in 0..m /\ i \in 0..m /\ k + 1 = n + i
    BY <1>1, <2>1
  <2>3. a = FoldUpTo(base, c, 1..k)
    BY <2>1, <2>2
  <2>4. FoldUpTo(base, c, 1..(k + 1)) = Op(FoldUpTo(base, c, 1..k), c[k + 1])
    BY <2>1, FoldOneMore
  <2>5. c[k + 1] = t[i]
    BY <1>1, <2>2
  <2>. QED BY <2>2, <2>3, <2>4, <2>5
<1>4. FoldUpTo(FoldOf(base, s), t, 1..m) \in A[m]
  <2> PICK start : start = FoldOf(base, s)
    OBVIOUS
  <2>1. start \in A[0]
    BY <1>2
  <2> HIDE DEF A
  <2>2. \A i \in 0..m : FoldUpTo(start, t, 1..i) \in A[i]
    BY <1>1, <1>3, <2>1, FoldInduction
  <2>3. m \in 0..m
    BY <1>1
  <2>. QED BY <2>2, <2>3
<1>5. m \in 0..m
  BY <1>1
<1>. QED BY <1>1, <1>4, <1>5 DEF FoldOf, c
=============================================================================

-------------------------- MODULE SubmissionProofs --------------------------
(***************************************************************************)
(* The abstract specification keeps its books for every set of batches.    *)
(***************************************************************************)
EXTENDS Submission, FiniteSetTheorems, TLAPS

-----------------------------------------------------------------------------
(* Sums over finite sets.  SumFunctionOnSet folds by taking one element      *)
(* after another, in an order of its own; here is what does not depend on it.*)

(* The element that is taken first, and those that are left.                 *)
Chosen(S) == CHOOSE x \in S : TRUE
Rest(S) == S \ {Chosen(S)}

(* iter sums f over every subset of S.                                      *)
Sums(iter, f, S) ==
    iter = [s \in SUBSET S |-> IF s = {} THEN 0 ELSE f[Chosen(s)] + iter[Rest(s)]]

(* The sum is defined by such a function.                                   *)
LEMMA SumIsIter ==
    ASSUME NEW f, NEW S
    PROVE  SumFunctionOnSet(f, S) = (CHOOSE iter : Sums(iter, f, S))[S]
BY Zenon DEF SumFunctionOnSet, FoldFunctionOnSet, MapThenFoldSet, Sums, Chosen, Rest

(* Among the subsets of a finite set that are in T, one contains no other.   *)
LEMMA SmallestSet ==
    ASSUME NEW U, IsFiniteSet(U), NEW T \in SUBSET SUBSET U, T # {}
    PROVE  \E s \in T : \A r \in T : r \in SUBSET s => r = s
<1> DEFINE R == StrictSubsetOrdering(U)
<1>1. IsWellFoundedOn(R, FiniteSubsetsOf(U))
  BY FS_StrictSubsetOrderingWellFounded
<1>2. T \subseteq FiniteSubsetsOf(U)
  BY FS_Subset DEF FiniteSubsetsOf
<1>3. ASSUME NEW r \in T, NEW s \in T, r \in SUBSET s, r # s
      PROVE  <<r, s>> \in R
  BY <1>3 DEF StrictSubsetOrdering
<1> HIDE DEF R
<1>4. PICK s \in T : \A r \in T : ~(<<r, s>> \in R)
  BY <1>1, <1>2, WFMin, Zenon
<1> QED BY <1>3, <1>4

(* Induction over the subsets of a finite set: what holds of a subset once   *)
(* it holds of all the smaller ones holds of all of them.                    *)
LEMMA SubsetInduction ==
    ASSUME NEW U, IsFiniteSet(U), NEW G,
           \A s \in SUBSET U : (\A r \in SUBSET s : r # s => r \in G) => s \in G
    PROVE  \A s \in SUBSET U : s \in G
<1> DEFINE T == {s \in SUBSET U : s \notin G}
<1> SUFFICES ASSUME T # {} PROVE FALSE
  OBVIOUS
<1>1. PICK s \in T : \A r \in T : r \in SUBSET s => r = s
  <2>1. T \in SUBSET SUBSET U
    OBVIOUS
  <2> HIDE DEF T
  <2> QED BY <2>1, SmallestSet
<1>2. ASSUME NEW r \in SUBSET s, r # s
      PROVE  r \in G
  <2>1. r \in SUBSET U
    BY <1>1
  <2> QED BY <1>1, <1>2, <2>1
<1> QED BY <1>1, <1>2

(* One step into a set.                                                     *)
LEMMA RestFacts ==
    ASSUME NEW S, S # {}
    PROVE  /\ Chosen(S) \in S /\ Rest(S) \in SUBSET S /\ Rest(S) # S
           /\ Chosen(S) \notin Rest(S)
BY DEF Chosen, Rest

(* Two functions that sum f over the subsets of two sets agree on those they  *)
(* share.                                                                   *)
LEMMA SumsAgree ==
    ASSUME NEW f, NEW U, IsFiniteSet(U), NEW V, NEW g, NEW h, Sums(g, f, U), Sums(h, f, V)
    PROVE  \A s \in SUBSET U : s \in SUBSET V => g[s] = h[s]
<1> DEFINE G == {s \in SUBSET U : s \in SUBSET V => g[s] = h[s]}
<1>1. ASSUME NEW s \in SUBSET U, \A r \in SUBSET s : r # s => r \in G, s \in SUBSET V
      PROVE  g[s] = h[s]
  <2>1. /\ g[s] = IF s = {} THEN 0 ELSE f[Chosen(s)] + g[Rest(s)]
        /\ h[s] = IF s = {} THEN 0 ELSE f[Chosen(s)] + h[Rest(s)]
    BY <1>1, Zenon DEF Sums
  <2>2. s # {} => g[Rest(s)] = h[Rest(s)]
    BY <1>1, RestFacts
  <2> QED BY <2>1, <2>2, Zenon
<1>2. \A s \in SUBSET U : s \in G
  <2>1. \A s \in SUBSET U : (\A r \in SUBSET s : r # s => r \in G) => s \in G
    BY <1>1
  <2> HIDE DEF G
  <2> QED BY <2>1, SubsetInduction
<1> QED BY <1>2

(* What sums f over the subsets of a set does so over those of a subset.     *)
LEMMA SumsRestrict ==
    ASSUME NEW f, NEW S, NEW g, Sums(g, f, S), NEW U \in SUBSET S
    PROVE  Sums([s \in SUBSET U |-> g[s]], f, U)
<1> DEFINE h == [s \in SUBSET U |-> g[s]]
<1>1. ASSUME NEW s \in SUBSET U
      PROVE  h[s] = IF s = {} THEN 0 ELSE f[Chosen(s)] + h[Rest(s)]
  <2>1. g[s] = IF s = {} THEN 0 ELSE f[Chosen(s)] + g[Rest(s)]
    <3>1. s \in SUBSET S
      OBVIOUS
    <3> QED BY <3>1, Zenon DEF Sums
  <2>2. s # {} => Rest(s) \in SUBSET U
    BY RestFacts
  <2> QED BY <2>1, <2>2, Zenon
<1> HIDE DEF h
<1>2. h = [s \in SUBSET U |-> h[s]]
  BY DEF h
<1>3. h = [s \in SUBSET U |-> IF s = {} THEN 0 ELSE f[Chosen(s)] + h[Rest(s)]]
  BY <1>1, <1>2, Zenon
<1> QED BY <1>3, Zenon DEF Sums, h

(* Such a function exists for every finite set.                             *)
LEMMA SumsExist ==
    ASSUME NEW f, NEW U, IsFiniteSet(U)
    PROVE  \A S \in SUBSET U : \E iter : Sums(iter, f, S)
<1> DEFINE G == {S \in SUBSET U : \E iter : Sums(iter, f, S)}
           Sum(S) == (CHOOSE iter : Sums(iter, f, S))[S]
<1>1. ASSUME NEW S \in SUBSET U, \A r \in SUBSET S : r # S => r \in G
      PROVE  \E iter : Sums(iter, f, S)
  <2> DEFINE h == [s \in SUBSET S |-> IF s = {} THEN 0 ELSE f[Chosen(s)] + Sum(Rest(s))]
  <2>1. ASSUME NEW r \in SUBSET S, r # S
        PROVE  h[r] = Sum(r)
    <3> DEFINE g == CHOOSE iter : Sums(iter, f, r)
    <3>1. Sums(g, f, r)
      <4>1. \E iter : Sums(iter, f, r)
        BY <1>1, <2>1
      <4> QED BY <4>1, Zenon
    <3>2. g[r] = IF r = {} THEN 0 ELSE f[Chosen(r)] + g[Rest(r)]
      <4> HIDE DEF g
      <4> QED BY <3>1, Zenon DEF Sums
    <3>3. r # {} => g[Rest(r)] = Sum(Rest(r))
      <4> SUFFICES ASSUME r # {} PROVE g[Rest(r)] = Sum(Rest(r))
        OBVIOUS
      <4> DEFINE q == Rest(r)
                 k == CHOOSE iter : Sums(iter, f, q)
      <4>1. q \in SUBSET r /\ q \in SUBSET S /\ q # S /\ IsFiniteSet(q)
        BY RestFacts, FS_Subset
      <4>2. Sums(k, f, q)
        <5>1. \E iter : Sums(iter, f, q)
          BY <1>1, <4>1
        <5> HIDE DEF q
        <5> QED BY <5>1, Zenon
      <4> HIDE DEF g, k, q
      <4>3. k[q] = g[q]
        BY <3>1, <4>1, <4>2, SumsAgree
      <4> QED BY <4>3 DEF k, q
    <3> HIDE DEF g
    <3>4. h[r] = IF r = {} THEN 0 ELSE f[Chosen(r)] + Sum(Rest(r))
      BY Zenon
    <3>5. g[r] = h[r]
      BY <3>2, <3>3, <3>4, Zenon
    <3> QED BY <3>5, Zenon DEF g
  <2> HIDE DEF Sum
  <2>2. \A s \in SUBSET S : h[s] = IF s = {} THEN 0 ELSE f[Chosen(s)] + h[Rest(s)]
    <3> TAKE s \in SUBSET S
    <3>1. s # {} => h[Rest(s)] = Sum(Rest(s))
      <4>1. s # {} => Rest(s) \in SUBSET S /\ Rest(s) # S
        BY RestFacts
      <4> HIDE DEF h
      <4> QED BY <2>1, <4>1, Zenon
    <3>2. h[s] = IF s = {} THEN 0 ELSE f[Chosen(s)] + Sum(Rest(s))
      BY Zenon
    <3> HIDE DEF h
    <3> QED BY <3>1, <3>2, Zenon
  <2>3. h = [s \in SUBSET S |-> h[s]]
    BY Zenon
  <2> HIDE DEF h
  <2>4. h = [s \in SUBSET S |-> IF s = {} THEN 0 ELSE f[Chosen(s)] + h[Rest(s)]]
    BY <2>2, <2>3, Zenon
  <2> QED BY <2>4, Zenon DEF Sums
<1>2. \A S \in SUBSET U : (\A r \in SUBSET S : r # S => r \in G) => S \in G
  BY <1>1
<1>3. \A S \in SUBSET U : S \in G
  <2> HIDE DEF G
  <2> QED BY <1>2, SubsetInduction
<1> QED BY <1>3

(* A sum is the chosen element's value and the sum over the others.          *)
LEMMA SumUnfolds ==
    ASSUME NEW f, NEW S, IsFiniteSet(S)
    PROVE  SumFunctionOnSet(f, S) =
             IF S = {} THEN 0 ELSE f[Chosen(S)] + SumFunctionOnSet(f, Rest(S))
<1> DEFINE g == CHOOSE iter : Sums(iter, f, S)
           k == CHOOSE iter : Sums(iter, f, Rest(S))
<1>1. Sums(g, f, S)
  <2>1. \E iter : Sums(iter, f, S)
    BY SumsExist
  <2> QED BY <2>1, Zenon
<1>2. g[S] = IF S = {} THEN 0 ELSE f[Chosen(S)] + g[Rest(S)]
  <2> HIDE DEF g
  <2> QED BY <1>1, Zenon DEF Sums
<1>3. S # {} => g[Rest(S)] = k[Rest(S)]
  <2> SUFFICES ASSUME S # {} PROVE g[Rest(S)] = k[Rest(S)]
    OBVIOUS
  <2>1. Rest(S) \in SUBSET S /\ IsFiniteSet(Rest(S))
    BY RestFacts, FS_Subset
  <2>2. Sums(k, f, Rest(S))
    <3>1. \E iter : Sums(iter, f, Rest(S))
      BY <2>1, SumsExist
    <3> QED BY <3>1, Zenon
  <2> HIDE DEF g, k
  <2> QED BY <1>1, <2>1, <2>2, SumsAgree
<1>4. SumFunctionOnSet(f, S) = g[S] /\ SumFunctionOnSet(f, Rest(S)) = k[Rest(S)]
  BY SumIsIter, Zenon
<1> HIDE DEF g, k
<1> QED BY <1>2, <1>3, <1>4, Zenon

(* Nothing sums up to zero.                                                 *)
LEMMA SumEmpty ==
    ASSUME NEW f
    PROVE  SumFunctionOnSet(f, {}) = 0
BY SumUnfolds, FS_EmptySet

-----------------------------------------------------------------------------
(* Sums of integers                                                          *)

(* A sum of integers is an integer, one of natural numbers a natural number.  *)
LEMMA SumType ==
    ASSUME NEW Typ \in {Int, Nat}, NEW S, IsFiniteSet(S), NEW f, \A x \in S : f[x] \in Typ
    PROVE  SumFunctionOnSet(f, S) \in Typ
<1> DEFINE Sum(s) == SumFunctionOnSet(f, s)
           G == {s \in SUBSET S : Sum(s) \in Typ}
<1>1. ASSUME NEW s \in SUBSET S, \A r \in SUBSET s : r # s => r \in G
      PROVE  Sum(s) \in Typ
  <2>1. Sum(s) = IF s = {} THEN 0 ELSE f[Chosen(s)] + Sum(Rest(s))
    BY FS_Subset, SumUnfolds
  <2>2. s # {} => Sum(Rest(s)) \in Typ /\ f[Chosen(s)] \in Typ
    BY <1>1, RestFacts
  <2> HIDE DEF Sum
  <2> QED BY <2>1, <2>2
<1>2. \A s \in SUBSET S : s \in G
  <2>1. \A s \in SUBSET S : (\A r \in SUBSET s : r # s => r \in G) => s \in G
    BY <1>1
  <2> HIDE DEF G
  <2> QED BY <2>1, SubsetInduction
<1> QED BY <1>2

(* Any element can be taken out of a sum first.                              *)
LEMMA SumTakeOut ==
    ASSUME NEW S, IsFiniteSet(S), NEW f, \A x \in S : f[x] \in Int, NEW x \in S
    PROVE  SumFunctionOnSet(f, S) = f[x] + SumFunctionOnSet(f, S \ {x})
<1> DEFINE Sum(s) == SumFunctionOnSet(f, s)
           G == {s \in SUBSET S : \A y \in s : Sum(s) = f[y] + Sum(s \ {y})}
<1>1. ASSUME NEW s \in SUBSET S, \A r \in SUBSET s : r # s => r \in G, NEW y \in s
      PROVE  Sum(s) = f[y] + Sum(s \ {y})
  <2> DEFINE c == Chosen(s)
  <2>1. Sum(s) = f[c] + Sum(s \ {c}) /\ c \in s
    BY FS_Subset, SumUnfolds, RestFacts DEF Rest
  <2> HIDE DEF c
  <2>2. CASE c = y
    BY <2>1, <2>2
  <2>3. CASE c # y
    <3>1. /\ s \ {c} \in SUBSET s /\ s \ {c} # s /\ y \in s \ {c}
          /\ s \ {y} \in SUBSET s /\ s \ {y} # s /\ c \in s \ {y}
      BY <2>1, <2>3
    <3>2. s \ {c} \in G /\ s \ {y} \in G
      BY <1>1, <3>1
    <3>3. (s \ {c}) \ {y} = (s \ {y}) \ {c}
      OBVIOUS
    <3>4. /\ Sum(s \ {c}) = f[y] + Sum((s \ {c}) \ {y})
          /\ Sum(s \ {y}) = f[c] + Sum((s \ {c}) \ {y})
      <4> HIDE DEF Sum
      <4> QED BY <3>1, <3>2, <3>3
    <3>5. /\ f[c] \in Int /\ f[y] \in Int /\ Sum((s \ {c}) \ {y}) \in Int
      <4>1. (s \ {c}) \ {y} \in SUBSET S
        OBVIOUS
      <4> QED BY <2>1, <4>1, FS_Subset, SumType
    <3> HIDE DEF Sum
    <3> QED BY <2>1, <3>4, <3>5
  <2> QED BY <2>2, <2>3
<1>2. \A s \in SUBSET S : s \in G
  <2>1. \A s \in SUBSET S : (\A r \in SUBSET s : r # s => r \in G) => s \in G
    <3> HIDE DEF Sum
    <3> QED BY <1>1
  <2> HIDE DEF G
  <2> QED BY <2>1, SubsetInduction
<1> QED BY <1>2

(* An element that is added to a set adds its value to the sum.              *)
LEMMA SumAdd ==
    ASSUME NEW S, IsFiniteSet(S), NEW x, x \notin S, NEW f, \A y \in S \cup {x} : f[y] \in Int
    PROVE  SumFunctionOnSet(f, S \cup {x}) = SumFunctionOnSet(f, S) + f[x]
<1>1. (S \cup {x}) \ {x} = S /\ IsFiniteSet(S \cup {x}) /\ x \in S \cup {x}
  BY FS_AddElement
<1>2. SumFunctionOnSet(f, S \cup {x}) = f[x] + SumFunctionOnSet(f, (S \cup {x}) \ {x})
  BY <1>1, SumTakeOut
<1>3. SumFunctionOnSet(f, S) \in Int /\ f[x] \in Int
  BY SumType
<1>4. SumFunctionOnSet(f, S \cup {x}) = f[x] + SumFunctionOnSet(f, S)
  BY <1>1, <1>2, Zenon
<1> QED BY <1>3, <1>4

(* A sum grows with its terms, and depends on nothing else.                  *)
LEMMA SumMonotone ==
    ASSUME NEW S, IsFiniteSet(S), NEW f, NEW g,
           \A x \in S : f[x] \in Int /\ g[x] \in Int /\ f[x] <= g[x]
    PROVE  SumFunctionOnSet(f, S) <= SumFunctionOnSet(g, S)
<1> DEFINE F(s) == SumFunctionOnSet(f, s)
           H(s) == SumFunctionOnSet(g, s)
           G == {s \in SUBSET S : F(s) <= H(s)}
<1>1. ASSUME NEW s \in SUBSET S, \A r \in SUBSET s : r # s => r \in G
      PROVE  F(s) <= H(s)
  <2>1. /\ F(s) = IF s = {} THEN 0 ELSE f[Chosen(s)] + F(Rest(s))
        /\ H(s) = IF s = {} THEN 0 ELSE g[Chosen(s)] + H(Rest(s))
    BY FS_Subset, SumUnfolds
  <2>2. s # {} => /\ F(Rest(s)) <= H(Rest(s))
                  /\ f[Chosen(s)] \in Int /\ g[Chosen(s)] \in Int
                  /\ f[Chosen(s)] <= g[Chosen(s)]
    <3> HIDE DEF F, H
    <3> QED BY <1>1, RestFacts
  <2>3. s # {} => F(Rest(s)) \in Int /\ H(Rest(s)) \in Int
    <3> SUFFICES ASSUME s # {} PROVE F(Rest(s)) \in Int /\ H(Rest(s)) \in Int
      OBVIOUS
    <3>1. Rest(s) \in SUBSET S
      BY RestFacts
    <3> QED BY <3>1, FS_Subset, SumType
  <2> HIDE DEF F, H
  <2> QED BY <2>1, <2>2, <2>3
<1>2. \A s \in SUBSET S : s \in G
  <2>1. \A s \in SUBSET S : (\A r \in SUBSET s : r # s => r \in G) => s \in G
    <3> HIDE DEF F, H
    <3> QED BY <1>1
  <2> HIDE DEF G
  <2> QED BY <2>1, SubsetInduction
<1> QED BY <1>2

(* Functions that agree on a set have the same sum over it.                  *)
LEMMA SumSame ==
    ASSUME NEW S, IsFiniteSet(S), NEW f, NEW g, \A x \in S : f[x] \in Int /\ f[x] = g[x]
    PROVE  SumFunctionOnSet(f, S) = SumFunctionOnSet(g, S)
<1>1. SumFunctionOnSet(f, S) \in Int /\ SumFunctionOnSet(g, S) \in Int
  BY SumType
<1>2. SumFunctionOnSet(f, S) <= SumFunctionOnSet(g, S)
  BY SumMonotone
<1>3. SumFunctionOnSet(g, S) <= SumFunctionOnSet(f, S)
  BY SumMonotone
<1> QED BY <1>1, <1>2, <1>3

(* Zeros add up to zero.                                                    *)
LEMMA SumZeros ==
    ASSUME NEW S, IsFiniteSet(S)
    PROVE  SumFunction([x \in S |-> 0]) = 0
<1> DEFINE f == [x \in S |-> 0]
           Sum(s) == SumFunctionOnSet(f, s)
           G == {s \in SUBSET S : Sum(s) = 0}
<1>1. ASSUME NEW s \in SUBSET S, \A r \in SUBSET s : r # s => r \in G
      PROVE  Sum(s) = 0
  <2>1. Sum(s) = IF s = {} THEN 0 ELSE f[Chosen(s)] + Sum(Rest(s))
    BY FS_Subset, SumUnfolds
  <2>2. s # {} => Sum(Rest(s)) = 0 /\ f[Chosen(s)] = 0
    <3> HIDE DEF Sum
    <3> QED BY <1>1, RestFacts
  <2> HIDE DEF Sum, f
  <2> QED BY <2>1, <2>2
<1>2. \A s \in SUBSET S : s \in G
  <2>1. \A s \in SUBSET S : (\A r \in SUBSET s : r # s => r \in G) => s \in G
    <3> HIDE DEF Sum
    <3> QED BY <1>1
  <2> HIDE DEF G
  <2> QED BY <2>1, SubsetInduction
<1> QED BY <1>2 DEF SumFunction

(* Adding to the value at one point adds to the sum.                         *)
LEMMA SumUpdate ==
    ASSUME NEW S, IsFiniteSet(S), NEW f \in [S -> Int], NEW x \in S, NEW n \in Int
    PROVE  SumFunction([f EXCEPT ![x] = @ + n]) = SumFunction(f) + n
<1> DEFINE g == [f EXCEPT ![x] = @ + n]
<1>1. /\ DOMAIN f = S /\ DOMAIN g = S
      /\ \A y \in S : f[y] \in Int /\ g[y] = IF y = x THEN f[x] + n ELSE f[y]
  OBVIOUS
<1>2. SumFunction(g) = SumFunctionOnSet(g, S) /\ SumFunction(f) = SumFunctionOnSet(f, S)
  BY <1>1 DEF SumFunction
<1> HIDE DEF g
<1>3. /\ SumFunctionOnSet(f, S) = f[x] + SumFunctionOnSet(f, S \ {x})
      /\ SumFunctionOnSet(g, S) = g[x] + SumFunctionOnSet(g, S \ {x})
  BY <1>1, SumTakeOut
<1>4. IsFiniteSet(S \ {x})
  BY FS_RemoveElement
<1>5. SumFunctionOnSet(f, S \ {x}) = SumFunctionOnSet(g, S \ {x})
  BY <1>1, <1>4, SumSame
<1>6. SumFunctionOnSet(f, S \ {x}) \in Int
  BY <1>1, <1>4, SumType
<1>7. f[x] \in Int /\ g[x] = f[x] + n
  BY <1>1
<1>8. SumFunction(g) = SumFunction(f) + n
  BY <1>2, <1>3, <1>5, <1>6, <1>7
<1> QED BY <1>8 DEF g

(* A larger set of natural numbers has no smaller sum.                       *)
LEMMA SumSubset ==
    ASSUME NEW T, IsFiniteSet(T), NEW S \in SUBSET T, NEW f, \A x \in T : f[x] \in Nat
    PROVE  SumFunctionOnSet(f, S) <= SumFunctionOnSet(f, T)
<1> DEFINE Sum(s) == SumFunctionOnSet(f, s)
           G == {t \in SUBSET T : \A s \in SUBSET t : Sum(s) <= Sum(t)}
<1>1. ASSUME NEW t \in SUBSET T, \A r \in SUBSET t : r # t => r \in G, NEW s \in SUBSET t
      PROVE  Sum(s) <= Sum(t)
  <2>1. \A r \in SUBSET T : Sum(r) \in Nat
    BY FS_Subset, SumType
  <2>2. CASE s = t
    <3> HIDE DEF Sum
    <3> QED BY <2>1, <2>2
  <2>3. CASE s # t
    <3>1. PICK x \in t : x \notin s
      BY <2>3
    <3>2. /\ t \ {x} \in SUBSET t /\ t \ {x} \in SUBSET T /\ t \ {x} # t
          /\ s \in SUBSET (t \ {x})
      BY <3>1
    <3>3. Sum(s) <= Sum(t \ {x})
      <4> HIDE DEF Sum
      <4> QED BY <1>1, <3>2
    <3>4. Sum(t) = f[x] + Sum(t \ {x})
      BY <3>1, FS_Subset, SumTakeOut
    <3>5. Sum(s) \in Nat /\ Sum(t \ {x}) \in Nat /\ f[x] \in Nat
      <4> HIDE DEF Sum
      <4> QED BY <2>1, <3>1, <3>2
    <3> HIDE DEF Sum
    <3> QED BY <3>3, <3>4, <3>5
  <2> QED BY <2>2, <2>3
<1>2. \A t \in SUBSET T : t \in G
  <2>1. \A t \in SUBSET T : (\A r \in SUBSET t : r # t => r \in G) => t \in G
    <3> HIDE DEF Sum
    <3> QED BY <1>1
  <2> HIDE DEF G
  <2> QED BY <2>1, SubsetInduction
<1> QED BY <1>2

-----------------------------------------------------------------------------
(* The books                                                                 *)

(* The abstract specification is type-correct.                              *)
LEMMA SubmissionTypeCorrect == Spec => []TypeOK
<1>1. Init => TypeOK
  BY DEF Init, TypeOK
<1>2. TypeOK /\ [Next]_vars => TypeOK'
  BY DEF TypeOK, Next, Receive, Submit, Miss, Count, Report, vars
<1> QED BY <1>1, <1>2, PTL DEF Spec

(* A counted batch joins Counted, a received one that was unspent joins spent.*)
LEMMA OneMore ==
    ASSUME NEW S, NEW T, IsFiniteSet(S), IsFiniteSet(T), Cardinality(S) = Cardinality(T),
           NEW x, x \notin S, NEW y, y \notin T
    PROVE  Cardinality(S \cup {x}) = Cardinality(T \cup {y})
<1>1. Cardinality(S \cup {x}) = Cardinality(S) + 1
  BY FS_AddElement
<1>2. Cardinality(T \cup {y}) = Cardinality(T) + 1
  BY FS_AddElement
<1> QED BY <1>1, <1>2

(* Counting a batch always uses up a received batch of its own.              *)
THEOREM BooksBalance == Spec => []SpentPerCounted
<1>1. Init => SpentPerCounted
  BY FS_EmptySet DEF Init, SpentPerCounted, Counted
<1>2. TypeOK /\ SpentPerCounted /\ [Next]_vars => SpentPerCounted'
  <2> SUFFICES ASSUME TypeOK, SpentPerCounted, [Next]_vars PROVE SpentPerCounted'
    OBVIOUS
  <2>1. IsFiniteSet(Counted) /\ IsFiniteSet(spent)
    BY SubmissionAssumption, FS_Subset DEF Counted, TypeOK
  <2>2. ASSUME NEW b \in Batches, NEW c \in Batches,
               outcome[b] = "open", c \notin spent, c \in received',
               outcome' = [outcome EXCEPT ![b] = "counted"],
               spent' = spent \cup {c}, received \subseteq received'
        PROVE  SpentPerCounted'
    <3>1. Counted' = Counted \cup {b} /\ b \notin Counted
      BY <2>2 DEF Counted, TypeOK
    <3>2. Cardinality(Counted') = Cardinality(spent')
      BY <2>1, <2>2, <3>1, OneMore DEF SpentPerCounted
    <3> QED BY <2>2, <3>2 DEF SpentPerCounted
  <2>3. ASSUME Counted' = Counted, spent' = spent, received \subseteq received'
        PROVE  SpentPerCounted'
    BY <2>3 DEF SpentPerCounted
  <2>4. ASSUME NEW b \in Batches, NEW c \in Batches, Count(b, c)
        PROVE  SpentPerCounted'
    BY <2>2, <2>4 DEF Count
  <2>5. ASSUME NEW b \in Batches, Submit(b)
        PROVE  SpentPerCounted'
    <3>1. b \notin spent
      BY <2>5 DEF Submit, SpentPerCounted
    <3> QED BY <2>2, <2>5, <3>1 DEF Submit
  <2>6. ASSUME NEW b \in Batches, Miss(b)
        PROVE  SpentPerCounted'
    <3>1. Counted' = Counted
      BY <2>6 DEF Miss, Counted, TypeOK
    <3> QED BY <2>3, <2>6, <3>1 DEF Miss
  <2>7. ASSUME NEW b \in Batches, Receive(b)
        PROVE  SpentPerCounted'
    BY <2>3, <2>7 DEF Receive, Counted
  <2>8. CASE Report \/ UNCHANGED vars
    BY <2>3, <2>8 DEF Report, vars, Counted
  <2> QED BY <2>4, <2>5, <2>6, <2>7, <2>8 DEF Next
<1> QED BY <1>1, <1>2, SubmissionTypeCorrect, PTL DEF Spec

(* What is counted is no more than what is used up, and that was received:   *)
(* the sum of the counted batches never exceeds that of the received ones    *)
(* (main.c 218-222, 249-254).                                                *)
THEOREM CountsWithinReceipts == Spec => []CountedWithinReceived
<1> DEFINE Inv == TypeOK /\ spent \subseteq received /\ SizeOf(Counted) <= SizeOf(spent)
<1>a. ASSUME TypeOK
      PROVE  /\ IsFiniteSet(Counted) /\ IsFiniteSet(spent) /\ IsFiniteSet(received)
             /\ Counted \subseteq Batches /\ spent \subseteq Batches /\ received \subseteq Batches
             /\ \A b \in Batches : Size[b] \in Nat
             /\ SizeOf(Counted) \in Int /\ SizeOf(spent) \in Int /\ SizeOf(received) \in Int
  <2>1. /\ Counted \subseteq Batches /\ spent \subseteq Batches /\ received \subseteq Batches
        /\ \A b \in Batches : Size[b] \in Nat
    BY <1>a, SubmissionAssumption DEF Counted, TypeOK
  <2>2. IsFiniteSet(Counted) /\ IsFiniteSet(spent) /\ IsFiniteSet(received)
    BY <2>1, SubmissionAssumption, FS_Subset
  <2>3. SizeOf(Counted) \in Int /\ SizeOf(spent) \in Int /\ SizeOf(received) \in Int
    BY <2>1, <2>2, SumType DEF SizeOf
  <2> QED BY <2>1, <2>2, <2>3
<1>1. Init => Inv
  <2> SUFFICES ASSUME Init PROVE Inv
    OBVIOUS
  <2>1. TypeOK /\ Counted = {} /\ spent = {} /\ received = {}
    BY DEF Init, TypeOK, Counted
  <2>2. SizeOf(spent) \in Int
    BY <2>1, <1>a
  <2> QED BY <2>1, <2>2
<1>2. Inv /\ [Next]_vars => Inv'
  <2> SUFFICES ASSUME Inv, [Next]_vars PROVE Inv'
    OBVIOUS
  <2>1. TypeOK'
    BY DEF TypeOK, Next, Receive, Submit, Miss, Count, Report, vars
  <2>2. ASSUME NEW b \in Batches, NEW c \in Batches,
               outcome[b] = "open", c \notin spent, c \in received', Size[c] >= Size[b],
               outcome' = [outcome EXCEPT ![b] = "counted"],
               spent' = spent \cup {c}, received \subseteq received'
        PROVE  Inv'
    <3>1. Counted' = Counted \cup {b} /\ b \notin Counted
      BY <2>2 DEF Counted, TypeOK
    <3>2. SizeOf(Counted') = SizeOf(Counted) + Size[b]
      <4>1. \A y \in Counted \cup {b} : Size[y] \in Int
        BY <1>a
      <4>2. SumFunctionOnSet(Size, Counted \cup {b}) = SumFunctionOnSet(Size, Counted) + Size[b]
        BY <1>a, <3>1, <4>1, SumAdd
      <4> QED BY <3>1, <4>2 DEF SizeOf
    <3>3. SizeOf(spent') = SizeOf(spent) + Size[c]
      <4>1. \A y \in spent \cup {c} : Size[y] \in Int
        BY <1>a
      <4>2. SumFunctionOnSet(Size, spent \cup {c}) = SumFunctionOnSet(Size, spent) + Size[c]
        BY <1>a, <2>2, <4>1, SumAdd
      <4> QED BY <2>2, <4>2 DEF SizeOf
    <3>4. Size[b] \in Nat /\ Size[c] \in Nat
      BY <1>a
    <3>5. SizeOf(Counted') <= SizeOf(spent')
      BY <1>a, <2>2, <3>2, <3>3, <3>4
    <3> QED BY <2>1, <2>2, <3>5 DEF SizeOf
  <2>3. ASSUME Counted' = Counted, spent' = spent, received \subseteq received'
        PROVE  Inv'
    BY <2>1, <2>3 DEF SizeOf
  <2>4. ASSUME NEW b \in Batches, NEW c \in Batches, Count(b, c)
        PROVE  Inv'
    BY <2>2, <2>4 DEF Count
  <2>5. ASSUME NEW b \in Batches, Submit(b)
        PROVE  Inv'
    <3>1. b \notin spent /\ Size[b] >= Size[b]
      BY <1>a, <2>5 DEF Submit
    <3> QED BY <2>2, <2>5, <3>1 DEF Submit
  <2>6. ASSUME NEW b \in Batches, Miss(b)
        PROVE  Inv'
    <3>1. Counted' = Counted
      BY <2>6 DEF Miss, Counted, TypeOK
    <3> QED BY <2>3, <2>6, <3>1 DEF Miss
  <2>7. ASSUME NEW b \in Batches, Receive(b)
        PROVE  Inv'
    BY <2>3, <2>7 DEF Receive, Counted
  <2>8. CASE Report \/ UNCHANGED vars
    BY <2>3, <2>8 DEF Report, vars, Counted
  <2> QED BY <2>4, <2>5, <2>6, <2>7, <2>8 DEF Next
<1>3. Inv => CountedWithinReceived
  <2> SUFFICES ASSUME Inv PROVE SizeOf(Counted) <= SizeOf(received)
    BY DEF CountedWithinReceived
  <2>1. SizeOf(spent) <= SizeOf(received)
    BY <1>a, SumSubset DEF SizeOf
  <2> QED BY <1>a, <2>1
<1> QED BY <1>1, <1>2, <1>3, PTL DEF Spec

(* After the report no batch changes its outcome.                            *)
THEOREM ReportSettles == Spec => ReportIsFinal
<1> DEFINE Settled == reported => \A b \in Batches : outcome[b] # "open"
<1>1. Init => Settled
  BY DEF Init
<1>2. TypeOK /\ Settled /\ [Next]_vars => Settled'
  BY DEF TypeOK, Next, Receive, Submit, Miss, Count, Report, vars
<1>3. TypeOK /\ Settled /\ [Next]_vars => [reported => UNCHANGED outcome]_vars
  BY DEF TypeOK, Next, Receive, Submit, Miss, Count, Report, vars
<1> QED BY <1>1, <1>2, <1>3, SubmissionTypeCorrect, PTL DEF Spec, ReportIsFinal
=============================================================================

---------------------------- MODULE Blake3Proofs ----------------------------
(***************************************************************************)
(* The hasher computes the digest of its whole input, which is different   *)
(* for different inputs, for every size of chunks and blocks and however   *)
(* long the input is.                                                      *)
(***************************************************************************)
EXTENDS Blake3, SequenceTheorems, WellFoundedInduction, TLAPS

-----------------------------------------------------------------------------
(* Numbers                                                                   *)

(* What holds of 0, and of n + 1 once it holds of n, holds of all numbers.   *)
LEMMA NumberInduction ==
    ASSUME NEW G, 0 \in G, \A n \in Nat : n \in G => n + 1 \in G
    PROVE  \A n \in Nat : n \in G
<1> DEFINE T == {n \in Nat : n \notin G}
           R == {ss \in Nat \X Nat : ss[1] < ss[2]}
<1> SUFFICES ASSUME T # {} PROVE FALSE
  OBVIOUS
<1>1. IsWellFoundedOn(R, Nat)
  BY NatLessThanWellFounded, Zenon DEF OpToRel
<1>2. \A i, k \in Nat : k < i => <<k, i>> \in R
  BY SMT
<1>3. PICK n \in T : \A k \in T : ~(<<k, n>> \in R)
  <2>1. T \subseteq Nat
    OBVIOUS
  <2> HIDE DEF R, T
  <2> QED BY <1>1, <2>1, WFMin, Zenon
<1> HIDE DEF R
<1>4. n # 0 /\ n - 1 \in Nat /\ n - 1 < n
  OBVIOUS
<1>5. n - 1 \in G
  BY <1>2, <1>3, <1>4
<1> QED BY <1>4, <1>5

-----------------------------------------------------------------------------
(* The stack.  It never holds more than two values, so these are its cases.  *)

(* The smallest of one number, and of 1 and 2.                              *)
LEMMA MinFacts ==
    /\ \A n \in Nat : Min({n}) = n
    /\ Min({1, 2}) = 1
    /\ \A m, n \in Int : Min({m, n}) = IF m <= n THEN m ELSE n
<1>1. ASSUME NEW m \in Int, NEW n \in Int
      PROVE  Min({m, n}) = IF m <= n THEN m ELSE n
  <2> DEFINE r == IF m <= n THEN m ELSE n
  <2>1. r \in {m, n} /\ \A y \in {m, n} : r =< y
    OBVIOUS
  <2>2. \A x \in {m, n} : (\A y \in {m, n} : x =< y) => x = r
    OBVIOUS
  <2> HIDE DEF r
  <2>3. Min({m, n}) = r
    BY <2>1, <2>2 DEF Min
  <2> QED BY <2>3 DEF r
<1>2. ASSUME NEW n \in Nat
      PROVE  Min({n}) = n
  <2>1. {n} = {n, n}
    OBVIOUS
  <2> QED BY <1>1, <2>1
<1> QED BY <1>1, <1>2

(* iter merges the values at each set of positions.                         *)
Merges(iter, flags, stack, right) ==
    iter = [s \in SUBSET DOMAIN stack |->
              IF s = {} THEN right
              ELSE ParentCv(flags, stack[Min(s)], iter[s \ {Min(s)}])]

(* Merging is defined by such a function.                                   *)
LEMMA MergeIsIter ==
    ASSUME NEW flags, NEW stack, NEW right
    PROVE  MergeAll(flags, stack, right) =
             (CHOOSE iter : Merges(iter, flags, stack, right))[DOMAIN stack]
BY Zenon DEF MergeAll, FoldRight, MapThenFoldSet, Merges

(* The value merged from a stack, and the steps to it.                      *)
Unfolds(iter, flags, stack, right) ==
    /\ MergeAll(flags, stack, right) = iter[DOMAIN stack]
    /\ \A s \in SUBSET DOMAIN stack :
          iter[s] = IF s = {} THEN right
                    ELSE ParentCv(flags, stack[Min(s)], iter[s \ {Min(s)}])

(* If there is such a function, merging unfolds with it.                     *)
LEMMA MergeUnfolds ==
    ASSUME NEW flags, NEW stack, NEW right, \E iter : Merges(iter, flags, stack, right)
    PROVE  \E iter : Unfolds(iter, flags, stack, right)
<1> DEFINE iter == CHOOSE iter : Merges(iter, flags, stack, right)
<1>1. Merges(iter, flags, stack, right)
  BY Zenon
<1>2. MergeAll(flags, stack, right) = iter[DOMAIN stack]
  BY MergeIsIter
<1> HIDE DEF iter
<1>3. \A s \in SUBSET DOMAIN stack :
         iter[s] = IF s = {} THEN right
                   ELSE ParentCv(flags, stack[Min(s)], iter[s \ {Min(s)}])
  BY <1>1, Zenon DEF Merges
<1> QED BY <1>2, <1>3 DEF Unfolds

(* The stacks of up to two values.                                          *)
Stacks(a, b) == {<<>>, <<a>>, <<a, b>>}

(* There is one for no value, for one value and for two, which are merged    *)
(* from the top of the stack down.                                          *)
LEMMA MergeSmall ==
    ASSUME NEW flags, NEW a, NEW b, NEW right,
           NEW stack \in Stacks(a, b)
    PROVE  MergeAll(flags, stack, right) =
             IF Len(stack) = 0 THEN right
             ELSE IF Len(stack) = 1 THEN ParentCv(flags, a, right)
             ELSE ParentCv(flags, a, ParentCv(flags, b, right))
<1> DEFINE value(s) == IF s = {} THEN right
                       ELSE IF s = {1} THEN ParentCv(flags, a, right)
                       ELSE IF s = {2} THEN ParentCv(flags, b, right)
                       ELSE ParentCv(flags, a, ParentCv(flags, b, right))
           chain == [s \in SUBSET DOMAIN stack |-> value(s)]
<1>1. /\ DOMAIN stack \in {{}, {1}, {1, 2}}
      /\ 1 \in DOMAIN stack => stack[1] = a
      /\ 2 \in DOMAIN stack => stack[2] = b
  BY DEF Stacks
<1>2. /\ Min({1}) = 1 /\ Min({2}) = 2 /\ Min({1, 2}) = 1
      /\ {1} \ {1} = {} /\ {2} \ {2} = {} /\ {1, 2} \ {1} = {2}
  BY MinFacts
<1>3. ASSUME NEW s \in SUBSET DOMAIN stack
      PROVE  s \in {{}, {1}, {2}, {1, 2}}
  BY <1>1
<1>4. ASSUME NEW s \in SUBSET DOMAIN stack
      PROVE  value(s) = IF s = {} THEN right
                        ELSE ParentCv(flags, stack[Min(s)], value(s \ {Min(s)}))
  <2>1. CASE s = {}
    BY <2>1
  <2>2. CASE s = {1}
    BY <1>1, <1>2, <2>2
  <2>3. CASE s = {2}
    BY <1>1, <1>2, <2>3
  <2>4. CASE s = {1, 2}
    BY <1>1, <1>2, <2>4
  <2> QED BY <1>3, <2>1, <2>2, <2>3, <2>4
<1>5. ASSUME NEW s \in SUBSET DOMAIN stack, s # {}
      PROVE  s \ {Min(s)} \in SUBSET DOMAIN stack
  OBVIOUS
<1>6. \E iter : Merges(iter, flags, stack, right)
  <2> HIDE DEF value
  <2>1. \A s \in SUBSET DOMAIN stack :
           chain[s] = IF s = {} THEN right
                      ELSE ParentCv(flags, stack[Min(s)], chain[s \ {Min(s)}])
    BY <1>4, <1>5
  <2>2. chain = [s \in SUBSET DOMAIN stack |-> chain[s]]
    OBVIOUS
  <2> HIDE DEF chain
  <2>3. chain = [s \in SUBSET DOMAIN stack |->
                   IF s = {} THEN right
                   ELSE ParentCv(flags, stack[Min(s)], chain[s \ {Min(s)}])]
    BY <2>1, <2>2, Zenon
  <2> QED BY <2>3, Zenon DEF Merges
<1>7. PICK iter : Unfolds(iter, flags, stack, right)
  <2> HIDE DEF chain, value
  <2> QED BY <1>6, MergeUnfolds, Zenon
<1>8. iter[{}] = right
  BY <1>7 DEF Unfolds
<1>9. {1} \in SUBSET DOMAIN stack => iter[{1}] = ParentCv(flags, stack[1], iter[{}])
  BY <1>2, <1>7 DEF Unfolds
<1>10. {2} \in SUBSET DOMAIN stack => iter[{2}] = ParentCv(flags, stack[2], iter[{}])
  BY <1>2, <1>7 DEF Unfolds
<1>11. {1, 2} \in SUBSET DOMAIN stack => iter[{1, 2}] = ParentCv(flags, stack[1], iter[{2}])
  BY <1>2, <1>7 DEF Unfolds
<1>12. /\ Len(stack) = 0 => DOMAIN stack = {}
       /\ Len(stack) = 1 => DOMAIN stack = {1}
       /\ Len(stack) = 2 => DOMAIN stack = {1, 2}
       /\ Len(stack) \in {0, 1, 2}
  BY DEF Stacks
<1> QED BY <1>1, <1>7, <1>8, <1>9, <1>10, <1>11, <1>12 DEF Unfolds

(* powers holds the powers of two.                                          *)
Powers(power, n) == power = [m \in 0..n |-> IF m = 0 THEN 1 ELSE 2 * power[m - 1]]

(* 1 << m, as far as the stack needs it.                                    *)
LEMMA SmallPowers ==
    ASSUME NEW n \in 0..2
    PROVE  LET power == CHOOSE p : Powers(p, n)
           IN  power[0] = 1 /\ (n >= 1 => power[1] = 2) /\ (n >= 2 => power[2] = 4)
<1> DEFINE power == CHOOSE p : Powers(p, n)
           p0 == [m \in 0..n |-> IF m = 0 THEN 1 ELSE IF m = 1 THEN 2 ELSE 4]
<1>1. Powers(p0, n)
  <2>1. \A m \in 0..n : p0[m] = IF m = 0 THEN 1 ELSE 2 * p0[m - 1]
    OBVIOUS
  <2>2. p0 = [m \in 0..n |-> p0[m]]
    OBVIOUS
  <2> HIDE DEF p0
  <2>3. p0 = [m \in 0..n |-> IF m = 0 THEN 1 ELSE 2 * p0[m - 1]]
    BY <2>1, <2>2, Zenon
  <2> QED BY <2>3, Zenon DEF Powers
<1>2. Powers(power, n)
  <2> HIDE DEF p0
  <2> QED BY <1>1, Zenon
<1> HIDE DEF power
<1>3. \A m \in 0..n : power[m] = IF m = 0 THEN 1 ELSE 2 * power[m - 1]
  BY <1>2, Zenon DEF Powers
<1>4. power[0] = 1
  <2>1. 0 \in 0..n
    OBVIOUS
  <2> QED BY <1>3, <2>1
<1>5. n >= 1 => power[1] = 2
  <2>1. n >= 1 => 1 \in 0..n /\ 1 - 1 = 0
    OBVIOUS
  <2> QED BY <1>3, <1>4, <2>1
<1>6. n >= 2 => power[2] = 4
  <2>1. n >= 2 => 2 \in 0..n /\ 2 - 1 = 1
    OBVIOUS
  <2> QED BY <1>3, <1>5, <2>1
<1> QED BY <1>4, <1>5, <1>6 DEF power

(* Sequences of up to two elements.                                         *)
LEMMA SmallSequences ==
    /\ SubSeq(<<>>, 1, 0) = <<>>
    /\ \A x : Append(<<>>, x) = <<x>>
    /\ \A a : /\ Len(<<a>>) = 1 /\ SubSeq(<<a>>, 1, 0) = <<>>
              /\ SubSeq(<<a>>, 1, 1) = <<a>> /\ SubSeq(<<a>>, 2, 1) = <<>>
    /\ \A a, x : Append(<<a>>, x) = <<a, x>>
    /\ \A a, b : /\ Len(<<a, b>>) = 2
                 /\ SubSeq(<<a, b>>, 1, 0) = <<>> /\ SubSeq(<<a, b>>, 1, 2) = <<a, b>>
<1>1. ASSUME NEW a, NEW b
      PROVE  /\ Len(<<a>>) = 1 /\ Len(<<a, b>>) = 2
             /\ <<a>> \in Seq({a, b}) /\ <<a, b>> \in Seq({a, b})
  OBVIOUS
<1>2. ASSUME NEW a, NEW b
      PROVE  SubSeq(<<a>>, 1, 1) = <<a>> /\ SubSeq(<<a, b>>, 1, 2) = <<a, b>>
  <2>1. /\ SubSeq(<<a>>, 1, Len(<<a>>)) = <<a>>
        /\ SubSeq(<<a, b>>, 1, Len(<<a, b>>)) = <<a, b>>
    BY <1>1, SubSeqFull
  <2> QED BY <1>1, <2>1
<1>3. ASSUME NEW a, NEW b
      PROVE  Append(<<a>>, b) = <<a, b>>
  <2>1. /\ Append(<<a>>, b) \in Seq({a, b}) /\ Len(Append(<<a>>, b)) = 2
        /\ Append(<<a>>, b)[1] = a /\ Append(<<a>>, b)[2] = b
    BY <1>1, AppendProperties, a \in {a, b}, b \in {a, b}, 1 \in 1..1
  <2>2. \A i \in 1..2 : Append(<<a>>, b)[i] = <<a, b>>[i]
    BY <2>1
  <2> QED BY <1>1, <2>1, <2>2, SeqEqual
<1>4. /\ \A x : Append(<<>>, x) = <<x>>
      /\ \A s : SubSeq(s, 1, 0) = <<>> /\ SubSeq(s, 2, 1) = <<>>
  BY SubSeqEmpty
<1> QED BY <1>1, <1>2, <1>3, <1>4

(* What a new value does to a stack of up to two values, a and b, when c     *)
(* chunks were hashed before it.                                            *)
Adds(h, c, new_cv, a, b) ==
    /\ h.stack = <<>> => AddChunkCv(h, new_cv) = <<new_cv>>
    /\ h.stack = <<a>> =>
          AddChunkCv(h, new_cv) = IF c % 2 = 0 THEN <<a, new_cv>>
                                  ELSE <<ParentCv(h.flags, a, new_cv)>>
    /\ h.stack = <<a, b>> /\ c % 2 = 1 =>
          AddChunkCv(h, new_cv) = <<ParentCv(h.flags, a, ParentCv(h.flags, b, new_cv))>>

(* It is merged with nothing when the chunks before it are even in number,   *)
(* and with the whole stack when they are odd.                               *)
LEMMA AddChunkSmall ==
    ASSUME NEW h, NEW new_cv, NEW a, NEW b,
           NEW c \in Nat, h.chunk_counter = c
    PROVE  Adds(h, c, new_cv, a, b)
<1>a. <<>> \in Stacks(a, b) /\ <<a>> \in Stacks(a, b)
  BY DEF Stacks
<1>b. ASSUME NEW stack \in Stacks(a, b)
      PROVE  MergeAll(h.flags, stack, new_cv) =
               IF Len(stack) = 0 THEN new_cv
               ELSE IF Len(stack) = 1 THEN ParentCv(h.flags, a, new_cv)
               ELSE ParentCv(h.flags, a, ParentCv(h.flags, b, new_cv))
  BY MergeSmall
<1> DEFINE n == Len(h.stack)
           power == CHOOSE p : Powers(p, n)
           Even == {m \in 0..n : h.chunk_counter % power[m] = 0}
           kept == Max(Even)
<1>1. AddChunkCv(h, new_cv) =
        Append(SubSeq(h.stack, 1, kept),
               MergeAll(h.flags, SubSeq(h.stack, kept + 1, Len(h.stack)), new_cv))
  BY Zenon DEF AddChunkCv, Powers
<1>2. n \in 0..2 => power[0] = 1 /\ (n >= 1 => power[1] = 2) /\ (n >= 2 => power[2] = 4)
  BY SmallPowers
<1> HIDE DEF power
<1>3. ASSUME NEW k \in 0..n, n \in 0..2, k \in Even, \A m \in Even : m <= k
      PROVE  kept = k
  <2>1. \A m \in Even : m \in Int
    OBVIOUS
  <2> HIDE DEF Even
  <2>2. \A x \in Even : (\A y \in Even : x >= y) => x = k
    BY <1>3, <2>1
  <2>3. \A y \in Even : k >= y
    BY <1>3, <2>1
  <2> QED BY <1>3, <2>2, <2>3 DEF Max
<1>4. c % 1 = 0 /\ c % 2 \in {0, 1} /\ (c % 2 = 1 => c % 4 # 0)
  OBVIOUS
<1>5. ASSUME h.stack = <<>>
      PROVE  AddChunkCv(h, new_cv) = <<new_cv>>
  <2>1. n = 0
    BY <1>5
  <2>2. kept = 0
    BY <1>2, <1>3, <1>4, <2>1
  <2> HIDE DEF kept, Even
  <2>3. SubSeq(h.stack, 1, kept) = <<>> /\ SubSeq(h.stack, kept + 1, Len(h.stack)) = <<>>
    BY <1>5, <2>1, <2>2, SmallSequences
  <2> QED BY <1>a, <1>b, <1>1, <2>3, SmallSequences
<1>6. ASSUME h.stack = <<a>>, c % 2 = 0
      PROVE  AddChunkCv(h, new_cv) = <<a, new_cv>>
  <2>1. n = 1
    BY <1>6
  <2>2. kept = 1
    BY <1>2, <1>3, <1>6, <2>1
  <2> HIDE DEF kept, Even
  <2>3. SubSeq(h.stack, 1, kept) = <<a>> /\ SubSeq(h.stack, kept + 1, Len(h.stack)) = <<>>
    BY <1>6, <2>1, <2>2, SmallSequences
  <2> QED BY <1>a, <1>b, <1>1, <2>3, SmallSequences
<1>7. ASSUME h.stack = <<a>>, c % 2 # 0
      PROVE  AddChunkCv(h, new_cv) = <<ParentCv(h.flags, a, new_cv)>>
  <2>1. n = 1
    BY <1>7
  <2>2. kept = 0
    BY <1>2, <1>3, <1>4, <1>7, <2>1
  <2> HIDE DEF kept, Even
  <2>3. SubSeq(h.stack, 1, kept) = <<>> /\ SubSeq(h.stack, kept + 1, Len(h.stack)) = <<a>>
    BY <1>7, <2>1, <2>2, SmallSequences
  <2> QED BY <1>a, <1>b, <1>1, <2>3, SmallSequences
<1>8. ASSUME h.stack = <<a, b>>, c % 2 = 1
      PROVE  AddChunkCv(h, new_cv) = <<ParentCv(h.flags, a, ParentCv(h.flags, b, new_cv))>>
  <2>1. n = 2
    BY <1>8
  <2>2. kept = 0
    BY <1>2, <1>3, <1>4, <1>8, <2>1
  <2> HIDE DEF kept, Even
  <2>3. SubSeq(h.stack, 1, kept) = <<>> /\ SubSeq(h.stack, kept + 1, Len(h.stack)) = <<a, b>>
    BY <1>8, <2>1, <2>2, SmallSequences
  <2> DEFINE top == SubSeq(h.stack, kept + 1, Len(h.stack))
  <2>4. top \in Stacks(a, b) /\ Len(top) = 2
    BY <2>3 DEF Stacks
  <2> HIDE DEF top
  <2>5. MergeAll(h.flags, top, new_cv) = ParentCv(h.flags, a, ParentCv(h.flags, b, new_cv))
    BY <1>b, <2>4
  <2> QED BY <1>1, <2>3, <2>5, SmallSequences DEF top
<1> QED BY <1>5, <1>6, <1>7, <1>8 DEF Adds

-----------------------------------------------------------------------------
(* Values merged from left to right                                          *)

(* merged holds, for each k, what the values P[0] to P[k] are merged to.     *)
LeftToRight(merged, flags, P, n) ==
    merged = [k \in 0..n |-> IF k = 0 THEN P[0] ELSE ParentCv(flags, merged[k - 1], P[k])]

MergedFrom(flags, P, n) == CHOOSE merged : LeftToRight(merged, flags, P, n)

(* The value that P[0] to P[n] are merged to.                               *)
Merged(flags, P, n) == MergedFrom(flags, P, n)[n]

(* Two such functions agree as far as what they merge does.                  *)
LEMMA LeftToRightAgree ==
    ASSUME NEW flags, NEW P, NEW Q, NEW m \in Nat, NEW n \in Nat, NEW f, NEW g,
           LeftToRight(f, flags, P, m), LeftToRight(g, flags, Q, n),
           NEW j \in Nat, j <= m, j <= n, \A k \in 0..j : P[k] = Q[k]
    PROVE  \A k \in 0..j : f[k] = g[k]
<1> DEFINE G == {k \in Nat : k <= j => f[k] = g[k]}
<1>1. /\ \A k \in 0..m : f[k] = IF k = 0 THEN P[0] ELSE ParentCv(flags, f[k - 1], P[k])
      /\ \A k \in 0..n : g[k] = IF k = 0 THEN Q[0] ELSE ParentCv(flags, g[k - 1], Q[k])
  BY Zenon DEF LeftToRight
<1>2. 0 \in G
  BY <1>1
<1>3. ASSUME NEW k \in Nat, k \in G
      PROVE  k + 1 \in G
  <2> SUFFICES ASSUME k + 1 <= j PROVE f[k + 1] = g[k + 1]
    OBVIOUS
  <2>1. k + 1 \in 0..m /\ k + 1 \in 0..n /\ k + 1 \in 0..j /\ k + 1 # 0 /\ (k + 1) - 1 = k
    OBVIOUS
  <2>2. f[k] = g[k]
    BY <1>3
  <2> QED BY <1>1, <2>1, <2>2
<1> HIDE DEF G
<1>4. \A k \in Nat : k \in G
  BY <1>2, <1>3, NumberInduction
<1> QED BY <1>4 DEF G

(* There is such a function for every number of values.                      *)
LEMMA LeftToRightExists ==
    ASSUME NEW flags, NEW P
    PROVE  \A n \in Nat : \E merged : LeftToRight(merged, flags, P, n)
<1> DEFINE G == {n \in Nat : \E merged : LeftToRight(merged, flags, P, n)}
<1>1. 0 \in G
  <2> DEFINE f == [k \in 0..0 |-> P[0]]
  <2>1. \A k \in 0..0 : f[k] = IF k = 0 THEN P[0] ELSE ParentCv(flags, f[k - 1], P[k])
    OBVIOUS
  <2>2. f = [k \in 0..0 |-> f[k]]
    OBVIOUS
  <2> HIDE DEF f
  <2>3. f = [k \in 0..0 |-> IF k = 0 THEN P[0] ELSE ParentCv(flags, f[k - 1], P[k])]
    BY <2>1, <2>2, Zenon
  <2>4. LeftToRight(f, flags, P, 0)
    BY <2>3, Zenon DEF LeftToRight
  <2> QED BY <2>4
<1>2. ASSUME NEW n \in Nat, n \in G
      PROVE  n + 1 \in G
  <2>1. PICK f : LeftToRight(f, flags, P, n)
    BY <1>2
  <2>2. \A k \in 0..n : f[k] = IF k = 0 THEN P[0] ELSE ParentCv(flags, f[k - 1], P[k])
    BY <2>1, Zenon DEF LeftToRight
  <2> DEFINE g == [k \in 0..(n + 1) |-> IF k <= n THEN f[k] ELSE ParentCv(flags, f[n], P[k])]
  <2>3. ASSUME NEW k \in 0..(n + 1)
        PROVE  g[k] = IF k = 0 THEN P[0] ELSE ParentCv(flags, g[k - 1], P[k])
    <3>1. CASE k = 0
      BY <2>2, <3>1
    <3>2. CASE k # 0 /\ k <= n
      <4>1. k \in 0..n /\ k - 1 \in 0..(n + 1) /\ k - 1 <= n
        BY <3>2
      <4> QED BY <2>2, <3>2, <4>1
    <3>3. CASE k = n + 1
      <4>1. k - 1 = n /\ n \in 0..(n + 1) /\ n <= n /\ ~(k <= n) /\ k # 0
        BY <3>3
      <4> QED BY <4>1
    <3> QED BY <3>1, <3>2, <3>3
  <2>4. g = [k \in 0..(n + 1) |-> g[k]]
    OBVIOUS
  <2> HIDE DEF g
  <2>5. g = [k \in 0..(n + 1) |-> IF k = 0 THEN P[0] ELSE ParentCv(flags, g[k - 1], P[k])]
    BY <2>3, <2>4, Zenon
  <2>6. LeftToRight(g, flags, P, n + 1)
    BY <2>5, Zenon DEF LeftToRight
  <2> QED BY <2>6
<1>3. \A n \in Nat : n \in G
  <2> HIDE DEF G
  <2> QED BY <1>1, <1>2, NumberInduction
<1> QED BY <1>3

(* The function that is chosen is one.                                      *)
LEMMA MergedByIt ==
    ASSUME NEW flags, NEW P, NEW n \in Nat
    PROVE  LeftToRight(MergedFrom(flags, P, n), flags, P, n)
BY LeftToRightExists, Zenon DEF MergedFrom

(* How the merged value grows.                                              *)
LEMMA MergedFacts ==
    ASSUME NEW flags, NEW P
    PROVE  /\ Merged(flags, P, 0) = P[0]
           /\ \A n \in Nat : Merged(flags, P, n + 1) = ParentCv(flags, Merged(flags, P, n), P[n + 1])
<1>1. ASSUME NEW n \in Nat
      PROVE  LeftToRight(MergedFrom(flags, P, n), flags, P, n)
  BY MergedByIt
<1>2. ASSUME NEW n \in Nat, NEW k \in 0..n
      PROVE  MergedFrom(flags, P, n)[k] =
               IF k = 0 THEN P[0] ELSE ParentCv(flags, MergedFrom(flags, P, n)[k - 1], P[k])
  <2>1. LeftToRight(MergedFrom(flags, P, n), flags, P, n)
    BY <1>1
  <2> QED BY <2>1, Zenon DEF LeftToRight
<1>3. Merged(flags, P, 0) = P[0]
  BY <1>2 DEF Merged
<1>4. ASSUME NEW n \in Nat
      PROVE  Merged(flags, P, n + 1) = ParentCv(flags, Merged(flags, P, n), P[n + 1])
  <2> DEFINE f == MergedFrom(flags, P, n)
             g == MergedFrom(flags, P, n + 1)
  <2>1. LeftToRight(f, flags, P, n) /\ LeftToRight(g, flags, P, n + 1)
    BY <1>1
  <2>2. g[n + 1] = ParentCv(flags, g[n], P[n + 1])
    <3>1. n + 1 \in Nat /\ n + 1 \in 0..(n + 1) /\ n + 1 # 0 /\ (n + 1) - 1 = n
      OBVIOUS
    <3> QED BY <1>2, <3>1
  <2> HIDE DEF f, g
  <2>3. f[n] = g[n]
    <3>1. n <= n /\ n <= n + 1 /\ n + 1 \in Nat /\ n \in 0..n
      OBVIOUS
    <3> QED BY <2>1, <3>1, LeftToRightAgree
  <2> QED BY <2>2, <2>3 DEF f, g, Merged
<1> QED BY <1>3, <1>4

(* It depends on no other values.                                           *)
LEMMA MergedAgree ==
    ASSUME NEW flags, NEW P, NEW Q, NEW n \in Nat, \A k \in 0..n : P[k] = Q[k]
    PROVE  Merged(flags, P, n) = Merged(flags, Q, n)
<1> DEFINE f == MergedFrom(flags, P, n)
           g == MergedFrom(flags, Q, n)
<1>1. LeftToRight(f, flags, P, n) /\ LeftToRight(g, flags, Q, n)
  BY MergedByIt
<1> HIDE DEF f, g
<1>2. n <= n /\ n \in 0..n
  OBVIOUS
<1>3. \A k \in 0..n : f[k] = g[k]
  BY <1>1, <1>2, LeftToRightAgree
<1> QED BY <1>2, <1>3 DEF f, g, Merged

-----------------------------------------------------------------------------
(* The input                                                                 *)

(* The bytes from a to b are a sequence of b - a numbers.                    *)
LEMMA BytesFacts ==
    ASSUME NEW a \in Nat, NEW b \in Nat, a <= b
    PROVE  /\ Bytes(a, b) \in Seq(Nat)
           /\ Len(Bytes(a, b)) = b - a
           /\ \A i \in 1..(b - a) : Bytes(a, b)[i] = a + i
           /\ Bytes(a, b) = <<>> <=> a = b
<1>1. b - a \in Nat
  OBVIOUS
<1>2. DOMAIN Bytes(a, b) = 1..(b - a)
  BY DEF Bytes
<1>3. \A i \in 1..(b - a) : Bytes(a, b)[i] = a + i
  BY DEF Bytes
<1>4. Bytes(a, b) \in [1..(b - a) -> Nat]
  BY DEF Bytes
<1>5. Bytes(a, b) \in Seq(Nat)
  BY <1>1, <1>4, IsASeq
<1>6. Len(Bytes(a, b)) = b - a
  BY <1>1, <1>2, <1>5, LenProperties
<1> QED BY <1>3, <1>5, <1>6

(* Named, so that facts about parts can be used.                             *)
Part(s, m, n) == SubSeq(s, m, n)

(* A part of them.                                                          *)
LEMMA BytesPart ==
    ASSUME NEW a \in Nat, NEW d \in Nat, NEW i \in Nat, NEW m \in Nat,
           NEW from \in Nat, NEW to \in Nat,
           i > 0, i - 1 <= m, a + m <= d, from = a + i - 1, to = a + m
    PROVE  Part(Bytes(a, d), i, m) = Bytes(from, to)
<1> DEFINE k == i - 1
           s == Bytes(a, d)
           part == SubSeq(s, i, m)
           t == Bytes(a + k, a + m)
<1>k. k \in Nat /\ k <= m /\ i = k + 1
  OBVIOUS
<1>e. t = Bytes(from, to)
  <2>1. a + k = from /\ a + m = to
    OBVIOUS
  <2> HIDE DEF k
  <2> QED BY <2>1
<1> HIDE DEF k
<1>1. s \in Seq(Nat) /\ Len(s) = d - a /\ \A x \in 1..(d - a) : s[x] = a + x
  <2>1. a <= d
    OBVIOUS
  <2> QED BY <2>1, BytesFacts
<1>2. t \in Seq(Nat) /\ Len(t) = m - k /\ \A w \in 1..(m - k) : t[w] = a + k + w
  <2> DEFINE x == a + k
             y == a + m
  <2>1. x \in Nat /\ y \in Nat /\ x <= y /\ y - x = m - k
    BY <1>k
  <2>2. t = Bytes(x, y)
    OBVIOUS
  <2> HIDE DEF x, y, t
  <2>3. t \in Seq(Nat) /\ Len(t) = y - x /\ \A w \in 1..(y - x) : t[w] = x + w
    BY <2>1, <2>2, BytesFacts
  <2> QED BY <2>1, <2>3 DEF x
<1> HIDE DEF s, t
<1>3. \A w \in (k + 1)..m : s[w] \in Nat
  BY <1>1, <1>k
<1>4. /\ part \in Seq(Nat)
      /\ Len(part) = m - k
      /\ \A w \in 1..(m - k) : part[w] = s[k + w]
  BY <1>3, <1>k, SubSeqProperties
<1> HIDE DEF part
<1>5. \A w \in 1..(m - k) : part[w] = t[w]
  BY <1>1, <1>2, <1>4, <1>k
<1>6. part = t
  BY <1>2, <1>4, <1>5, SeqEqual
<1> QED BY <1>6, <1>e DEF part, s, Part

(* Two parts that follow each other.                                        *)
LEMMA BytesJoin ==
    ASSUME NEW a \in Nat, NEW b \in Nat, NEW d \in Nat, a <= b, b <= d
    PROVE  Bytes(a, b) \o Bytes(b, d) = Bytes(a, d)
<1> DEFINE s == Bytes(a, b)
           t == Bytes(b, d)
           u == Bytes(a, d)
<1>a. s \in Seq(Nat) /\ Len(s) = b - a /\ \A i \in 1..(b - a) : s[i] = a + i
  BY BytesFacts
<1>b. t \in Seq(Nat) /\ Len(t) = d - b /\ \A i \in 1..(d - b) : t[i] = b + i
  BY BytesFacts
<1>c. u \in Seq(Nat) /\ Len(u) = d - a /\ \A i \in 1..(d - a) : u[i] = a + i
  BY BytesFacts
<1> HIDE DEF s, t, u
<1>1. s \o t \in Seq(Nat) /\ Len(s \o t) = Len(s) + Len(t)
  BY <1>a, <1>b, ConcatProperties
<1>2. \A i \in 1..(Len(s) + Len(t)) :
         (s \o t)[i] = IF i <= Len(s) THEN s[i] ELSE t[i - Len(s)]
  BY <1>a, <1>b, ConcatProperties
<1>3. ASSUME NEW i \in 1..(d - a)
      PROVE  (s \o t)[i] = u[i]
  <2>1. i \in 1..(Len(s) + Len(t)) /\ u[i] = a + i
    BY <1>a, <1>b, <1>c
  <2>2. CASE i <= b - a
    <3>1. (s \o t)[i] = s[i] /\ i \in 1..(b - a)
      BY <1>2, <1>a, <2>1, <2>2
    <3> QED BY <1>a, <2>1, <3>1
  <2>3. CASE ~(i <= b - a)
    <3>1. (s \o t)[i] = t[i - (b - a)] /\ i - (b - a) \in 1..(d - b)
      BY <1>2, <1>a, <2>1, <2>3
    <3> QED BY <1>b, <2>1, <3>1
  <2> QED BY <2>2, <2>3
<1>4. Len(s \o t) = Len(u) /\ Len(u) = d - a
  BY <1>1, <1>a, <1>b, <1>c
<1>5. s \o t = u
  BY <1>1, <1>3, <1>4, <1>c, SeqEqual
<1> QED BY <1>5 DEF s, t, u

-----------------------------------------------------------------------------
(* Chunks                                                                    *)

(* Where a chunk starts.                                                    *)
Start(c) == c * BLAKE3_CHUNK_LEN

(* Chunks begin one after the other.                                       *)
LEMMA StartFacts ==
    /\ \A c \in Nat : Start(c) \in Nat /\ Start(c + 1) = Start(c) + BLAKE3_CHUNK_LEN
    /\ Start(0) = 0
    /\ BLAKE3_CHUNK_LEN \in Nat /\ BLAKE3_CHUNK_LEN > 0
    /\ \A c, i \in Nat : i < c => Start(i + 1) <= Start(c)
<1>1. BLAKE3_CHUNK_LEN \in Nat /\ BLAKE3_CHUNK_LEN > 0
  BY SizesAssumption
<1>2. \A c, i, n \in Nat : i < c => (i + 1) * n <= c * n
  BY SMTT(60)
<1> QED BY <1>1, <1>2 DEF Start

(* The number of the chunk a byte is in.                                    *)
LEMMA DivFacts ==
    ASSUME NEW c \in Nat, NEW x \in Nat, Start(c) <= x, x < Start(c + 1)
    PROVE  x \div BLAKE3_CHUNK_LEN = c
<1>1. BLAKE3_CHUNK_LEN \in Nat /\ BLAKE3_CHUNK_LEN > 0
  BY SizesAssumption
<1>2. ASSUME NEW n \in Nat, n > 0, c * n <= x, x < (c + 1) * n
      PROVE  x \div n = c
  BY <1>2, SMTT(60)
<1> QED BY <1>1, <1>2 DEF Start

-----------------------------------------------------------------------------
(* The digest as a function of the input                                     *)

Chunks(bytes) == IF bytes = <<>> THEN 1 ELSE ((Len(bytes) - 1) \div BLAKE3_CHUNK_LEN) + 1

(* The number of the last pair.                                             *)
LastPair(bytes) == (Chunks(bytes) - 1) \div 2

Leaf(flags, bytes, i) ==
    ChunkCv(flags, i, SubSeq(bytes, i * BLAKE3_CHUNK_LEN + 1,
                             Min({(i + 1) * BLAKE3_CHUNK_LEN, Len(bytes)})))

Pair(flags, bytes, k) ==
    IF 2 * k + 1 < Chunks(bytes)
    THEN ParentCv(flags, Leaf(flags, bytes, 2 * k), Leaf(flags, bytes, 2 * k + 1))
    ELSE Leaf(flags, bytes, 2 * k)

Pairs(flags, bytes) == [k \in 0..LastPair(bytes) |-> Pair(flags, bytes, k)]

Combines(comb, flags, bytes) ==
    comb = [k \in 0..LastPair(bytes) |->
              IF k = 0 THEN Pair(flags, bytes, 0)
              ELSE ParentCv(flags, comb[k - 1], Pair(flags, bytes, k))]

(* DigestOf is defined by such a function.                                  *)
LEMMA DigestIsCombined ==
    ASSUME NEW flags, NEW bytes
    PROVE  DigestOf(flags, bytes) =
             RootOf(flags, (CHOOSE comb : Combines(comb, flags, bytes))[LastPair(bytes)])
BY Zenon DEF DigestOf, Combines, LastPair, Chunks, Pair, Leaf

(* It merges the pairs.                                                     *)
LEMMA DigestMerges ==
    ASSUME NEW flags, NEW bytes, LastPair(bytes) \in Nat
    PROVE  DigestOf(flags, bytes) = RootOf(flags, Merged(flags, Pairs(flags, bytes), LastPair(bytes)))
<1> DEFINE n == LastPair(bytes)
           P == Pairs(flags, bytes)
           comb == CHOOSE f : Combines(f, flags, bytes)
<1>1. \A k \in 0..n : P[k] = Pair(flags, bytes, k)
  BY Zenon DEF Pairs
<1>2. 0 \in 0..n /\ n \in 0..n
  OBVIOUS
<1> HIDE DEF P
<1>3. ASSUME NEW f
      PROVE  Combines(f, flags, bytes) <=> LeftToRight(f, flags, P, n)
  <2>1. [k \in 0..n |-> IF k = 0 THEN Pair(flags, bytes, 0)
                        ELSE ParentCv(flags, f[k - 1], Pair(flags, bytes, k))]
          = [k \in 0..n |-> IF k = 0 THEN P[0] ELSE ParentCv(flags, f[k - 1], P[k])]
    <3> HIDE DEF n
    <3> QED BY <1>1, <1>2
  <2> QED BY <2>1, Zenon DEF Combines, LeftToRight
<1>4. \E f : Combines(f, flags, bytes)
  <2> HIDE DEF n
  <2> QED BY <1>3, LeftToRightExists, n \in Nat DEF n
<1>5. Combines(comb, flags, bytes)
  BY <1>4, Zenon
<1>6. LeftToRight(comb, flags, P, n)
  BY <1>3, <1>5
<1>7. DigestOf(flags, bytes) = RootOf(flags, comb[n])
  BY DigestIsCombined
<1> HIDE DEF comb, n
<1>8. n \in Nat
  BY DEF n
<1>9. LeftToRight(MergedFrom(flags, P, n), flags, P, n)
  BY <1>8, MergedByIt
<1>10. comb[n] = Merged(flags, P, n)
  <2>1. n <= n
    BY <1>8
  <2>2. \A k \in 0..n : comb[k] = MergedFrom(flags, P, n)[k]
    BY <1>6, <1>8, <1>9, <2>1, LeftToRightAgree
  <2> QED BY <1>2, <2>2 DEF Merged
<1> QED BY <1>7, <1>10 DEF P, n

-----------------------------------------------------------------------------
(* The invariant                                                             *)

(* The value of a chunk that is followed by others.                         *)
Whole(flags, i) == ChunkCv(flags, i, Bytes(Start(i), Start(i + 1)))

WholePairs(flags) ==
    [k \in Nat |-> ParentCv(flags, Whole(flags, 2 * k), Whole(flags, 2 * k + 1))]

(* Two chunks make a pair.  All pairs of the first c chunks are merged into  *)
(* one value, and a chunk that has no second one yet stays above it.         *)
StackOf(flags, c, stack) ==
    \E j \in Nat :
       \/ /\ c = 2 * j
          /\ stack = IF j = 0 THEN <<>> ELSE <<Merged(flags, WholePairs(flags), j - 1)>>
       \/ /\ c = 2 * j + 1
          /\ stack = IF j = 0 THEN <<Whole(flags, 0)>>
                     ELSE <<Merged(flags, WholePairs(flags), j - 1), Whole(flags, 2 * j)>>

Modes == {{}, {"KEYED_HASH"}}

(* h took done bytes: those of its c chunks are on the stack, the others,    *)
(* which are no more than a chunk, are in the buffer.                        *)
Took(h, c, done) ==
    /\ h = [flags |-> h.flags, stack |-> h.stack, chunk_counter |-> c, buf |-> h.buf]
    /\ h.flags \in Modes
    /\ StackOf(h.flags, c, h.stack)
    /\ Start(c) <= done /\ done <= Start(c + 1)
    /\ h.buf = Bytes(Start(c), done)

(* The input that is left is what comes next, and the buffer is not empty    *)
(* unless nothing was taken.                                                *)
HashInv ==
    /\ length \in Nat
    /\ \E c, done \in Nat :
          /\ Took(hasher, c, done)
          /\ done <= length
          /\ c # 0 => Start(c) < done
          /\ input = Bytes(done, length)

(* A chunk more keeps the stack as it should be.                            *)
LEMMA StackGrows ==
    ASSUME NEW h, NEW c \in Nat, h.chunk_counter = c, StackOf(h.flags, c, h.stack)
    PROVE  StackOf(h.flags, c + 1, AddChunkCv(h, Whole(h.flags, c)))
<1> DEFINE flags == h.flags
           M(n) == Merged(flags, WholePairs(flags), n)
           W(i) == Whole(flags, i)
           new == AddChunkCv(h, W(c))
<1>1. PICK j \in Nat :
         \/ c = 2 * j /\ h.stack = IF j = 0 THEN <<>> ELSE <<M(j - 1)>>
         \/ c = 2 * j + 1 /\ h.stack = IF j = 0 THEN <<W(0)>> ELSE <<M(j - 1), W(2 * j)>>
  BY Zenon DEF StackOf
<1>2. /\ M(0) = ParentCv(flags, W(0), W(1))
      /\ j # 0 => M(j) = ParentCv(flags, M(j - 1), ParentCv(flags, W(2 * j), W(2 * j + 1)))
  <2> DEFINE P == WholePairs(flags)
  <2>1. \A k \in Nat : P[k] = ParentCv(flags, W(2 * k), W(2 * k + 1))
    BY Zenon DEF WholePairs
  <2> HIDE DEF P, W
  <2>2. P[0] = ParentCv(flags, W(0), W(1))
    <3>1. 2 * 0 = 0 /\ 2 * 0 + 1 = 1
      OBVIOUS
    <3> QED BY <2>1, <3>1
  <2>3. P[j] = ParentCv(flags, W(2 * j), W(2 * j + 1))
    BY <2>1
  <2>4. Merged(flags, P, 0) = P[0]
    BY MergedFacts
  <2>5. \A n \in Nat : Merged(flags, P, n + 1) = ParentCv(flags, Merged(flags, P, n), P[n + 1])
    BY MergedFacts
  <2>6. j # 0 => j - 1 \in Nat /\ (j - 1) + 1 = j
    OBVIOUS
  <2>7. j # 0 => Merged(flags, P, j) = ParentCv(flags, Merged(flags, P, j - 1), P[j])
    BY <2>5, <2>6
  <2> QED BY <2>2, <2>3, <2>4, <2>7 DEF P
<1>3. /\ c = 2 * j => c % 2 = 0
      /\ c = 2 * j + 1 => c % 2 = 1
  OBVIOUS
<1> HIDE DEF M, W, flags
<1>a. \A a, b : /\ h.stack = <<>> => new = <<W(c)>>
                /\ h.stack = <<a>> =>
                      new = IF c % 2 = 0 THEN <<a, W(c)>> ELSE <<ParentCv(flags, a, W(c))>>
                /\ h.stack = <<a, b>> /\ c % 2 = 1 =>
                      new = <<ParentCv(flags, a, ParentCv(flags, b, W(c)))>>
  <2> HIDE DEF new
  <2> SUFFICES ASSUME NEW a, NEW b
               PROVE  /\ h.stack = <<>> => new = <<W(c)>>
                      /\ h.stack = <<a>> =>
                            new = IF c % 2 = 0 THEN <<a, W(c)>> ELSE <<ParentCv(flags, a, W(c))>>
                      /\ h.stack = <<a, b>> /\ c % 2 = 1 =>
                            new = <<ParentCv(flags, a, ParentCv(flags, b, W(c)))>>
    OBVIOUS
  <2>1. h.chunk_counter = c
    OBVIOUS
  <2> DEFINE new_cv == W(c)
  <2> HIDE DEF new_cv
  <2>2. new = AddChunkCv(h, new_cv)
    BY DEF new, new_cv
  <2>3. Adds(h, c, new_cv, a, b)
    BY <2>1, AddChunkSmall
  <2> QED BY <2>2, <2>3, Zenon DEF flags, new_cv, Adds
<1> HIDE DEF new
<1>4. CASE c = 2 * j
  <2>1. new = IF j = 0 THEN <<W(0)>> ELSE <<M(j - 1), W(2 * j)>>
    <3>1. CASE j = 0
      <4>1. h.stack = <<>> /\ c = 0
        BY <1>1, <1>4, <3>1
      <4> QED BY <1>a, <3>1, <4>1
    <3>2. CASE j # 0
      <4>1. h.stack = <<M(j - 1)>> /\ c % 2 = 0
        BY <1>1, <1>3, <1>4, <3>2
      <4> QED BY <1>4, <1>a, <3>2, <4>1
    <3> QED BY <3>1, <3>2
  <2>2. c + 1 = 2 * j + 1
    BY <1>4
  <2> QED BY <2>1, <2>2, Zenon DEF StackOf, M, W, flags, new
<1>5. CASE c = 2 * j + 1
  <2>1. new = <<M(j)>>
    <3>1. CASE j = 0
      <4>1. h.stack = <<W(0)>> /\ c = 1 /\ c % 2 = 1
        BY <1>1, <1>3, <1>5, <3>1
      <4>2. new = <<ParentCv(flags, W(0), W(1))>>
        <5>1. c % 2 # 0
          BY <4>1
        <5> QED BY <1>a, <4>1, <5>1
      <4> QED BY <1>2, <3>1, <4>2
    <3>2. CASE j # 0
      <4>1. h.stack = <<M(j - 1), W(2 * j)>> /\ c % 2 = 1
        BY <1>1, <1>3, <1>5, <3>2
      <4> QED BY <1>2, <1>5, <1>a, <3>2, <4>1
    <3> QED BY <3>1, <3>2
  <2> DEFINE i == j + 1
  <2>2. i \in Nat /\ i # 0 /\ i - 1 = j /\ c + 1 = 2 * i
    BY <1>5
  <2> HIDE DEF i
  <2>3. new = IF i = 0 THEN <<>> ELSE <<M(i - 1)>>
    BY <2>1, <2>2
  <2> QED BY <2>2, <2>3, Zenon DEF StackOf, M, W, flags, new
<1> QED BY <1>1, <1>4, <1>5

(* When the buffer is full.                                                 *)
LEMMA WhenFull ==
    ASSUME NEW h, NEW c \in Nat, NEW done \in Nat, Took(h, c, done)
    PROVE  /\ h.chunk_counter = c
           /\ Len(h.buf) = done - Start(c)
           /\ Full(h) <=> done = Start(c + 1)
<1>1. h.chunk_counter = c
  BY DEF Took
<1>2. Start(c) \in Nat /\ Start(c) <= done /\ Start(c + 1) = Start(c) + BLAKE3_CHUNK_LEN
  BY StartFacts DEF Took
<1>3. Len(h.buf) = done - Start(c)
  <2>1. h.buf = Bytes(Start(c), done)
    BY DEF Took
  <2> QED BY <1>2, <2>1, BytesFacts
<1>4. Full(h) <=> Len(h.buf) = BLAKE3_CHUNK_LEN
  BY Zenon DEF Full
<1>5. BLAKE3_CHUNK_LEN \in Nat
  BY StartFacts
<1>6. done - Start(c) = BLAKE3_CHUNK_LEN <=> done = Start(c + 1)
  BY <1>2, <1>5
<1> QED BY <1>1, <1>3, <1>4, <1>6

(* A full buffer becomes the next value on the stack.                        *)
LEMMA FlushTook ==
    ASSUME NEW h, NEW c \in Nat, NEW done \in Nat, Took(h, c, done), done = Start(c + 1)
    PROVE  Took(Flush(h), c + 1, done)
<1> DEFINE new == AddChunkCv(h, Whole(h.flags, c))
<1>1. h.chunk_counter = c /\ h.flags \in Modes /\ StackOf(h.flags, c, h.stack)
      /\ h.buf = Bytes(Start(c), Start(c + 1))
  BY DEF Took
<1>2. StackOf(h.flags, c + 1, new)
  BY <1>1, StackGrows
<1>3. ChunkCv(h.flags, h.chunk_counter, h.buf) = Whole(h.flags, c)
  BY <1>1 DEF Whole
<1>4. Flush(h) = [flags |-> h.flags, stack |-> new, chunk_counter |-> c + 1, buf |-> <<>>]
  <2>1. h = [flags |-> h.flags, stack |-> h.stack, chunk_counter |-> c, buf |-> h.buf]
    BY DEF Took
  <2> HIDE DEF new
  <2>2. Flush(h) = [h EXCEPT !.stack = new, !.chunk_counter = @ + 1, !.buf = <<>>]
    BY <1>3, Zenon DEF Flush, new
  <2> QED BY <1>1, <2>1, <2>2
<1> HIDE DEF new
<1>5. /\ Start(c + 1) \in Nat /\ Start(c + 1) <= Start((c + 1) + 1)
      /\ Bytes(Start(c + 1), done) = <<>>
  <2>1. c + 1 \in Nat
    OBVIOUS
  <2>2. Start(c + 1) \in Nat /\ Start((c + 1) + 1) = Start(c + 1) + BLAKE3_CHUNK_LEN
    BY <2>1, StartFacts
  <2>3. Bytes(done, done) = <<>>
    BY BytesFacts
  <2> QED BY <2>2, <2>3, StartFacts
<1>6. /\ Flush(h).flags = h.flags /\ Flush(h).stack = new /\ Flush(h).buf = <<>>
      /\ Flush(h) = [flags |-> Flush(h).flags, stack |-> Flush(h).stack,
                     chunk_counter |-> c + 1, buf |-> Flush(h).buf]
  BY <1>4
<1>7. Start(c + 1) <= done /\ done <= Start((c + 1) + 1)
  BY <1>5
<1> QED BY <1>1, <1>2, <1>5, <1>6, <1>7, Zenon DEF Took

(* The buffer takes n bytes more, as far as it has room for them.            *)
LEMMA TakeTook ==
    ASSUME NEW h, NEW c \in Nat, NEW done \in Nat, Took(h, c, done),
           NEW n \in Nat, done + n <= Start(c + 1)
    PROVE  Took(Take(h, Bytes(done, done + n)), c, done + n)
<1> DEFINE g == Take(h, Bytes(done, done + n))
           buf == Bytes(Start(c), done + n)
<1>1. Start(c) \in Nat /\ Start(c) <= done /\ h.buf = Bytes(Start(c), done)
  BY StartFacts DEF Took
<1>2. h.buf \o Bytes(done, done + n) = buf
  <2> DEFINE m == done + n
  <2>1. m \in Nat /\ done <= m
    OBVIOUS
  <2> HIDE DEF m
  <2>2. Bytes(Start(c), done) \o Bytes(done, m) = Bytes(Start(c), m)
    BY <1>1, <2>1, BytesJoin
  <2> QED BY <1>1, <2>2 DEF m
<1>3. g = [flags |-> h.flags, stack |-> h.stack, chunk_counter |-> c, buf |-> buf]
  <2>1. h = [flags |-> h.flags, stack |-> h.stack, chunk_counter |-> c, buf |-> h.buf]
    BY DEF Took
  <2> HIDE DEF buf
  <2>2. g = [h EXCEPT !.buf = buf]
    BY <1>2, Zenon DEF Take
  <2> HIDE DEF g
  <2> QED BY <2>1, <2>2
<1> HIDE DEF g, buf
<1>4. /\ g.flags = h.flags /\ g.stack = h.stack /\ g.buf = buf
      /\ g = [flags |-> g.flags, stack |-> g.stack, chunk_counter |-> c, buf |-> g.buf]
  BY <1>3
<1>5. Start(c) <= done + n
  BY <1>1
<1>6. h.flags \in Modes /\ StackOf(h.flags, c, h.stack)
  BY DEF Took
<1>7. Took(g, c, done + n)
  BY <1>4, <1>5, <1>6, Zenon DEF Took, buf
<1> QED BY <1>7 DEF g

(* What a turn of the loop takes.                                           *)
Turn(h, in) == Min({Len(in), BLAKE3_CHUNK_LEN - Len(h.buf)})

(* A turn takes some of the input, and leaves the rest.                      *)
Turned(h, c, done, in, len) ==
    LET taken == Turn(h, in)
    IN  /\ taken \in Nat /\ taken > 0 /\ done + taken <= len
        /\ Took(Take(h, Part(in, 1, taken)), c, done + taken)
        /\ Part(in, taken + 1, Len(in)) = Bytes(done + taken, len)

(* A turn of the loop takes at least a byte.                                *)
LEMMA LoopTurn ==
    ASSUME NEW h, NEW c \in Nat, NEW done \in Nat, NEW len \in Nat, NEW in,
           Took(h, c, done), done < Start(c + 1), done < len, in = Bytes(done, len)
    PROVE  Turned(h, c, done, in, len)
<1> DEFINE taken == Turn(h, in)
<1>0. taken = Min({Len(in), BLAKE3_CHUNK_LEN - Len(h.buf)})
  BY DEF Turn
<1> HIDE DEF taken
<1>1. Len(in) = len - done
  <2>1. done <= len
    OBVIOUS
  <2> QED BY <2>1, BytesFacts
<1>2. BLAKE3_CHUNK_LEN - Len(h.buf) = Start(c + 1) - done
  <2>1. Len(h.buf) = done - Start(c)
    BY WhenFull
  <2>2. BLAKE3_CHUNK_LEN \in Nat /\ Start(c) \in Nat
        /\ Start(c + 1) = Start(c) + BLAKE3_CHUNK_LEN
    BY StartFacts
  <2> QED BY <2>1, <2>2
<1>3. Start(c + 1) \in Nat
  <2>1. c + 1 \in Nat
    OBVIOUS
  <2> QED BY <2>1, StartFacts
<1>4. taken = IF len - done <= Start(c + 1) - done THEN len - done ELSE Start(c + 1) - done
  <2> DEFINE x == len - done
             y == Start(c + 1) - done
  <2>1. x \in Int /\ y \in Int
    BY <1>3
  <2>2. taken = Min({x, y})
    BY <1>0, <1>1, <1>2
  <2> HIDE DEF x, y
  <2>3. taken = IF x <= y THEN x ELSE y
    BY <2>1, <2>2, MinFacts
  <2> QED BY <2>3 DEF x, y
<1>5. /\ taken \in Nat /\ taken > 0 /\ done + taken <= len /\ taken <= len - done
      /\ done + taken <= Start(c + 1)
  BY <1>3, <1>4
<1>6. Part(in, 1, taken) = Bytes(done, done + taken)
  <2>1. 1 \in Nat /\ 1 > 0 /\ 1 - 1 <= taken /\ done = done + 1 - 1
    BY <1>5
  <2> DEFINE to == done + taken
  <2>2. to \in Nat /\ to <= len
    BY <1>5
  <2>4. to = done + taken
    OBVIOUS
  <2> HIDE DEF to
  <2>3. Part(Bytes(done, len), 1, taken) = Bytes(done, to)
    BY <1>5, <2>1, <2>2, <2>4, BytesPart
  <2> QED BY <2>3 DEF to
<1>7. Part(in, taken + 1, Len(in)) = Bytes(done + taken, len)
  <2> DEFINE i == taken + 1
             m == len - done
             from == done + taken
  <2>1. /\ i \in Nat /\ m \in Nat /\ from \in Nat /\ i > 0 /\ i - 1 <= m
        /\ done + m <= len /\ from = done + i - 1 /\ len = done + m
    BY <1>5
  <2> HIDE DEF i, m, from
  <2>2. Part(Bytes(done, len), i, m) = Bytes(from, len)
    BY <2>1, BytesPart
  <2> QED BY <1>1, <2>2 DEF i, m, from
<1>8. Took(Take(h, Bytes(done, done + taken)), c, done + taken)
  BY <1>5, TakeTook
<1> QED BY <1>5, <1>6, <1>7, <1>8 DEF taken, Turned

(* It holds of a new hasher.                                                *)
LEMMA InitHash == Init => HashInv
<1> SUFFICES ASSUME Init PROVE HashInv
  OBVIOUS
<1>1. PICK flags \in Modes : hasher = [flags |-> flags, stack |-> <<>>,
                                       chunk_counter |-> 0, buf |-> <<>>]
  BY DEF Init, NewHasher, Modes
<1>2. length = 0 /\ input = Bytes(0, 0) /\ Bytes(0, 0) = <<>>
  <2>1. Bytes(0, 0) = <<>>
    BY BytesFacts
  <2> QED BY <2>1 DEF Init
<1>3. Start(0) = 0 /\ Start(0 + 1) \in Nat
  BY StartFacts
<1>4. StackOf(flags, 0, <<>>)
  <2>1. 0 \in Nat /\ 0 = 2 * 0
    OBVIOUS
  <2> QED BY <2>1, Zenon DEF StackOf
<1>5. Took(hasher, 0, 0)
  <2>1. /\ hasher.flags = flags /\ hasher.stack = <<>> /\ hasher.buf = <<>>
        /\ hasher = [flags |-> hasher.flags, stack |-> hasher.stack,
                     chunk_counter |-> 0, buf |-> hasher.buf]
    BY <1>1
  <2>2. Start(0) <= 0 /\ 0 <= Start(0 + 1)
    BY <1>3
  <2> QED BY <1>2, <1>3, <1>4, <2>1, <2>2, Zenon DEF Took
<1> QED BY <1>2, <1>5 DEF HashInv

(* Every step keeps it.                                                     *)
LEMMA NextHash == HashInv /\ [Next]_vars => HashInv'
<1> SUFFICES ASSUME HashInv, [Next]_vars PROVE HashInv'
  OBVIOUS
<1>1. PICK c \in Nat, done \in Nat :
         /\ Took(hasher, c, done) /\ done <= length
         /\ c # 0 => Start(c) < done
         /\ input = Bytes(done, length)
  BY DEF HashInv
<1>2. length \in Nat
  BY DEF HashInv
<1>3. ASSUME NEW n \in 0..MaxLen, Update(n)
      PROVE  HashInv'
  <2>1. n \in Nat
    BY SizesAssumption
  <2>2. done = length
    BY <1>1, <1>2, <1>3, BytesFacts DEF Update
  <2>3. length' = length + n /\ input' = Bytes(length, length') /\ hasher' = hasher
    BY <1>3 DEF Update
  <2>4. length' \in Nat /\ done <= length' /\ input' = Bytes(done, length')
    BY <1>2, <2>1, <2>2, <2>3
  <2>5. Took(hasher', c, done)
    BY <1>1, <2>3
  <2> QED BY <1>1, <2>4, <2>5 DEF HashInv
<1>4. CASE UpdateLoop
  <2> DEFINE h == IF Full(hasher) THEN Flush(hasher) ELSE hasher
             taken == Turn(h, input)
             g == Take(h, Part(input, 1, taken))
             left == Part(input, taken + 1, Len(input))
  <2>1. hasher' = g /\ input' = left /\ length' = length /\ input # <<>>
    BY <1>4 DEF UpdateLoop, Turn, Part
  <2>2. done < length
    BY <1>1, <1>2, <2>1, BytesFacts
  <2> HIDE DEF h
  <2>3. PICK d \in Nat : Took(h, d, done) /\ done < Start(d + 1)
    <3>1. Full(hasher) <=> done = Start(c + 1)
      BY <1>1, WhenFull
    <3>2. CASE Full(hasher)
      <4> DEFINE d == c + 1
      <4>1. d \in Nat /\ Took(h, d, done)
        BY <1>1, <3>1, <3>2, FlushTook DEF h
      <4>2. Start(d) \in Nat /\ Start(d + 1) = Start(d) + BLAKE3_CHUNK_LEN /\ done = Start(d)
        BY <3>1, <3>2, <4>1, StartFacts
      <4>3. BLAKE3_CHUNK_LEN \in Nat /\ BLAKE3_CHUNK_LEN > 0
        BY StartFacts
      <4>4. done < Start(d + 1)
        BY <4>2, <4>3
      <4> HIDE DEF d
      <4> QED BY <4>1, <4>4
    <3>3. CASE ~Full(hasher)
      <4>1. Start(c) \in Nat /\ Start(c + 1) = Start(c) + BLAKE3_CHUNK_LEN
            /\ BLAKE3_CHUNK_LEN \in Nat
        BY StartFacts
      <4>2. done <= Start(c + 1)
        BY <1>1 DEF Took
      <4>3. done < Start(c + 1)
        BY <3>1, <3>3, <4>1, <4>2
      <4> QED BY <1>1, <3>3, <4>3 DEF h
    <3> QED BY <3>2, <3>3
  <2>4. /\ taken \in Nat /\ taken > 0 /\ done + taken <= length
        /\ Took(g, d, done + taken)
        /\ left = Bytes(done + taken, length)
    <3>1. input = Bytes(done, length)
      BY <1>1
    <3>2. Turned(h, d, done, input, length)
      BY <1>2, <2>2, <2>3, <3>1, LoopTurn
    <3> QED BY <3>2, Zenon DEF Turned
  <2> HIDE DEF taken
  <2> DEFINE m == done + taken
  <2>5. m \in Nat /\ Start(d) < m /\ m <= length
    <3>1. Start(d) <= done
      BY <2>3 DEF Took
    <3>2. Start(d) \in Nat
      BY StartFacts
    <3> QED BY <2>4, <3>1, <3>2
  <2>6. Took(hasher', d, m) /\ input' = Bytes(m, length') /\ length' \in Nat /\ m <= length'
    BY <1>2, <2>1, <2>4, <2>5
  <2> HIDE DEF m
  <2> QED BY <2>5, <2>6 DEF HashInv
<1>5. CASE UNCHANGED vars
  BY <1>5 DEF HashInv, vars
<1> QED BY <1>3, <1>4, <1>5 DEF Next

(* However the input is cut into calls of update, the hasher holds what the  *)
(* chunks of the bytes it took come to.                                     *)
THEOREM HashInvariance == Spec => []HashInv
BY InitHash, NextHash, PTL DEF Spec

(* The stack never holds more than two values, so the 54 places of cv_stack  *)
(* in blake3_hasher are never used up.                                      *)
THEOREM TwoValuesSuffice == Spec => []StackStaysSmall
<1>1. HashInv => StackStaysSmall
  <2> SUFFICES ASSUME HashInv PROVE Len(hasher.stack) <= 2
    BY DEF StackStaysSmall
  <2>1. PICK c \in Nat : StackOf(hasher.flags, c, hasher.stack)
    BY DEF HashInv, Took
  <2>2. PICK a, b : hasher.stack \in Stacks(a, b)
    BY <2>1 DEF StackOf, Stacks
  <2>3. Len(<<>>) = 0 /\ Len(<<a>>) = 1 /\ Len(<<a, b>>) = 2
    OBVIOUS
  <2>4. Len(hasher.stack) \in {0, 1, 2}
    BY <2>2, <2>3, Zenon DEF Stacks
  <2> DEFINE n == Len(hasher.stack)
  <2> HIDE DEF n
  <2>5. n \in {0, 1, 2} => n <= 2
    OBVIOUS
  <2> QED BY <2>4, <2>5 DEF n
<1> QED BY <1>1, HashInvariance, PTL

(* How many chunks there are, when the last one begins at Start(c).          *)
LEMMA ChunkCount ==
    ASSUME NEW c \in Nat, NEW len \in Nat,
           Start(c) <= len, len <= Start(c + 1), c # 0 => Start(c) < len
    PROVE  Chunks(Bytes(0, len)) = c + 1
<1>1. Len(Bytes(0, len)) = len /\ (Bytes(0, len) = <<>> <=> len = 0)
  <2>1. 0 \in Nat /\ 0 <= len /\ len - 0 = len
    OBVIOUS
  <2>2. Len(Bytes(0, len)) = len
    BY <2>1, BytesFacts
  <2>3. Bytes(0, len) = <<>> <=> 0 = len
    BY <2>1, BytesFacts
  <2> QED BY <2>2, <2>3
<1>2. BLAKE3_CHUNK_LEN \in Nat /\ BLAKE3_CHUNK_LEN > 0 /\ Start(c) \in Nat /\ Start(0) = 0
      /\ Start(c + 1) = Start(c) + BLAKE3_CHUNK_LEN
  BY StartFacts
<1>3. CASE len = 0
  BY <1>1, <1>2, <1>3 DEF Chunks
<1>4. CASE len # 0
  <2> DEFINE x == len - 1
  <2>1. x \in Nat /\ Start(c) <= x /\ x < Start(c + 1)
    BY <1>2, <1>4
  <2> HIDE DEF x
  <2>2. x \div BLAKE3_CHUNK_LEN = c
    BY <2>1, DivFacts
  <2>3. Chunks(Bytes(0, len)) = (x \div BLAKE3_CHUNK_LEN) + 1
    BY <1>1, <1>4, Zenon DEF Chunks, x
  <2> QED BY <2>2, <2>3
<1> QED BY <1>3, <1>4

(* The chunks of the input.                                                  *)
LEMMA LeafFacts ==
    ASSUME NEW flags, NEW c \in Nat, NEW len \in Nat, NEW i \in Nat,
           Start(c) <= len, len <= Start(c + 1), i <= c
    PROVE  Leaf(flags, Bytes(0, len), i) =
             IF i < c THEN Whole(flags, i) ELSE ChunkCv(flags, c, Bytes(Start(c), len))
<1> DEFINE end == Min({(i + 1) * BLAKE3_CHUNK_LEN, Len(Bytes(0, len))})
           from == Start(i)
<1>1. Len(Bytes(0, len)) = len
  <2>1. 0 \in Nat /\ 0 <= len /\ len - 0 = len
    OBVIOUS
  <2> QED BY <2>1, BytesFacts
<1>2. Start(i) \in Nat /\ i + 1 \in Nat /\ Start(i + 1) \in Nat /\ Start(c) \in Nat
      /\ Start(i) <= Start(i + 1)
  <2>1. i + 1 \in Nat
    OBVIOUS
  <2>2. BLAKE3_CHUNK_LEN \in Nat /\ Start(i + 1) = Start(i) + BLAKE3_CHUNK_LEN
        /\ Start(i) \in Nat /\ Start(i + 1) \in Nat /\ Start(c) \in Nat
    BY <2>1, StartFacts
  <2> QED BY <2>1, <2>2
<1>3. i < c => Start(i + 1) <= Start(c)
  BY StartFacts
<1>4. end = IF i < c THEN Start(i + 1) ELSE len
  <2>1. end = Min({Start(i + 1), len})
    BY <1>1 DEF Start
  <2> HIDE DEF end
  <2>2. end = IF Start(i + 1) <= len THEN Start(i + 1) ELSE len
    BY <2>1, <1>2, MinFacts
  <2>3. i < c \/ i = c
    OBVIOUS
  <2> QED BY <1>2, <1>3, <2>2, <2>3
<1>5. end \in Nat /\ Start(i) <= end /\ end <= len
  <2> HIDE DEF end
  <2>1. i < c \/ i = c
    OBVIOUS
  <2>2. CASE i < c
    BY <1>2, <1>3, <1>4, <2>2
  <2>3. CASE i = c
    BY <1>2, <1>4, <2>3
  <2> QED BY <2>1, <2>2, <2>3
<1> HIDE DEF end, from
<1>6. Part(Bytes(0, len), from + 1, end) = Bytes(from, end)
  <2> DEFINE first == from + 1
  <2>1. /\ 0 \in Nat /\ first \in Nat /\ from \in Nat /\ first > 0 /\ first - 1 <= end
        /\ 0 + end <= len /\ from = 0 + first - 1 /\ end = 0 + end
    BY <1>2, <1>5 DEF from
  <2> HIDE DEF first
  <2>2. Part(Bytes(0, len), first, end) = Bytes(from, end)
    BY <1>5, <2>1, BytesPart
  <2> QED BY <2>2 DEF first
<1>7. Leaf(flags, Bytes(0, len), i) = ChunkCv(flags, i, Part(Bytes(0, len), from + 1, end))
  BY Zenon DEF Leaf, Part, from, end, Start
<1>8. CASE i < c
  <2>1. end = Start(i + 1)
    BY <1>4, <1>8
  <2> QED BY <1>6, <1>7, <1>8, <2>1, Zenon DEF Whole, from
<1>9. CASE ~(i < c)
  <2>1. end = len /\ i = c
    BY <1>4, <1>9
  <2> QED BY <1>6, <1>7, <1>9, <2>1, Zenon DEF from
<1> QED BY <1>8, <1>9

(* What is on the stack and in the buffer comes to the digest.              *)
LEMMA FinalizeIsDigest ==
    ASSUME NEW h, NEW c \in Nat, NEW len \in Nat, Took(h, c, len), c # 0 => Start(c) < len
    PROVE  Finalize(h) = DigestOf(h.flags, Bytes(0, len))
<1> DEFINE flags == h.flags
           bytes == Bytes(0, len)
           right == ChunkCv(flags, c, Bytes(Start(c), len))
           P == Pairs(flags, bytes)
           M(n) == Merged(flags, WholePairs(flags), n)
           W(i) == Whole(flags, i)
           L(i) == Leaf(flags, bytes, i)
<1>1. /\ h.chunk_counter = c /\ h.buf = Bytes(Start(c), len)
      /\ Start(c) <= len /\ len <= Start(c + 1)
  BY DEF Took
<1>2. Chunks(bytes) = c + 1
  BY <1>1, ChunkCount
<1>3. \A i \in Nat : i <= c => L(i) = IF i < c THEN W(i) ELSE right
  BY <1>1, LeafFacts
<1>4. Finalize(h) = RootOf(flags, MergeAll(flags, h.stack, right))
  BY <1>1 DEF Finalize
<1>5. PICK j \in Nat :
         \/ c = 2 * j /\ h.stack = IF j = 0 THEN <<>> ELSE <<M(j - 1)>>
         \/ c = 2 * j + 1 /\ h.stack = IF j = 0 THEN <<W(0)>> ELSE <<M(j - 1), W(2 * j)>>
  <2>1. StackOf(flags, c, h.stack)
    BY DEF Took
  <2> QED BY <2>1, Zenon DEF StackOf
<1>6. LastPair(bytes) = j
  <2>1. ((c + 1) - 1) \div 2 = j
    BY <1>5
  <2> QED BY <1>2, <2>1 DEF LastPair
<1>7. \A k \in 0..j : P[k] = IF 2 * k + 1 < c + 1 THEN ParentCv(flags, L(2 * k), L(2 * k + 1))
                             ELSE L(2 * k)
  BY <1>2, <1>6, Zenon DEF Pairs, Pair
<1>8. DigestOf(flags, bytes) = RootOf(flags, Merged(flags, P, j))
  BY <1>6, DigestMerges
<1> HIDE DEF flags, bytes, right, P, L, W
<1>9. \A k \in 0..j : k < j => P[k] = WholePairs(flags)[k]
  <2> SUFFICES ASSUME NEW k \in 0..j, k < j PROVE P[k] = WholePairs(flags)[k]
    OBVIOUS
  <2>1. /\ 2 * k \in Nat /\ 2 * k + 1 \in Nat /\ 2 * k < c /\ 2 * k + 1 < c
        /\ 2 * k + 1 < c + 1 /\ 2 * k <= c /\ 2 * k + 1 <= c
    BY <1>5
  <2>2. P[k] = ParentCv(flags, W(2 * k), W(2 * k + 1))
    BY <1>3, <1>7, <2>1
  <2> QED BY <2>2 DEF WholePairs, W
<1>10. j # 0 => /\ Merged(flags, P, j - 1) = M(j - 1)
                /\ Merged(flags, P, j) = ParentCv(flags, M(j - 1), P[j])
  <2> SUFFICES ASSUME j # 0
               PROVE  /\ Merged(flags, P, j - 1) = M(j - 1)
                      /\ Merged(flags, P, j) = ParentCv(flags, M(j - 1), P[j])
    OBVIOUS
  <2> DEFINE n == j - 1
  <2>1. n \in Nat /\ n + 1 = j
    OBVIOUS
  <2>2. \A k \in 0..n : P[k] = WholePairs(flags)[k]
    BY <1>9
  <2> HIDE DEF n
  <2>3. Merged(flags, P, n) = M(n)
    BY <2>1, <2>2, MergedAgree
  <2>4. Merged(flags, P, n + 1) = ParentCv(flags, Merged(flags, P, n), P[n + 1])
    BY <2>1, MergedFacts
  <2> QED BY <2>1, <2>3, <2>4 DEF n
<1>11. Merged(flags, P, 0) = P[0]
  BY MergedFacts
<1>12. \A a, b, stack : stack \in Stacks(a, b) =>
          MergeAll(flags, stack, right) =
             IF Len(stack) = 0 THEN right
             ELSE IF Len(stack) = 1 THEN ParentCv(flags, a, right)
             ELSE ParentCv(flags, a, ParentCv(flags, b, right))
  BY MergeSmall
<1>13. \A a, b : /\ <<>> \in Stacks(a, b) /\ <<a>> \in Stacks(a, b) /\ <<a, b>> \in Stacks(a, b)
                 /\ Len(<<>>) = 0 /\ Len(<<a>>) = 1 /\ Len(<<a, b>>) = 2
  BY DEF Stacks
<1>14. ASSUME NEW a, NEW b
       PROVE  /\ MergeAll(flags, <<>>, right) = right
              /\ MergeAll(flags, <<a>>, right) = ParentCv(flags, a, right)
              /\ MergeAll(flags, <<a, b>>, right) = ParentCv(flags, a, ParentCv(flags, b, right))
  <2>1. MergeAll(flags, <<>>, right) = right
    BY <1>12, <1>13
  <2>2. MergeAll(flags, <<a>>, right) = ParentCv(flags, a, right)
    <3> DEFINE stack == <<a>>
    <3>1. stack \in Stacks(a, b) /\ Len(stack) = 1
      BY <1>13
    <3> HIDE DEF stack
    <3>2. MergeAll(flags, stack, right) = ParentCv(flags, a, right)
      BY <1>12, <3>1
    <3> QED BY <3>2 DEF stack
  <2>3. MergeAll(flags, <<a, b>>, right) = ParentCv(flags, a, ParentCv(flags, b, right))
    <3> DEFINE stack == <<a, b>>
    <3>1. stack \in Stacks(a, b) /\ Len(stack) = 2
      BY <1>13
    <3> HIDE DEF stack
    <3>2. MergeAll(flags, stack, right) = ParentCv(flags, a, ParentCv(flags, b, right))
      BY <1>12, <3>1
    <3> QED BY <3>2 DEF stack
  <2> QED BY <2>1, <2>2, <2>3
<1> HIDE DEF M
<1>15. MergeAll(flags, h.stack, right) = Merged(flags, P, j)
  <2>1. CASE c = 2 * j
    <3>1. P[j] = right
      <4>1. 2 * j \in Nat /\ 2 * j <= c /\ ~(2 * j < c) /\ ~(2 * j + 1 < c + 1) /\ j \in 0..j
        BY <2>1
      <4> QED BY <1>3, <1>7, <4>1
    <3>2. CASE j = 0
      <4>1. h.stack = <<>>
        BY <1>5, <2>1, <3>2
      <4> QED BY <1>11, <1>14, <3>1, <3>2, <4>1
    <3>3. CASE j # 0
      <4>1. h.stack = <<M(j - 1)>>
        BY <1>5, <2>1, <3>3
      <4> QED BY <1>10, <1>14, <3>1, <3>3, <4>1
    <3> QED BY <3>2, <3>3
  <2>2. CASE c = 2 * j + 1
    <3>1. P[j] = ParentCv(flags, W(2 * j), right)
      <4>1. /\ 2 * j \in Nat /\ 2 * j <= c /\ 2 * j < c /\ 2 * j + 1 < c + 1 /\ j \in 0..j
            /\ 2 * j + 1 \in Nat /\ 2 * j + 1 <= c /\ ~(2 * j + 1 < c)
        BY <2>2
      <4> QED BY <1>3, <1>7, <4>1
    <3>2. CASE j = 0
      <4>1. h.stack = <<W(0)>> /\ 2 * j = 0
        BY <1>5, <2>2, <3>2
      <4> QED BY <1>11, <1>14, <3>1, <3>2, <4>1
    <3>3. CASE j # 0
      <4>1. h.stack = <<M(j - 1), W(2 * j)>>
        BY <1>5, <2>2, <3>3
      <4> QED BY <1>10, <1>14, <3>1, <3>3, <4>1
    <3> QED BY <3>2, <3>3
  <2> QED BY <1>5, <2>1, <2>2
<1> QED BY <1>4, <1>8, <1>15 DEF flags, bytes

(* Whenever an update has been taken in whole, the digest is that of all the *)
(* bytes that were passed to update, for any sizes of chunks and blocks,     *)
(* however the bytes were cut into calls.                                   *)
THEOREM DigestIsOfTheWhole == Spec => []DigestOfWholeInput
<1>1. HashInv => DigestOfWholeInput
  <2> SUFFICES ASSUME HashInv, input = <<>>
               PROVE  Finalize(hasher) = DigestOf(hasher.flags, Bytes(0, length))
    BY DEF DigestOfWholeInput
  <2>1. PICK c \in Nat, done \in Nat :
           /\ Took(hasher, c, done) /\ done <= length
           /\ c # 0 => Start(c) < done
           /\ input = Bytes(done, length)
    BY DEF HashInv
  <2>2. length \in Nat
    BY DEF HashInv
  <2>3. done = length
    BY <2>1, <2>2, BytesFacts
  <2> QED BY <2>1, <2>2, <2>3, FinalizeIsDigest
<1> QED BY <1>1, HashInvariance, PTL

-----------------------------------------------------------------------------
(* The digest commits to the input                                           *)

(* Two compressions are equal only if all their arguments are.              *)
LEMMA CompressInjective ==
    ASSUME NEW f1, NEW c1, NEW l1, NEW v1, NEW b1, NEW f2, NEW c2, NEW l2, NEW v2, NEW b2,
           Compress(f1, c1, l1, v1, b1) = Compress(f2, c2, l2, v2, b2)
    PROVE  f1 = f2 /\ c1 = c2 /\ l1 = l2 /\ v1 = v2 /\ b1 = b2
BY DEF Compress

(* None of them is the initial value.                                       *)
LEMMA CompressNotIV ==
    ASSUME NEW f1, NEW c1, NEW l1, NEW v1, NEW b1
    PROVE  Compress(f1, c1, l1, v1, b1) # IV
BY DEF Compress, IV

(* Where the whole pieces of len bytes end, when the last piece, whole or    *)
(* not, is left out.                                                        *)
LEMMA PieceFacts ==
    ASSUME NEW len \in Nat, NEW size \in Nat, size > 0, len > 0,
           NEW n, n = (len - 1) \div size
    PROVE  n \in Nat /\ n * size < len /\ len <= (n + 1) * size
<1> DEFINE x == len - 1
<1>1. x \in Nat /\ len = x + 1 /\ n = x \div size
  OBVIOUS
<1> HIDE DEF x
<1>2. \A y \in Nat, z \in Nat : z > 0 => /\ y \div z \in Nat
                                         /\ (y \div z) * z <= y
                                         /\ y < ((y \div z) + 1) * z
  BY SMTT(60)
<1>3. n \in Nat /\ n * size <= x /\ x < (n + 1) * size
  BY <1>1, <1>2
<1>4. (n + 1) * size \in Nat /\ n * size \in Nat
  BY <1>3
<1> QED BY <1>1, <1>3, <1>4

(* Two sequences are equal if they can be cut into equal pieces.             *)
LEMMA EqualPieces ==
    ASSUME NEW s \in Seq(Nat), NEW t \in Seq(Nat), NEW size \in Nat, size > 0, NEW n \in Nat,
           n * size <= Len(s), n * size <= Len(t),
           \A i \in Nat : i < n => Part(s, i * size + 1, (i + 1) * size)
                                     = Part(t, i * size + 1, (i + 1) * size),
           Part(s, n * size + 1, Len(s)) = Part(t, n * size + 1, Len(t))
    PROVE  s = t
<1>1. ASSUME NEW u \in Seq(Nat), NEW first \in Nat, NEW to \in Nat, first > 0, to <= Len(u)
      PROVE  /\ Len(Part(u, first, to)) = IF first <= to THEN to - first + 1 ELSE 0
             /\ \A i \in 1..(to - first + 1) : Part(u, first, to)[i] = u[first + i - 1]
  <2>1. \A i \in first..to : u[i] \in Nat
    <3>1. \A i \in 1..Len(u) : u[i] \in Nat
      OBVIOUS
    <3> QED BY <1>1, <3>1
  <2> QED BY <1>1, <2>1, SubSeqProperties DEF Part
<1> DEFINE p == n * size
           q == p + 1
<1>2. p \in Nat /\ q \in Nat /\ q > 0 /\ q = p + 1 /\ p <= Len(s) /\ p <= Len(t)
      /\ Len(s) \in Nat /\ Len(t) \in Nat
  <2>1. p \in Nat
    BY SMTT(60)
  <2> QED BY <2>1
<1> HIDE DEF p
<1>3. Part(s, q, Len(s)) = Part(t, q, Len(t))
  BY DEF p
<1> HIDE DEF q
<1>4. Len(s) = Len(t)
  <2>1. Len(s) <= Len(s) /\ Len(t) <= Len(t)
    BY <1>2
  <2>2. Len(Part(s, q, Len(s))) = IF q <= Len(s) THEN Len(s) - q + 1 ELSE 0
    BY <1>1, <1>2, <2>1
  <2>3. Len(Part(t, q, Len(t))) = IF q <= Len(t) THEN Len(t) - q + 1 ELSE 0
    BY <1>1, <1>2, <2>1
  <2> QED BY <1>2, <1>3, <2>2, <2>3
<1>5. ASSUME NEW x \in 1..Len(s)
      PROVE  s[x] = t[x]
  <2>1. CASE x <= p
    <3> DEFINE i == (x - 1) \div size
               first == i * size + 1
               to == (i + 1) * size
    <3>1. i \in Nat /\ i * size < x /\ x <= (i + 1) * size
      <4>1. x \in Nat /\ x > 0 /\ i = (x - 1) \div size
        BY <1>2
      <4> HIDE DEF i
      <4> QED BY <4>1, PieceFacts
    <3> HIDE DEF i
    <3>2. i < n
      <4>1. i * size < n * size
        <5>1. i * size \in Nat
          BY <3>1
        <5> DEFINE k == i * size
        <5> HIDE DEF k
        <5>2. k \in Nat /\ k < x
          BY <3>1, <5>1 DEF k
        <5>3. k < p
          BY <1>2, <2>1, <5>2
        <5> QED BY <5>3 DEF k, p
      <4>2. \A a, b, z \in Nat : a * z < b * z => a < b
        BY SMTT(60)
      <4> QED BY <3>1, <4>1, <4>2
    <3>3. first \in Nat /\ to \in Nat /\ first > 0 /\ to <= p /\ first <= x /\ x <= to
      <4>1. \A a, b, z \in Nat : a < b => (a + 1) * z <= b * z /\ a * z \in Nat /\ (a + 1) * z \in Nat
        BY SMTT(60)
      <4>2. (i + 1) * size <= p /\ i * size \in Nat /\ (i + 1) * size \in Nat
        BY <3>1, <3>2, <4>1 DEF p
      <4> QED BY <3>1, <4>2
    <3>4. Part(s, first, to) = Part(t, first, to)
      BY <3>1, <3>2
    <3> HIDE DEF first, to
    <3> DEFINE y == x - first + 1
    <3>5. y \in 1..(to - first + 1) /\ first + y - 1 = x
      BY <3>3
    <3> HIDE DEF y
    <3>6. to <= Len(s) /\ to <= Len(t)
      BY <1>2, <3>3
    <3>7. Part(s, first, to)[y] = s[first + y - 1]
      BY <1>1, <3>3, <3>5, <3>6
    <3>8. Part(t, first, to)[y] = t[first + y - 1]
      BY <1>1, <3>3, <3>5, <3>6
    <3> QED BY <3>4, <3>5, <3>7, <3>8
  <2>2. CASE ~(x <= p)
    <3> DEFINE y == x - q + 1
    <3>1. y \in 1..(Len(s) - q + 1) /\ y \in 1..(Len(t) - q + 1) /\ q + y - 1 = x
      BY <1>2, <1>4, <2>2
    <3> HIDE DEF y
    <3> DEFINE m == Len(s)
    <3>2. m \in Nat /\ m <= Len(s) /\ m <= Len(t) /\ y \in 1..(m - q + 1)
      BY <1>2, <1>4, <3>1
    <3>a. m = Len(s) /\ m = Len(t)
      BY <1>4
    <3>b. q \in Nat /\ q > 0
      BY <1>2
    <3> HIDE DEF m
    <3>3. Part(s, q, m)[y] = s[q + y - 1]
      BY <1>1, <3>2, <3>b
    <3>4. Part(t, q, m)[y] = t[q + y - 1]
      BY <1>1, <3>2, <3>b
    <3>5. Part(s, q, m) = Part(t, q, m)
      BY <1>3, <3>a
    <3> QED BY <3>1, <3>3, <3>4, <3>5
  <2> QED BY <2>1, <2>2
<1> QED BY <1>4, <1>5, SeqEqual

(* The number of the blocks of a chunk that are followed by others.         *)
Inner(bytes) == IF bytes = <<>> THEN 0 ELSE (Len(bytes) - 1) \div BLAKE3_BLOCK_LEN

Rest(bytes) == SubSeq(bytes, Inner(bytes) * BLAKE3_BLOCK_LEN + 1, Len(bytes))

Link(flags, counter, bytes, k, cv) ==
    Compress(flags \cup StartFlag(k - 1), counter, BLAKE3_BLOCK_LEN, cv,
             SubSeq(bytes, (k - 1) * BLAKE3_BLOCK_LEN + 1, k * BLAKE3_BLOCK_LEN))

(* cv holds the values after the first n blocks.                            *)
Links(cv, flags, counter, bytes, n) ==
    cv = [k \in 0..n |-> IF k = 0 THEN IV ELSE Link(flags, counter, bytes, k, cv[k - 1])]

Chain(flags, counter, bytes) == CHOOSE cv : Links(cv, flags, counter, bytes, Inner(bytes))

(* ChunkCv is defined by such a function.                                   *)
LEMMA ChunkCvIsLinked ==
    ASSUME NEW flags, NEW counter, NEW bytes
    PROVE  ChunkCv(flags, counter, bytes) =
             Compress(flags \cup StartFlag(Inner(bytes)) \cup {"CHUNK_END"}, counter,
                      Len(Rest(bytes)), Chain(flags, counter, bytes)[Inner(bytes)],
                      Padded(Rest(bytes)))
BY Zenon DEF ChunkCv, Chain, Links, Link, Rest, Inner

(* There is one for every number of blocks.                                 *)
LEMMA LinksExist ==
    ASSUME NEW flags, NEW counter, NEW bytes
    PROVE  \A n \in Nat : \E cv : Links(cv, flags, counter, bytes, n)
<1> DEFINE G == {n \in Nat : \E cv : Links(cv, flags, counter, bytes, n)}
<1>1. 0 \in G
  <2> DEFINE f == [k \in 0..0 |-> IV]
  <2>1. \A k \in 0..0 : f[k] = IF k = 0 THEN IV ELSE Link(flags, counter, bytes, k, f[k - 1])
    OBVIOUS
  <2>2. f = [k \in 0..0 |-> f[k]]
    OBVIOUS
  <2> HIDE DEF f
  <2>3. f = [k \in 0..0 |-> IF k = 0 THEN IV ELSE Link(flags, counter, bytes, k, f[k - 1])]
    BY <2>1, <2>2, Zenon
  <2>4. Links(f, flags, counter, bytes, 0)
    BY <2>3, Zenon DEF Links
  <2> QED BY <2>4
<1>2. ASSUME NEW n \in Nat, n \in G
      PROVE  n + 1 \in G
  <2>1. PICK f : Links(f, flags, counter, bytes, n)
    BY <1>2
  <2>2. \A k \in 0..n : f[k] = IF k = 0 THEN IV ELSE Link(flags, counter, bytes, k, f[k - 1])
    BY <2>1, Zenon DEF Links
  <2> DEFINE g == [k \in 0..(n + 1) |->
                     IF k <= n THEN f[k] ELSE Link(flags, counter, bytes, k, f[n])]
  <2>3. ASSUME NEW k \in 0..(n + 1)
        PROVE  g[k] = IF k = 0 THEN IV ELSE Link(flags, counter, bytes, k, g[k - 1])
    <3>1. CASE k = 0
      BY <2>2, <3>1
    <3>2. CASE k # 0 /\ k <= n
      <4>1. k \in 0..n /\ k - 1 \in 0..(n + 1) /\ k - 1 <= n
        BY <3>2
      <4> QED BY <2>2, <3>2, <4>1
    <3>3. CASE k = n + 1
      <4>1. k - 1 = n /\ n \in 0..(n + 1) /\ n <= n /\ ~(k <= n) /\ k # 0
        BY <3>3
      <4> QED BY <4>1
    <3> QED BY <3>1, <3>2, <3>3
  <2>4. g = [k \in 0..(n + 1) |-> g[k]]
    OBVIOUS
  <2> HIDE DEF g
  <2>5. g = [k \in 0..(n + 1) |-> IF k = 0 THEN IV ELSE Link(flags, counter, bytes, k, g[k - 1])]
    BY <2>3, <2>4, Zenon
  <2>6. Links(g, flags, counter, bytes, n + 1)
    BY <2>5, Zenon DEF Links
  <2> QED BY <2>6
<1>3. \A n \in Nat : n \in G
  <2> HIDE DEF G
  <2> QED BY <1>1, <1>2, NumberInduction
<1> QED BY <1>3

(* The k-th block of a chunk.                                               *)
Block(bytes, k) == Part(bytes, (k - 1) * BLAKE3_BLOCK_LEN + 1, k * BLAKE3_BLOCK_LEN)

SameBlocks(s, t, n) == \A k \in 1..n : Block(s, k) = Block(t, k)

(* Values that are equal were computed from as many blocks, and the same.    *)
LEMMA LinksInjective ==
    ASSUME NEW flags, NEW counter, NEW s, NEW t, NEW f, NEW g, NEW m \in Nat, NEW n \in Nat,
           Links(f, flags, counter, s, m), Links(g, flags, counter, t, n)
    PROVE  \A k \in 0..m : \A l \in 0..n : f[k] = g[l] => k = l /\ SameBlocks(s, t, k)
<1>1. /\ \A k \in 0..m : f[k] = IF k = 0 THEN IV ELSE Link(flags, counter, s, k, f[k - 1])
      /\ \A k \in 0..n : g[k] = IF k = 0 THEN IV ELSE Link(flags, counter, t, k, g[k - 1])
  BY Zenon DEF Links
<1>2. ASSUME NEW k, NEW l, NEW x, NEW y,
             Link(flags, counter, s, k, x) = Link(flags, counter, t, l, y)
      PROVE  x = y /\ Block(s, k) = Block(t, l)
  <2> DEFINE a == Block(s, k)
             b == Block(t, l)
             fa == flags \cup StartFlag(k - 1)
             fb == flags \cup StartFlag(l - 1)
  <2>1. Compress(fa, counter, BLAKE3_BLOCK_LEN, x, a) = Compress(fb, counter, BLAKE3_BLOCK_LEN, y, b)
    BY <1>2, Zenon DEF Link, Block, Part
  <2> HIDE DEF a, b, fa, fb
  <2>2. x = y /\ a = b
    BY <2>1, CompressInjective
  <2> QED BY <2>2 DEF a, b
<1>3. /\ \A k, x : Link(flags, counter, s, k, x) # IV
      /\ \A k, x : Link(flags, counter, t, k, x) # IV
  BY CompressNotIV, Zenon DEF Link
<1> DEFINE G == {k \in Nat : k <= m => \A l \in 0..n : f[k] = g[l] => k = l /\ SameBlocks(s, t, k)}
<1>4. 0 \in G
  <2>1. ASSUME NEW l \in 0..n, f[0] = g[l]
        PROVE  0 = l
    BY <1>1, <1>3, <2>1
  <2>2. SameBlocks(s, t, 0)
    BY DEF SameBlocks
  <2> QED BY <2>1, <2>2
<1>5. ASSUME NEW k \in Nat, k \in G
      PROVE  k + 1 \in G
  <2> SUFFICES ASSUME k + 1 <= m, NEW l \in 0..n, f[k + 1] = g[l]
               PROVE  k + 1 = l /\ SameBlocks(s, t, k + 1)
    OBVIOUS
  <2>1. k + 1 \in 0..m /\ k + 1 # 0 /\ (k + 1) - 1 = k /\ k <= m
    OBVIOUS
  <2>2. f[k + 1] = Link(flags, counter, s, k + 1, f[k])
    BY <1>1, <2>1
  <2>3. l # 0 /\ g[l] = Link(flags, counter, t, l, g[l - 1])
    BY <1>1, <1>3, <2>2
  <2>4. f[k] = g[l - 1] /\ Block(s, k + 1) = Block(t, l)
    <3>1. Link(flags, counter, s, k + 1, f[k]) = Link(flags, counter, t, l, g[l - 1])
      BY <2>2, <2>3
    <3> DEFINE i == k + 1
               x == f[k]
               y == g[l - 1]
    <3>2. Link(flags, counter, s, i, x) = Link(flags, counter, t, l, y)
      BY <3>1
    <3> HIDE DEF i, x, y
    <3>3. x = y /\ Block(s, i) = Block(t, l)
      BY <1>2, <3>2
    <3> QED BY <3>3 DEF i, x, y
  <2>5. l - 1 \in 0..n
    BY <2>3
  <2>6. k = l - 1 /\ SameBlocks(s, t, k)
    BY <1>5, <2>1, <2>4, <2>5
  <2>7. k + 1 = l
    BY <2>6
  <2>8. \A i \in 1..(k + 1) : i \in 1..k \/ i = k + 1
    OBVIOUS
  <2>9. SameBlocks(s, t, k + 1)
    BY <2>4, <2>6, <2>7, <2>8, Zenon DEF SameBlocks
  <2> QED BY <2>7, <2>9
<1> HIDE DEF G
<1>6. \A k \in Nat : k \in G
  BY <1>4, <1>5, NumberInduction
<1>7. \A k \in 0..m : k \in Nat /\ k <= m
  OBVIOUS
<1> QED BY <1>6, <1>7 DEF G

(* Where the last block begins.                                              *)
LEMMA RestFacts ==
    ASSUME NEW s \in Seq(Nat)
    PROVE  /\ Inner(s) \in Nat
           /\ Inner(s) * BLAKE3_BLOCK_LEN <= Len(s)
           /\ Rest(s) \in Seq(Nat)
           /\ Len(Rest(s)) <= BLAKE3_BLOCK_LEN
<1> DEFINE n == Inner(s)
           p == n * BLAKE3_BLOCK_LEN
           len == Len(s)
<1>1. BLAKE3_BLOCK_LEN \in Nat /\ BLAKE3_BLOCK_LEN > 0
  BY SizesAssumption
<1>2. len \in Nat /\ (s = <<>> <=> len = 0)
  BY EmptySeq
<1>3. n \in Nat /\ p \in Nat /\ p <= len /\ len <= p + BLAKE3_BLOCK_LEN
  <2>1. CASE len = 0
    <3>1. n = 0
      BY <1>2, <2>1 DEF Inner
    <3> QED BY <1>1, <1>2, <2>1, <3>1
  <2>2. CASE len # 0
    <3>1. n = (len - 1) \div BLAKE3_BLOCK_LEN
      BY <1>2, <2>2, Zenon DEF Inner
    <3>2. len > 0
      BY <1>2, <2>2
    <3> HIDE DEF n, len
    <3>3. n \in Nat /\ n * BLAKE3_BLOCK_LEN < len /\ len <= (n + 1) * BLAKE3_BLOCK_LEN
      BY <1>1, <1>2, <3>1, <3>2, PieceFacts
    <3>4. \A a, b \in Nat : a * b \in Nat /\ (a + 1) * b = a * b + b
      BY SMTT(60)
    <3> QED BY <1>1, <1>2, <3>3, <3>4
  <2> QED BY <2>1, <2>2
<1> HIDE DEF p
<1>4. Rest(s) = SubSeq(s, p + 1, len)
  BY Zenon DEF Rest, p
<1>5. \A i \in (p + 1)..len : s[i] \in Nat
  BY <1>2, <1>3
<1> HIDE DEF len, n
<1>6. /\ SubSeq(s, p + 1, len) \in Seq(Nat)
      /\ Len(SubSeq(s, p + 1, len)) = IF p + 1 <= len THEN len - (p + 1) + 1 ELSE 0
  BY <1>2, <1>3, <1>5, SubSeqProperties
<1>7. Len(SubSeq(s, p + 1, len)) <= BLAKE3_BLOCK_LEN
  BY <1>1, <1>2, <1>3, <1>6
<1> QED BY <1>3, <1>4, <1>6, <1>7 DEF n, p, len

(* Padding and length give a block back.                                    *)
LEMMA PaddedInjective ==
    ASSUME NEW a \in Seq(Nat), NEW b \in Seq(Nat), Len(a) = Len(b),
           Len(a) <= BLAKE3_BLOCK_LEN, Padded(a) = Padded(b)
    PROVE  a = b
<1> DEFINE n == BLAKE3_BLOCK_LEN - Len(a)
           zeros == [i \in 1..n |-> 0]
<1>1. n \in Nat
  BY SizesAssumption
<1>2. zeros \in [1..n -> Nat]
  OBVIOUS
<1>3. zeros \in Seq(Nat)
  <2> HIDE DEF zeros, n
  <2> QED BY <1>1, <1>2
<1>4. Padded(a) = a \o zeros /\ Padded(b) = b \o zeros
  BY DEF Padded
<1> HIDE DEF zeros, n
<1>5. ASSUME NEW u \in Seq(Nat), NEW i \in 1..Len(u)
      PROVE  (u \o zeros)[i] = u[i]
  <2>1. Len(u) \in Nat /\ Len(zeros) \in Nat
    BY <1>3
  <2>2. i \in 1..(Len(u) + Len(zeros)) /\ i <= Len(u)
    BY <2>1
  <2> QED BY <1>3, <2>2, ConcatProperties
<1>6. \A i \in 1..Len(a) : a[i] = b[i]
  BY <1>4, <1>5
<1> QED BY <1>6, SeqEqual

(* The values of two chunks are equal only if their bytes are.              *)
LEMMA ChunkCvInjective ==
    ASSUME NEW flags, NEW counter, NEW s \in Seq(Nat), NEW t \in Seq(Nat),
           ChunkCv(flags, counter, s) = ChunkCv(flags, counter, t)
    PROVE  s = t
<1> DEFINE m == Inner(s)
           n == Inner(t)
           f == Chain(flags, counter, s)
           g == Chain(flags, counter, t)
<1>1. m \in Nat /\ n \in Nat
  BY RestFacts
<1>2. Links(f, flags, counter, s, m) /\ Links(g, flags, counter, t, n)
  BY <1>1, LinksExist, Zenon DEF Chain
<1>3. Len(Rest(s)) = Len(Rest(t)) /\ f[m] = g[n] /\ Padded(Rest(s)) = Padded(Rest(t))
  <2> DEFINE rs == Rest(s)
             rt == Rest(t)
             ps == Padded(rs)
             pt == Padded(rt)
             ls == Len(rs)
             lt == Len(rt)
             x == f[m]
             y == g[n]
             fs == flags \cup StartFlag(m) \cup {"CHUNK_END"}
             ft == flags \cup StartFlag(n) \cup {"CHUNK_END"}
  <2>1. Compress(fs, counter, ls, x, ps) = Compress(ft, counter, lt, y, pt)
    <3>1. ChunkCv(flags, counter, s) = Compress(fs, counter, ls, x, ps)
      BY ChunkCvIsLinked
    <3>2. ChunkCv(flags, counter, t) = Compress(ft, counter, lt, y, pt)
      BY ChunkCvIsLinked
    <3> QED BY <3>1, <3>2
  <2> HIDE DEF ls, lt, ps, pt, x, y, fs, ft
  <2>2. ls = lt /\ x = y /\ ps = pt
    BY <2>1, CompressInjective
  <2> QED BY <2>2 DEF ls, lt, ps, pt, x, y
<1>4. Rest(s) = Rest(t)
  <2>1. Rest(s) \in Seq(Nat) /\ Len(Rest(s)) <= BLAKE3_BLOCK_LEN /\ Rest(t) \in Seq(Nat)
    BY RestFacts
  <2> QED BY <1>3, <2>1, PaddedInjective
<1>5. m = n /\ SameBlocks(s, t, m)
  <2> HIDE DEF m, n, f, g
  <2>1. m \in 0..m /\ n \in 0..n
    BY <1>1
  <2> QED BY <1>1, <1>2, <1>3, <2>1, LinksInjective
<1>6. BLAKE3_BLOCK_LEN \in Nat /\ BLAKE3_BLOCK_LEN > 0
  BY SizesAssumption
<1>7. m * BLAKE3_BLOCK_LEN <= Len(s) /\ n * BLAKE3_BLOCK_LEN <= Len(t)
  BY RestFacts
<1>8. Part(s, m * BLAKE3_BLOCK_LEN + 1, Len(s)) = Part(t, m * BLAKE3_BLOCK_LEN + 1, Len(t))
  <2>1. Part(s, m * BLAKE3_BLOCK_LEN + 1, Len(s)) = Part(t, n * BLAKE3_BLOCK_LEN + 1, Len(t))
    BY <1>4, Zenon DEF Rest, Part
  <2> QED BY <1>5, <2>1
<1> HIDE DEF m, n
<1>9. ASSUME NEW i \in Nat, i < m
      PROVE  Part(s, i * BLAKE3_BLOCK_LEN + 1, (i + 1) * BLAKE3_BLOCK_LEN)
               = Part(t, i * BLAKE3_BLOCK_LEN + 1, (i + 1) * BLAKE3_BLOCK_LEN)
  <2> DEFINE k == i + 1
  <2>1. k \in 1..m /\ k - 1 = i
    BY <1>1, <1>9
  <2> HIDE DEF k
  <2>2. Block(s, k) = Block(t, k)
    BY <1>5, <2>1 DEF SameBlocks
  <2>3. Part(s, i * BLAKE3_BLOCK_LEN + 1, k * BLAKE3_BLOCK_LEN)
          = Part(t, i * BLAKE3_BLOCK_LEN + 1, k * BLAKE3_BLOCK_LEN)
    BY <2>1, <2>2, Zenon DEF Block
  <2> QED BY <2>3 DEF k
<1>10. m * BLAKE3_BLOCK_LEN <= Len(t)
  BY <1>5, <1>7
<1> QED BY <1>1, <1>6, <1>7, <1>8, <1>9, <1>10, EqualPieces

(* The root's value tells the mode and the value it was made from.          *)
LEMMA RootInjective ==
    ASSUME NEW f \in Modes, NEW g \in Modes, NEW a, NEW b, RootOf(f, a) = RootOf(g, b)
    PROVE  f = g /\ a = b
<1> DEFINE ff == f \cup {"ROOT"}
           gg == g \cup {"ROOT"}
           ta == <<a>>
           tb == <<b>>
<1>1. Compress(ff, 0, 32, IV, ta) = Compress(gg, 0, 32, IV, tb)
  BY Zenon DEF RootOf
<1>2. ff = gg /\ ta = tb
  <2> HIDE DEF ff, gg, ta, tb
  <2> QED BY <1>1, CompressInjective
<1>3. f = g
  <2>1. "KEYED_HASH" \in f <=> "KEYED_HASH" \in g
    BY <1>2
  <2> QED BY <2>1 DEF Modes
<1>4. a = b
  BY <1>2
<1> QED BY <1>3, <1>4

(* A parent's value tells those of its children.                            *)
LEMMA ParentInjective ==
    ASSUME NEW flags, NEW a, NEW b, NEW c, NEW d, ParentCv(flags, a, b) = ParentCv(flags, c, d)
    PROVE  a = c /\ b = d
<1> DEFINE ff == flags \cup {"PARENT"}
           s == <<a, b>>
           t == <<c, d>>
<1>1. Compress(ff, 0, BLAKE3_BLOCK_LEN, IV, s) = Compress(ff, 0, BLAKE3_BLOCK_LEN, IV, t)
  BY Zenon DEF ParentCv
<1>2. s = t
  <2> HIDE DEF ff, s, t
  <2> QED BY <1>1, CompressInjective
<1> QED BY <1>2

(* A chunk's value is not a parent's, and tells the chunk's number.          *)
LEMMA KindsDiffer ==
    ASSUME NEW flags \in Modes, NEW c, NEW s
    PROVE  /\ \A a, b : ChunkCv(flags, c, s) # ParentCv(flags, a, b)
           /\ \A d, t : ChunkCv(flags, c, s) = ChunkCv(flags, d, t) => c = d
<1>1. ASSUME NEW d, NEW t
      PROVE  \E f, l, v, x : /\ ChunkCv(flags, d, t) = Compress(f, d, l, v, x)
                             /\ "PARENT" \notin f
  <2> DEFINE f == flags \cup StartFlag(Inner(t)) \cup {"CHUNK_END"}
  <2>1. "PARENT" \notin f
    <3>1. StartFlag(Inner(t)) \in {{}, {"CHUNK_START"}}
      BY DEF StartFlag
    <3> QED BY <3>1 DEF Modes
  <2> HIDE DEF f
  <2>2. ChunkCv(flags, d, t) = Compress(f, d, Len(Rest(t)), Chain(flags, d, t)[Inner(t)],
                                        Padded(Rest(t)))
    BY ChunkCvIsLinked DEF f
  <2> QED BY <2>1, <2>2
<1>2. PICK f, l, v, x : /\ ChunkCv(flags, c, s) = Compress(f, c, l, v, x)
                        /\ "PARENT" \notin f
  BY <1>1
<1>3. ASSUME NEW a, NEW b, ChunkCv(flags, c, s) = ParentCv(flags, a, b)
      PROVE  FALSE
  <2> DEFINE pf == flags \cup {"PARENT"}
             ch == <<a, b>>
  <2>1. Compress(f, c, l, v, x) = Compress(pf, 0, BLAKE3_BLOCK_LEN, IV, ch)
    BY <1>2, <1>3, Zenon DEF ParentCv
  <2>2. "PARENT" \in pf
    OBVIOUS
  <2> HIDE DEF pf, ch
  <2>3. f = pf
    BY <2>1, CompressInjective
  <2> QED BY <1>2, <2>2, <2>3
<1>4. ASSUME NEW d, NEW t, ChunkCv(flags, c, s) = ChunkCv(flags, d, t)
      PROVE  c = d
  <2>1. PICK f2, l2, v2, x2 : ChunkCv(flags, d, t) = Compress(f2, d, l2, v2, x2)
    BY <1>1
  <2>2. Compress(f, c, l, v, x) = Compress(f2, d, l2, v2, x2)
    BY <1>2, <1>4, <2>1
  <2> QED BY <2>2, CompressInjective
<1> QED BY <1>3, <1>4

SameUpTo(P, Q, n) == \A k \in 0..n : P[k] = Q[k]

(* As many values that are merged to the same are the same.                  *)
LEMMA MergedInjective ==
    ASSUME NEW flags, NEW P, NEW Q
    PROVE  \A n \in Nat : Merged(flags, P, n) = Merged(flags, Q, n) => SameUpTo(P, Q, n)
<1> DEFINE G == {n \in Nat : Merged(flags, P, n) = Merged(flags, Q, n) => SameUpTo(P, Q, n)}
<1>1. 0 \in G
  <2>1. Merged(flags, P, 0) = P[0] /\ Merged(flags, Q, 0) = Q[0]
    BY MergedFacts
  <2>2. Merged(flags, P, 0) = Merged(flags, Q, 0) => SameUpTo(P, Q, 0)
    <3>1. \A k \in 0..0 : k = 0
      OBVIOUS
    <3> QED BY <2>1, <3>1 DEF SameUpTo
  <2> QED BY <2>2
<1>2. ASSUME NEW n \in Nat, n \in G
      PROVE  n + 1 \in G
  <2> SUFFICES ASSUME Merged(flags, P, n + 1) = Merged(flags, Q, n + 1)
               PROVE  SameUpTo(P, Q, n + 1)
    OBVIOUS
  <2>1. Merged(flags, P, n + 1) = ParentCv(flags, Merged(flags, P, n), P[n + 1])
    BY MergedFacts
  <2>2. Merged(flags, Q, n + 1) = ParentCv(flags, Merged(flags, Q, n), Q[n + 1])
    BY MergedFacts
  <2> DEFINE a == Merged(flags, P, n)
             b == P[n + 1]
             c == Merged(flags, Q, n)
             d == Q[n + 1]
  <2>3. ParentCv(flags, a, b) = ParentCv(flags, c, d)
    BY <2>1, <2>2
  <2>4. a = c => SameUpTo(P, Q, n)
    BY <1>2
  <2>5. b = d <=> P[n + 1] = Q[n + 1]
    OBVIOUS
  <2> HIDE DEF a, b, c, d
  <2>6. a = c /\ b = d
    BY <2>3, ParentInjective
  <2>7. \A k \in 0..(n + 1) : k \in 0..n \/ k = n + 1
    OBVIOUS
  <2> QED BY <2>4, <2>5, <2>6, <2>7, Zenon DEF SameUpTo
<1> HIDE DEF G
<1>3. \A n \in Nat : n \in G
  BY <1>1, <1>2, NumberInduction
<1> QED BY <1>3 DEF G

SamePair(flags, s, t, k, l) ==
    /\ k = l
    /\ 2 * k + 1 < Chunks(s) <=> 2 * l + 1 < Chunks(t)
    /\ Leaf(flags, s, 2 * k) = Leaf(flags, t, 2 * k)
    /\ 2 * k + 1 < Chunks(s) => Leaf(flags, s, 2 * k + 1) = Leaf(flags, t, 2 * k + 1)

(* The leaf's value tells its number.                                       *)
LEMMA LeafTells ==
    ASSUME NEW flags \in Modes, NEW s, NEW t, NEW i, NEW j
    PROVE  /\ \A a, b : Leaf(flags, s, i) # ParentCv(flags, a, b)
           /\ Leaf(flags, s, i) = Leaf(flags, t, j) => i = j
<1> DEFINE x == SubSeq(s, i * BLAKE3_CHUNK_LEN + 1, Min({(i + 1) * BLAKE3_CHUNK_LEN, Len(s)}))
           y == SubSeq(t, j * BLAKE3_CHUNK_LEN + 1, Min({(j + 1) * BLAKE3_CHUNK_LEN, Len(t)}))
<1>1. Leaf(flags, s, i) = ChunkCv(flags, i, x) /\ Leaf(flags, t, j) = ChunkCv(flags, j, y)
  BY Zenon DEF Leaf
<1> HIDE DEF x, y
<1> QED BY <1>1, KindsDiffer

(* A pair's value tells its number, whether it has one chunk or two, and     *)
(* theirs.                                                                  *)
LEMMA PairTells ==
    ASSUME NEW flags \in Modes, NEW s, NEW t, NEW k \in Nat, NEW l \in Nat,
           Pair(flags, s, k) = Pair(flags, t, l)
    PROVE  SamePair(flags, s, t, k, l)
<1>1. \A i, j, a, b : /\ Leaf(flags, s, i) # ParentCv(flags, a, b)
                      /\ Leaf(flags, t, i) # ParentCv(flags, a, b)
                      /\ Leaf(flags, s, i) = Leaf(flags, t, j) => i = j
  BY LeafTells
<1>2. CASE 2 * k + 1 < Chunks(s)
  <2>1. Pair(flags, s, k) = ParentCv(flags, Leaf(flags, s, 2 * k), Leaf(flags, s, 2 * k + 1))
    BY <1>2, Zenon DEF Pair
  <2>2. 2 * l + 1 < Chunks(t)
    <3> SUFFICES ASSUME ~(2 * l + 1 < Chunks(t)) PROVE FALSE
      OBVIOUS
    <3>1. Pair(flags, t, l) = Leaf(flags, t, 2 * l)
      BY Zenon DEF Pair
    <3> QED BY <1>1, <2>1, <3>1
  <2>3. Pair(flags, t, l) = ParentCv(flags, Leaf(flags, t, 2 * l), Leaf(flags, t, 2 * l + 1))
    BY <2>2, Zenon DEF Pair
  <2> DEFINE a == Leaf(flags, s, 2 * k)
             b == Leaf(flags, s, 2 * k + 1)
             c == Leaf(flags, t, 2 * l)
             d == Leaf(flags, t, 2 * l + 1)
  <2>4. ParentCv(flags, a, b) = ParentCv(flags, c, d)
    BY <2>1, <2>3
  <2>5. a = c /\ b = d
    <3> HIDE DEF a, b, c, d
    <3> QED BY <2>4, ParentInjective
  <2>6. 2 * k = 2 * l
    BY <1>1, <2>5
  <2>7. k = l
    BY <2>6
  <2> QED BY <1>2, <2>2, <2>5, <2>7 DEF SamePair
<1>3. CASE ~(2 * k + 1 < Chunks(s))
  <2>1. Pair(flags, s, k) = Leaf(flags, s, 2 * k)
    BY <1>3, Zenon DEF Pair
  <2>2. ~(2 * l + 1 < Chunks(t))
    <3> SUFFICES ASSUME 2 * l + 1 < Chunks(t) PROVE FALSE
      OBVIOUS
    <3>1. Pair(flags, t, l) = ParentCv(flags, Leaf(flags, t, 2 * l), Leaf(flags, t, 2 * l + 1))
      BY Zenon DEF Pair
    <3> QED BY <1>1, <2>1, <3>1
  <2>3. Pair(flags, t, l) = Leaf(flags, t, 2 * l)
    BY <2>2, Zenon DEF Pair
  <2>4. Leaf(flags, s, 2 * k) = Leaf(flags, t, 2 * l)
    BY <2>1, <2>3
  <2>5. 2 * k = 2 * l
    BY <1>1, <2>4
  <2>6. k = l
    BY <2>5
  <2> QED BY <1>3, <2>2, <2>4, <2>6 DEF SamePair
<1> QED BY <1>2, <1>3

PairsUpTo(P, flags, bytes, n) == \A k \in 0..n : P[k] = Pair(flags, bytes, k)

(* The merged value tells how many pairs there are.                         *)
LEMMA LastTells ==
    ASSUME NEW flags \in Modes, NEW s, NEW t, NEW m \in Nat, NEW n \in Nat, NEW P, NEW Q,
           PairsUpTo(P, flags, s, m), PairsUpTo(Q, flags, t, n),
           Merged(flags, P, m) = Merged(flags, Q, n), m < n
    PROVE  FALSE
<1>1. PICK j \in Nat : n = j + 1
  <2>1. n - 1 \in Nat /\ n = (n - 1) + 1
    OBVIOUS
  <2> QED BY <2>1
<1> DEFINE a == Merged(flags, Q, j)
<1>2. Merged(flags, Q, n) = ParentCv(flags, a, Q[n])
  BY <1>1, MergedFacts
<1>3. Q[n] = Pair(flags, t, n)
  <2>1. n \in 0..n
    OBVIOUS
  <2> QED BY <2>1 DEF PairsUpTo
<1> HIDE DEF a
<1>4. CASE m = 0
  <2>1. Merged(flags, P, m) = Pair(flags, s, 0)
    <3>1. Merged(flags, P, 0) = P[0] /\ 0 \in 0..m
      BY MergedFacts
    <3> QED BY <1>4, <3>1 DEF PairsUpTo
  <2>2. Pair(flags, s, 0) = ParentCv(flags, a, Q[n])
    BY <1>2, <2>1
  <2>3. \A i, x, y : /\ Leaf(flags, s, i) # ParentCv(flags, x, y)
                     /\ \A j1 : Leaf(flags, s, i) = Leaf(flags, t, j1) => i = j1
    BY LeafTells
  <2>4. Pair(flags, s, 0) = ParentCv(flags, Leaf(flags, s, 0), Leaf(flags, s, 1))
    <3>1. \/ Pair(flags, s, 0) = ParentCv(flags, Leaf(flags, s, 2 * 0), Leaf(flags, s, 2 * 0 + 1))
          \/ Pair(flags, s, 0) = Leaf(flags, s, 2 * 0)
      BY Zenon DEF Pair
    <3>2. 2 * 0 = 0 /\ 2 * 0 + 1 = 1
      OBVIOUS
    <3> QED BY <2>2, <2>3, <3>1, <3>2
  <2>5. Q[n] = Leaf(flags, s, 1)
    <3> DEFINE b == Leaf(flags, s, 0)
               c == Leaf(flags, s, 1)
               d == Q[n]
    <3>1. ParentCv(flags, b, c) = ParentCv(flags, a, d)
      BY <2>2, <2>4
    <3> HIDE DEF b, c, d
    <3>2. c = d
      BY <3>1, ParentInjective
    <3> QED BY <3>2 DEF c, d
  <2>6. \/ Q[n] = ParentCv(flags, Leaf(flags, t, 2 * n), Leaf(flags, t, 2 * n + 1))
        \/ Q[n] = Leaf(flags, t, 2 * n)
    BY <1>3, Zenon DEF Pair
  <2>7. Q[n] = Leaf(flags, t, 2 * n)
    BY <2>3, <2>5, <2>6
  <2>8. 1 = 2 * n
    BY <2>3, <2>5, <2>7
  <2> QED BY <2>8
<1>5. CASE m # 0
  <2>1. PICK i \in Nat : m = i + 1
    <3>1. m - 1 \in Nat /\ m = (m - 1) + 1
      BY <1>5
    <3> QED BY <3>1
  <2> DEFINE c == Merged(flags, P, i)
  <2>2. Merged(flags, P, m) = ParentCv(flags, c, P[m])
    BY <2>1, MergedFacts
  <2>3. P[m] = Pair(flags, s, m)
    <3>1. m \in 0..m
      OBVIOUS
    <3> QED BY <3>1 DEF PairsUpTo
  <2>4. P[m] = Q[n]
    <3> DEFINE b == Q[n]
               d == P[m]
    <3>1. ParentCv(flags, a, b) = ParentCv(flags, c, d)
      BY <1>2, <2>2
    <3> HIDE DEF b, c, d
    <3>2. b = d
      BY <3>1, ParentInjective
    <3> QED BY <3>2 DEF b, d
  <2>5. SamePair(flags, s, t, m, n)
    BY <1>3, <2>3, <2>4, PairTells
  <2> QED BY <2>5 DEF SamePair
<1> QED BY <1>4, <1>5

(* How many chunks a sequence has, and which they are.                       *)
LEMMA ChunkPieces ==
    ASSUME NEW flags, NEW s \in Seq(Nat), NEW c, c = Chunks(s) - 1
    PROVE  /\ c \in Nat /\ Chunks(s) = c + 1
           /\ c * BLAKE3_CHUNK_LEN <= Len(s)
           /\ \A i \in Nat : i < c =>
                Leaf(flags, s, i) =
                   ChunkCv(flags, i, Part(s, i * BLAKE3_CHUNK_LEN + 1, (i + 1) * BLAKE3_CHUNK_LEN))
           /\ Leaf(flags, s, c) = ChunkCv(flags, c, Part(s, c * BLAKE3_CHUNK_LEN + 1, Len(s)))
           /\ \A i \in Nat : i < c => (i + 1) * BLAKE3_CHUNK_LEN <= Len(s)
<1> DEFINE len == Len(s)
           size == BLAKE3_CHUNK_LEN
<1>1. size \in Nat /\ size > 0
  BY SizesAssumption
<1>2. len \in Nat /\ (s = <<>> <=> len = 0)
  BY EmptySeq
<1> HIDE DEF size
<1>3. c \in Nat /\ Chunks(s) = c + 1 /\ c * size <= len /\ len <= (c + 1) * size
      /\ c * size \in Nat /\ (c + 1) * size \in Nat
  <2>1. CASE len = 0
    <3>1. Chunks(s) = 1
      BY <1>2, <2>1 DEF Chunks
    <3>2. c = 0
      BY <3>1
    <3> QED BY <1>1, <1>2, <2>1, <3>1, <3>2
  <2>2. CASE len # 0
    <3> DEFINE n == (len - 1) \div size
    <3>1. Chunks(s) = n + 1
      BY <1>2, <2>2, Zenon DEF Chunks, size
    <3>2. len > 0 /\ n = (len - 1) \div size
      BY <1>2, <2>2
    <3> HIDE DEF n, len
    <3>3. n \in Nat /\ n * size < len /\ len <= (n + 1) * size
      BY <1>1, <1>2, <3>2, PieceFacts
    <3>4. c = n
      BY <3>1, <3>3
    <3>5. \A a, b \in Nat : a * b \in Nat /\ (a + 1) * b \in Nat
      BY SMTT(60)
    <3>6. c * size < len /\ c * size \in Nat /\ (c + 1) * size \in Nat
      BY <1>1, <3>3, <3>4, <3>5
    <3> QED BY <1>2, <3>1, <3>3, <3>4, <3>6
  <2> QED BY <2>1, <2>2
<1>4. \A i \in Nat : Leaf(flags, s, i) = ChunkCv(flags, i, Part(s, i * size + 1, Min({(i + 1) * size, len})))
  BY Zenon DEF Leaf, Part, size
<1> HIDE DEF len
<1>5. ASSUME NEW i \in Nat, i < c
      PROVE  /\ (i + 1) * size <= len
             /\ Min({(i + 1) * size, len}) = (i + 1) * size
  <2>1. \A a, b, z \in Nat : a < b => (a + 1) * z <= b * z /\ (a + 1) * z \in Nat
    BY SMTT(60)
  <2> DEFINE x == (i + 1) * size
  <2>2. x <= c * size /\ x \in Nat
    BY <1>1, <1>3, <1>5, <2>1
  <2> HIDE DEF x
  <2>3. x <= len
    BY <1>2, <1>3, <2>2
  <2>4. Min({x, len}) = x
    BY <1>2, <2>2, <2>3, MinFacts
  <2> QED BY <2>3, <2>4 DEF x
<1>6. Min({(c + 1) * size, len}) = len
  <2> DEFINE x == (c + 1) * size
  <2>1. x \in Nat /\ len <= x
    BY <1>3
  <2> HIDE DEF x
  <2>2. Min({x, len}) = len
    BY <1>2, <2>1, MinFacts
  <2> QED BY <2>2 DEF x
<1>7. \A i \in Nat : i < c =>
         Leaf(flags, s, i) = ChunkCv(flags, i, Part(s, i * size + 1, (i + 1) * size))
  BY <1>4, <1>5
<1>8. Leaf(flags, s, c) = ChunkCv(flags, c, Part(s, c * size + 1, len))
  BY <1>3, <1>4, <1>6
<1> QED BY <1>3, <1>5, <1>7, <1>8 DEF size, len

(* A part of a sequence is one.                                             *)
LEMMA PartIsSeq ==
    ASSUME NEW s \in Seq(Nat), NEW first \in Nat, NEW to \in Nat, first > 0, to <= Len(s)
    PROVE  Part(s, first, to) \in Seq(Nat)
<1>1. \A i \in first..to : s[i] \in Nat
  <2>1. \A i \in 1..Len(s) : s[i] \in Nat
    OBVIOUS
  <2> QED BY <2>1
<1> QED BY <1>1, SubSeqProperties DEF Part

(* Two digests are equal only if the modes and the inputs are, whatever the  *)
(* inputs and however long: no two trees of chunks and parents come to the   *)
(* same value, and neither do a padded block and a longer one.               *)
THEOREM DigestInjective ==
    ASSUME NEW f \in Modes, NEW g \in Modes, NEW s \in Seq(Nat), NEW t \in Seq(Nat),
           DigestOf(f, s) = DigestOf(g, t)
    PROVE  f = g /\ s = t
<1> DEFINE c == Chunks(s) - 1
           d == Chunks(t) - 1
           m == LastPair(s)
           n == LastPair(t)
           P == Pairs(f, s)
           Q == Pairs(f, t)
           size == BLAKE3_CHUNK_LEN
<1>1. /\ c \in Nat /\ Chunks(s) = c + 1 /\ c * size <= Len(s)
      /\ d \in Nat /\ Chunks(t) = d + 1 /\ d * size <= Len(t)
  BY ChunkPieces
<1>2. m = c \div 2 /\ n = d \div 2
  BY DEF LastPair
<1> HIDE DEF c, d
<1>3. m \in Nat /\ n \in Nat /\ (c = 2 * m \/ c = 2 * m + 1) /\ (d = 2 * n \/ d = 2 * n + 1)
  <2> HIDE DEF m, n
  <2> QED BY <1>1, <1>2
<1>4. f = g /\ Merged(f, P, m) = Merged(f, Q, n)
  <2> DEFINE Qg == Pairs(g, t)
  <2>1. DigestOf(f, s) = RootOf(f, Merged(f, P, m)) /\ DigestOf(g, t) = RootOf(g, Merged(g, Qg, n))
    BY <1>3, DigestMerges
  <2> DEFINE a == Merged(f, P, m)
             b == Merged(g, Qg, n)
  <2>2. RootOf(f, a) = RootOf(g, b)
    BY <2>1
  <2>3. f = g => Merged(g, Qg, n) = Merged(f, Q, n)
    OBVIOUS
  <2> HIDE DEF a, b
  <2>4. f = g /\ a = b
    BY <2>2, RootInjective
  <2> QED BY <2>3, <2>4 DEF a, b
<1>5. PairsUpTo(P, f, s, m) /\ PairsUpTo(Q, f, t, n)
  BY Zenon DEF Pairs, PairsUpTo
<1> HIDE DEF m, n, P, Q
<1>6. m = n
  <2>1. CASE m < n
    BY <1>3, <1>4, <1>5, <2>1, LastTells
  <2>2. CASE n < m
    BY <1>3, <1>4, <1>5, <2>2, LastTells
  <2> QED BY <1>3, <2>1, <2>2
<1>7. \A k \in 0..m : SamePair(f, s, t, k, k)
  <2>1. Merged(f, P, m) = Merged(f, Q, m)
    BY <1>4, <1>6
  <2>2. SameUpTo(P, Q, m)
    BY <1>3, <2>1, MergedInjective
  <2> SUFFICES ASSUME NEW k \in 0..m PROVE SamePair(f, s, t, k, k)
    OBVIOUS
  <2>3. Pair(f, s, k) = Pair(f, t, k)
    BY <1>5, <1>6, <2>2 DEF SameUpTo, PairsUpTo
  <2>4. k \in Nat
    BY <1>3
  <2> QED BY <2>3, <2>4, PairTells
<1>8. c = d
  <2>1. SamePair(f, s, t, m, m)
    <3>1. m \in 0..m
      BY <1>3
    <3> QED BY <1>7, <3>1
  <2>2. 2 * m + 1 < c + 1 <=> 2 * m + 1 < d + 1
    BY <1>1, <2>1 DEF SamePair
  <2> QED BY <1>1, <1>3, <1>6, <2>2
<1>9. ASSUME NEW i \in Nat, i <= c
      PROVE  Leaf(f, s, i) = Leaf(f, t, i)
  <2>1. PICK k \in Nat : i = 2 * k \/ i = 2 * k + 1
    <3>1. i \div 2 \in Nat /\ (i = 2 * (i \div 2) \/ i = 2 * (i \div 2) + 1)
      OBVIOUS
    <3> QED BY <3>1
  <2>2. k \in 0..m
    BY <1>1, <1>3, <1>9, <2>1
  <2>3. SamePair(f, s, t, k, k)
    BY <1>7, <2>2
  <2>4. i = 2 * k + 1 => 2 * k + 1 < Chunks(s)
    BY <1>1, <1>9
  <2> QED BY <2>1, <2>3, <2>4 DEF SamePair
<1>10. size \in Nat /\ size > 0
  BY SizesAssumption
<1>11. \A i \in Nat : i * size \in Nat
  <2>1. \A i, z \in Nat : i * z \in Nat
    BY SMTT(60)
  <2> QED BY <1>10, <2>1
<1>12. ASSUME NEW i \in Nat, i < c
       PROVE  Part(s, i * size + 1, (i + 1) * size) = Part(t, i * size + 1, (i + 1) * size)
  <2> DEFINE first == i * size + 1
             to == (i + 1) * size
             x == Part(s, first, to)
             y == Part(t, first, to)
  <2>1. first \in Nat /\ to \in Nat /\ first > 0
    <3> DEFINE j == i + 1
               p == i * size
    <3>1. j \in Nat /\ p \in Nat
      BY <1>11
    <3> HIDE DEF j, p
    <3>2. j * size \in Nat
      BY <1>11, <3>1
    <3>3. p + 1 \in Nat /\ p + 1 > 0
      BY <3>1
    <3> QED BY <3>2, <3>3 DEF j, p
  <2>2. Leaf(f, s, i) = ChunkCv(f, i, x) /\ to <= Len(s)
    BY <1>12, ChunkPieces DEF c
  <2>3. Leaf(f, t, i) = ChunkCv(f, i, y) /\ to <= Len(t)
    BY <1>8, <1>12, ChunkPieces DEF d
  <2>4. Leaf(f, s, i) = Leaf(f, t, i)
    BY <1>1, <1>9, <1>12
  <2> HIDE DEF first, to
  <2>5. x \in Seq(Nat) /\ y \in Seq(Nat)
    BY <2>1, <2>2, <2>3, PartIsSeq
  <2> HIDE DEF x, y
  <2>6. x = y
    BY <2>2, <2>3, <2>4, <2>5, ChunkCvInjective
  <2> QED BY <2>6 DEF x, y, first, to
<1>13. Part(s, c * size + 1, Len(s)) = Part(t, c * size + 1, Len(t))
  <2> DEFINE first == c * size + 1
             x == Part(s, first, Len(s))
             y == Part(t, first, Len(t))
  <2>1. first \in Nat /\ first > 0 /\ Len(s) \in Nat /\ Len(t) \in Nat
        /\ Len(s) <= Len(s) /\ Len(t) <= Len(t)
    <3>1. c * size \in Nat
      BY <1>1, <1>11
    <3>2. Len(s) \in Nat /\ Len(t) \in Nat
      OBVIOUS
    <3> QED BY <3>1, <3>2
  <2>2. Leaf(f, s, c) = ChunkCv(f, c, x)
    BY ChunkPieces DEF c
  <2>3. Leaf(f, t, c) = ChunkCv(f, c, y)
    <3>1. Leaf(f, t, d) = ChunkCv(f, d, Part(t, d * size + 1, Len(t)))
      BY ChunkPieces DEF d
    <3> QED BY <1>8, <3>1
  <2>4. Leaf(f, s, c) = Leaf(f, t, c)
    BY <1>1, <1>9
  <2> HIDE DEF first
  <2>5. x \in Seq(Nat)
    BY <2>1, PartIsSeq
  <2>6. y \in Seq(Nat)
    BY <2>1, PartIsSeq
  <2> HIDE DEF x, y
  <2>7. x = y
    BY <2>2, <2>3, <2>4, <2>5, <2>6, ChunkCvInjective
  <2> QED BY <2>7 DEF x, y, first
<1>14. c * size <= Len(t)
  BY <1>1, <1>8
<1>15. s = t
  <2> HIDE DEF size
  <2> QED BY <1>1, <1>10, <1>12, <1>13, <1>14, EqualPieces
<1> QED BY <1>4, <1>15

(* The digest changes with any one byte, with the length, also where the     *)
(* last block is padded with the same bytes, and with the mode: it is        *)
(* different for every other input and for every other mode.                *)
THEOREM DigestIsBinding == Spec => []DigestCommits
<1>1. HashInv => DigestCommits
  <2> SUFFICES ASSUME HashInv, input = <<>>
               PROVE  /\ \A other \in Neighbours(Bytes(0, length)) :
                            DigestOf(hasher.flags, other) # Finalize(hasher)
                      /\ \A flags \in {{}, {"KEYED_HASH"}} \ {hasher.flags} :
                            DigestOf(flags, Bytes(0, length)) # Finalize(hasher)
    BY DEF DigestCommits
  <2> DEFINE bytes == Bytes(0, length)
  <2>1. PICK c \in Nat, done \in Nat :
           /\ Took(hasher, c, done) /\ done <= length
           /\ c # 0 => Start(c) < done
           /\ input = Bytes(done, length)
    BY DEF HashInv
  <2>2. length \in Nat
    BY DEF HashInv
  <2>3. done = length
    BY <2>1, <2>2, BytesFacts
  <2>4. Finalize(hasher) = DigestOf(hasher.flags, bytes)
    BY <2>1, <2>2, <2>3, FinalizeIsDigest
  <2>5. hasher.flags \in Modes
    BY <2>1 DEF Took
  <2>6. /\ bytes \in Seq(Nat) /\ Len(bytes) = length
        /\ \A i \in 1..length : bytes[i] = i
    <3>1. 0 \in Nat /\ 0 <= length /\ length - 0 = length /\ \A i \in 1..length : 0 + i = i
      BY <2>2
    <3>2. bytes \in Seq(Nat)
      BY <2>2, <3>1, BytesFacts
    <3>3. Len(bytes) = length - 0
      BY <2>2, <3>1, BytesFacts
    <3>4. \A i \in 1..(length - 0) : bytes[i] = 0 + i
      BY <2>2, <3>1, BytesFacts
    <3> HIDE DEF bytes
    <3> QED BY <3>1, <3>2, <3>3, <3>4
  <2> HIDE DEF bytes
  <2>7. ASSUME NEW other \in Neighbours(bytes)
        PROVE  other \in Seq(Nat) /\ other # bytes
    <3>1. CASE other \in {[bytes EXCEPT ![i] = 0] : i \in 1..Len(bytes)}
      <4>1. PICK i \in 1..length : other = [bytes EXCEPT ![i] = 0]
        BY <2>6, <3>1
      <4>2. other \in Seq(Nat) /\ other[i] = 0
        BY <2>2, <2>6, <4>1, ExceptSeq
      <4>3. bytes[i] # 0
        BY <2>2, <2>6
      <4> QED BY <4>2, <4>3
    <3>2. CASE other \in {Append(bytes, x) : x \in {0, MaxLen + 1}}
      <4>1. PICK x \in Nat : other = Append(bytes, x)
        BY <3>2, SizesAssumption
      <4>2. other \in Seq(Nat) /\ Len(other) = Len(bytes) + 1
        BY <2>6, <4>1, AppendProperties
      <4> QED BY <2>2, <2>6, <4>2
    <3> QED BY <2>7, <3>1, <3>2 DEF Neighbours
  <2>8. ASSUME NEW other \in Neighbours(bytes), DigestOf(hasher.flags, other) = Finalize(hasher)
        PROVE  FALSE
    <3>1. other = bytes
      BY <2>4, <2>5, <2>6, <2>7, <2>8, DigestInjective
    <3> QED BY <2>7, <3>1
  <2>9. ASSUME NEW flags \in {{}, {"KEYED_HASH"}} \ {hasher.flags},
               DigestOf(flags, bytes) = Finalize(hasher)
        PROVE  FALSE
    <3>1. flags \in Modes /\ flags # hasher.flags
      BY DEF Modes
    <3>2. flags = hasher.flags
      BY <2>4, <2>5, <2>6, <2>9, <3>1, DigestInjective
    <3> QED BY <3>1, <3>2
  <2> QED BY <2>8, <2>9 DEF bytes
<1> QED BY <1>1, HashInvariance, PTL
=============================================================================

--------------------------- MODULE StatementsProofs ---------------------------
(***************************************************************************)
(* Proofs about module Statements, for every depth of nesting and every    *)
(* set of values, when all jumps are Tidy (~AllJumps): type correctness,   *)
(* the handlers and the with scopes of the place reached, and the iterators*)
(* of for-of loops.                                                        *)
(*   Tried(n, k) and Scoped(n, k) count the handlers and the scopes of the *)
(* first k constructs, as tryDepth_ and withDepth_ of the lowering do;     *)
(* Level is the number of constructs control is inside of, one less than   *)
(* there are while a for-of loop is between two rounds or is being left.   *)
(* Balanced says that the handlers are those of the first Level constructs,*)
(* outermost first.  Three lemmas carry it over any step: Cut takes off    *)
(* what lies inside a construct, Grow enters one, and TopHandler says where*)
(* an exception goes.                                                      *)
(***************************************************************************)
EXTENDS Statements, FiniteSetTheorems, SequenceTheorems, WellFoundedInduction, TLAPS

------------------------------------------------------------------------------
(* Counting in a prefix.                                                     *)

Tried(n, k)  == Cardinality({i \in 1 .. k : Armed(n[i])})
Scoped(n, k) == Cardinality({i \in 1 .. k : n[i].kind = "with"})

\* A number more in the interval is one number more, or none, in its part.
LEMMA CountStep ==
  ASSUME NEW S, NEW k \in Nat
  PROVE  /\ IsFiniteSet(S \cap (1 .. k)) /\ Cardinality(S \cap (1 .. k)) \in Nat
         /\ Cardinality(S \cap (1 .. 0)) = 0
         /\ Cardinality(S \cap (1 .. k + 1)) =
               Cardinality(S \cap (1 .. k)) + (IF k + 1 \in S THEN 1 ELSE 0)
<1>1. IsFiniteSet(1 .. k)  BY FS_Interval
<1>2. IsFiniteSet(S \cap (1 .. k))  BY <1>1, FS_Subset
<1>3. Cardinality(S \cap (1 .. k)) \in Nat  BY <1>2, FS_CardinalityType
<1>4. S \cap (1 .. 0) = {}  OBVIOUS
<1>5. CASE k + 1 \in S
  <2>1. S \cap (1 .. k + 1) = (S \cap (1 .. k)) \cup {k + 1}  BY <1>5
  <2>2. k + 1 \notin S \cap (1 .. k)  OBVIOUS
  <2>3. Cardinality((S \cap (1 .. k)) \cup {k + 1}) = Cardinality(S \cap (1 .. k)) + 1
    BY <1>2, <2>2, FS_AddElement
  <2>4. Cardinality(S \cap (1 .. 0)) = 0  BY <1>4, FS_EmptySet
  <2>5. Cardinality(S \cap (1 .. k + 1)) = Cardinality(S \cap (1 .. k)) + 1
    BY <2>1, <2>3
  <2> QED  BY <1>2, <1>3, <1>5, <2>4, <2>5
<1>6. CASE k + 1 \notin S
  <2>1. S \cap (1 .. k + 1) = S \cap (1 .. k)  BY <1>6
  <2> QED  BY <1>2, <1>3, <1>4, <1>6, <2>1, FS_EmptySet
<1> QED  BY <1>5, <1>6

\* The larger prefix counts no less.
LEMMA CountGrows ==
  ASSUME NEW S, NEW i \in Nat, NEW k \in Nat, i <= k
  PROVE  Cardinality(S \cap (1 .. i)) <= Cardinality(S \cap (1 .. k))
<1>1. IsFiniteSet(S \cap (1 .. k))  BY CountStep
<1>2. S \cap (1 .. i) \subseteq S \cap (1 .. k)  OBVIOUS
<1> QED  BY <1>1, <1>2, FS_Subset

\* How the two counts of the lowering grow from one construct to the next.
LEMMA DepthStep ==
  ASSUME NEW n, NEW k \in Nat
  PROVE  /\ Tried(n, k) \in Nat /\ Tried(n, 0) = 0
         /\ Scoped(n, k) \in Nat /\ Scoped(n, 0) = 0
         /\ Tried(n, k + 1) = Tried(n, k) + (IF Armed(n[k + 1]) THEN 1 ELSE 0)
         /\ Scoped(n, k + 1) = Scoped(n, k) + (IF n[k + 1].kind = "with" THEN 1 ELSE 0)
<1> DEFINE A == {i \in Nat : Armed(n[i])}
           W == {i \in Nat : n[i].kind = "with"}
<1>1. \A j \in Nat : {i \in 1 .. j : Armed(n[i])} = A \cap (1 .. j)  OBVIOUS
<1>2. \A j \in Nat : {i \in 1 .. j : n[i].kind = "with"} = W \cap (1 .. j)  OBVIOUS
<1>3. (k + 1 \in A <=> Armed(n[k + 1])) /\ (k + 1 \in W <=> n[k + 1].kind = "with")
  OBVIOUS
<1>4. \A j \in Nat : Tried(n, j) = Cardinality(A \cap (1 .. j))  BY <1>1 DEF Tried
<1>5. \A j \in Nat : Scoped(n, j) = Cardinality(W \cap (1 .. j))  BY <1>2 DEF Scoped
<1> HIDE DEF A, W
<1>6. k + 1 \in Nat /\ 0 \in Nat  OBVIOUS
<1>7. /\ Tried(n, k) \in Nat /\ Tried(n, 0) = 0
      /\ Tried(n, k + 1) = Tried(n, k) + (IF Armed(n[k + 1]) THEN 1 ELSE 0)
  <2>1. /\ Cardinality(A \cap (1 .. k)) \in Nat /\ Cardinality(A \cap (1 .. 0)) = 0
        /\ Cardinality(A \cap (1 .. k + 1)) =
              Cardinality(A \cap (1 .. k)) + (IF k + 1 \in A THEN 1 ELSE 0)
    BY CountStep
  <2> QED  BY <1>3, <1>4, <1>6, <2>1
<1>8. /\ Scoped(n, k) \in Nat /\ Scoped(n, 0) = 0
      /\ Scoped(n, k + 1) = Scoped(n, k) + (IF n[k + 1].kind = "with" THEN 1 ELSE 0)
  <2>1. /\ Cardinality(W \cap (1 .. k)) \in Nat /\ Cardinality(W \cap (1 .. 0)) = 0
        /\ Cardinality(W \cap (1 .. k + 1)) =
              Cardinality(W \cap (1 .. k)) + (IF k + 1 \in W THEN 1 ELSE 0)
    BY CountStep
  <2> QED  BY <1>3, <1>5, <1>6, <2>1
<1> QED  BY <1>7, <1>8

\* The same, from a construct to the one outside of it.
LEMMA DepthBack ==
  ASSUME NEW n, NEW k \in Nat \ {0}
  PROVE  /\ k - 1 \in Nat /\ Tried(n, k) \in Nat /\ Tried(n, k - 1) \in Nat
         /\ Scoped(n, k) \in Nat /\ Scoped(n, k - 1) \in Nat
         /\ Tried(n, k) = Tried(n, k - 1) + (IF Armed(n[k]) THEN 1 ELSE 0)
         /\ Scoped(n, k) = Scoped(n, k - 1) + (IF n[k].kind = "with" THEN 1 ELSE 0)
<1>1. k - 1 \in Nat /\ (k - 1) + 1 = k  OBVIOUS
<1> QED  BY <1>1, DepthStep

\* Further in there are no fewer handlers.
LEMMA TriedGrows ==
  ASSUME NEW n, NEW i \in Nat, NEW k \in Nat, i <= k
  PROVE  Tried(n, i) <= Tried(n, k)
<1> DEFINE A == {j \in Nat : Armed(n[j])}
<1>1. \A j \in Nat : {m \in 1 .. j : Armed(n[m])} = A \cap (1 .. j)  OBVIOUS
<1>2. \A j \in Nat : Tried(n, j) = Cardinality(A \cap (1 .. j))  BY <1>1 DEF Tried
<1> HIDE DEF A
<1> QED  BY <1>2, CountGrows

\* The counts depend on nothing but the constructs counted.
LEMMA DepthSame ==
  ASSUME NEW n, NEW m, NEW k \in Nat,
         \A i \in 1 .. k : Armed(n[i]) = Armed(m[i]) /\ n[i].kind = m[i].kind
  PROVE  \A j \in 0 .. k : Tried(n, j) = Tried(m, j) /\ Scoped(n, j) = Scoped(m, j)
<1> SUFFICES ASSUME NEW j \in 0 .. k
             PROVE  Tried(n, j) = Tried(m, j) /\ Scoped(n, j) = Scoped(m, j)
  OBVIOUS
<1>1. {i \in 1 .. j : Armed(n[i])} = {i \in 1 .. j : Armed(m[i])}  OBVIOUS
<1>2. {i \in 1 .. j : n[i].kind = "with"} = {i \in 1 .. j : m[i].kind = "with"}  OBVIOUS
<1> QED  BY <1>1, <1>2 DEF Tried, Scoped

\* In particular the count of all of them.
LEMMA ScopedSame ==
  ASSUME NEW n, NEW m, NEW k \in Nat,
         \A i \in 1 .. k : Armed(n[i]) = Armed(m[i]) /\ n[i].kind = m[i].kind
  PROVE  Scoped(m, k) = Scoped(n, k)
<1>1. \A j \in 0 .. k : Tried(n, j) = Tried(m, j) /\ Scoped(n, j) = Scoped(m, j)
  BY DepthSame
<1>2. k \in 0 .. k  OBVIOUS
<1> QED  BY <1>1, <1>2

\* A construct that is no with statement has no scope.
LEMMA ScopedSkips ==
  ASSUME NEW n, NEW k \in Nat \ {0}, n[k].kind # "with"
  PROVE  Scoped(n, k) = Scoped(n, k - 1)
<1>1. /\ Scoped(n, k - 1) \in Nat
      /\ Scoped(n, k) = Scoped(n, k - 1) + (IF n[k].kind = "with" THEN 1 ELSE 0)
  BY DepthBack
<1> QED  BY <1>1

\* A set of numbers up to k that is not empty has a greatest element.
LEMMA MaxOf ==
  ASSUME NEW k \in Nat, NEW S \in SUBSET (0 .. k), S # {}
  PROVE  Max(S) \in S /\ \A i \in S : i <= Max(S)
<1> DEFINE T == {k - i : i \in S}
<1>1. T \subseteq Nat /\ T # {}
  <2>1. \A i \in S : k - i \in Nat  OBVIOUS
  <2>2. T \subseteq Nat  BY <2>1
  <2>3. PICK i : i \in S  OBVIOUS
  <2>4. k - i \in T  BY <2>3
  <2> QED  BY <2>2, <2>4
<1>2. PICK t \in T : \A u \in T : <<u, t>> \notin OpToRel(<, Nat)
  <2> HIDE DEF T
  <2> QED  BY <1>1, WFMin, NatLessThanWellFounded
<1>3. \A u \in T : ~(u < t)  BY <1>1, <1>2 DEF OpToRel
<1>4. PICK s \in S : t = k - s  OBVIOUS
<1>5. \A i \in S : s >= i
  <2> SUFFICES ASSUME NEW i \in S PROVE s >= i  OBVIOUS
  <2>1. k - i \in T  OBVIOUS
  <2>2. ~(k - i < k - s)  BY <1>3, <1>4, <2>1
  <2> QED  BY <2>2
<1>6. Max(S) \in S /\ \A i \in S : Max(S) >= i  BY <1>5 DEF Max
<1> QED  BY <1>6

------------------------------------------------------------------------------
(* The handlers of the first l constructs of n.                              *)

Handler == [at : Nat, withs : Nat]
Caller  == [at |-> 0, withs |-> 0]

\* The caller's handler, and for each armed construct, from the outermost to
\* the innermost, one that knows the with scopes outside of the construct.
Balanced(n, h, l) ==
    /\ h \in Seq(Handler) /\ Len(h) = 1 + Tried(n, l) /\ h[1] = Caller
    /\ \A i \in 1 .. l : Armed(n[i]) =>
          h[1 + Tried(n, i)] = [at |-> i, withs |-> Scoped(n, i - 1)]
    /\ \A j \in 2 .. Len(h) :
          h[j].at \in 1 .. l /\ Armed(n[h[j].at]) /\ Tried(n, h[j].at) = j - 1

\* An armed construct counts more than those before it.
LEMMA ArmedCounts ==
  ASSUME NEW n, NEW i \in Nat \ {0}, NEW k \in Nat, Armed(n[i]), k < i
  PROVE  Tried(n, k) < Tried(n, i)
<1>1. k <= i - 1 /\ i - 1 \in Nat  OBVIOUS
<1>2. Tried(n, k) <= Tried(n, i - 1)  BY <1>1, TriedGrows
<1>3. Tried(n, i) = Tried(n, i - 1) + 1 /\ Tried(n, i - 1) \in Nat  BY DepthBack
<1>4. Tried(n, k) \in Nat  BY DepthStep
<1> QED  BY <1>2, <1>3, <1>4

\* Leaving constructs: m has the first k of n, and perhaps one that is not
\* armed, and the handlers of the others are popped.
LEMMA Cut ==
  ASSUME NEW n, NEW m, NEW h, NEW l \in Nat, NEW k \in 0 .. l, NEW t \in k .. k + 1,
         Balanced(n, h, l),
         \A i \in 1 .. k : Armed(n[i]) = Armed(m[i]) /\ n[i].kind = m[i].kind,
         t = k + 1 => ~Armed(m[t])
  PROVE  Balanced(m, SubSeq(h, 1, 1 + Tried(n, k)), t)
<1> DEFINE d == 1 + Tried(n, k)
           g == SubSeq(h, 1, d)
<1>1. \A j \in 0 .. k : Tried(n, j) = Tried(m, j) /\ Scoped(n, j) = Scoped(m, j)
  BY DepthSame
<1>2. Tried(m, t) = Tried(n, k)
  <2>1. CASE t = k  BY <1>1, <2>1
  <2>2. CASE t = k + 1
    <3>1. Tried(m, k + 1) = Tried(m, k) + (IF Armed(m[k + 1]) THEN 1 ELSE 0)
          /\ Tried(m, k) \in Nat
      BY DepthStep
    <3> QED  BY <1>1, <2>2, <3>1
  <2> QED  BY <2>1, <2>2
<1>3. Tried(n, k) \in Nat /\ Tried(n, k) <= Tried(n, l) /\ Tried(n, l) \in Nat
  BY TriedGrows, DepthStep
<1>4. h \in Seq(Handler) /\ Len(h) = 1 + Tried(n, l) /\ d \in 1 .. Len(h)
  BY <1>3 DEF Balanced
<1> HIDE DEF d
<1>5. /\ g \in Seq(Handler) /\ Len(g) = d
      /\ \A j \in 1 .. d : g[j] = h[j]
  <2>1. \A i \in 1 .. d : h[i] \in Handler  BY <1>4, ElementOfSeq
  <2>2. d \in Int /\ 1 <= d  BY <1>4
  <2>3. /\ SubSeq(h, 1, d) \in Seq(Handler)
        /\ Len(SubSeq(h, 1, d)) = IF 1 <= d THEN d - 1 + 1 ELSE 0
        /\ \A i \in 1 .. d - 1 + 1 : SubSeq(h, 1, d)[i] = h[1 + i - 1]
    BY <2>1, <2>2, SubSeqProperties
  <2> QED  BY <2>2, <2>3
<1> HIDE DEF g
<1>6. g[1] = Caller  BY <1>4, <1>5 DEF Balanced
<1>7. ASSUME NEW i \in 1 .. t, Armed(m[i])
      PROVE  g[1 + Tried(m, i)] = [at |-> i, withs |-> Scoped(m, i - 1)]
  <2>1. i \in 1 .. k /\ i - 1 \in 0 .. k  BY <1>7
  <2>2. Armed(n[i]) /\ Tried(m, i) = Tried(n, i) /\ Scoped(m, i - 1) = Scoped(n, i - 1)
    BY <1>1, <1>7, <2>1
  <2>3. h[1 + Tried(n, i)] = [at |-> i, withs |-> Scoped(n, i - 1)]
    BY <2>1, <2>2 DEF Balanced
  <2>4. Tried(n, i) <= Tried(n, k) /\ Tried(n, i) \in Nat  BY <2>1, TriedGrows, DepthStep
  <2>5. 1 + Tried(n, i) \in 1 .. d  BY <1>3, <2>4 DEF d
  <2> QED  BY <1>5, <2>2, <2>3, <2>5
<1>8. ASSUME NEW j \in 2 .. d
      PROVE  g[j].at \in 1 .. t /\ Armed(m[g[j].at]) /\ Tried(m, g[j].at) = j - 1
  <2>1. j \in 2 .. Len(h) /\ g[j] = h[j]  BY <1>4, <1>5
  <2> DEFINE a == h[j].at
  <2>2. a \in 1 .. l /\ Armed(n[a]) /\ Tried(n, a) = j - 1  BY <2>1 DEF Balanced
  <2> HIDE DEF a
  <2>3. a \in 1 .. k
    <3> SUFFICES ASSUME k < a PROVE FALSE  BY <2>2
    <3>1. Tried(n, k) < Tried(n, a)  BY <2>2, ArmedCounts
    <3> QED  BY <1>3, <2>2, <3>1 DEF d
  <2>4. Armed(m[a]) /\ Tried(m, a) = j - 1  BY <1>1, <2>2, <2>3
  <2> QED  BY <2>1, <2>3, <2>4 DEF a
<1> QED  BY <1>2, <1>5, <1>6, <1>7, <1>8 DEF Balanced, d, g

\* Entering a construct: it is armed and its handler pushed.
LEMMA Grow ==
  ASSUME NEW n, NEW m, NEW h, NEW l \in Nat, Balanced(n, h, l),
         \A i \in 1 .. l : Armed(n[i]) = Armed(m[i]) /\ n[i].kind = m[i].kind,
         Armed(m[l + 1])
  PROVE  Balanced(m, Append(h, [at |-> l + 1, withs |-> Scoped(n, l)]), l + 1)
<1> DEFINE e == [at |-> l + 1, withs |-> Scoped(n, l)]
           g == Append(h, e)
<1>1. \A j \in 0 .. l : Tried(n, j) = Tried(m, j) /\ Scoped(n, j) = Scoped(m, j)
  BY DepthSame
<1>2. Tried(n, l) \in Nat /\ Tried(m, l + 1) = Tried(n, l) + 1 /\ Scoped(n, l) \in Nat
  BY <1>1, DepthStep
<1>3. h \in Seq(Handler) /\ Len(h) = 1 + Tried(n, l)  BY DEF Balanced
<1>4. e \in Handler  BY <1>2 DEF Handler
<1> HIDE DEF e
<1>5. /\ g \in Seq(Handler) /\ Len(g) = Len(h) + 1 /\ g[Len(h) + 1] = e
      /\ \A j \in 1 .. Len(h) : g[j] = h[j]
  BY <1>3, <1>4
<1> HIDE DEF g
<1>6. g[1] = Caller  BY <1>2, <1>3, <1>5 DEF Balanced
<1>7. ASSUME NEW i \in 1 .. l + 1, Armed(m[i])
      PROVE  g[1 + Tried(m, i)] = [at |-> i, withs |-> Scoped(m, i - 1)]
  <2>1. CASE i = l + 1
    <3>1. 1 + Tried(m, i) = Len(h) + 1 /\ Scoped(m, i - 1) = Scoped(n, l)
      BY <1>1, <1>2, <1>3, <2>1
    <3> QED  BY <1>5, <2>1, <3>1 DEF e
  <2>2. CASE i # l + 1
    <3>1. i \in 1 .. l /\ i - 1 \in 0 .. l  BY <2>2
    <3>2. Armed(n[i]) /\ Tried(m, i) = Tried(n, i) /\ Scoped(m, i - 1) = Scoped(n, i - 1)
      BY <1>1, <1>7, <3>1
    <3>3. h[1 + Tried(n, i)] = [at |-> i, withs |-> Scoped(n, i - 1)]
      BY <3>1, <3>2 DEF Balanced
    <3>4. Tried(n, i) <= Tried(n, l) /\ Tried(n, i) \in Nat  BY <3>1, TriedGrows, DepthStep
    <3> QED  BY <1>2, <1>3, <1>5, <3>2, <3>3, <3>4
  <2> QED  BY <2>1, <2>2
<1>8. ASSUME NEW j \in 2 .. Len(g)
      PROVE  g[j].at \in 1 .. l + 1 /\ Armed(m[g[j].at]) /\ Tried(m, g[j].at) = j - 1
  <2>1. CASE j = Len(h) + 1  BY <1>2, <1>3, <1>5, <2>1 DEF e
  <2>2. CASE j # Len(h) + 1
    <3>1. j \in 2 .. Len(h)  BY <1>2, <1>3, <1>5, <2>2
    <3>2. g[j] = h[j]  BY <1>5, <3>1
    <3> DEFINE a == h[j].at
    <3>3. a \in 1 .. l /\ Armed(n[a]) /\ Tried(n, a) = j - 1  BY <3>1 DEF Balanced
    <3> HIDE DEF a
    <3>4. Armed(m[a]) /\ Tried(m, a) = j - 1  BY <1>1, <3>3
    <3> QED  BY <3>2, <3>3, <3>4 DEF a
  <2> QED  BY <2>1, <2>2
<1>9. Len(g) = 1 + Tried(m, l + 1)  BY <1>2, <1>3, <1>5
<1>10. Balanced(m, g, l + 1)  BY <1>5, <1>6, <1>7, <1>8, <1>9 DEF Balanced
<1> QED  BY <1>10 DEF g, e

\* Where an exception goes: to the innermost armed construct.
LEMMA TopHandler ==
  ASSUME NEW n, NEW h, NEW l \in Nat, Balanced(n, h, l)
  PROVE  LET t == h[Len(h)]
         IN  \/ t.at = 0 /\ t.withs = 0 /\ Len(h) = 1 /\ Tried(n, l) = 0
             \/ /\ t.at \in 1 .. l /\ Armed(n[t.at])
                /\ t.withs = Scoped(n, t.at - 1)
                /\ Len(h) - 1 = 1 + Tried(n, t.at - 1)
                /\ \A i \in t.at + 1 .. l : ~Armed(n[i])
<1>1. Tried(n, l) \in Nat /\ Len(h) = 1 + Tried(n, l)  BY DepthStep DEF Balanced
<1>2. CASE Len(h) = 1
  <2>1. h[Len(h)] = Caller  BY <1>2 DEF Balanced
  <2>2. h[Len(h)].at = 0 /\ h[Len(h)].withs = 0  BY <2>1 DEF Caller
  <2>3. Tried(n, l) = Len(h) - 1  BY <1>1
  <2> QED  BY <1>2, <2>2, <2>3
<1>3. CASE Len(h) # 1
  <2> DEFINE a == h[Len(h)].at
  <2>1. Len(h) \in 2 .. Len(h)  BY <1>1, <1>3
  <2>2. a \in 1 .. l /\ Armed(n[a]) /\ Tried(n, a) = Len(h) - 1  BY <2>1 DEF Balanced
  <2>3. h[1 + Tried(n, a)] = [at |-> a, withs |-> Scoped(n, a - 1)]
    <3> HIDE DEF a
    <3> QED  BY <2>2 DEF Balanced
  <2>4. h[Len(h)].withs = Scoped(n, a - 1)
    <3>1. 1 + Tried(n, a) = Len(h)  BY <1>1, <2>2
    <3> HIDE DEF a
    <3> QED  BY <2>3, <3>1
  <2> HIDE DEF a
  <2>5. Tried(n, a) = Tried(n, a - 1) + 1 /\ Tried(n, a - 1) \in Nat  BY <2>2, DepthBack
  <2>6. ASSUME NEW i \in a + 1 .. l, Armed(n[i]) PROVE FALSE
    <3>1. Tried(n, a) < Tried(n, i)  BY <2>2, <2>6, ArmedCounts
    <3>2. Tried(n, i) <= Tried(n, l)  BY <2>2, TriedGrows
    <3>3. i \in Nat  BY <2>2
    <3>4. Tried(n, i) \in Nat  BY <3>3, DepthStep
    <3> QED  BY <1>1, <2>2, <3>1, <3>2, <3>4
  <2> QED  BY <1>1, <2>2, <2>4, <2>5, <2>6 DEF a
<1> QED  BY <1>2, <1>3

------------------------------------------------------------------------------
(* The constructs.                                                           *)

Frame == [kind : Kinds, part : {"body", "catch", "finally"},
          disc : [how : {"normal", "return", "break", "continue"}, to : Nat],
          val : Value \cup {Undefined}, exc : BOOLEAN,
          iter : {"none", "open", "closed"}]

\* What stops a break or a continue.
Takes(kind, how) == kind \in Loops \/ (how = "break" /\ kind = "switch")

\* A frame keeps a completion while its finally block runs, and only then; the
\* completion has a target in n, or it returns a value.
Fits(f, n) ==
    /\ f \in Frame
    /\ f.part = "catch" => f.kind \in {"tryCatch", "tryBoth"}
    /\ f.part = "finally" => HasFinally(f.kind)
    /\ f.disc.how # "normal" \/ f.exc => f.part = "finally"
    /\ f.exc => f.disc.how = "normal"
    /\ f.val \in IF f.disc.how = "return" THEN Value ELSE {Undefined}
    /\ f.disc.how \in {"normal", "return"} => f.disc.to = 0
    /\ f.disc.how \in {"break", "continue"} =>
          f.disc.to \in 1 .. Len(n) /\ Takes(n[f.disc.to].kind, f.disc.how)
    /\ f.iter = "open" => f.kind = "forof"

WellFormed(n) ==
    /\ n \in Seq(Frame)
    /\ \A i \in 1 .. Len(n) : Fits(n[i], SubSeq(n, 1, i - 1))

\* The first constructs of a well-formed sequence.
LEMMA Prefix ==
  ASSUME NEW S, NEW n \in Seq(S), NEW k \in 0 .. Len(n)
  PROVE  /\ SubSeq(n, 1, k) \in Seq(S) /\ Len(SubSeq(n, 1, k)) = k
         /\ \A i \in 1 .. k : SubSeq(n, 1, k)[i] = n[i]
         /\ \A j \in 0 .. k : SubSeq(SubSeq(n, 1, k), 1, j) = SubSeq(n, 1, j)
<1>1. ASSUME NEW j \in 0 .. Len(n)
      PROVE  /\ SubSeq(n, 1, j) \in Seq(S) /\ Len(SubSeq(n, 1, j)) = j
             /\ \A i \in 1 .. j : SubSeq(n, 1, j)[i] = n[i]
  <2>1. \A i \in 1 .. j : n[i] \in S  BY ElementOfSeq
  <2>2. /\ SubSeq(n, 1, j) \in Seq(S)
        /\ Len(SubSeq(n, 1, j)) = IF 1 <= j THEN j - 1 + 1 ELSE 0
        /\ \A i \in 1 .. j - 1 + 1 : SubSeq(n, 1, j)[i] = n[1 + i - 1]
    BY <2>1, SubSeqProperties
  <2> QED  BY <2>2
<1>2. ASSUME NEW j \in 0 .. k
      PROVE  SubSeq(SubSeq(n, 1, k), 1, j) = SubSeq(n, 1, j)
  <2> DEFINE p == SubSeq(n, 1, k)
             q == SubSeq(n, 1, j)
             r == SubSeq(p, 1, j)
  <2>1. p \in Seq(S) /\ Len(p) = k /\ \A i \in 1 .. k : p[i] = n[i]  BY <1>1
  <2>2. q \in Seq(S) /\ Len(q) = j /\ \A i \in 1 .. j : q[i] = n[i]  BY <1>1
  <2>3. r \in Seq(S) /\ Len(r) = j /\ \A i \in 1 .. j : r[i] = p[i]
    <3>1. \A i \in 1 .. j : p[i] \in S  BY <2>1, ElementOfSeq
    <3> HIDE DEF p
    <3>2. /\ SubSeq(p, 1, j) \in Seq(S)
          /\ Len(SubSeq(p, 1, j)) = IF 1 <= j THEN j - 1 + 1 ELSE 0
          /\ \A i \in 1 .. j - 1 + 1 : SubSeq(p, 1, j)[i] = p[1 + i - 1]
      BY <3>1, SubSeqProperties
    <3> QED  BY <3>2
  <2>4. \A i \in 1 .. j : r[i] = q[i]
    <3> HIDE DEF p, q, r
    <3> QED  BY <2>1, <2>2, <2>3
  <2> HIDE DEF p, q, r
  <2>5. r = q  BY <2>2, <2>3, <2>4, SeqEqual
  <2> QED  BY <2>5 DEF p, q, r
<1>3. k \in 0 .. Len(n)  OBVIOUS
<1> QED  BY <1>1, <1>2, <1>3

\* What is left of a well-formed sequence when control leaves constructs.
LEMMA WellFormedPrefix ==
  ASSUME NEW n, WellFormed(n), NEW k \in 0 .. Len(n)
  PROVE  WellFormed(SubSeq(n, 1, k))
<1> DEFINE p == SubSeq(n, 1, k)
<1>1. n \in Seq(Frame)  BY DEF WellFormed
<1>2. /\ p \in Seq(Frame) /\ Len(p) = k /\ \A i \in 1 .. k : p[i] = n[i]
      /\ \A j \in 0 .. k : SubSeq(p, 1, j) = SubSeq(n, 1, j)
  BY <1>1, Prefix
<1> HIDE DEF p
<1>3. ASSUME NEW i \in 1 .. k PROVE Fits(p[i], SubSeq(p, 1, i - 1))
  <2>1. i \in 1 .. Len(n) /\ i - 1 \in 0 .. k  BY <1>1
  <2>2. Fits(n[i], SubSeq(n, 1, i - 1))  BY <2>1 DEF WellFormed
  <2> QED  BY <1>2, <2>1, <2>2
<1>4. WellFormed(p)  BY <1>2, <1>3 DEF WellFormed
<1> QED  BY <1>4 DEF p

\* One construct more.
LEMMA WellFormedAppend ==
  ASSUME NEW n, WellFormed(n), NEW f, Fits(f, n)
  PROVE  /\ WellFormed(Append(n, f))
         /\ Len(Append(n, f)) = Len(n) + 1 /\ Append(n, f)[Len(n) + 1] = f
         /\ \A i \in 1 .. Len(n) : Append(n, f)[i] = n[i]
<1> DEFINE p == Append(n, f)
<1>1. n \in Seq(Frame) /\ f \in Frame /\ Len(n) \in Nat  BY DEF WellFormed, Fits
<1>2. /\ p \in Seq(Frame) /\ Len(p) = Len(n) + 1 /\ p[Len(n) + 1] = f
      /\ \A i \in 1 .. Len(n) : p[i] = n[i]
  BY <1>1
<1> HIDE DEF p
<1>3. ASSUME NEW j \in 0 .. Len(n) PROVE SubSeq(p, 1, j) = SubSeq(n, 1, j)
  <2>1. j \in 0 .. Len(p)  BY <1>1, <1>2
  <2> DEFINE q == SubSeq(p, 1, j)
             r == SubSeq(n, 1, j)
  <2>2. q \in Seq(Frame) /\ Len(q) = j /\ \A i \in 1 .. j : q[i] = p[i]
    BY <1>2, <2>1, Prefix
  <2>3. r \in Seq(Frame) /\ Len(r) = j /\ \A i \in 1 .. j : r[i] = n[i]
    BY <1>1, Prefix
  <2> HIDE DEF q, r
  <2>4. \A i \in 1 .. j : q[i] = r[i]  BY <1>1, <1>2, <2>2, <2>3
  <2>5. q = r  BY <2>2, <2>3, <2>4, SeqEqual
  <2> QED  BY <2>5 DEF q, r
<1>4. ASSUME NEW i \in 1 .. Len(p) PROVE Fits(p[i], SubSeq(p, 1, i - 1))
  <2>1. CASE i \in 1 .. Len(n)
    <3>1. i - 1 \in 0 .. Len(n)  BY <2>1
    <3>2. Fits(n[i], SubSeq(n, 1, i - 1))  BY <2>1 DEF WellFormed
    <3> QED  BY <1>2, <1>3, <2>1, <3>1, <3>2
  <2>2. CASE i = Len(n) + 1
    <3>1. SubSeq(p, 1, i - 1) = SubSeq(n, 1, Len(n))  BY <1>1, <1>3, <2>2
    <3>2. SubSeq(n, 1, Len(n)) = n  BY <1>1, SubSeqFull
    <3> QED  BY <1>2, <2>2, <3>1, <3>2
  <2> QED  BY <1>1, <1>2, <2>1, <2>2
<1>5. WellFormed(p)  BY <1>2, <1>4 DEF WellFormed
<1> QED  BY <1>2, <1>5 DEF p

------------------------------------------------------------------------------
(* The inductive invariant.                                                  *)

\* The constructs whose handlers are pushed, if they are armed: not the loop
\* that is between two rounds.
Level == IF going.do \in {"next", "closeBlock", "throwClose"} THEN Here - 1 ELSE Here

NestInv    == WellFormed(nest) /\ Here <= MaxNest
BalanceInv == outcome.how # "throw" => Balanced(nest, handlers, Level)
ScopesInv  == withs = Scoped(nest, Here)

InLoop == Here > 0 /\ Top.kind = "forof"

\* What the emitted code is doing, and where.
GoingInv ==
    /\ outcome \in {Normal, Throw} \cup {Return(v) : v \in Value}
    /\ outcome # Normal => nest = <<>> /\ going = Run
    /\ \/ going \in {Run, Throwing}
       \/ InLoop /\ going \in {Doing("next"), Doing("throwClose"),
                                AtClose(Jump("break", Here))}
       \/ \E c \in Abrupt : \E s \in SUBSET Closers(c) :
             /\ going = Closing(c, s) /\ Tidy(c)
             /\ \A i \in Closers(c) \ s : nest[i].iter # "open"

IInv == NestInv /\ BalanceInv /\ ScopesInv /\ GoingInv

\* Sizes, and the counts of the lowering.
LEMMA Sizes ==
  ASSUME IInv
  PROVE  /\ nest \in Seq(Frame) /\ Here \in Nat /\ Here <= MaxNest
         /\ Level \in 0 .. Here /\ Level \in {Here, Here - 1}
         /\ \A k : TryDepth(k) = Tried(nest, k) /\ WithDepth(k) = Scoped(nest, k)
<1>1. nest \in Seq(Frame) /\ Here \in Nat  BY DEF IInv, NestInv, WellFormed, Here
<1>2. going.do \in {"next", "closeBlock", "throwClose"} => Here > 0
  BY DEF IInv, GoingInv, InLoop, Run, Throwing, Doing, AtClose, Closing
<1>3. \A k : TryDepth(k) = Tried(nest, k) /\ WithDepth(k) = Scoped(nest, k)
  BY DEF TryDepth, WithDepth, Tried, Scoped
<1> QED  BY <1>1, <1>2, <1>3 DEF IInv, NestInv, Level

\* The handlers that are pushed, as many as are kept.
LEMMA Pushed ==
  ASSUME IInv, outcome = Normal
  PROVE  /\ Balanced(nest, handlers, Level) /\ handlers \in Seq(Handler)
         /\ Len(handlers) = 1 + Tried(nest, Level) /\ Tried(nest, Level) \in Nat
         /\ handlers = SubSeq(handlers, 1, 1 + Tried(nest, Level))
<1>1. Balanced(nest, handlers, Level)  BY DEF IInv, BalanceInv, Normal
<1>2. handlers \in Seq(Handler) /\ Len(handlers) = 1 + Tried(nest, Level)
  BY <1>1 DEF Balanced
<1>3. SubSeq(handlers, 1, Len(handlers)) = handlers  BY <1>2, SubSeqFull
<1>4. Tried(nest, Level) \in Nat  BY Sizes, DepthStep
<1> QED  BY <1>1, <1>2, <1>3, <1>4

\* Whatever moves, moves before the function has ended.
LEMMA Alive ==
  ASSUME IInv, Next
  PROVE  outcome = Normal
<1> SUFFICES ASSUME going = Run, outcome # Normal PROVE FALSE
  BY DEF IInv, GoingInv
<1>1. going.do = "run"  BY DEF Run, Doing
<1> QED
  BY <1>1 DEF Next, Open, EndBlock, EndTryOrCatch, EndRound, Dispatch, Another,
     Exhausted, NextThrows, Complete, CloseOne, Depart, CloseBlock,
     StatementThrows, Catch, ThrowClose, Runs

\* Control leaves all but the first k constructs; the handlers of the first j
\* are kept.
LEMMA Trim ==
  ASSUME IInv, outcome = Normal, NEW k \in 0 .. Here, NEW j \in 0 .. Level,
         nest' = SubSeq(nest, 1, k), withs' = Scoped(nest, k),
         handlers' = SubSeq(handlers, 1, 1 + Tried(nest, j)),
         Level' \in {j, j + 1}, Level' <= k,
         Level' = j + 1 => ~Armed(nest[j + 1])
  PROVE  NestInv' /\ BalanceInv' /\ ScopesInv'
<1>1. WellFormed(nest) /\ nest \in Seq(Frame) /\ Here \in Nat /\ Here <= MaxNest
  BY Sizes DEF IInv, NestInv
<1>2. WellFormed(nest')  BY <1>1, WellFormedPrefix DEF Here
<1>3. Len(nest') = k /\ \A i \in 1 .. k : nest'[i] = nest[i]  BY <1>1, Prefix DEF Here
<1>4. NestInv'  BY <1>1, <1>2, <1>3, NestAssumption DEF NestInv, Here
<1>5. Scoped(nest', k) = Scoped(nest, k)
  <2>1. k \in Nat  BY <1>1
  <2>2. \A i \in 1 .. k : Armed(nest[i]) = Armed(nest'[i]) /\ nest[i].kind = nest'[i].kind
    BY <1>3
  <2> QED  BY <2>1, <2>2, ScopedSame
<1>6. ScopesInv'  BY <1>3, <1>5 DEF ScopesInv, Here
<1>7. Balanced(nest', handlers', Level')
  <2>1. Balanced(nest, handlers, Level) /\ Level \in Nat  BY Pushed, Sizes
  <2>2. j \in Nat /\ j <= k  BY <1>1, Sizes
  <2>3. \A i \in 1 .. j : Armed(nest[i]) = Armed(nest'[i]) /\ nest[i].kind = nest'[i].kind
    BY <1>3, <2>2
  <2>4. Level' \in j .. j + 1  BY <2>2
  <2>5. Level' = j + 1 => ~Armed(nest'[Level'])  BY <1>3, <2>2
  <2> HIDE DEF Level
  <2> QED  BY <2>1, <2>3, <2>4, <2>5, Cut
<1>8. BalanceInv'  BY <1>7 DEF BalanceInv
<1> QED  BY <1>4, <1>6, <1>8

\* Control goes on in the k-th construct, whose handler is pushed if it is armed.
LEMMA TrimTo ==
  ASSUME IInv, outcome = Normal, NEW k \in 0 .. Here, k <= Level,
         nest' = SubSeq(nest, 1, k), withs' = Scoped(nest, k),
         handlers' = SubSeq(handlers, 1, 1 + Tried(nest, k)), Level' = k
  PROVE  NestInv' /\ BalanceInv' /\ ScopesInv'
<1>1. k \in 0 .. Level /\ Level' \in {k, k + 1} /\ Level' <= k
  BY Sizes
<1>2. Level' # k + 1  BY <1>1
<1> HIDE DEF Level
<1> QED  BY <1>1, <1>2, Trim

\* The same, but the k-th construct is a loop between two rounds.
LEMMA TrimBetween ==
  ASSUME IInv, outcome = Normal, NEW k \in 1 .. Here, k - 1 <= Level,
         nest' = SubSeq(nest, 1, k), withs' = Scoped(nest, k),
         handlers' = SubSeq(handlers, 1, 1 + Tried(nest, k - 1)), Level' = k - 1
  PROVE  NestInv' /\ BalanceInv' /\ ScopesInv'
<1> DEFINE j == k - 1
<1>1. j \in 0 .. Level /\ Level' \in {j, j + 1} /\ Level' <= k /\ k \in 0 .. Here
  BY Sizes
<1>2. Level' # j + 1  BY <1>1
<1>3. handlers' = SubSeq(handlers, 1, 1 + Tried(nest, j))  OBVIOUS
<1> HIDE DEF j
<1> QED  BY <1>1, <1>2, <1>3, Trim

\* Control goes on in the g-th construct, which is not armed any more.
LEMMA Hold ==
  ASSUME IInv, outcome = Normal, NEW g \in 1 .. Here, g - 1 <= Level,
         NEW f, Fits(f, Outer(g)), f.kind # "with", ~Armed(f),
         nest' = Append(Outer(g), f), going' = Run, outcome' = Normal,
         handlers' = SubSeq(handlers, 1, 1 + Tried(nest, g - 1)),
         withs' = Scoped(nest, g - 1)
  PROVE  IInv'
<1>1. WellFormed(nest) /\ nest \in Seq(Frame) /\ Here \in Nat /\ Here <= MaxNest
      /\ g - 1 \in 0 .. Len(nest) /\ g - 1 \in Nat /\ (g - 1) + 1 = g
  BY Sizes DEF IInv, NestInv, Here
<1>2. /\ WellFormed(Outer(g)) /\ Len(Outer(g)) = g - 1
      /\ \A i \in 1 .. g - 1 : Outer(g)[i] = nest[i]
  BY <1>1, WellFormedPrefix, Prefix DEF Outer
<1>3. /\ WellFormed(nest') /\ Len(nest') = g /\ nest'[g] = f
      /\ \A i \in 1 .. g - 1 : nest'[i] = nest[i]
  BY <1>1, <1>2, WellFormedAppend
<1>4. NestInv'  BY <1>1, <1>3, NestAssumption DEF NestInv, Here
<1>5. Level' = g /\ Here' = g  BY <1>3 DEF Level, Here, Run, Doing
<1>6. \A i \in 1 .. g - 1 : Armed(nest[i]) = Armed(nest'[i]) /\ nest[i].kind = nest'[i].kind
  BY <1>3
<1>7. ScopesInv'
  <2>1. Scoped(nest', g - 1) = Scoped(nest, g - 1)  BY <1>1, <1>6, ScopedSame
  <2>2. Scoped(nest', g) = Scoped(nest', g - 1)
    <3>1. g \in Nat \ {0}  BY <1>1
    <3>2. nest'[g].kind # "with"  BY <1>3
    <3> QED  BY <3>1, <3>2, ScopedSkips
  <2> QED  BY <1>5, <2>1, <2>2 DEF ScopesInv
<1>8. BalanceInv'
  <2>1. Balanced(nest, handlers, Level) /\ Level \in Nat  BY Pushed, Sizes
  <2>2. g - 1 \in 0 .. Level /\ g \in g - 1 .. (g - 1) + 1  BY <1>1, <2>1
  <2>3. ~Armed(nest'[g])  BY <1>3
  <2>4. Balanced(nest', handlers', g)
    <3> DEFINE j == g - 1
    <3>1. j \in 0 .. Level /\ g \in j .. j + 1  BY <2>2
    <3>2. \A i \in 1 .. j : Armed(nest[i]) = Armed(nest'[i]) /\ nest[i].kind = nest'[i].kind
      BY <1>6
    <3>3. handlers' = SubSeq(handlers, 1, 1 + Tried(nest, j))  OBVIOUS
    <3> HIDE DEF j
    <3> QED  BY <2>1, <2>3, <3>1, <3>2, <3>3, Cut
  <2> QED  BY <1>5, <2>4 DEF BalanceInv
<1>9. GoingInv'  BY DEF GoingInv, Run, Normal
<1> QED  BY <1>4, <1>7, <1>8, <1>9 DEF IInv

------------------------------------------------------------------------------
(* Where completions go.                                                     *)

Targeted(c) == \/ \E v \in Value : c = Return(v)
               \/ \E how \in {"break", "continue"} : \E k \in 1 .. Here :
                     Takes(nest[k].kind, how) /\ c = Jump(how, k)

\* The constructs outside of the target.
Outside(c) == IF c.to = 0 THEN 0 ELSE c.to - 1

\* A completion has one of the constructs for its target, or the caller.
LEMMA TargetedTo ==
  ASSUME IInv, NEW c, Targeted(c)
  PROVE  /\ c.to \in 0 .. Here /\ Outside(c) \in 0 .. Here /\ Outside(c) <= c.to
         /\ c.how \in {"return", "break", "continue"}
         /\ c.how = "return" => c.to = 0 /\ c.val \in Value /\ c = Return(c.val)
         /\ c.how # "return" =>
               /\ c.to \in 1 .. Here /\ Takes(nest[c.to].kind, c.how)
               /\ c = Jump(c.how, c.to) /\ c.val = Undefined
<1>1. Here \in Nat  BY Sizes
<1>2. CASE \E v \in Value : c = Return(v)
  BY <1>1, <1>2 DEF Return, Outside
<1>3. CASE \E how \in {"break", "continue"} : \E k \in 1 .. Here :
              Takes(nest[k].kind, how) /\ c = Jump(how, k)
  <2>1. PICK how \in {"break", "continue"}, k \in 1 .. Here :
            Takes(nest[k].kind, how) /\ c = Jump(how, k)
    BY <1>3
  <2>2. c.how = how /\ c.to = k /\ c.val = Undefined  BY <2>1 DEF Jump
  <2> QED  BY <1>1, <2>1, <2>2 DEF Outside
<1> QED  BY <1>2, <1>3 DEF Targeted

\* The statements the language allows complete with such a completion.
LEMMA AbruptTargeted ==
  ASSUME IInv, NEW c \in Abrupt
  PROVE  Targeted(c)
<1>1. CASE \E v \in Value : c = Return(v)  BY <1>1 DEF Targeted
<1>2. CASE \E k \in Targets("continue") : c = Jump("continue", k)
  BY <1>2 DEF Targeted, Targets, Takes
<1>3. CASE \E k \in Targets("break") : c = Jump("break", k)
  BY <1>3 DEF Targeted, Targets, Takes
<1> QED  BY <1>1, <1>2, <1>3 DEF Abrupt

\* The branch to the target, with the handlers and the scopes outside of it.
LEMMA ArriveStep ==
  ASSUME IInv, outcome = Normal, NEW c, Targeted(c), Outside(c) <= Level, Arrive(c),
         handlers' = SubSeq(handlers, 1, 1 + Tried(nest, Outside(c))),
         withs' = Scoped(nest, Outside(c))
  PROVE  IInv'
<1> DEFINE k == c.to
<1>1. nest \in Seq(Frame) /\ Here \in Nat /\ Outside(c) \in 0 .. Level
  BY Sizes, TargetedTo
<1>2. CASE c.how = "return"
  <2>1. nest' = <<>> /\ going' = Run /\ outcome' = c  BY <1>2 DEF Arrive
  <2>2. c.to = 0 /\ Outside(c) = 0 /\ c = Return(c.val) /\ c.val \in Value
    BY <1>2, TargetedTo DEF Outside
  <2>3. nest' = SubSeq(nest, 1, 0)
    <3>1. SubSeq(nest, 1, 0) = <<>>  BY SubSeqEmpty
    <3> QED  BY <2>1, <3>1
  <2>4. Level' = 0  BY <2>1 DEF Level, Here, Run, Doing
  <2>5. 0 \in 0 .. Here /\ 0 \in 0 .. Level  BY <1>1, <2>2
  <2>6. NestInv' /\ BalanceInv' /\ ScopesInv'
    BY <2>2, <2>3, <2>4, <2>5, TrimTo
  <2>7. GoingInv'  BY <2>1, <2>2 DEF GoingInv
  <2> QED  BY <2>6, <2>7 DEF IInv
<1>3. CASE c.how # "return"
  <2>1. /\ k \in 1 .. Here /\ Takes(nest[k].kind, c.how) /\ c = Jump(c.how, k)
        /\ c.how \in {"break", "continue"} /\ Outside(c) = k - 1
    BY <1>3, TargetedTo DEF Outside
  <2>2. outcome' = Normal  BY <1>3 DEF Arrive
  <2>3. k - 1 \in 0 .. Here /\ k \in 0 .. Here /\ k - 1 \in 0 .. Level
        /\ k \in Nat \ {0} /\ k \in 0 .. Len(nest) /\ k - 1 \in 0 .. Len(nest)
    BY <1>1, <2>1 DEF Here
  <2>4. CASE c.how = "break" /\ nest[k].kind # "forof"
    <3>1. nest' = SubSeq(nest, 1, k - 1) /\ going' = Run
      BY <1>3, <2>4 DEF Arrive, Outer
    <3>2. Len(nest') = k - 1  BY <1>1, <2>3, <3>1, Prefix
    <3>3. Level' = k - 1  BY <3>1, <3>2 DEF Level, Here, Run, Doing
    <3>4. NestInv' /\ BalanceInv' /\ ScopesInv'
      <4> DEFINE j == k - 1
      <4>1. j \in 0 .. Here /\ j <= Level /\ Level' = j  BY <2>3, <3>3
      <4>2. handlers' = SubSeq(handlers, 1, 1 + Tried(nest, j)) /\ withs' = Scoped(nest, j)
            /\ nest' = SubSeq(nest, 1, j)
        BY <2>1, <3>1
      <4> HIDE DEF j
      <4> QED  BY <4>1, <4>2, TrimTo
    <3>5. GoingInv'  BY <2>2, <3>1 DEF GoingInv, Normal
    <3> QED  BY <3>4, <3>5 DEF IInv
  <2>5. CASE ~(c.how = "break" /\ nest[k].kind # "forof")
    <3>1. /\ nest' = SubSeq(nest, 1, k)
          /\ going' = IF nest[k].kind # "forof" THEN Run
                      ELSE IF c.how = "break" THEN AtClose(c) ELSE Doing("next")
      BY <1>3, <2>5 DEF Arrive
    <3>2. Len(nest') = k /\ nest'[k] = nest[k]
      <4>1. k \in 1 .. k  BY <2>3
      <4> QED  BY <1>1, <2>3, <3>1, <4>1, Prefix
    <3>3. nest[k].kind \in {"loop", "forof"}  BY <2>1, <2>5 DEF Takes, Loops
    <3>4. Scoped(nest, k) = Scoped(nest, k - 1)  BY <2>3, <3>3, ScopedSkips
    <3>5. CASE nest[k].kind = "forof"
      <4>1. Level' = k - 1
        BY <2>3, <3>1, <3>2, <3>5 DEF Level, Here, AtClose, Doing
      <4>2. NestInv' /\ BalanceInv' /\ ScopesInv'
        BY <2>1, <2>3, <3>1, <3>4, <4>1, TrimBetween
      <4>3. InLoop' /\ Here' = k  BY <2>3, <3>2, <3>5 DEF InLoop, Here, Top
      <4>4. GoingInv'
        <5>1. going' \in {Doing("next"), AtClose(Jump("break", Here'))}
          BY <2>1, <3>1, <3>5, <4>3
        <5> QED  BY <2>2, <4>3, <5>1 DEF GoingInv, Normal
      <4> QED  BY <4>2, <4>4 DEF IInv
    <3>6. CASE nest[k].kind = "loop"
      <4>1. going' = Run  BY <3>1, <3>6
      <4>2. Level' = k  BY <3>2, <4>1 DEF Level, Here, Run, Doing
      <4>3. ~Armed(nest[k])  BY <3>6 DEF Armed, Tries
      <4>4. NestInv' /\ BalanceInv' /\ ScopesInv'
        <5> DEFINE j == k - 1
        <5>1. j \in 0 .. Level /\ j + 1 = k  BY <2>3
        <5>2. handlers' = SubSeq(handlers, 1, 1 + Tried(nest, j)) /\ withs' = Scoped(nest, k)
          BY <2>1, <3>4
        <5>3. Level' \in {j, j + 1} /\ Level' <= k /\ (Level' = j + 1 => ~Armed(nest[j + 1]))
          BY <2>3, <4>2, <4>3, <5>1
        <5> HIDE DEF j
        <5> QED  BY <2>3, <3>1, <5>1, <5>2, <5>3, Trim
      <4>5. GoingInv'  BY <2>2, <4>1 DEF GoingInv, Normal
      <4> QED  BY <4>4, <4>5 DEF IInv
    <3> QED  BY <3>3, <3>5, <3>6
  <2> QED  BY <2>4, <2>5
<1> QED  BY <1>2, <1>3

\* A completion stops at a finally block, which keeps it.
LEMMA FinallyStep ==
  ASSUME IInv, outcome = Normal, NEW c, Targeted(c),
         NEW g \in 1 .. Here, c.to < g, g - 1 <= Level,
         HasFinally(nest[g].kind), nest[g].part # "finally",
         NEW pops, NEW scopes, EnterFinally(g, pops, scopes, c),
         Len(handlers) - pops = 1 + Tried(nest, g - 1),
         withs - scopes = Scoped(nest, g - 1)
  PROVE  IInv'
<1> DEFINE f == [nest[g] EXCEPT !.part = "finally",
                                !.disc = [how |-> c.how, to |-> c.to],
                                !.val = IF c.how = "return" THEN c.val ELSE @]
<1>1. nest' = Append(Outer(g), f) /\ going' = Run /\ outcome' = Normal
  BY DEF EnterFinally
<1>2. /\ handlers' = SubSeq(handlers, 1, 1 + Tried(nest, g - 1))
      /\ withs' = Scoped(nest, g - 1)
  BY DEF EnterFinally, PopHandlers
<1>3. nest \in Seq(Frame) /\ Here \in Nat  BY Sizes
<1>4. Fits(nest[g], Outer(g))  BY DEF IInv, NestInv, WellFormed, Here, Outer
<1>5. Len(Outer(g)) = g - 1 /\ \A i \in 1 .. g - 1 : Outer(g)[i] = nest[i]
  <2>1. g - 1 \in 0 .. Len(nest)  BY <1>3 DEF Here
  <2> QED  BY <1>3, <2>1, Prefix DEF Outer
<1>6. /\ c.to \in Nat /\ c.how \in {"return", "break", "continue"}
      /\ c.how = "return" => c.to = 0 /\ c.val \in Value
      /\ c.how # "return" => c.to \in 1 .. g - 1 /\ Takes(Outer(g)[c.to].kind, c.how)
  <2>1. /\ c.to \in 0 .. Here /\ c.how \in {"return", "break", "continue"}
        /\ c.how = "return" => c.to = 0 /\ c.val \in Value
        /\ c.how # "return" => c.to \in 1 .. Here /\ Takes(nest[c.to].kind, c.how)
    BY TargetedTo
  <2> QED  BY <1>3, <1>5, <2>1
<1>7. nest[g] \in Frame /\ nest[g].disc.how = "normal" /\ nest[g].val \in {Undefined}
      /\ ~nest[g].exc /\ (nest[g].iter = "open" => nest[g].kind = "forof")
  BY <1>4 DEF Fits, Frame
<1>8. f \in Frame /\ f.part = "finally" /\ f.disc = [how |-> c.how, to |-> c.to]
      /\ f.val = (IF c.how = "return" THEN c.val ELSE nest[g].val)
      /\ f.kind = nest[g].kind /\ f.exc = nest[g].exc /\ f.iter = nest[g].iter
  BY <1>6, <1>7 DEF Frame
<1> HIDE DEF f
<1>9. Fits(f, Outer(g))
  BY <1>5, <1>6, <1>7, <1>8 DEF Fits
<1>10. ~Armed(f) /\ f.kind # "with"  BY <1>8 DEF Armed, HasFinally
<1> QED  BY <1>1, <1>2, <1>9, <1>10, Hold

------------------------------------------------------------------------------
(* The statements.                                                           *)

\* Between two steps of emitted code, all that is around is entered.
LEMMA Running ==
  ASSUME IInv, going = Run \/ going = Throwing
  PROVE  Level = Here
BY DEF Level, Run, Throwing, Doing

\* Entering a construct arms it, or adds a scope.
LEMMA OpenStep ==
  ASSUME IInv, NEW kind \in Kinds, Open(kind)
  PROVE  IInv'
<1> DEFINE f == Construct(kind)
<1>1. /\ going = Run /\ outcome = Normal /\ Here < MaxNest /\ nest' = Append(nest, f)
      /\ outcome' = Normal
  BY DEF Open, Runs
<1>2. nest \in Seq(Frame) /\ Here \in Nat /\ Level = Here /\ WellFormed(nest)
      /\ withs = Scoped(nest, Here)
  BY <1>1, Sizes, Running DEF IInv, NestInv, ScopesInv
<1>3. /\ f.kind = kind /\ f.part = "body" /\ f.disc = [how |-> "normal", to |-> 0]
      /\ f.val = Undefined /\ f.exc = FALSE
      /\ f.iter = (IF kind = "forof" THEN "open" ELSE "none") /\ f \in Frame
  BY DEF Construct, Frame
<1> HIDE DEF f
<1>4. Fits(f, nest)  BY <1>3 DEF Fits
<1>5. /\ WellFormed(nest') /\ Len(nest') = Here + 1 /\ nest'[Here + 1] = f
      /\ \A i \in 1 .. Here : nest'[i] = nest[i]
  BY <1>1, <1>2, <1>4, WellFormedAppend DEF Here
<1>6. Here' = Here + 1  BY <1>5 DEF Here
<1>7. NestInv'  BY <1>1, <1>2, <1>5, <1>6, NestAssumption DEF NestInv
<1>8. \A i \in 1 .. Here : Armed(nest[i]) = Armed(nest'[i]) /\ nest[i].kind = nest'[i].kind
  BY <1>5
<1>9. ScopesInv'
  <2>1. Scoped(nest', Here) = Scoped(nest, Here)  BY <1>2, <1>8, ScopedSame
  <2>2. /\ Scoped(nest', Here) \in Nat
        /\ Scoped(nest', Here + 1) =
              Scoped(nest', Here) + (IF nest'[Here + 1].kind = "with" THEN 1 ELSE 0)
    <3> DEFINE m == nest'
    <3> HIDE DEF m
    <3>1. /\ Scoped(m, Here) \in Nat
          /\ Scoped(m, Here + 1) =
                Scoped(m, Here) + (IF m[Here + 1].kind = "with" THEN 1 ELSE 0)
      BY <1>2, DepthStep
    <3> QED  BY <3>1 DEF m
  <2>3. withs' = IF kind = "with" THEN withs + 1 ELSE withs  BY DEF Open
  <2> QED  BY <1>2, <1>3, <1>5, <1>6, <2>1, <2>2, <2>3 DEF ScopesInv
<1>10. Balanced(nest, handlers, Here) /\ handlers = SubSeq(handlers, 1, 1 + Tried(nest, Here))
  BY <1>1, <1>2, Pushed
<1>11. CASE kind = "forof"
  <2>1. going' = Doing("next") /\ handlers' = handlers
    BY <1>11 DEF Open, Tries
  <2>2. Level' = Here  BY <1>2, <1>6, <2>1 DEF Level, Doing
  <2>3. Here \in 0 .. Here /\ Here \in Here .. Here + 1 /\ Here # Here + 1  BY <1>2
  <2>4. Balanced(nest', handlers, Here)
    <3> HIDE DEF Here
    <3>1. Balanced(nest', SubSeq(handlers, 1, 1 + Tried(nest, Here)), Here)
      BY <1>2, <1>8, <1>10, <2>3, Cut
    <3> QED  BY <1>10, <3>1
  <2>5. BalanceInv'  BY <2>1, <2>2, <2>4 DEF BalanceInv
  <2>6. InLoop'  BY <1>2, <1>3, <1>5, <1>6, <1>11 DEF InLoop, Top
  <2>7. GoingInv'  BY <1>1, <2>1, <2>6 DEF GoingInv, Normal
  <2> QED  BY <1>7, <1>9, <2>5, <2>7 DEF IInv
<1>12. CASE kind # "forof"
  <2>1. going' = Run  BY <1>12 DEF Open
  <2>2. Level' = Here + 1  BY <1>6, <2>1 DEF Level, Run, Doing
  <2>3. GoingInv'  BY <1>1, <2>1 DEF GoingInv, Normal
  <2>4. CASE kind \in Tries
    <3>1. handlers' = Append(handlers, [at |-> Here + 1, withs |-> Scoped(nest, Here)])
      BY <1>2, <2>4 DEF Open, Arm
    <3>2. Armed(nest'[Here + 1])  BY <1>3, <1>5, <2>4 DEF Armed
    <3>3. Balanced(nest', handlers', Here + 1)
      BY <1>2, <1>8, <1>10, <3>1, <3>2, Grow
    <3>4. BalanceInv'  BY <2>2, <3>3 DEF BalanceInv
    <3> QED  BY <1>7, <1>9, <2>3, <3>4 DEF IInv
  <2>5. CASE kind \notin Tries
    <3>1. handlers' = handlers  BY <2>5 DEF Open
    <3>2. ~Armed(nest'[Here + 1])  BY <1>3, <1>5, <1>12, <2>5 DEF Armed
    <3>3. Here \in 0 .. Here /\ Here + 1 \in Here .. Here + 1  BY <1>2
    <3>4. Balanced(nest', handlers, Here + 1)
      <4> HIDE DEF Here
      <4>1. Balanced(nest', SubSeq(handlers, 1, 1 + Tried(nest, Here)), Here + 1)
        BY <1>2, <1>8, <1>10, <3>2, <3>3, Cut
      <4> QED  BY <1>10, <4>1
    <3>5. BalanceInv'  BY <2>2, <3>1, <3>4 DEF BalanceInv
    <3> QED  BY <1>7, <1>9, <2>3, <3>5 DEF IInv
  <2> QED  BY <2>4, <2>5
<1> QED  BY <1>11, <1>12

\* What is known of the innermost construct and of the constructs outside of it.
LEMMA TopFacts ==
  ASSUME IInv, Here > 0
  PROVE  /\ Here \in Nat \ {0} /\ Here - 1 \in 0 .. Here /\ Here - 1 <= Level
         /\ Fits(Top, Outer(Here)) /\ Top = nest[Here]
         /\ Outer(Here) = SubSeq(nest, 1, Here - 1) /\ Len(Outer(Here)) = Here - 1
         /\ Tried(nest, Here) \in Nat /\ Tried(nest, Here - 1) \in Nat
         /\ Tried(nest, Here) = Tried(nest, Here - 1) + (IF Armed(Top) THEN 1 ELSE 0)
         /\ Scoped(nest, Here) \in Nat /\ Scoped(nest, Here - 1) \in Nat
         /\ Scoped(nest, Here) =
               Scoped(nest, Here - 1) + (IF Top.kind = "with" THEN 1 ELSE 0)
<1>1. nest \in Seq(Frame) /\ Here \in Nat \ {0} /\ Level \in {Here, Here - 1}
      /\ Here - 1 \in 0 .. Here
  BY Sizes
<1>2. Fits(nest[Here], SubSeq(nest, 1, Here - 1))
  BY <1>1 DEF IInv, NestInv, WellFormed, Here
<1>3. Len(SubSeq(nest, 1, Here - 1)) = Here - 1
  BY <1>1, Prefix DEF Here
<1>4. /\ Tried(nest, Here) \in Nat /\ Tried(nest, Here - 1) \in Nat
      /\ Scoped(nest, Here) \in Nat /\ Scoped(nest, Here - 1) \in Nat
      /\ Tried(nest, Here) = Tried(nest, Here - 1) + (IF Armed(nest[Here]) THEN 1 ELSE 0)
      /\ Scoped(nest, Here) =
            Scoped(nest, Here - 1) + (IF nest[Here].kind = "with" THEN 1 ELSE 0)
  BY <1>1, DepthBack
<1> QED  BY <1>1, <1>2, <1>3, <1>4 DEF Top, Outer

\* nest' = Outer(Here), and the handlers inside go.
LEMMA PopStep ==
  ASSUME IInv, outcome = Normal, Here > 0, nest' = Outer(Here),
         outcome' = Normal, going' \in {Run, Throwing},
         withs' = Scoped(nest, Here - 1),
         handlers' = SubSeq(handlers, 1, 1 + Tried(nest, Here - 1))
  PROVE  IInv'
<1> DEFINE k == Here - 1
<1>1. k \in 0 .. Here /\ k <= Level /\ nest' = SubSeq(nest, 1, k) /\ Len(nest') = k
  BY TopFacts
<1>2. Level' = k  BY <1>1 DEF Level, Here, Run, Throwing, Doing
<1>3. withs' = Scoped(nest, k) /\ handlers' = SubSeq(handlers, 1, 1 + Tried(nest, k))
  OBVIOUS
<1>4. NestInv' /\ BalanceInv' /\ ScopesInv'
  <2> HIDE DEF k
  <2> QED  BY <1>1, <1>2, <1>3, TrimTo
<1>5. GoingInv'  BY DEF GoingInv, Normal
<1> QED  BY <1>4, <1>5 DEF IInv

\* The end of a loop, a switch or a with statement.
LEMMA EndBlockStep ==
  ASSUME IInv, EndBlock
  PROVE  IInv'
<1>1. /\ going = Run /\ outcome = Normal /\ nest # <<>> /\ nest' = Outer(Here)
      /\ Top.kind \in {"loop", "switch", "with"} /\ handlers' = handlers
      /\ withs' = IF Top.kind = "with" THEN withs - 1 ELSE withs
      /\ outcome' = Normal /\ going' = Run
  BY DEF EndBlock, Runs
<1>2. Here > 0 /\ Level = Here /\ withs = Scoped(nest, Here)
  BY <1>1, Sizes, Running, EmptySeq DEF Here, IInv, ScopesInv
<1>3. ~Armed(Top)  BY <1>1 DEF Armed, Tries
<1>4. Tried(nest, Here) = Tried(nest, Here - 1)  BY <1>2, <1>3, TopFacts
<1>5. withs' = Scoped(nest, Here - 1)  BY <1>1, <1>2, TopFacts
<1>6. handlers' = SubSeq(handlers, 1, 1 + Tried(nest, Here - 1))
  BY <1>1, <1>2, <1>4, Pushed
<1> QED  BY <1>1, <1>2, <1>5, <1>6, PopStep

\* The end of a try or catch block: the handler goes, the finally is entered.
LEMMA EndTryOrCatchStep ==
  ASSUME IInv, EndTryOrCatch
  PROVE  IInv'
<1>1. /\ going = Run /\ outcome = Normal /\ nest # <<>>
      /\ Top.kind \in Tries /\ Top.part # "finally"
      /\ nest' = IF HasFinally(Top.kind)
                 THEN Append(Outer(Here), [Top EXCEPT !.part = "finally"])
                 ELSE Outer(Here)
      /\ IF Top.part = "body" THEN PopHandlers(1) ELSE UNCHANGED handlers
      /\ withs' = withs /\ outcome' = Normal /\ going' = Run
  BY DEF EndTryOrCatch, Runs
<1>2. Here > 0 /\ Level = Here /\ withs = Scoped(nest, Here)
  BY <1>1, Sizes, Running, EmptySeq DEF Here, IInv, ScopesInv
<1>3. withs' = Scoped(nest, Here - 1)  BY <1>1, <1>2, TopFacts DEF Tries
<1>4. Len(handlers) = 1 + Tried(nest, Here)
      /\ handlers = SubSeq(handlers, 1, 1 + Tried(nest, Here))
  BY <1>1, <1>2, Pushed
<1>5. handlers' = SubSeq(handlers, 1, 1 + Tried(nest, Here - 1))
  <2>1. CASE Top.part = "body"
    <3>1. Tried(nest, Here) = Tried(nest, Here - 1) + 1 /\ Tried(nest, Here - 1) \in Nat
      BY <1>1, <1>2, <2>1, TopFacts DEF Armed
    <3>2. Len(handlers) - 1 = 1 + Tried(nest, Here - 1)  BY <1>4, <3>1
    <3> QED  BY <1>1, <2>1, <3>2 DEF PopHandlers
  <2>2. CASE Top.part # "body"
    <3>1. ~Armed(Top)  BY <1>1, <2>2 DEF Armed, Tries
    <3>2. Tried(nest, Here) = Tried(nest, Here - 1)  BY <1>2, <3>1, TopFacts
    <3> QED  BY <1>1, <1>4, <2>2, <3>2
  <2> QED  BY <2>1, <2>2
<1>6. CASE HasFinally(Top.kind)
  <2> DEFINE f == [Top EXCEPT !.part = "finally"]
  <2>1. Fits(Top, Outer(Here)) /\ Here \in 1 .. Here /\ Here - 1 <= Level
    BY <1>2, TopFacts
  <2>2. Fits(f, Outer(Here)) /\ f.kind = Top.kind /\ f.part = "finally"
    BY <1>1, <1>6, <2>1 DEF Fits, Frame
  <2>3. f.kind # "with" /\ ~Armed(f)  BY <1>1, <2>2 DEF Tries, Armed
  <2>4. nest' = Append(Outer(Here), f)  BY <1>1, <1>6
  <2> HIDE DEF f
  <2> QED  BY <1>1, <1>3, <1>5, <2>1, <2>2, <2>3, <2>4, Hold
<1>7. CASE ~HasFinally(Top.kind)
  <2>1. nest' = Outer(Here)  BY <1>1, <1>7
  <2> QED  BY <1>1, <1>2, <1>3, <1>5, <2>1, PopStep
<1> QED  BY <1>6, <1>7

\* A round of a for-of loop ends with its handler popped.
LEMMA EndRoundStep ==
  ASSUME IInv, EndRound
  PROVE  IInv'
<1>1. /\ going = Run /\ outcome = Normal /\ nest # <<>> /\ Top.kind = "forof"
      /\ PopHandlers(1) /\ going' = Doing("next") /\ nest' = nest
      /\ withs' = withs /\ outcome' = Normal
  BY DEF EndRound, Runs
<1>2. Here > 0 /\ Level = Here /\ withs = Scoped(nest, Here) /\ nest \in Seq(Frame)
  BY <1>1, Sizes, Running, EmptySeq DEF Here, IInv, ScopesInv
<1>3. Tried(nest, Here) = Tried(nest, Here - 1) + 1 /\ Tried(nest, Here - 1) \in Nat
  BY <1>1, <1>2, TopFacts DEF Armed
<1>4. handlers' = SubSeq(handlers, 1, 1 + Tried(nest, Here - 1))
  <2>1. Len(handlers) = 1 + Tried(nest, Here)  BY <1>1, <1>2, Pushed
  <2>2. Len(handlers) - 1 = 1 + Tried(nest, Here - 1)  BY <1>3, <2>1
  <2> QED  BY <1>1, <2>2 DEF PopHandlers
<1>5. nest' = SubSeq(nest, 1, Here)  BY <1>1, <1>2, SubSeqFull DEF Here
<1>6. Level' = Here - 1 /\ Here' = Here  BY <1>1 DEF Level, Here, Doing
<1>7. Here \in 1 .. Here /\ Here - 1 <= Level  BY <1>2, TopFacts
<1>8. NestInv' /\ BalanceInv' /\ ScopesInv'
  BY <1>1, <1>2, <1>4, <1>5, <1>6, <1>7, TrimBetween
<1>9. GoingInv'  BY <1>1, <1>2, <1>6 DEF GoingInv, Normal, InLoop, Top
<1> QED  BY <1>8, <1>9 DEF IInv

\* A loop between two rounds, or one that is being left: its handler is popped.
LEMMA Between ==
  ASSUME IInv, going.do \in {"next", "closeBlock", "throwClose"}
  PROVE  /\ Here > 0 /\ Top.kind = "forof" /\ Level = Here - 1 /\ outcome = Normal
         /\ withs = Scoped(nest, Here - 1)
         /\ handlers = SubSeq(handlers, 1, 1 + Tried(nest, Here - 1))
         /\ going.do = "closeBlock" => going = AtClose(Jump("break", Here))
<1>1. Here > 0 /\ Top.kind = "forof"
      /\ going \in {Doing("next"), Doing("throwClose"), AtClose(Jump("break", Here))}
  BY DEF IInv, GoingInv, InLoop, Run, Throwing, Doing, Closing
<1>2. outcome = Normal  BY DEF IInv, GoingInv, Run, Doing
<1>3. Level = Here - 1  BY DEF Level
<1>4. withs = Scoped(nest, Here - 1)
  <2>1. Scoped(nest, Here) = Scoped(nest, Here - 1)  BY <1>1, TopFacts
  <2> QED  BY <2>1 DEF IInv, ScopesInv
<1>5. handlers = SubSeq(handlers, 1, 1 + Tried(nest, Here - 1))  BY <1>2, <1>3, Pushed
<1> QED  BY <1>1, <1>2, <1>3, <1>4, <1>5 DEF Doing

\* The next round pushes it again.
LEMMA AnotherStep ==
  ASSUME IInv, Another
  PROVE  IInv'
<1>1. /\ going.do = "next" /\ Arm(Here) /\ going' = Run
      /\ nest' = nest /\ withs' = withs /\ outcome' = outcome
  BY DEF Another
<1>2. /\ Here > 0 /\ Top.kind = "forof" /\ Level = Here - 1 /\ outcome = Normal
      /\ withs = Scoped(nest, Here - 1)
  BY <1>1, Between
<1>3. Level' = Here /\ Here' = Here  BY <1>1 DEF Level, Here, Run, Doing
<1>4. BalanceInv'
  <2> DEFINE l == Here - 1
  <2>1. l \in Nat /\ l + 1 = Here  BY <1>2, TopFacts
  <2>2. handlers' = Append(handlers, [at |-> l + 1, withs |-> Scoped(nest, l)])
    BY <1>1, <1>2, <2>1 DEF Arm
  <2>3. Balanced(nest, handlers, l)  BY <1>2, Pushed
  <2>4. Armed(nest[l + 1])  BY <1>2, <2>1, TopFacts DEF Armed
  <2>5. Balanced(nest, handlers', l + 1)
    <3> HIDE DEF l
    <3> QED  BY <2>1, <2>2, <2>3, <2>4, Grow
  <2> QED  BY <1>1, <1>3, <2>1, <2>5 DEF BalanceInv
<1>5. NestInv' /\ ScopesInv'  BY <1>1 DEF IInv, NestInv, ScopesInv, Here
<1>6. GoingInv'  BY <1>1, <1>2 DEF GoingInv, Normal
<1> QED  BY <1>4, <1>5, <1>6 DEF IInv

\* The loop is left.
LEMMA LeaveLoopStep ==
  ASSUME IInv, Exhausted \/ NextThrows \/ CloseBlock \/ ThrowClose
  PROVE  IInv'
<1>1. /\ going.do \in {"next", "closeBlock", "throwClose"}
      /\ nest' = Outer(Here) /\ going' \in {Run, Throwing}
      /\ handlers' = handlers /\ withs' = withs /\ outcome' = outcome
  BY DEF Exhausted, NextThrows, CloseBlock, ThrowClose
<1> QED  BY <1>1, Between, PopStep

\* nest, handlers and with scopes stay, and nothing is entered or left.
LEMMA StayStep ==
  ASSUME IInv, Level' = Level, nest' = nest, handlers' = handlers, withs' = withs,
         outcome' = outcome
  PROVE  NestInv' /\ BalanceInv' /\ ScopesInv'
BY DEF IInv, NestInv, BalanceInv, ScopesInv, Here

\* A jump begins with the iterators of the loops it leaves; those that are not
\* to be closed are not open.
LEMMA CompleteStep ==
  ASSUME IInv, ~AllJumps, NEW c \in Abrupt, Complete(c)
  PROVE  IInv'
<1>1. /\ going = Run /\ outcome = Normal /\ Tidy(c)
      /\ going' = Closing(c, Closers(c))
      /\ nest' = nest /\ handlers' = handlers /\ withs' = withs /\ outcome' = Normal
  BY DEF Complete, Runs
<1>2. Level' = Level  BY <1>1 DEF Level, Here, Run, Doing, Closing
<1>3. NestInv' /\ BalanceInv' /\ ScopesInv'  BY <1>1, <1>2, StayStep
<1>4. /\ Abrupt' = Abrupt /\ Closers(c)' = Closers(c) /\ (Tidy(c)' <=> Tidy(c))
  BY <1>1
     DEF Abrupt, Targets, Closers, Tidy, Crossed, Finallys, TryDepth, WithDepth, Unwound,
         Here
<1>5. GoingInv'
  <2>1. Closers(c) \in SUBSET Closers(c) /\ Closers(c) \ Closers(c) = {}  OBVIOUS
  <2>2. \E d \in Abrupt : \E s \in SUBSET Closers(d)' :
           /\ going' = Closing(d, s) /\ Tidy(d)'
           /\ \A i \in Closers(d)' \ s : nest'[i].iter # "open"
    BY <1>1, <1>4, <2>1
  <2> QED  BY <1>1, <1>4, <2>2 DEF GoingInv, Normal
<1> QED  BY <1>3, <1>5 DEF IInv

\* An exception changes nothing until its handler is reached.
LEMMA StatementThrowsStep ==
  ASSUME IInv, StatementThrows
  PROVE  IInv'
<1>1. /\ going = Run /\ outcome = Normal /\ going' = Throwing
      /\ nest' = nest /\ handlers' = handlers /\ withs' = withs /\ outcome' = Normal
  BY DEF StatementThrows, Runs
<1>2. Level' = Level  BY <1>1 DEF Level, Here, Run, Throwing, Doing
<1>3. NestInv' /\ BalanceInv' /\ ScopesInv'  BY <1>1, <1>2, StayStep
<1>4. GoingInv'  BY <1>1 DEF GoingInv, Normal
<1> QED  BY <1>3, <1>4 DEF IInv

------------------------------------------------------------------------------
(* Closing iterators.                                                        *)

\* What the lowering knows is what kinds of constructs there are, and in which
\* part of them control is.
LEMMA SameLowering ==
  ASSUME IInv, Here' = Here,
         \A i \in 1 .. Here : nest'[i].kind = nest[i].kind /\ nest'[i].part = nest[i].part
  PROVE  /\ Abrupt' = Abrupt
         /\ \A c \in Abrupt : Closers(c)' = Closers(c) /\ (Tidy(c)' <=> Tidy(c))
<1>1. Here \in Nat  BY Sizes
<1>2. \A how : Targets(how)' = Targets(how)  BY DEF Targets
<1>3. Abrupt' = Abrupt
  <2>1. {i \in Targets("break")' : nest'[i].kind = "switch" => i = Max(Targets("break")')}
        = {i \in Targets("break") : nest[i].kind = "switch" => i = Max(Targets("break"))}
    <3>1. Targets("break")' = Targets("break")  BY <1>2
    <3>2. \A i \in Targets("break") : nest'[i].kind = nest[i].kind  BY DEF Targets
    <3> QED  BY <3>1, <3>2
  <2> QED  BY <1>2, <2>1 DEF Abrupt
<1>4. Finallys(Here)' = Finallys(Here)
  BY DEF Finallys
<1>5. \A x \in Int : x <= Here =>
          TryDepth(x)' = TryDepth(x) /\ WithDepth(x)' = WithDepth(x)
  <2> SUFFICES ASSUME NEW x \in Int, x <= Here
               PROVE  TryDepth(x)' = TryDepth(x) /\ WithDepth(x)' = WithDepth(x)
    OBVIOUS
  <2>1. {i \in 1 .. x : Armed(nest'[i])} = {i \in 1 .. x : Armed(nest[i])}
    BY <1>1 DEF Armed
  <2>2. {i \in 1 .. x : nest'[i].kind = "with"} = {i \in 1 .. x : nest[i].kind = "with"}
    BY <1>1
  <2> QED  BY <2>1, <2>2 DEF TryDepth, WithDepth
<1>6. ASSUME NEW c \in Abrupt
      PROVE  Closers(c)' = Closers(c) /\ (Tidy(c)' <=> Tidy(c))
  <2>1. c.to \in 0 .. Here /\ (c.how # "return" => c.to \in 1 .. Here)
    BY AbruptTargeted, TargetedTo
  <2>2. Closers(c)' = Closers(c)  BY <1>4 DEF Closers
  <2>3. Crossed(c)' = Crossed(c)  BY <1>4 DEF Crossed
  <2> PICK loop : loop = Innermost(Targets("continue"))  OBVIOUS
  <2>4. loop \in 0 .. Here
    <3>1. Targets("continue") \cup {0} \in SUBSET (0 .. Here)  BY <1>1 DEF Targets
    <3>2. Max(Targets("continue") \cup {0}) \in Targets("continue") \cup {0}
      BY <1>1, <3>1, MaxOf
    <3> QED  BY <3>1, <3>2 DEF Innermost
  <2>5. loop = Innermost(Targets("continue"))'  BY <1>2 DEF Innermost
  <2>6. /\ WithDepth(Here)' = WithDepth(Here) /\ WithDepth(loop - 1)' = WithDepth(loop - 1)
        /\ WithDepth(c.to - 1)' = WithDepth(c.to - 1)
        /\ TryDepth(c.to - 1)' = TryDepth(c.to - 1)
    <3>1. Here <= Here /\ Here \in Int /\ loop - 1 <= Here /\ loop - 1 \in Int
          /\ c.to - 1 \in Int /\ c.to - 1 <= Here
      BY <1>1, <2>1, <2>4
    <3> QED  BY <1>5, <3>1
  <2>7. Unwound(c)' = Unwound(c)
    <3>1. c.how = "break" => nest'[c.to].kind = nest[c.to].kind  BY <2>1
    <3> QED  BY <2>5, <2>6, <3>1 DEF Unwound
  <2>8. Tidy(c)' <=> Tidy(c)  BY <2>3, <2>6, <2>7 DEF Tidy
  <2> QED  BY <2>2, <2>8
<1> QED  BY <1>3, <1>6

\* Nothing but iterators changes, and none is opened.
LEMMA WellFormedClosed ==
  ASSUME NEW n, WellFormed(n), NEW m \in Seq(Frame), Len(m) = Len(n),
         \A i \in 1 .. Len(n) :
            /\ m[i].kind = n[i].kind /\ m[i].part = n[i].part /\ m[i].disc = n[i].disc
            /\ m[i].val = n[i].val /\ m[i].exc = n[i].exc
            /\ m[i].iter = "open" => n[i].iter = "open"
  PROVE  WellFormed(m)
<1>1. n \in Seq(Frame)  BY DEF WellFormed
<1>2. ASSUME NEW i \in 1 .. Len(m) PROVE Fits(m[i], SubSeq(m, 1, i - 1))
  <2>1. Fits(n[i], SubSeq(n, 1, i - 1)) /\ i - 1 \in 0 .. Len(n)  BY <1>1 DEF WellFormed
  <2>2. /\ Len(SubSeq(n, 1, i - 1)) = i - 1
        /\ \A j \in 1 .. i - 1 : SubSeq(n, 1, i - 1)[j] = n[j]
    BY <1>1, <2>1, Prefix
  <2>3. /\ Len(SubSeq(m, 1, i - 1)) = i - 1
        /\ \A j \in 1 .. i - 1 : SubSeq(m, 1, i - 1)[j] = m[j]
    BY <2>1, Prefix
  <2> DEFINE p == SubSeq(n, 1, i - 1)
             q == SubSeq(m, 1, i - 1)
  <2>4. Len(q) = Len(p) /\ \A j \in 1 .. Len(p) : q[j].kind = p[j].kind
    BY <2>1, <2>2, <2>3
  <2>5. m[i] \in Frame  BY ElementOfSeq
  <2> HIDE DEF p, q
  <2>6. Fits(n[i], p)  BY <2>1 DEF p
  <2>7. Fits(m[i], q)  BY <2>4, <2>5, <2>6 DEF Fits
  <2> QED  BY <2>7 DEF q
<1> QED  BY <1>2 DEF WellFormed

\* What is known while iterators are closed.
LEMMA ClosingFacts ==
  ASSUME IInv, going.do = "close"
  PROVE  /\ outcome = Normal /\ Level = Here
         /\ going.c \in Abrupt /\ Targeted(going.c) /\ Tidy(going.c)
         /\ going.left \subseteq Closers(going.c)
         /\ going = Closing(going.c, going.left)
         /\ \A i \in Closers(going.c) \ going.left : nest[i].iter # "open"
<1>1. PICK c \in Abrupt : \E s \in SUBSET Closers(c) :
          /\ going = Closing(c, s) /\ Tidy(c)
          /\ \A i \in Closers(c) \ s : nest[i].iter # "open"
  BY DEF IInv, GoingInv, Run, Throwing, Doing, AtClose
<1>2. PICK s \in SUBSET Closers(c) :
          /\ going = Closing(c, s) /\ Tidy(c)
          /\ \A i \in Closers(c) \ s : nest[i].iter # "open"
  BY <1>1
<1>3. going.c = c /\ going.left = s  BY <1>2 DEF Closing
<1>4. outcome = Normal  BY DEF IInv, GoingInv, Run, Doing
<1>5. Level = Here  BY DEF Level
<1> QED  BY <1>2, <1>3, <1>4, <1>5, AbruptTargeted

\* Nothing but the iterator of the innermost loop to be closed changes.
LEMMA OneCloses ==
  ASSUME IInv, CloseOne, NEW i, i = Max(going.left)
  PROVE  /\ i \in going.left /\ i \in 1 .. Here
         /\ nest' \in Seq(Frame) /\ Len(nest') = Here
         /\ \A j \in 1 .. Here :
               /\ nest'[j].kind = nest[j].kind /\ nest'[j].part = nest[j].part
               /\ nest'[j].disc = nest[j].disc /\ nest'[j].val = nest[j].val
               /\ nest'[j].exc = nest[j].exc
               /\ nest'[j].iter = IF j = i THEN "closed" ELSE nest[j].iter
<1> PICK s : s = going.left  OBVIOUS
<1>1. going.do = "close" /\ s # {} /\ nest' = [nest EXCEPT ![i].iter = "closed"]
  BY DEF CloseOne
<1>2. s \subseteq Closers(going.c)  BY <1>1, ClosingFacts
<1>3. nest \in Seq(Frame) /\ Here \in Nat  BY Sizes
<1>4. i \in s /\ i \in 1 .. Here
  <2>1. s \in SUBSET (0 .. Here)  BY <1>2, <1>3 DEF Closers
  <2>2. Max(s) \in s  BY <1>1, <1>3, <2>1, MaxOf
  <2> QED  BY <1>2, <2>2 DEF Closers
<1>5. nest[i] \in Frame  BY <1>3, <1>4, ElementOfSeq DEF Here
<1> DEFINE f == [nest[i] EXCEPT !.iter = "closed"]
<1>6. /\ f \in Frame /\ f.kind = nest[i].kind /\ f.part = nest[i].part
      /\ f.disc = nest[i].disc /\ f.val = nest[i].val /\ f.exc = nest[i].exc
      /\ f.iter = "closed"
  BY <1>5 DEF Frame
<1>7. nest' = [nest EXCEPT ![i] = f]  BY <1>1
<1> HIDE DEF f
<1>8. /\ nest' \in Seq(Frame) /\ Len(nest') = Here
      /\ \A j \in 1 .. Here : nest'[j] = IF j = i THEN f ELSE nest[j]
  BY <1>3, <1>4, <1>6, <1>7, ExceptSeq DEF Here
<1> QED  BY <1>4, <1>6, <1>8

\* One iterator is closed, or throws while it is.
LEMMA CloseOneStep ==
  ASSUME IInv, CloseOne
  PROVE  IInv'
<1> PICK c : c = going.c  OBVIOUS
<1> PICK s : s = going.left  OBVIOUS
<1> PICK i : i = Max(s)  OBVIOUS
<1>1. /\ going.do = "close" /\ s # {} /\ nest' = [nest EXCEPT ![i].iter = "closed"]
      /\ going' \in {[going EXCEPT !.left = @ \ {i}], Throwing}
      /\ handlers' = handlers /\ withs' = withs /\ outcome' = outcome
  BY DEF CloseOne
<1>2. /\ outcome = Normal /\ Level = Here /\ c \in Abrupt /\ Tidy(c)
      /\ s \subseteq Closers(c) /\ going = Closing(c, s)
      /\ \A j \in Closers(c) \ s : nest[j].iter # "open"
  BY <1>1, ClosingFacts
<1>3. nest \in Seq(Frame) /\ Here \in Nat /\ WellFormed(nest)
  BY Sizes DEF IInv, NestInv
<1>4. /\ i \in s /\ i \in 1 .. Here /\ nest' \in Seq(Frame) /\ Len(nest') = Here
      /\ \A j \in 1 .. Here :
            /\ nest'[j].kind = nest[j].kind /\ nest'[j].part = nest[j].part
            /\ nest'[j].disc = nest[j].disc /\ nest'[j].val = nest[j].val
            /\ nest'[j].exc = nest[j].exc
            /\ nest'[j].iter = IF j = i THEN "closed" ELSE nest[j].iter
  BY OneCloses
<1>5. WellFormed(nest')
  <2>1. \A j \in 1 .. Len(nest) :
            /\ nest'[j].kind = nest[j].kind /\ nest'[j].part = nest[j].part
            /\ nest'[j].disc = nest[j].disc
            /\ nest'[j].val = nest[j].val /\ nest'[j].exc = nest[j].exc
            /\ nest'[j].iter = "open" => nest[j].iter = "open"
    BY <1>4 DEF Here
  <2> QED  BY <1>3, <1>4, <2>1, WellFormedClosed DEF Here
<1>6. Here' = Here  BY <1>4 DEF Here
<1>7. NestInv'  BY <1>5, <1>6 DEF NestInv, IInv
<1>8. Level' = Here  BY <1>1, <1>2, <1>6 DEF Level, Throwing, Doing, Closing
<1>9. \A j \in 1 .. Here : nest'[j].kind = nest[j].kind /\ nest'[j].part = nest[j].part
  BY <1>4
<1>10. \A j \in 1 .. Here : Armed(nest[j]) = Armed(nest'[j]) /\ nest[j].kind = nest'[j].kind
  BY <1>9 DEF Armed
<1>11. ScopesInv'
  <2>1. Scoped(nest', Here) = Scoped(nest, Here)  BY <1>3, <1>10, ScopedSame
  <2> QED  BY <1>1, <1>6, <2>1 DEF IInv, ScopesInv
<1>12. BalanceInv'
  <2>1. Balanced(nest, handlers, Here)
        /\ handlers = SubSeq(handlers, 1, 1 + Tried(nest, Here))
    BY <1>2, Pushed
  <2>2. Here \in 0 .. Here /\ Here \in Here .. Here + 1 /\ Here # Here + 1  BY <1>3
  <2>3. Balanced(nest', SubSeq(handlers, 1, 1 + Tried(nest, Here)), Here)
    <3> HIDE DEF Here
    <3> QED  BY <1>3, <1>10, <2>1, <2>2, Cut
  <2> QED  BY <1>1, <1>8, <2>1, <2>3 DEF BalanceInv
<1>13. GoingInv'
  <2>1. Abrupt' = Abrupt /\ Closers(c)' = Closers(c) /\ (Tidy(c)' <=> Tidy(c))
    BY <1>2, <1>6, <1>9, SameLowering
  <2>2. CASE going' = Throwing  BY <1>1, <1>2, <2>2 DEF GoingInv, Normal
  <2>3. CASE going' = [going EXCEPT !.left = @ \ {i}]
    <3>1. going' = Closing(c, s \ {i})
      <4>1. going = [do |-> "close", c |-> c, left |-> s]  BY <1>2 DEF Closing
      <4>2. going' = [do |-> "close", c |-> c, left |-> s \ {i}]  BY <2>3, <4>1
      <4> QED  BY <4>2 DEF Closing
    <3>2. \A j \in Closers(c) \ (s \ {i}) : nest'[j].iter # "open"
      BY <1>2, <1>4 DEF Closers
    <3>3. s \ {i} \in SUBSET Closers(c)  BY <1>2
    <3>4. \E d \in Abrupt : \E t \in SUBSET Closers(d)' :
             /\ going' = Closing(d, t) /\ Tidy(d)'
             /\ \A j \in Closers(d)' \ t : nest'[j].iter # "open"
      <4>1. /\ c \in Abrupt /\ s \ {i} \in SUBSET Closers(c)' /\ Tidy(c)'
            /\ \A j \in Closers(c)' \ (s \ {i}) : nest'[j].iter # "open"
        BY <1>2, <2>1, <3>2, <3>3
      <4> QED  BY ONLY <3>1, <4>1, Zenon
    <3> QED  BY <1>1, <1>2, <2>1, <3>4 DEF GoingInv, Normal
  <2> QED  BY <1>1, <2>2, <2>3
<1> QED  BY <1>7, <1>11, <1>12, <1>13 DEF IInv

------------------------------------------------------------------------------
(* Leaving: jumps, finally blocks, exceptions.                               *)

\* The innermost finally block that a completion inside it has to see.
LEMMA InnermostFinally ==
  ASSUME IInv, Finallys(Here) # {}
  PROVE  LET g == Max(Finallys(Here))
         IN  /\ g \in 1 .. Here /\ HasFinally(nest[g].kind) /\ nest[g].part # "finally"
             /\ \A f \in Finallys(Here) : f <= g
<1>1. Here \in Nat /\ Finallys(Here) \in SUBSET (0 .. Here)  BY Sizes DEF Finallys
<1>2. Max(Finallys(Here)) \in Finallys(Here) /\ \A f \in Finallys(Here) : f <= Max(Finallys(Here))
  BY <1>1, MaxOf
<1> QED  BY <1>2 DEF Finallys

\* The iterators are closed: to the innermost finally, or to the target.
LEMMA DepartStep ==
  ASSUME IInv, Depart
  PROVE  IInv'
<1> PICK c : c = going.c  OBVIOUS
<1>1. /\ outcome = Normal /\ Level = Here /\ c \in Abrupt /\ Targeted(c) /\ Tidy(c)
      /\ IF Crossed(c) # {} THEN Route(c) ELSE Direct(c)
  BY ClosingFacts DEF Depart
<1>2. /\ Here \in Nat /\ \A k : TryDepth(k) = Tried(nest, k) /\ WithDepth(k) = Scoped(nest, k)
      /\ withs = Scoped(nest, Here) /\ Scoped(nest, Here) \in Nat
      /\ Tried(nest, Here) \in Nat /\ Len(handlers) = 1 + Tried(nest, Here)
  BY <1>1, Sizes, Pushed, DepthStep DEF IInv, ScopesInv
<1>3. CASE Crossed(c) # {}
  <2> PICK g : g = Max(Finallys(Here))  OBVIOUS
  <2>1. /\ g \in 1 .. Here /\ HasFinally(nest[g].kind) /\ nest[g].part # "finally"
        /\ \A f \in Finallys(Here) : f <= g
    BY <1>3, InnermostFinally DEF Crossed
  <2>2. c.to < g
    <3>1. PICK f \in Finallys(Here) : f > c.to  BY <1>3 DEF Crossed
    <3>2. f \in 1 .. Here /\ c.to \in 0 .. Here  BY <1>1, TargetedTo DEF Finallys
    <3> QED  BY <2>1, <3>1, <3>2
  <2>3. g - 1 <= Level /\ g - 1 \in Nat  BY <1>1, <1>2, <2>1
  <2>4. Tried(nest, g - 1) \in Nat /\ Scoped(nest, g - 1) \in Nat  BY <2>3, DepthStep
  <2> PICK pops : pops = Tried(nest, Here) - Tried(nest, g - 1)  OBVIOUS
  <2> PICK scopes : scopes = Scoped(nest, Here) - Scoped(nest, g - 1)  OBVIOUS
  <2>5. EnterFinally(g, pops, scopes, c)  BY <1>1, <1>2, <1>3 DEF Route
  <2>6. Len(handlers) - pops = 1 + Tried(nest, g - 1) /\ withs - scopes = Scoped(nest, g - 1)
    BY <1>2, <2>4
  <2> QED  BY <1>1, <2>1, <2>2, <2>3, <2>5, <2>6, FinallyStep
<1>4. CASE Crossed(c) = {}
  <2>1. /\ PopHandlers(Tried(nest, Here)) /\ withs' = withs - Unwound(c) /\ Arrive(c)
    BY <1>1, <1>2, <1>4 DEF Direct
  <2>2. Outside(c) \in 0 .. Here /\ Outside(c) \in Nat  BY <1>1, <1>2, TargetedTo
  <2>3. Tried(nest, Outside(c)) = 0 /\ Unwound(c) = Scoped(nest, Here) - Scoped(nest, Outside(c))
    <3>1. CASE c.how = "return"
      <4>1. c.to = 0 /\ Outside(c) = 0  BY <1>1, <3>1, TargetedTo DEF Outside
      <4>2. Tried(nest, 0) = 0 /\ Scoped(nest, 0) = 0  BY DepthStep
      <4>3. Unwound(c) = Scoped(nest, Here) - 0  BY <1>2, <3>1, <4>1 DEF Unwound
      <4> QED  BY <4>1, <4>2, <4>3
    <3>2. CASE c.how # "return"
      <4>1. c.to \in 1 .. Here /\ Outside(c) = c.to - 1
        BY <1>1, <3>2, TargetedTo DEF Outside
      <4>2. TryDepth(c.to - 1) = 0 /\ Unwound(c) = WithDepth(Here) - WithDepth(c.to - 1)
        BY <1>1, <1>4, <3>2 DEF Tidy
      <4> QED  BY <1>2, <4>1, <4>2
    <3> QED  BY <3>1, <3>2
  <2>4. handlers' = SubSeq(handlers, 1, 1 + Tried(nest, Outside(c)))
    <3>1. Len(handlers) - Tried(nest, Here) = 1 + Tried(nest, Outside(c))  BY <1>2, <2>3
    <3> QED  BY <2>1, <3>1 DEF PopHandlers
  <2>5. withs' = Scoped(nest, Outside(c))
    <3>1. Scoped(nest, Outside(c)) \in Nat  BY <2>2, DepthStep
    <3> QED  BY <1>2, <2>1, <2>3, <3>1
  <2>6. Outside(c) <= Level  BY <1>1, <2>2
  <2> QED  BY <1>1, <2>1, <2>4, <2>5, <2>6, ArriveStep
<1> QED  BY <1>3, <1>4

\* A finally block keeps a completion whose target is still around.
LEMMA PendingTargeted ==
  ASSUME IInv, Here > 0, Top.disc.how # "normal", NEW c,
         c = [how |-> Top.disc.how, to |-> Top.disc.to,
              val |-> IF Top.disc.how = "return" THEN Top.val ELSE Undefined]
  PROVE  Targeted(c) /\ c.to < Here
<1>1. /\ Fits(Top, Outer(Here)) /\ Len(Outer(Here)) = Here - 1 /\ Here \in Nat \ {0}
      /\ Outer(Here) = SubSeq(nest, 1, Here - 1) /\ nest \in Seq(Frame)
  BY TopFacts, Sizes
<1>2. \A i \in 1 .. Here - 1 : Outer(Here)[i] = nest[i]
  <2>1. Here - 1 \in 0 .. Len(nest)  BY <1>1 DEF Here
  <2> QED  BY <1>1, <2>1, Prefix
<1>3. Top.disc.how \in {"normal", "return", "break", "continue"}  BY <1>1 DEF Fits, Frame
<1>4. CASE Top.disc.how = "return"
  BY <1>1, <1>4 DEF Fits, Targeted, Return
<1>5. CASE Top.disc.how \in {"break", "continue"}
  <2> PICK how : how = Top.disc.how  OBVIOUS
  <2> PICK k : k = Top.disc.to  OBVIOUS
  <2>1. k \in 1 .. Here - 1 /\ Takes(nest[k].kind, how)  BY <1>1, <1>2, <1>5 DEF Fits
  <2>2. c = Jump(how, k)  BY <1>5 DEF Jump
  <2>3. k \in 1 .. Here /\ c.to = k /\ k < Here  BY <1>1, <2>1, <2>2 DEF Jump
  <2> QED  BY <1>5, <2>1, <2>2, <2>3 DEF Targeted
<1> QED  BY <1>3, <1>4, <1>5

\* A finally block ends: what it held back goes on.
LEMMA DispatchStep ==
  ASSUME IInv, Dispatch
  PROVE  IInv'
<1>1. going = Run /\ outcome = Normal /\ nest # <<>> /\ Top.part = "finally"
  BY DEF Dispatch, Runs
<1>2. Here > 0 /\ Level = Here /\ withs = Scoped(nest, Here)
  BY <1>1, Sizes, Running, EmptySeq DEF Here, IInv, ScopesInv
<1>3. Top.kind \in {"tryFinally", "tryBoth"}
  BY <1>1, <1>2, TopFacts DEF Fits, HasFinally
<1>4. ~Armed(Top)  BY <1>1, <1>3 DEF Armed
<1>5. /\ Here \in Nat \ {0} /\ Tried(nest, Here) = Tried(nest, Here - 1)
      /\ Scoped(nest, Here) = Scoped(nest, Here - 1)
      /\ Tried(nest, Here - 1) \in Nat /\ Scoped(nest, Here - 1) \in Nat
      /\ Here - 1 \in Nat
  BY <1>2, <1>3, <1>4, TopFacts
<1>6. /\ Len(handlers) = 1 + Tried(nest, Here - 1) /\ withs = Scoped(nest, Here - 1)
      /\ handlers = SubSeq(handlers, 1, 1 + Tried(nest, Here - 1))
  BY <1>1, <1>2, <1>5, Pushed
<1>7. \A k : TryDepth(k) = Tried(nest, k) /\ WithDepth(k) = Scoped(nest, k)  BY Sizes
<1> PICK c : c = [how |-> Top.disc.how, to |-> Top.disc.to,
                  val |-> IF Top.disc.how = "return" THEN Top.val ELSE Undefined]
  OBVIOUS
<1> PICK g : g = Innermost(ReRaise(Here, c))  OBVIOUS
<1>8. CASE c.how = "normal"
  <2>1. /\ nest' = Outer(Here) /\ going' \in {Run, Throwing} /\ handlers' = handlers
        /\ withs' = withs /\ outcome' = outcome
    BY <1>8 DEF Dispatch
  <2> QED  BY <1>1, <1>2, <1>6, <2>1, PopStep
<1>9. CASE c.how # "normal" /\ g # 0
  <2>1. EnterFinally(g, TryDepth(Here - 1) - TryDepth(g - 1),
                     WithDepth(Here - 1) - WithDepth(g - 1), c)
    BY <1>9 DEF Dispatch
  <2>2. Targeted(c) /\ c.to < Here  BY <1>2, <1>9, PendingTargeted
  <2>3. g \in ReRaise(Here, c)
    <3>1. ReRaise(Here, c) \cup {0} \in SUBSET (0 .. Here)
      BY <1>5 DEF ReRaise, Finallys
    <3>2. Max(ReRaise(Here, c) \cup {0}) \in ReRaise(Here, c) \cup {0}
      BY <1>5, <3>1, MaxOf
    <3> QED  BY <1>9, <3>2 DEF Innermost
  <2>4. /\ g \in 1 .. Here - 1 /\ HasFinally(nest[g].kind) /\ nest[g].part # "finally"
        /\ c.to < g
    <3>1. g > c.to /\ g \in Finallys(Here - 1)  BY <2>3 DEF ReRaise
    <3>2. c.to \in Nat  BY <2>2, TargetedTo
    <3> QED  BY <1>5, <3>1, <3>2 DEF Finallys
  <2>5. g \in 1 .. Here /\ g - 1 <= Level /\ g - 1 \in Nat  BY <1>2, <1>5, <2>4
  <2>6. Tried(nest, g - 1) \in Nat /\ Scoped(nest, g - 1) \in Nat  BY <2>5, DepthStep
  <2> PICK pops : pops = Tried(nest, Here - 1) - Tried(nest, g - 1)  OBVIOUS
  <2> PICK scopes : scopes = Scoped(nest, Here - 1) - Scoped(nest, g - 1)  OBVIOUS
  <2>7. EnterFinally(g, pops, scopes, c)  BY <1>7, <2>1
  <2>8. Len(handlers) - pops = 1 + Tried(nest, g - 1) /\ withs - scopes = Scoped(nest, g - 1)
    <3>1. Len(handlers) - pops = 1 + Tried(nest, g - 1)  BY <1>5, <1>6, <2>6
    <3>2. withs - scopes = Scoped(nest, g - 1)  BY <1>5, <1>6, <2>6
    <3> QED  BY ONLY <3>1, <3>2
  <2> QED  BY <1>1, <2>2, <2>4, <2>5, <2>7, <2>8, FinallyStep
<1>10. CASE c.how # "normal" /\ g = 0
  <2>1. Targeted(c) /\ c.to < Here  BY <1>2, <1>10, PendingTargeted
  <2>2. /\ PopHandlers(TryDepth(Here - 1) - TryDepth(Outside(c)))
        /\ withs' = withs - (WithDepth(Here - 1) - WithDepth(Outside(c)))
        /\ Arrive(c)
    BY <1>10 DEF Dispatch, Outside
  <2>3. Outside(c) \in 0 .. Here /\ Outside(c) \in Nat /\ Outside(c) <= Level
    BY <1>2, <1>5, <2>1, TargetedTo
  <2>4. Tried(nest, Outside(c)) \in Nat /\ Scoped(nest, Outside(c)) \in Nat
    BY <2>3, DepthStep
  <2>5. handlers' = SubSeq(handlers, 1, 1 + Tried(nest, Outside(c)))
    <3>1. Len(handlers) - (Tried(nest, Here - 1) - Tried(nest, Outside(c)))
            = 1 + Tried(nest, Outside(c))
      BY <1>5, <1>6, <2>4
    <3> QED  BY <1>7, <2>2, <3>1 DEF PopHandlers
  <2>6. withs' = Scoped(nest, Outside(c))  BY <1>5, <1>6, <1>7, <2>2, <2>4
  <2> QED  BY <1>1, <2>1, <2>2, <2>3, <2>5, <2>6, ArriveStep
<1> QED  BY <1>8, <1>9, <1>10

\* The last construct replaced.
LEMMA ReplaceLast ==
  ASSUME NEW S, NEW n \in Seq(S), NEW k \in 1 .. Len(n), NEW f \in S,
         NEW m \in Seq(S), Len(m) = k, m[k] = f, \A i \in 1 .. k - 1 : m[i] = n[i]
  PROVE  m = Append(SubSeq(n, 1, k - 1), f)
<1> DEFINE q == SubSeq(n, 1, k - 1)
           b == Append(q, f)
<1>1. q \in Seq(S) /\ Len(q) = k - 1 /\ \A i \in 1 .. k - 1 : q[i] = n[i]
  <2>1. k - 1 \in 0 .. Len(n)  OBVIOUS
  <2> QED  BY <2>1, Prefix
<1> HIDE DEF q
<1>2. b \in Seq(S) /\ Len(b) = k /\ b[k] = f /\ \A i \in 1 .. k - 1 : b[i] = q[i]
  BY <1>1
<1> HIDE DEF b
<1>3. \A i \in 1 .. k : m[i] = b[i]  BY <1>1, <1>2
<1>4. m = b  BY <1>2, <1>3, SeqEqual
<1> QED  BY <1>4 DEF b, q

\* A try statement once an exception has come to it.
Holding(t) == IF t.kind = "tryFinally" THEN [t EXCEPT !.part = "finally", !.exc = TRUE]
                                      ELSE [t EXCEPT !.part = "catch"]

LEMMA HoldingFrame ==
  ASSUME NEW t \in Frame, t.kind \in Tries
  PROVE  /\ Holding(t) \in Frame /\ Holding(t).kind = t.kind /\ Holding(t).disc = t.disc
         /\ Holding(t).val = t.val /\ Holding(t).iter = t.iter
         /\ Holding(t).part = (IF t.kind = "tryFinally" THEN "finally" ELSE "catch")
         /\ Holding(t).exc = (IF t.kind = "tryFinally" THEN TRUE ELSE t.exc)
<1>1. CASE t.kind = "tryFinally"
  <2>1. Holding(t) = [t EXCEPT !.part = "finally", !.exc = TRUE]  BY <1>1 DEF Holding
  <2> QED  BY <1>1, <2>1 DEF Frame
<1>2. CASE t.kind # "tryFinally"
  <2>1. Holding(t) = [t EXCEPT !.part = "catch"]  BY <1>2 DEF Holding
  <2> QED  BY <1>2, <2>1 DEF Frame
<1> QED  BY <1>1, <1>2

\* Where an exception goes that a try statement takes.
LEMMA CatchInTry ==
  ASSUME Catch, nest \in Seq(Frame), NEW k \in 1 .. Len(nest),
         k = handlers[Len(handlers)].at, nest[k].kind # "forof",
         NEW f \in Frame, f = Holding(nest[k])
  PROVE  nest' = Append(Outer(k), f) /\ going' = Run /\ outcome' = outcome
<1> PICK t : t = nest[k]  OBVIOUS
<1>1. PICK n : n = SubSeq(nest, 1, k)  OBVIOUS
<1>2. n \in Seq(Frame) /\ Len(n) = k /\ n[k] = t /\ k # 0 /\ \A j \in 1 .. k : n[j] = nest[j]
  <2>1. k \in 0 .. Len(nest) /\ k \in 1 .. k  OBVIOUS
  <2> QED  BY <1>1, <2>1, Prefix
<1>3. k \in DOMAIN n /\ n = [i \in 1 .. k |-> n[i]] /\ t \in Frame
  BY <1>2, LenProperties, ElementOfSeq
<1>4. PICK m : m = [n EXCEPT ![k] = f]  OBVIOUS
<1>5. PICK o : o = SubSeq(nest, 1, k - 1)  OBVIOUS
<1>6. m = Append(o, f)
  <2>1. k \in 1 .. Len(n)  BY <1>2
  <2>2. /\ m \in Seq(Frame) /\ Len(m) = Len(n)
        /\ \A j \in 1 .. Len(n) : m[j] = IF j = k THEN f ELSE n[j]
    BY <1>2, <1>4, <2>1, ExceptSeq
  <2>3. Len(m) = k /\ m[k] = f /\ \A j \in 1 .. k - 1 : m[j] = nest[j]
    <3>1. Len(m) = k /\ m[k] = f  BY <1>2, <2>1, <2>2
    <3>2. ASSUME NEW j \in 1 .. k - 1 PROVE m[j] = nest[j]
      <4>1. j \in 1 .. k /\ j \in 1 .. Len(n) /\ j # k  BY <1>2
      <4> QED  BY <1>2, <2>2, <4>1
    <3> QED  BY <3>1, <3>2
  <2>4. m = Append(SubSeq(nest, 1, k - 1), f)  BY <2>2, <2>3, ReplaceLast
  <2> QED  BY ONLY <1>5, <2>4
<1>9. going' = Run /\ outcome' = outcome  BY <1>2 DEF Catch
<1>7. ASSUME t.kind = "tryFinally" PROVE nest' = m
  <2>1. nest' = [n EXCEPT ![k].part = "finally", ![k].exc = TRUE]
    BY <1>1, <1>2, <1>7 DEF Catch
  <2>2. f = [t EXCEPT !.part = "finally", !.exc = TRUE]  BY <1>7 DEF Holding
  <2>3. nest' = [n EXCEPT ![k] = f]  BY <1>2, <1>3, <2>1, <2>2
  <2> QED  BY ONLY <1>4, <2>3
<1>8. ASSUME t.kind # "tryFinally" PROVE nest' = m
  <2>1. nest' = [n EXCEPT ![k].part = "catch"]
    BY <1>1, <1>2, <1>8 DEF Catch
  <2>2. f = [t EXCEPT !.part = "catch"]  BY <1>8 DEF Holding
  <2>3. nest' = [n EXCEPT ![k] = f]  BY <1>2, <2>1, <2>2
  <2> QED  BY ONLY <1>4, <2>3
<1>10. Outer(k) = o  BY <1>5 DEF Outer
<1>11. nest' = m  BY ONLY <1>7, <1>8
<1> QED  BY ONLY <1>6, <1>9, <1>10, <1>11

\* ts_throw: control is in the construct whose handler was the last one pushed,
\* with the handlers and the scopes outside of it.
LEMMA CatchStep ==
  ASSUME IInv, Catch
  PROVE  IInv'
<1>1. PICK h : h = handlers[Len(handlers)]  OBVIOUS
<1>2. PICK k : k = h.at  OBVIOUS
<1>3. going.do = "throw" /\ PopHandlers(1) /\ withs' = h.withs
  BY <1>1 DEF Catch
<1>4. going = Throwing /\ outcome = Normal /\ Level = Here
  BY <1>3, Running DEF IInv, GoingInv, Run, Doing, AtClose, Closing
<1>5. nest \in Seq(Frame) /\ Here \in Nat /\ WellFormed(nest)
  BY Sizes DEF IInv, NestInv
<1>6. Balanced(nest, handlers, Here)  BY <1>4, Pushed
<1>7. \/ k = 0 /\ h.withs = 0
      \/ /\ k \in 1 .. Here /\ Armed(nest[k]) /\ h.withs = Scoped(nest, k - 1)
         /\ Len(handlers) - 1 = 1 + Tried(nest, k - 1)
  <2> HIDE DEF Here
  <2> QED  BY <1>1, <1>2, <1>5, <1>6, TopHandler
<1>8. CASE k = 0 /\ h.withs = 0
  <2>1. nest' = <<>> /\ going' = Run /\ outcome' = Throw /\ withs' = 0
    BY <1>1, <1>2, <1>3, <1>8 DEF Catch
  <2>2. SubSeq(nest, 1, 0) = <<>>  BY SubSeqEmpty
  <2>3. WellFormed(nest')
    <3>1. 0 \in 0 .. Len(nest)  BY <1>5 DEF Here
    <3>2. WellFormed(SubSeq(nest, 1, 0))  BY <1>5, <3>1, WellFormedPrefix
    <3> QED  BY <2>1, <2>2, <3>2
  <2>4. Here' = 0  BY <2>1 DEF Here
  <2>5. NestInv'  BY <2>3, <2>4, NestAssumption DEF NestInv
  <2>6. ScopesInv'
    <3>1. Scoped(nest', 0) = 0
      <4> PICK m : m = nest'  OBVIOUS
      <4>1. Scoped(m, 0) = 0  BY DepthStep
      <4> QED  BY <4>1
    <3> QED  BY <2>1, <2>4, <3>1 DEF ScopesInv
  <2>7. BalanceInv'  BY <2>1 DEF BalanceInv, Throw
  <2>8. GoingInv'  BY <2>1 DEF GoingInv
  <2> QED  BY <2>5, <2>6, <2>7, <2>8 DEF IInv
<1>9. CASE /\ k \in 1 .. Here /\ Armed(nest[k]) /\ h.withs = Scoped(nest, k - 1)
           /\ Len(handlers) - 1 = 1 + Tried(nest, k - 1)
  <2>1. /\ k # 0 /\ k \in 1 .. Len(nest) /\ k - 1 <= Level /\ k \in Nat \ {0}
        /\ k \in 0 .. Len(nest)
    BY <1>4, <1>5, <1>9 DEF Here
  <2>2. handlers' = SubSeq(handlers, 1, 1 + Tried(nest, k - 1))
    BY <1>3, <1>9 DEF PopHandlers
  <2>3. withs' = Scoped(nest, k - 1) /\ outcome' = Normal
    BY <1>1, <1>2, <1>3, <1>4, <1>9, <2>1 DEF Catch
  <2>4. nest[k] \in Frame /\ Fits(nest[k], Outer(k))
    BY <1>5, <2>1, ElementOfSeq DEF WellFormed, Outer
  <2>5. CASE nest[k].kind = "forof"
    <3>1. nest' = SubSeq(nest, 1, k) /\ going' = Doing("throwClose")
      BY <1>1, <1>2, <1>9, <2>1, <2>5 DEF Catch
    <3>2. Len(nest') = k /\ nest'[k] = nest[k]
      <4>1. k \in 1 .. k  BY <2>1
      <4> QED  BY <1>5, <2>1, <3>1, <4>1, Prefix
    <3>3. Level' = k - 1 /\ Here' = k  BY <3>1, <3>2 DEF Level, Here, Doing
    <3>4. withs' = Scoped(nest, k)  BY <2>1, <2>3, <2>5, ScopedSkips
    <3>5. NestInv' /\ BalanceInv' /\ ScopesInv'
      BY <1>4, <1>9, <2>1, <2>2, <3>1, <3>3, <3>4, TrimBetween
    <3>6. GoingInv'
      BY <2>1, <2>3, <2>5, <3>1, <3>2, <3>3 DEF GoingInv, Normal, InLoop, Top
    <3> QED  BY <3>5, <3>6 DEF IInv
  <2>6. CASE nest[k].kind # "forof"
    <3> DEFINE final == nest[k].kind = "tryFinally"
               f == Holding(nest[k])
    <3>1. nest[k].kind \in Tries /\ nest[k].part = "body"  BY <1>9, <2>6 DEF Armed
    <3>2. /\ f \in Frame /\ f.kind = nest[k].kind /\ f.disc = nest[k].disc
          /\ f.part = (IF final THEN "finally" ELSE "catch")
          /\ f.exc = (IF final THEN TRUE ELSE nest[k].exc)
          /\ f.val = nest[k].val /\ f.iter = nest[k].iter
      BY <2>4, <3>1, HoldingFrame
    <3>3. nest' = Append(Outer(k), f) /\ going' = Run
      <4>1. f = Holding(nest[k]) /\ f \in Frame  BY <3>2
      <4> HIDE DEF f
      <4> QED  BY <1>1, <1>2, <1>5, <2>1, <2>6, <4>1, CatchInTry
    <3> HIDE DEF f
    <3>4. Fits(f, Outer(k))
      BY <2>4, <3>1, <3>2 DEF Fits, Tries, HasFinally
    <3>5. f.kind # "with" /\ ~Armed(f)  BY <3>1, <3>2 DEF Tries, Armed
    <3> QED  BY <1>4, <1>9, <2>1, <2>2, <2>3, <3>3, <3>4, <3>5, Hold
  <2> QED  BY <2>5, <2>6
<1> QED  BY <1>7, <1>8, <1>9

------------------------------------------------------------------------------
(* The theorems.                                                             *)

\* Before its first statement a function has the handler of its caller.
LEMMA InitIInv == Init => IInv
<1> SUFFICES ASSUME Init PROVE IInv
  OBVIOUS
<1>1. nest = <<>> /\ going = Run /\ handlers = <<Caller>> /\ withs = 0 /\ outcome = Normal
  BY DEF Init, Caller
<1>2. Here = 0 /\ Level = 0  BY <1>1 DEF Here, Level, Run, Doing
<1>3. Tried(nest, 0) = 0 /\ Scoped(nest, 0) = 0  BY DepthStep
<1>4. NestInv  BY <1>1, <1>2, NestAssumption DEF NestInv, WellFormed
<1>5. Balanced(nest, handlers, 0)
  <2>1. Caller \in Handler  BY DEF Caller, Handler
  <2>2. handlers \in Seq(Handler) /\ Len(handlers) = 1 /\ handlers[1] = Caller
    BY <1>1, <2>1
  <2> QED  BY <1>3, <2>2 DEF Balanced
<1>6. BalanceInv  BY <1>2, <1>5 DEF BalanceInv
<1>7. ScopesInv  BY <1>1, <1>2, <1>3 DEF ScopesInv
<1>8. GoingInv  BY <1>1 DEF GoingInv
<1> QED  BY <1>4, <1>6, <1>7, <1>8 DEF IInv

\* Every step keeps the invariant, when the jumps are tidy.
LEMMA NextIInv == ~AllJumps /\ IInv /\ [Next]_vars => IInv'
<1> SUFFICES ASSUME ~AllJumps, IInv, [Next]_vars PROVE IInv'
  OBVIOUS
<1>1. CASE UNCHANGED vars
  <2>1. Level' = Level /\ Here' = Here  BY <1>1 DEF vars, Level, Here
  <2>2. NestInv' /\ BalanceInv' /\ ScopesInv'  BY <1>1, <2>1, StayStep DEF vars
  <2>3. /\ Abrupt' = Abrupt
        /\ \A c \in Abrupt : Closers(c)' = Closers(c) /\ (Tidy(c)' <=> Tidy(c))
    BY <1>1, <2>1, SameLowering DEF vars
  <2>4. GoingInv'
    <3>1. CASE going \in {Run, Throwing}  BY <1>1, <3>1 DEF vars, IInv, GoingInv
    <3>2. CASE InLoop /\ going \in {Doing("next"), Doing("throwClose"),
                                    AtClose(Jump("break", Here))}
      BY <1>1, <2>1, <3>2 DEF vars, IInv, GoingInv, InLoop, Top
    <3>3. CASE \E c \in Abrupt : \E s \in SUBSET Closers(c) :
                 /\ going = Closing(c, s) /\ Tidy(c)
                 /\ \A i \in Closers(c) \ s : nest[i].iter # "open"
      <4>1. PICK c \in Abrupt : \E s \in SUBSET Closers(c) :
               /\ going = Closing(c, s) /\ Tidy(c)
               /\ \A i \in Closers(c) \ s : nest[i].iter # "open"
        BY <3>3
      <4>2. \E s \in SUBSET Closers(c)' :
               /\ going' = Closing(c, s) /\ Tidy(c)'
               /\ \A i \in Closers(c)' \ s : nest'[i].iter # "open"
        BY <1>1, <2>3, <4>1 DEF vars
      <4>3. \E d \in Abrupt : \E s \in SUBSET Closers(d)' :
               /\ going' = Closing(d, s) /\ Tidy(d)'
               /\ \A i \in Closers(d)' \ s : nest'[i].iter # "open"
        BY <4>1, <4>2
      <4> QED  BY <1>1, <2>3, <4>3 DEF vars, IInv, GoingInv
    <3> QED  BY <3>1, <3>2, <3>3 DEF IInv, GoingInv
  <2> QED  BY <2>2, <2>4 DEF IInv
<1>2. CASE Next
  <2>1. CASE \E kind \in Kinds : Open(kind)  BY <2>1, OpenStep
  <2>2. CASE EndBlock  BY <2>2, EndBlockStep
  <2>3. CASE EndTryOrCatch  BY <2>3, EndTryOrCatchStep
  <2>4. CASE EndRound  BY <2>4, EndRoundStep
  <2>5. CASE Dispatch  BY <2>5, DispatchStep
  <2>6. CASE Another  BY <2>6, AnotherStep
  <2>7. CASE Exhausted \/ NextThrows \/ CloseBlock \/ ThrowClose
    BY <2>7, LeaveLoopStep
  <2>8. CASE \E c \in Abrupt : Complete(c)  BY <2>8, CompleteStep
  <2>9. CASE CloseOne  BY <2>9, CloseOneStep
  <2>10. CASE Depart  BY <2>10, DepartStep
  <2>11. CASE StatementThrows  BY <2>11, StatementThrowsStep
  <2>12. CASE Catch  BY <2>12, CatchStep
  <2> QED  BY <1>2, <2>1, <2>2, <2>3, <2>4, <2>5, <2>6, <2>7, <2>8, <2>9, <2>10, <2>11, <2>12
           DEF Next
<1> QED  BY <1>1, <1>2

\* The inductive invariant, for every depth of nesting.
LEMMA Invariance == ~AllJumps => (Spec => []IInv)
<1> SUFFICES ASSUME ~AllJumps PROVE Spec => []IInv
  OBVIOUS
<1>1. IInv /\ [Next]_vars => IInv'  BY NextIInv
<1> QED  BY InitIInv, <1>1, PTL DEF Spec

\* Type correctness, for every depth of nesting; what the FinallyContext of a try
\* keeps is a completion the language allows.
THEOREM TypeCorrect == ~AllJumps => (Spec => []TypeOK)
<1> SUFFICES ASSUME ~AllJumps PROVE Spec => []TypeOK
  OBVIOUS
<1>1. IInv => TypeOK
  <2> SUFFICES ASSUME IInv PROVE TypeOK
    OBVIOUS
  <2>1. nest \in Seq(Frame) /\ Here \in Nat /\ Here <= MaxNest  BY Sizes
  <2>2. ASSUME NEW i \in 1 .. Here
        PROVE  /\ nest[i].kind \in Kinds
               /\ nest[i].part \in {"body", "catch", "finally"}
               /\ nest[i].part = "catch" => nest[i].kind \in {"tryCatch", "tryBoth"}
               /\ nest[i].part = "finally" => HasFinally(nest[i].kind)
               /\ nest[i].disc.how \in {"normal", "return", "break", "continue"}
               /\ nest[i].disc.to < i
               /\ nest[i].val \in Value \cup {Undefined}
               /\ nest[i].disc.how # "normal" \/ nest[i].exc => nest[i].part = "finally"
               /\ nest[i].iter \in {"none", "open", "closed"}
    <3>1. Fits(nest[i], SubSeq(nest, 1, i - 1))  BY DEF IInv, NestInv, WellFormed, Here
    <3>2. Len(SubSeq(nest, 1, i - 1)) = i - 1
      <4>1. i - 1 \in 0 .. Len(nest)  BY <2>1 DEF Here
      <4> QED  BY <2>1, <4>1, Prefix
    <3>3. nest[i].disc.to < i
      <4>1. nest[i].disc.to = 0 \/ nest[i].disc.to \in 1 .. i - 1
        BY <3>1, <3>2 DEF Fits, Frame
      <4> QED  BY <2>1, <4>1
    <3> QED  BY <3>1, <3>3 DEF Fits, Frame
  <2>3. ASSUME NEW c, Targeted(c) PROVE c \in Completion
    <3>1. \A k \in 1 .. Here : k \in 1 .. MaxNest  BY <2>1, NestAssumption
    <3> QED  BY <2>3, <3>1 DEF Targeted, Completion
  <2>4. Normal \in Completion  BY DEF Completion
  <2>5. /\ going.do \in {"run", "next", "close", "closeBlock", "throw", "throwClose"}
        /\ going.c \in Completion /\ going.left \subseteq 1 .. Here
    <3>1. CASE going.do = "close"
      BY <2>3, <3>1, ClosingFacts DEF Closers
    <3>2. CASE going.do # "close"
      <4>1. \/ going \in {Run, Throwing, Doing("next"), Doing("throwClose")}
            \/ InLoop /\ going = AtClose(Jump("break", Here))
        BY <3>2 DEF IInv, GoingInv, Closing
      <4>2. CASE going \in {Run, Throwing, Doing("next"), Doing("throwClose")}
        BY <2>4, <4>2 DEF Run, Throwing, Doing
      <4>3. CASE InLoop /\ going = AtClose(Jump("break", Here))
        <5>1. Here \in 1 .. MaxNest  BY <2>1, <4>3, NestAssumption DEF InLoop
        <5> QED  BY <4>3, <5>1 DEF AtClose, Completion
      <4> QED  BY <4>1, <4>2, <4>3
    <3> QED  BY <3>1, <3>2
  <2>6. outcome \in Completion  BY DEF IInv, GoingInv, Completion
  <2> QED  BY <2>1, <2>2, <2>5, <2>6 DEF TypeOK
<1> QED  BY Invariance, <1>1, PTL

\* Whatever way control takes, by jumps, completions held back by finally
\* blocks, exceptions: the pops the lowering emits (tryDepth_) and those of
\* ts_throw leave the handlers of the constructs around it.
THEOREM HandlersBalanced == ~AllJumps => (Spec => []HandlersMatch)
<1> SUFFICES ASSUME ~AllJumps PROVE Spec => []HandlersMatch
  OBVIOUS
<1>1. IInv => HandlersMatch
  <2> SUFFICES ASSUME IInv, outcome.how # "throw"
               PROVE  /\ Len(handlers) = 1 + Cardinality(ArmedHere)
                      /\ handlers[1].at = 0
                      /\ {handlers[i].at : i \in 2 .. Len(handlers)} = ArmedHere
    BY DEF HandlersMatch
  <2>1. Balanced(nest, handlers, Level)  BY DEF IInv, BalanceInv
  <2>2. Level \in Nat /\ Here \in Nat  BY Sizes
  <2>3. ArmedHere = {i \in 1 .. Level : Armed(nest[i])}
    BY <2>2 DEF ArmedHere, Level
  <2>4. Len(handlers) = 1 + Cardinality(ArmedHere)  BY <2>1, <2>3 DEF Balanced, Tried
  <2>5. handlers[1].at = 0  BY <2>1 DEF Balanced, Caller
  <2>6. \A i \in 2 .. Len(handlers) : handlers[i].at \in ArmedHere
    <3> HIDE DEF Level
    <3> QED  BY <2>1, <2>3 DEF Balanced
  <2>7. ASSUME NEW i \in ArmedHere
        PROVE  \E j \in 2 .. Len(handlers) : handlers[j].at = i
    <3>1. i \in 1 .. Level /\ Armed(nest[i])  BY <2>3
    <3>2. handlers[1 + Tried(nest, i)].at = i
      <4>1. handlers[1 + Tried(nest, i)] = [at |-> i, withs |-> Scoped(nest, i - 1)]
        <5> HIDE DEF Level
        <5> QED  BY <2>1, <3>1 DEF Balanced
      <4> QED  BY <4>1
    <3>3. 0 < Tried(nest, i) /\ Tried(nest, i) <= Tried(nest, Level)
      <4>1. Tried(nest, 0) < Tried(nest, i)  BY <2>2, <3>1, ArmedCounts
      <4>2. Tried(nest, i) <= Tried(nest, Level)
        <5> HIDE DEF Level
        <5> QED  BY <2>2, <3>1, TriedGrows
      <4>3. Tried(nest, 0) = 0  BY DepthStep
      <4> QED  BY <4>1, <4>2, <4>3
    <3>4. Tried(nest, i) \in Nat /\ Tried(nest, Level) \in Nat
      <4>1. i \in Nat  BY <2>2, <3>1
      <4> HIDE DEF Level
      <4> QED  BY <2>2, <4>1, DepthStep
    <3>5. 1 + Tried(nest, i) \in 2 .. Len(handlers)
      <4>1. Len(handlers) = 1 + Tried(nest, Level)  BY <2>1 DEF Balanced
      <4> QED  BY <3>3, <3>4, <4>1
    <3> QED  BY <3>2, <3>5
  <2> QED  BY <2>4, <2>5, <2>6, <2>7
<1> QED  BY Invariance, <1>1, PTL

\* The pops of with scopes (withDepth_) before a branch and on entering a catch
\* leave no scope behind, and take none off too early.
THEOREM ScopesBalanced == ~AllJumps => (Spec => []ScopesMatch)
<1> SUFFICES ASSUME ~AllJumps PROVE Spec => []ScopesMatch
  OBVIOUS
<1>1. IInv => ScopesMatch
  <2> SUFFICES ASSUME IInv PROVE ScopesMatch
    OBVIOUS
  <2>1. withs = WithDepth(Here)  BY DEF IInv, ScopesInv, Scoped, WithDepth
  <2>2. ASSUME outcome # Normal PROVE withs = 0
    <3>1. Here = 0  BY <2>2 DEF IInv, GoingInv, Here
    <3>2. Scoped(nest, 0) = 0  BY DepthStep
    <3> QED  BY <3>1, <3>2 DEF IInv, ScopesInv
  <2> QED  BY <2>1, <2>2 DEF ScopesMatch
<1> QED  BY Invariance, <1>1, PTL

------------------------------------------------------------------------------
(* Iterators.                                                                *)

\* What a step must not do.
ClosedWhenLeft ==
    \A k \in 1 .. Here :
        (Len(nest') < k /\ nest[k].iter = "open") =>
            \/ k = Here /\ going.do \in {"next", "closeBlock", "throwClose"}
            \/ k < Here /\ Top.part = "finally"

\* Only a for-of loop has an iterator.
LEMMA OpenIsForOf ==
  ASSUME IInv, NEW k \in 1 .. Here, nest[k].iter = "open"
  PROVE  nest[k].kind = "forof"
BY DEF IInv, NestInv, WellFormed, Fits, Here

\* How much is left by a jump.
LEMMA ArriveLeaves ==
  ASSUME IInv, NEW c, Targeted(c), Arrive(c)
  PROVE  /\ Len(nest') \in Nat /\ c.to - 1 <= Len(nest')
         /\ Len(nest') < c.to => nest[c.to].kind # "forof"
<1>1. nest \in Seq(Frame) /\ Here \in Nat /\ c.to \in 0 .. Here  BY Sizes, TargetedTo
<1>2. CASE c.how = "return"
  <2>1. nest' = <<>> /\ c.to = 0  BY <1>2, TargetedTo DEF Arrive
  <2> QED  BY <2>1
<1>3. CASE c.how # "return"
  <2>1. c.to \in 1 .. Here  BY <1>3, TargetedTo
  <2>2. c.to \in 0 .. Len(nest) /\ c.to - 1 \in 0 .. Len(nest)  BY <1>1, <2>1 DEF Here
  <2>3. Len(SubSeq(nest, 1, c.to)) = c.to /\ Len(SubSeq(nest, 1, c.to - 1)) = c.to - 1
    BY <1>1, <2>2, Prefix
  <2>4. \/ nest' = SubSeq(nest, 1, c.to)
        \/ nest' = SubSeq(nest, 1, c.to - 1) /\ nest[c.to].kind # "forof"
    BY <1>3 DEF Arrive, Outer
  <2> QED  BY <2>1, <2>2, <2>3, <2>4
<1> QED  BY <1>2, <1>3

\* An exception leaves only constructs that have no handler pushed.
LEMMA CatchLeaves ==
  ASSUME IInv, Catch, NEW k \in 1 .. Here, Len(nest') < k
  PROVE  ~Armed(nest[k])
<1>1. nest \in Seq(Frame) /\ Here \in Nat  BY Sizes
<1>2. PICK h : h = handlers[Len(handlers)]  OBVIOUS
<1>3. going = Throwing /\ outcome = Normal /\ Level = Here
  BY Running DEF Catch, IInv, GoingInv, Run, Doing, AtClose, Closing
<1>4. Balanced(nest, handlers, Here)  BY <1>3, Pushed
<1>5. \/ h.at = 0 /\ Tried(nest, Here) = 0
      \/ h.at \in 1 .. Here /\ \A i \in h.at + 1 .. Here : ~Armed(nest[i])
  <2> HIDE DEF Here
  <2> QED  BY <1>1, <1>2, <1>4, TopHandler
<1>6. CASE h.at = 0 /\ Tried(nest, Here) = 0
  <2>1. SUFFICES ASSUME Armed(nest[k]) PROVE FALSE  OBVIOUS
  <2>2. Tried(nest, 0) < Tried(nest, k)  BY <1>1, <2>1, ArmedCounts
  <2>3. Tried(nest, k) <= Tried(nest, Here)
    <3> HIDE DEF Here
    <3> QED  BY <1>1, TriedGrows
  <2>4. Tried(nest, 0) = 0 /\ Tried(nest, k) \in Nat
    <3>1. k \in Nat  BY <1>1
    <3> QED  BY <3>1, DepthStep
  <2> QED  BY <1>6, <2>2, <2>3, <2>4
<1>7. CASE h.at \in 1 .. Here /\ \A i \in h.at + 1 .. Here : ~Armed(nest[i])
  <2>1. PICK n : n = SubSeq(nest, 1, h.at)  OBVIOUS
  <2>2. n \in Seq(Frame) /\ Len(n) = h.at
    <3>1. h.at \in 0 .. Len(nest)  BY <1>1, <1>7 DEF Here
    <3> QED  BY <1>1, <2>1, <3>1, Prefix
  <2>3. \/ nest' = n \/ nest' = [n EXCEPT ![h.at].part = "catch"]
        \/ nest' = [n EXCEPT ![h.at].part = "finally", ![h.at].exc = TRUE]
    <3>1. h.at # 0  BY <1>1, <1>7
    <3> QED  BY <1>2, <2>1, <3>1 DEF Catch
  <2>4. Len(nest') = h.at  BY <2>2, <2>3
  <2>5. k \in h.at + 1 .. Here  BY <1>1, <1>7, <2>4
  <2> QED  BY <1>7, <2>5
<1> QED  BY <1>5, <1>6, <1>7

\* Which steps take constructs away, and that their iterators were closed.
LEMMA StepCloses == ~AllJumps /\ IInv /\ [Next]_vars => [ClosedWhenLeft]_vars
<1> SUFFICES ASSUME IInv, Next, NEW k \in 1 .. Here,
                    Len(nest') < k, nest[k].iter = "open"
             PROVE  \/ k = Here /\ going.do \in {"next", "closeBlock", "throwClose"}
                    \/ k < Here /\ Top.part = "finally"
  BY DEF ClosedWhenLeft
<1>1. nest[k].kind = "forof"  BY OpenIsForOf
<1>2. nest \in Seq(Frame) /\ Here \in Nat /\ Here > 0  BY Sizes
<1>3. \A i \in 0 .. Here : Len(SubSeq(nest, 1, i)) = i  BY <1>2, Prefix DEF Here
<1>4. ASSUME NEW f, NEW g \in 1 .. Here, nest' = Append(Outer(g), f) PROVE Len(nest') = g
  <2>1. g - 1 \in 0 .. Len(nest)  BY <1>2 DEF Here
  <2>2. Outer(g) \in Seq(Frame) /\ Len(Outer(g)) = g - 1  BY <1>2, <2>1, Prefix DEF Outer
  <2> QED  BY <1>4, <2>2
<1>5. CASE (\E kind \in Kinds : Open(kind)) \/ EndRound \/ Another \/ StatementThrows
           \/ (\E c \in Abrupt : Complete(c))
  <2>1. nest' = nest \/ \E f : nest' = Append(nest, f)
    BY <1>5 DEF Open, EndRound, Another, StatementThrows, Complete
  <2>2. Len(nest') >= Here  BY <1>2, <2>1 DEF Here
  <2> QED  BY <1>2, <2>2
<1>6. CASE CloseOne
  <2>1. PICK i : nest' = [nest EXCEPT ![i].iter = "closed"]  BY <1>6 DEF CloseOne
  <2>2. Len(nest') = Len(nest)  BY <1>2, <2>1
  <2> QED  BY <1>2, <2>2 DEF Here
<1>7. CASE EndBlock \/ EndTryOrCatch
  <2>1. Top.kind # "forof" /\ (nest' = Outer(Here) \/ \E f : nest' = Append(Outer(Here), f))
    BY <1>7 DEF EndBlock, EndTryOrCatch, Tries
  <2>2. k # Here  BY <1>1, <2>1 DEF Top
  <2>3. Len(nest') >= Here - 1  BY <1>2, <1>3, <1>4, <2>1 DEF Outer
  <2> QED  BY <1>2, <2>2, <2>3
<1>8. CASE Exhausted \/ NextThrows \/ CloseBlock \/ ThrowClose
  <2>1. nest' = Outer(Here) /\ going.do \in {"next", "closeBlock", "throwClose"}
    BY <1>8 DEF Exhausted, NextThrows, CloseBlock, ThrowClose
  <2>2. Len(nest') = Here - 1  BY <1>2, <1>3, <2>1 DEF Outer
  <2> QED  BY <1>2, <2>1, <2>2
<1>9. CASE Dispatch
  <2>1. Top.part = "finally" /\ Fits(Top, Outer(Here))  BY <1>2, <1>9, TopFacts DEF Dispatch
  <2>2. Top.kind # "forof"  BY <2>1 DEF Fits, HasFinally
  <2> QED  BY <1>1, <1>2, <2>1, <2>2 DEF Top
<1>10. CASE Depart
  <2>1. PICK c : c = going.c  OBVIOUS
  <2>2. /\ c \in Abrupt /\ Targeted(c) /\ going.left = {}
        /\ \A i \in Closers(c) \ going.left : nest[i].iter # "open"
        /\ IF Crossed(c) # {} THEN Route(c) ELSE Direct(c)
    BY <1>10, <2>1, ClosingFacts DEF Depart
  <2>3. k \notin Closers(c)  BY <2>2
  <2>4. c.to \in 0 .. Here  BY <2>2, TargetedTo
  <2>5. k <= c.to \/ \E f \in Finallys(Here) : ~(f < k)
    BY <1>1, <1>2, <2>3, <2>4 DEF Closers
  <2>6. CASE Crossed(c) # {}
    <3>1. PICK g : g = Max(Finallys(Here))  OBVIOUS
    <3>2. g \in 1 .. Here /\ \A f \in Finallys(Here) : f <= g
      BY <2>6, <3>1, InnermostFinally DEF Crossed
    <3>3. c.to < g
      <4>1. PICK f \in Finallys(Here) : f > c.to  BY <2>6 DEF Crossed
      <4>2. f \in 1 .. Here  BY <4>1 DEF Finallys
      <4> QED  BY <2>4, <3>2, <4>1, <4>2
    <3>4. Len(nest') = g  BY <1>4, <2>2, <2>6, <3>1, <3>2 DEF Route, EnterFinally
    <3>5. \A f \in Finallys(Here) : f \in 1 .. Here  BY DEF Finallys
    <3> QED  BY <1>2, <2>4, <2>5, <3>2, <3>3, <3>4, <3>5
  <2>7. CASE Crossed(c) = {}
    <3>1. /\ Len(nest') \in Nat /\ c.to - 1 <= Len(nest')
          /\ Len(nest') < c.to => nest[c.to].kind # "forof"
      BY <2>2, <2>7, ArriveLeaves DEF Direct
    <3>2. \A f \in Finallys(Here) : f \in 1 .. Here /\ ~(f > c.to)
      BY <2>7 DEF Crossed, Finallys
    <3>3. k <= c.to  BY <1>2, <2>4, <2>5, <3>2
    <3>4. k = c.to  BY <1>2, <2>4, <3>1, <3>3
    <3> QED  BY <1>1, <3>1, <3>4
  <2> QED  BY <2>6, <2>7
<1>11. CASE Catch
  <2>1. Armed(nest[k])  BY <1>1 DEF Armed
  <2> QED  BY <1>11, <2>1, CatchLeaves
<1> QED  BY <1>5, <1>6, <1>7, <1>8, <1>9, <1>10, <1>11 DEF Next

\* No step leaves a for-of loop with its iterator open, but for the completion
\* that a finally block inside the loop has held back.
THEOREM NoIteratorLeftOpen == ~AllJumps => (Spec => IteratorsClosed)
<1> SUFFICES ASSUME ~AllJumps PROVE Spec => IteratorsClosed
  OBVIOUS
<1>1. IInv /\ [Next]_vars => [ClosedWhenLeft]_vars  BY StepCloses
<1>2. Spec => [][ClosedWhenLeft]_vars  BY Invariance, <1>1, PTL DEF Spec
<1> QED  BY <1>2 DEF IteratorsClosed, ClosedWhenLeft
------------------------------------------------------------------------------
(* Finally blocks.                                                           *)

\* The one way past a finally block: an exception of the catch block.
ThrownInCatch(k) == nest[k].part = "catch" /\ going.do = "throw"
PassedByCatch ==
    \A k \in 1 .. Here :
        HasFinally(nest[k].kind) /\ nest[k].part # "finally" /\ Len(nest') < k
            => ThrownInCatch(k)

\* A jump stops at the first finally block between it and its target.
LEMMA JumpPasses ==
  ASSUME IInv, NEW c, Targeted(c), Arrive(c), NEW k \in 1 .. Here,
         HasFinally(nest[k].kind), Len(nest') < k
  PROVE  k > c.to
<1>1. /\ c.to \in 0 .. Here /\ Here \in Nat
      /\ c.how # "return" => Takes(nest[c.to].kind, c.how)
      /\ c.how = "return" => c.to = 0
  BY Sizes, TargetedTo
<1>2. Len(nest') \in Nat /\ c.to - 1 <= Len(nest')  BY ArriveLeaves
<1>3. k # c.to
  <2>1. SUFFICES ASSUME k = c.to PROVE FALSE  OBVIOUS
  <2>2. Takes(nest[k].kind, c.how)  BY <1>1, <2>1
  <2> QED  BY <2>2 DEF Takes, Loops, HasFinally
<1> QED  BY <1>1, <1>2, <1>3

\* Which steps take constructs away, and that their finally blocks run.
LEMMA StepPasses == IInv /\ [Next]_vars => [PassedByCatch]_vars
<1> SUFFICES ASSUME IInv, Next, NEW k \in 1 .. Here,
                    HasFinally(nest[k].kind), nest[k].part # "finally", Len(nest') < k
             PROVE  ThrownInCatch(k)
  BY DEF PassedByCatch
<1>1. nest \in Seq(Frame) /\ Here \in Nat /\ Here > 0  BY Sizes
<1>2. \A i \in 0 .. Here : Len(SubSeq(nest, 1, i)) = i  BY <1>1, Prefix DEF Here
<1>3. ASSUME NEW f, NEW g \in 1 .. Here, nest' = Append(Outer(g), f) PROVE Len(nest') = g
  <2>1. g - 1 \in 0 .. Len(nest)  BY <1>1 DEF Here
  <2>2. Outer(g) \in Seq(Frame) /\ Len(Outer(g)) = g - 1  BY <1>1, <2>1, Prefix DEF Outer
  <2> QED  BY <1>3, <2>2
<1>4. k = Here => HasFinally(Top.kind) /\ Top.part # "finally"  BY DEF Top
<1>5. CASE (\E kind \in Kinds : Open(kind)) \/ EndRound \/ Another \/ StatementThrows
           \/ (\E c \in Abrupt : Complete(c))
  <2>1. nest' = nest \/ \E f : nest' = Append(nest, f)
    BY <1>5 DEF Open, EndRound, Another, StatementThrows, Complete
  <2>2. Len(nest') >= Here  BY <1>1, <2>1 DEF Here
  <2> QED  BY <1>1, <2>2
<1>6. CASE CloseOne
  <2>1. PICK i : nest' = [nest EXCEPT ![i].iter = "closed"]  BY <1>6 DEF CloseOne
  <2>2. Len(nest') = Len(nest)  BY <1>1, <2>1
  <2> QED  BY <1>1, <2>2 DEF Here
<1>7. CASE EndBlock \/ EndTryOrCatch
  <2>1. \/ ~HasFinally(Top.kind) /\ nest' = Outer(Here)
        \/ \E f : nest' = Append(Outer(Here), f)
    BY <1>7 DEF EndBlock, EndTryOrCatch, HasFinally
  <2>2. CASE ~HasFinally(Top.kind) /\ nest' = Outer(Here)
    <3>1. Len(nest') = Here - 1  BY <1>1, <1>2, <2>2 DEF Outer
    <3> QED  BY <1>1, <1>4, <2>2, <3>1
  <2>3. CASE \E f : nest' = Append(Outer(Here), f)
    <3>1. Len(nest') = Here  BY <1>1, <1>3, <2>3
    <3> QED  BY <1>1, <3>1
  <2> QED  BY <2>1, <2>2, <2>3
<1>8. CASE Exhausted \/ NextThrows \/ CloseBlock \/ ThrowClose
  <2>1. nest' = Outer(Here) /\ going.do \in {"next", "closeBlock", "throwClose"}
    BY <1>8 DEF Exhausted, NextThrows, CloseBlock, ThrowClose
  <2>2. Len(nest') = Here - 1  BY <1>1, <1>2, <2>1 DEF Outer
  <2>3. Top.kind = "forof"
    BY <2>1 DEF IInv, GoingInv, InLoop, Run, Throwing, Doing, AtClose, Closing
  <2> QED  BY <1>1, <1>4, <2>2, <2>3 DEF HasFinally
<1>9. CASE Dispatch
  <2>1. Here > 0 /\ Top.part = "finally"  BY <1>1, <1>9 DEF Dispatch
  <2>2. k \in 1 .. Here - 1 /\ k \in Finallys(Here - 1)
    BY <1>1, <1>4, <2>1 DEF Finallys
  <2> PICK c : c = [how |-> Top.disc.how, to |-> Top.disc.to,
                    val |-> IF Top.disc.how = "return" THEN Top.val ELSE Undefined]
    OBVIOUS
  <2> PICK g : g = Innermost(ReRaise(Here, c))  OBVIOUS
  <2>3. CASE c.how = "normal"
    <3>1. nest' = Outer(Here)  BY <1>9, <2>3 DEF Dispatch
    <3>2. Len(nest') = Here - 1  BY <1>1, <1>2, <3>1 DEF Outer
    <3> QED  BY <1>1, <2>2, <3>2
  <2>4. CASE c.how # "normal"
    <3>1. Targeted(c) /\ c.to \in 0 .. Here  BY <2>1, <2>4, PendingTargeted, TargetedTo
    <3>2. /\ ReRaise(Here, c) \cup {0} \in SUBSET (0 .. Here)
          /\ ReRaise(Here, c) \subseteq Finallys(Here - 1)
      BY <1>1 DEF ReRaise, Finallys
    <3>3. /\ g \in ReRaise(Here, c) \cup {0}
          /\ \A f \in ReRaise(Here, c) \cup {0} : f <= g
      BY <1>1, <3>2, MaxOf DEF Innermost
    <3>4. CASE g = 0
      <4>1. Arrive(c)  BY <1>9, <2>4, <3>4 DEF Dispatch
      <4>2. k > c.to  BY <3>1, <4>1, JumpPasses
      <4>3. k \in ReRaise(Here, c)  BY <2>2, <4>2 DEF ReRaise
      <4>4. k <= g  BY <3>3, <4>3
      <4> QED  BY <1>1, <3>4, <4>4
    <3>5. CASE g # 0
      <4>1. g \in Finallys(Here - 1) /\ g > c.to  BY <3>3, <3>5 DEF ReRaise
      <4>2. g \in 1 .. Here  BY <1>1, <4>1 DEF Finallys
      <4>3. \E f : nest' = Append(Outer(g), f)
        BY <1>9, <2>4, <3>5 DEF Dispatch, EnterFinally
      <4>4. Len(nest') = g  BY <1>3, <4>2, <4>3
      <4>5. k > c.to  BY <1>1, <2>2, <3>1, <4>1, <4>2, <4>4
      <4>6. k \in ReRaise(Here, c)  BY <2>2, <4>5 DEF ReRaise
      <4>7. k <= g  BY <3>3, <4>6
      <4> QED  BY <1>1, <4>2, <4>4, <4>7
    <3> QED  BY <3>4, <3>5
  <2> QED  BY <2>3, <2>4
<1>10. CASE Depart
  <2>1. PICK c : c = going.c  OBVIOUS
  <2>2. Targeted(c) /\ IF Crossed(c) # {} THEN Route(c) ELSE Direct(c)
    BY <1>10, <2>1, ClosingFacts DEF Depart
  <2>3. k \in Finallys(Here) /\ c.to \in 0 .. Here  BY <2>2, TargetedTo DEF Finallys
  <2>4. CASE Crossed(c) # {}
    <3>1. PICK g : g = Max(Finallys(Here))  OBVIOUS
    <3>2. g \in 1 .. Here /\ k <= g  BY <2>3, <3>1, InnermostFinally
    <3>3. Len(nest') = g  BY <1>3, <2>2, <2>4, <3>1, <3>2 DEF Route, EnterFinally
    <3> QED  BY <1>1, <3>2, <3>3
  <2>5. CASE Crossed(c) = {}
    <3>1. k > c.to  BY <2>2, <2>5, JumpPasses DEF Direct
    <3> QED  BY <2>3, <2>5, <3>1 DEF Crossed
  <2> QED  BY <2>4, <2>5
<1>11. CASE Catch
  <2>1. ~Armed(nest[k]) /\ going.do = "throw"  BY <1>11, CatchLeaves DEF Catch
  <2>2. nest[k].part \in {"body", "catch", "finally"}
    <3>1. nest[k] \in Frame  BY <1>1, ElementOfSeq DEF Here
    <3> QED  BY <3>1 DEF Frame
  <2>3. nest[k].part # "body"
    <3>1. nest[k].kind \in Tries  BY DEF HasFinally, Tries
    <3> QED  BY <2>1, <3>1 DEF Armed
  <2> QED  BY <2>1, <2>2, <2>3 DEF ThrownInCatch
<1>12. Next  OBVIOUS
<1> QED  BY ONLY <1>5, <1>6, <1>7, <1>8, <1>9, <1>10, <1>11, <1>12 DEF Next

\* A try or catch block is left past its finally block by an exception of the
\* catch block only: no jump, no return and no exception of the try block is.
THEOREM OnlyCatchPasses == ~AllJumps => (Spec => [][PassedByCatch]_vars)
<1> SUFFICES ASSUME ~AllJumps PROVE Spec => [][PassedByCatch]_vars
  OBVIOUS
<1>1. IInv /\ [Next]_vars => [PassedByCatch]_vars  BY StepPasses
<1> QED  BY Invariance, <1>1, PTL DEF Spec
=============================================================================

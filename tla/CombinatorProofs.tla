--------------------------- MODULE CombinatorProofs ---------------------------
(***************************************************************************)
(* Proofs about Combinator, for any number of elements, any set of         *)
(* thenables and values, and every path, as long as user code has not      *)
(* replaced Promise.resolve.                                               *)
(***************************************************************************)
EXTENDS Combinator, FiniteSetTheorems, TLAPS

\* The iteration's own hold on the count.
Held == IF pc = "returned" THEN 0 ELSE 1

\* The count is exact until the iteration fails, and from then on too high by
\* at least the hold that is never given up.
CountInv ==
  kind # "race" =>
    /\ pc \in {"iterate", "then", "returned"} =>
         remaining = Held + Cardinality(Unanswered)
    /\ pc \in {"closing", "failed"} => remaining >= 1 + Cardinality(Unanswered)
    /\ FinishExact

\* What has no flag is called once because a promise runs one reaction; nothing
\* counts in a race.
CalledInv == /\ path # "spec" => called \subseteq ran
             /\ kind = "race" => called = {} /\ finishes = 0

\* The builtin path hands everything over at once.
PathInv == /\ path = "native" => pc \in {"iterate", "returned", "failed"}
           /\ path = "native" /\ pc = "iterate" => handed = 0
           /\ pc = "failed" => outcome # "pending"

\* Results are stored by element, or in the order they come.
ByOrder == kind = "any" /\ path # "spec"
ResultInv == Filled = IF ByOrder THEN 1..Cardinality(called) ELSE called

IInv == TypeOK /\ CountInv /\ CalledInv /\ PathInv /\ ResultInv

------------------------------------------------------------------------------
(* Cardinalities.                                                            *)

LEMMA Finite ==
  ASSUME NEW n \in Nat, NEW S \in SUBSET (1..n)
  PROVE  /\ IsFiniteSet(S) /\ Cardinality(S) \in Nat
         /\ IsFiniteSet((1..n) \ S) /\ Cardinality((1..n) \ S) \in Nat
         /\ Cardinality((1..n) \ S) = 0 <=> S = 1..n
         /\ Cardinality(S) = n <=> S = 1..n
<1>1. IsFiniteSet(1..n) /\ Cardinality(1..n) = n
  BY FS_Interval
<1>2. IsFiniteSet(S) /\ IsFiniteSet((1..n) \ S)
  BY <1>1, FS_Subset
<1>3. Cardinality(S) \in Nat /\ Cardinality((1..n) \ S) \in Nat
  BY <1>2, FS_CardinalityType
<1>4. Cardinality((1..n) \ S) = 0 <=> (1..n) \ S = {}
  BY <1>2, FS_EmptySet
<1>5. Cardinality(S) = n => S = 1..n
  BY <1>1, FS_Subset
<1> QED BY <1>1, <1>2, <1>3, <1>4, <1>5

LEMMA OneMore ==
  ASSUME NEW n \in Nat, NEW S \in SUBSET (1..n)
  PROVE  Cardinality((1..(n + 1)) \ S) = Cardinality((1..n) \ S) + 1
<1>1. (1..(n + 1)) \ S = ((1..n) \ S) \cup {n + 1}
  OBVIOUS
<1> DEFINE A == (1..n) \ S
<1>2. n + 1 \notin A
  OBVIOUS
<1>3. IsFiniteSet(A)
  BY Finite
<1> HIDE DEF A
<1>4. Cardinality(A \cup {n + 1}) = Cardinality(A) + 1
  BY <1>2, <1>3, FS_AddElement
<1> QED BY <1>1, <1>4 DEF A

LEMMA OneLess ==
  ASSUME NEW n \in Nat, NEW S \in SUBSET (1..n), NEW e \in (1..n) \ S
  PROVE  /\ Cardinality((1..n) \ (S \cup {e})) = Cardinality((1..n) \ S) - 1
         /\ Cardinality(S \cup {e}) = Cardinality(S) + 1
         /\ Cardinality(S) + 1 \in 1..n
<1>1. (1..n) \ (S \cup {e}) = ((1..n) \ S) \ {e}
  OBVIOUS
<1>2. Cardinality(S \cup {e}) = Cardinality(S) + 1
  BY Finite, FS_AddElement
<1>3. S \cup {e} \in SUBSET (1..n)
  OBVIOUS
<1>4. Cardinality(S \cup {e}) <= n
  <2>1. IsFiniteSet(1..n) /\ Cardinality(1..n) = n
    BY FS_Interval
  <2> QED BY <1>3, <2>1, FS_Subset
<1>5. Cardinality((1..n) \ (S \cup {e})) = Cardinality((1..n) \ S) - 1
  <2>1. IsFiniteSet((1..n) \ S) /\ e \in (1..n) \ S
    BY Finite
  <2>2. Cardinality(((1..n) \ S) \ {e}) = Cardinality((1..n) \ S) - 1
    BY <2>1, FS_RemoveElement
  <2> QED BY <1>1, <2>2
<1>6. Cardinality(S) \in Nat
  BY Finite
<1> QED BY <1>2, <1>4, <1>5, <1>6

------------------------------------------------------------------------------
(* Facts of a step.                                                          *)

LEMMA TypeFacts ==
  ASSUME IInv
  PROVE  /\ N \in Nat /\ handed \in Nat /\ handed <= N
         /\ called \in SUBSET (1..handed)
<1>1. N \in Nat
  BY CombinatorAssumption
<1>2. handed \in 0..N /\ called \subseteq 1..handed
  BY DEF IInv, TypeOK
<1> QED BY <1>1, <1>2

\* Counting the hold down, or n elements at once, finishes when none is left.
LEMMA CountedToZero ==
  ASSUME NEW r \in Nat, CountedTo(r), finishes = 0
  PROVE  /\ remaining' = r
         /\ finishes' = IF r = 0 THEN 1 ELSE 0
  BY DEF CountedTo

\* A function that counts and has an effect is the element's first.
LEMMA FirstCall ==
  ASSUME IInv, ~OverriddenResolve, NEW e \in Elem, MayCall(e),
         ~(path = "spec" /\ e \in called)
  PROVE  e \in (1..handed) \ called
  BY DEF IInv, TypeOK, CalledInv, MayCall, Unruly, Elem

------------------------------------------------------------------------------
(* The invariant.                                                            *)

LEMMA InitInv == Init => IInv
<1> SUFFICES ASSUME Init PROVE IInv
  OBVIOUS
<1>1. handed = 0 /\ called = {} /\ Unanswered = {} /\ Filled = {}
  BY DEF Init, Unanswered, Filled, Elem
<1>2. Cardinality({}) = 0
  BY FS_EmptySet
<1>3. TypeOK
  BY <1>1, CombinatorAssumption DEF Init, TypeOK, Elem
<1>4. CountInv
  BY <1>1, <1>2 DEF Init, CountInv, Held, FinishExact
<1>5. CalledInv /\ PathInv
  BY <1>1 DEF Init, CalledInv, PathInv
<1>6. ResultInv
  BY <1>1, <1>2 DEF ResultInv
<1> QED BY <1>3, <1>4, <1>5, <1>6 DEF IInv

\* The iteration: nothing is answered, at most one element is handed over.
LEMMA IterationInv ==
  ASSUME IInv,
         \/ HandOver \/ ThenReturns \/ ElementThrows \/ NextThrowsInDrain
         \/ IteratorFails \/ Exhausted
  PROVE  IInv'
<1> DEFINE U == Cardinality(Unanswered)
<1>0. /\ handed \in Nat /\ called \in SUBSET (1..handed) /\ N \in Nat
      /\ U \in Nat /\ (U = 0 <=> Unanswered = {})
  <2>1. handed \in Nat /\ called \in SUBSET (1..handed) /\ N \in Nat
    BY TypeFacts
  <2>2. U \in Nat
    BY <2>1, Finite DEF Unanswered
  <2>3. IsFiniteSet(Unanswered)
    BY <2>1, Finite DEF Unanswered
  <2>4. U = 0 <=> Unanswered = {}
    BY <2>3, FS_EmptySet
  <2> QED BY <2>1, <2>2, <2>4
<1>1. CASE HandOver
  <2>1. handed' = handed + 1 /\ called' = called
    BY <1>1 DEF HandOver
  <2>2. Cardinality(Unanswered') = U + 1
    BY <1>0, <2>1, OneMore DEF Unanswered
  <2>3. TypeOK'
    BY <1>0, <1>1 DEF IInv, TypeOK, HandOver, Hold, Elem
  <2>4. Unanswered' # {}
    BY <1>0, <2>1 DEF Unanswered
  <2>5. CountInv'
    BY <1>0, <1>1, <2>2, <2>4
       DEF IInv, TypeOK, CountInv, HandOver, Hold, Held, FinishExact
  <2>6. CalledInv' /\ PathInv'
    BY <1>1 DEF IInv, CalledInv, PathInv, HandOver
  <2>7. ResultInv'
    BY <1>1 DEF IInv, ResultInv, HandOver, Filled, ByOrder
  <2> QED BY <2>3, <2>5, <2>6, <2>7 DEF IInv
<1>2. CASE ThenReturns \/ ElementThrows \/ NextThrowsInDrain \/ IteratorFails
  <2> USE <1>2 DEF ThenReturns, ElementThrows, NextThrowsInDrain, IteratorFails,
                   Fail
  <2>1. UNCHANGED <<kind, path, called, ran, results, finishes, handed>>
    OBVIOUS
  <2>2. TypeOK'
    <3>1. remaining' \in Int
      BY DEF IInv, TypeOK
    <3>2. pc' \in {"iterate", "then", "closing", "failed", "returned"}
      OBVIOUS
    <3>3. outcome' \in {"pending", "joined", "short"}
      BY DEF IInv, TypeOK, SettleWith
    <3> HIDE <1>2
    <3> QED BY <2>1, <3>1, <3>2, <3>3 DEF IInv, TypeOK
  <2>3. Unanswered' = Unanswered /\ Filled' = Filled /\ ByOrder' = ByOrder
    BY <2>1 DEF Unanswered, Filled, ByOrder
  <2>4. CountInv'
    BY <1>0, <2>1, <2>3 DEF IInv, TypeOK, CountInv, Held, FinishExact
  <2>5. CalledInv' /\ PathInv'
    BY <2>1 DEF IInv, TypeOK, CalledInv, PathInv, SettleWith
  <2>6. ResultInv'
    BY <2>1, <2>3 DEF IInv, ResultInv
  <2> QED BY <2>2, <2>4, <2>5, <2>6 DEF IInv
<1>3. CASE Exhausted
  <2>1. UNCHANGED <<kind, path, called, ran, results, handed>> /\ pc' = "returned"
    BY <1>3 DEF Exhausted
  <2>2. Unanswered' = Unanswered /\ Filled' = Filled /\ ByOrder' = ByOrder
    BY <2>1 DEF Unanswered, Filled, ByOrder
  <2>3. kind = "race" => UNCHANGED <<remaining, finishes, outcome>>
    BY <1>3 DEF Exhausted
  <2>4. kind # "race" => /\ remaining' = U
                         /\ finishes' = IF U = 0 THEN 1 ELSE 0
    <3> SUFFICES ASSUME kind # "race"
                 PROVE  remaining' = U /\ finishes' = IF U = 0 THEN 1 ELSE 0
      OBVIOUS
    <3>1. CountedTo(remaining - 1) /\ finishes = 0 /\ remaining = 1 + U
      BY <1>3 DEF Exhausted, IInv, CountInv, FinishExact, Held
    <3>2. CountedTo(U)
      BY <1>0, <3>1 DEF CountedTo
    <3> QED BY <1>0, <3>1, <3>2, CountedToZero
  <2>5. TypeOK'
    BY <1>0, <1>3, <2>1, <2>3, <2>4
       DEF IInv, TypeOK, Exhausted, CountedTo, SettleWith
  <2>6. CountInv'
    BY <1>0, <2>1, <2>2, <2>4 DEF CountInv, FinishExact, Held
  <2>7. CalledInv' /\ PathInv'
    BY <2>1, <2>3, <1>3 DEF IInv, CalledInv, PathInv, Exhausted
  <2>8. ResultInv'
    BY <2>1, <2>2 DEF IInv, ResultInv
  <2> QED BY <2>5, <2>6, <2>7, <2>8 DEF IInv
<1> QED BY <1>1, <1>2, <1>3

LEMMA NativeInv ==
  ASSUME IInv, NEW n \in 0..N, NativeCall(n)
  PROVE  IInv'
<1>1. /\ UNCHANGED <<kind, path, called, ran, results>>
      /\ pc' = "returned" /\ handed' = n /\ path = "native" /\ handed = 0
  BY DEF NativeCall, IInv, PathInv
<1>2. called = {} /\ N \in Nat /\ n \in Nat
  BY <1>1, CombinatorAssumption DEF IInv, TypeOK
<1>3. Unanswered' = 1..n /\ Filled' = Filled /\ ByOrder' = ByOrder
  BY <1>1, <1>2 DEF Unanswered, Filled, ByOrder
<1>4. Cardinality(Unanswered') = n /\ (Unanswered' = {} <=> n = 0)
  BY <1>2, <1>3, FS_Interval
<1>5. kind = "race" => UNCHANGED <<remaining, finishes, outcome>>
  BY DEF NativeCall
<1>6. kind # "race" => /\ remaining' = n
                       /\ finishes' = IF n = 0 THEN 1 ELSE 0
  BY <1>2, CountedToZero DEF NativeCall, IInv, CountInv, FinishExact
<1>7. TypeOK'
  BY <1>1, <1>2, <1>5, <1>6 DEF IInv, TypeOK, NativeCall, CountedTo, SettleWith
<1>8. CountInv'
  BY <1>1, <1>2, <1>4, <1>6 DEF CountInv, FinishExact, Held
<1>9. CalledInv' /\ PathInv'
  BY <1>1, <1>5 DEF IInv, CalledInv, PathInv
<1>10. ResultInv'
  BY <1>1, <1>3 DEF IInv, ResultInv
<1> QED BY <1>7, <1>8, <1>9, <1>10 DEF IInv

\* What an element's first counting call changes.
LEMMA CountedCall ==
  ASSUME IInv, ~OverriddenResolve, NEW e \in Elem, NEW fn \in {"fulfil", "reject"},
         NEW v \in Val, Call(e, fn, v), Counted(fn), ~(path = "spec" /\ e \in called)
  PROVE  /\ kind # "race"
         /\ e \in (1..handed) \ called
         /\ called' = called \cup {e}
         /\ CountedTo(remaining - 1)
         /\ Cardinality(Unanswered') = Cardinality(Unanswered) - 1
         /\ Cardinality(Unanswered) \in Nat \ {0}
         /\ Slot(e) \in Elem /\ Slot(e) \notin Filled
         /\ Filled' = Filled \cup {Slot(e)}
         /\ ResultInv'
<1>1. kind # "race" /\ UNCHANGED <<kind, path, pc, handed>>
  BY DEF Counted, Call
<1>2. e \in (1..handed) \ called
  BY FirstCall DEF Call
<1>3. /\ called' = called \cup {e} /\ CountedTo(remaining - 1)
      /\ Store(e, <<fn, v>>)
  BY DEF Call, ElementFunction
<1>4. handed \in Nat /\ called \in SUBSET (1..handed) /\ handed <= N /\ N \in Nat
  BY TypeFacts
<1>5. /\ Cardinality(Unanswered') = Cardinality(Unanswered) - 1
      /\ Cardinality(called') = Cardinality(called) + 1
      /\ Cardinality(called) + 1 \in 1..handed
  BY <1>1, <1>2, <1>3, <1>4, OneLess DEF Unanswered
<1>6. /\ Cardinality(Unanswered) \in Nat /\ Cardinality(called) \in Nat
      /\ Cardinality(Unanswered) # 0
  BY <1>2, <1>4, Finite DEF Unanswered
<1>7. Slot(e) = IF ByOrder THEN Cardinality(called) + 1 ELSE e
  <2>1. CASE ByOrder
    <3>1. Filled = 1..Cardinality(called)
      BY <2>1 DEF IInv, ResultInv
    <3>2. Cardinality(Filled) = Cardinality(called)
      BY <1>6, <3>1, FS_Interval
    <3> QED BY <2>1, <3>2 DEF Slot, ByOrder
  <2>2. CASE ~ByOrder
    BY <2>2 DEF Slot, ByOrder
  <2> QED BY <2>1, <2>2
<1>8. Slot(e) \in Elem /\ Slot(e) \notin Filled
  BY <1>2, <1>4, <1>5, <1>6, <1>7 DEF IInv, ResultInv, Elem
<1>9. Filled' = Filled \cup {Slot(e)}
  <2>1. results' = [x \in Elem |-> IF x = Slot(e) THEN <<fn, v>> ELSE results[x]]
    BY <1>3 DEF Store
  <2>2. <<fn, v>> # None
    BY CombinatorAssumption
  <2> QED BY <1>8, <2>1, <2>2 DEF Filled
<1>10. ResultInv'
  <2>1. ByOrder' = ByOrder
    BY <1>1 DEF ByOrder
  <2>2. CASE ByOrder
    <3>1. 1..(Cardinality(called) + 1) =
             1..Cardinality(called) \cup {Cardinality(called) + 1}
      BY <1>6
    <3> QED BY <1>5, <1>7, <1>9, <2>1, <2>2, <3>1 DEF IInv, ResultInv
  <2>3. CASE ~ByOrder
    BY <1>3, <1>7, <1>9, <2>1, <2>3 DEF IInv, ResultInv
  <2> QED BY <2>2, <2>3
<1> QED BY <1>1, <1>2, <1>3, <1>5, <1>6, <1>8, <1>9, <1>10

\* A call of an element's function.
LEMMA CallInv ==
  ASSUME IInv, ~OverriddenResolve, NEW e \in Elem, NEW fn \in {"fulfil", "reject"},
         NEW v \in Val, Call(e, fn, v)
  PROVE  IInv'
<1>0. /\ UNCHANGED <<kind, path, pc, handed>>
      /\ e \in 1..handed
      /\ ran' = ran \/ ran' = ran \cup {e}
      /\ remaining >= 0
  BY TypeFacts DEF Call, MayCall, Elem
<1>1. CASE Counted(fn) /\ ~(path = "spec" /\ e \in called)
  <2>1. /\ kind # "race" /\ e \in (1..handed) \ called
        /\ called' = called \cup {e} /\ CountedTo(remaining - 1)
        /\ Cardinality(Unanswered') = Cardinality(Unanswered) - 1
        /\ Cardinality(Unanswered) \in Nat \ {0}
    BY <1>1, CountedCall
  <2>2. remaining \in Int /\ remaining >= 1 /\ finishes = 0
    <3>1. Unanswered # {}
      BY <2>1 DEF Unanswered
    <3> QED BY <2>1, <3>1 DEF IInv, TypeOK, CountInv, FinishExact, Held
  <2>3. remaining' = remaining - 1 /\ finishes' = IF remaining = 1 THEN 1 ELSE 0
    BY <2>1, <2>2, CountedToZero
  <2>4. TypeOK'
    <3>1. remaining' \in Int /\ finishes' \in Nat
      BY <2>2, <2>3
    <3>2. called' \subseteq 1..handed /\ ran' \subseteq 1..handed
      BY <1>0, <2>1 DEF IInv, TypeOK
    <3>3. results' \in [Elem -> {None} \cup ({"fulfil", "reject"} \X Val)]
      BY <1>1 DEF IInv, TypeOK, Call, ElementFunction, Store
    <3>4. outcome' \in {"pending", "joined", "short"}
      BY <2>1 DEF IInv, TypeOK, CountedTo, SettleWith
    <3> QED BY <1>0, <3>1, <3>2, <3>3, <3>4 DEF IInv, TypeOK
  <2>5. CountInv'
    <3>1. Unanswered' = {} <=> Cardinality(Unanswered') = 0
      <4>1. handed \in Nat /\ called' \in SUBSET (1..handed)
        BY <1>0, <2>1, TypeFacts
      <4>2. IsFiniteSet((1..handed) \ called')
        BY <4>1, Finite
      <4> QED BY <1>0, <4>2, FS_EmptySet DEF Unanswered
    <3>2. pc \in {"iterate", "then", "returned"} =>
            remaining' = Held + Cardinality(Unanswered')
      BY <2>1, <2>2, <2>3 DEF IInv, CountInv, Held
    <3>3. pc \in {"closing", "failed"} =>
            remaining' >= 1 + Cardinality(Unanswered')
      BY <2>1, <2>2, <2>3 DEF IInv, CountInv
    <3>4. FinishExact'
      BY <1>0, <2>1, <2>2, <2>3, <3>1 DEF IInv, TypeOK, CountInv, Held, FinishExact
    <3> QED BY <1>0, <3>2, <3>3, <3>4 DEF CountInv, Held
  <2>6. CalledInv'
    BY <1>0, <2>1 DEF IInv, CalledInv, Call, MayCall, Unruly
  <2>7. PathInv'
    BY <1>0, <2>1 DEF IInv, PathInv, CountedTo, SettleWith
  <2>8. ResultInv'
    BY <1>1, CountedCall
  <2> QED BY <2>4, <2>5, <2>6, <2>7, <2>8 DEF IInv
<1>2. CASE ~(Counted(fn) /\ ~(path = "spec" /\ e \in called))
  <2>1. UNCHANGED <<remaining, called, results, finishes>>
    BY <1>2 DEF Call, ElementFunction, DirectFunction
  <2>2. outcome' \in {"pending", "joined", "short"}
        /\ (outcome # "pending" => outcome' = outcome)
    BY <1>2 DEF IInv, TypeOK, Call, ElementFunction, DirectFunction, SettleWith
  <2>3. Unanswered' = Unanswered /\ Filled' = Filled /\ ByOrder' = ByOrder
    BY <1>0, <2>1 DEF Unanswered, Filled, ByOrder
  <2>4. TypeOK'
    BY <1>0, <2>1, <2>2 DEF IInv, TypeOK
  <2>5. CountInv'
    BY <1>0, <2>1, <2>3 DEF IInv, CountInv, Held, FinishExact
  <2>6. CalledInv' /\ PathInv'
    BY <1>0, <2>1, <2>2 DEF IInv, CalledInv, PathInv
  <2>7. ResultInv'
    BY <2>1, <2>3 DEF IInv, ResultInv
  <2> QED BY <2>4, <2>5, <2>6, <2>7 DEF IInv
<1> QED BY <1>1, <1>2

LEMMA Inductive == ~OverriddenResolve => (IInv /\ [Next]_vars => IInv')
<1> SUFFICES ASSUME ~OverriddenResolve, IInv, [Next]_vars PROVE IInv'
  OBVIOUS
<1>1. CASE \/ HandOver \/ ThenReturns \/ ElementThrows \/ NextThrowsInDrain
           \/ IteratorFails \/ Exhausted
  BY <1>1, IterationInv
<1>2. CASE \E n \in 0..N : NativeCall(n)
  BY <1>2, NativeInv
<1>3. CASE \E e \in Elem, fn \in {"fulfil", "reject"}, v \in Val : Call(e, fn, v)
  BY <1>3, CallInv
<1>4. CASE UNCHANGED vars
  BY <1>4 DEF vars, IInv, TypeOK, CountInv, Unanswered, Held, FinishExact,
              CalledInv, PathInv, ResultInv, ByOrder, Filled
<1> QED BY <1>1, <1>2, <1>3, <1>4 DEF Next

\* The strengthening holds in every state of every behaviour.
THEOREM Invariance == ~OverriddenResolve => (Spec => []IInv)
<1> SUFFICES ASSUME ~OverriddenResolve PROVE Spec => []IInv
  OBVIOUS
<1>1. IInv /\ [Next]_vars => IInv'
  BY Inductive
<1> QED BY <1>1, InitInv, PTL DEF Spec

------------------------------------------------------------------------------
(* The properties.                                                           *)

\* Every variable has its type.
THEOREM TypeCorrect == ~OverriddenResolve => (Spec => []TypeOK)
<1>1. IInv => TypeOK
  BY DEF IInv
<1> SUFFICES ASSUME ~OverriddenResolve PROVE Spec => []TypeOK
  OBVIOUS
<1>2. Spec => []IInv
  BY Invariance
<1> QED BY <1>1, <1>2, PTL

\* A combinator that counts finishes once, when its iteration is over and every
\* element has been counted; never early, twice or not at all.
THEOREM FinishesExactly == ~OverriddenResolve => (Spec => []FinishExact)
<1>1. IInv => FinishExact
  BY DEF IInv, CountInv, FinishExact
<1> SUFFICES ASSUME ~OverriddenResolve PROVE Spec => []FinishExact
  OBVIOUS
<1>2. Spec => []IInv
  BY Invariance
<1> QED BY <1>1, <1>2, PTL

\* The array of results that is handed to the program has no hole.
THEOREM NoHole == ~OverriddenResolve => (Spec => []ResultsComplete)
<1>1. IInv => ResultsComplete
  <2> SUFFICES ASSUME IInv, finishes > 0 PROVE \A e \in 1..handed : results[e] # None
    BY DEF ResultsComplete
  <2>1. kind # "race" /\ Unanswered = {}
    BY DEF IInv, TypeOK, CountInv, CalledInv, FinishExact
  <2>2. called = 1..handed
    BY <2>1, TypeFacts DEF Unanswered
  <2>3. Cardinality(called) = handed
    BY <2>2, TypeFacts, FS_Interval
  <2>4. Filled = 1..handed
    BY <2>2, <2>3 DEF IInv, ResultInv
  <2> QED BY <2>4 DEF Filled
<1> SUFFICES ASSUME ~OverriddenResolve PROVE Spec => []ResultsComplete
  OBVIOUS
<1>2. Spec => []IInv
  BY Invariance
<1> QED BY <1>1, <1>2, PTL

\* No result is ever overwritten.
THEOREM ResultsKept == ~OverriddenResolve => (Spec => ResultsStable)
<1> DEFINE Kept == \A e \in Elem : results[e] # None => results'[e] = results[e]
<1> SUFFICES ASSUME ~OverriddenResolve PROVE Spec => ResultsStable
  OBVIOUS
<1>1. ASSUME IInv, [Next]_vars PROVE [Kept]_vars
  <2>1. CASE UNCHANGED results
    BY <2>1
  <2>2. CASE \E e \in Elem, fn \in {"fulfil", "reject"}, v \in Val : Call(e, fn, v)
    <3>1. PICK e \in Elem, fn \in {"fulfil", "reject"}, v \in Val : Call(e, fn, v)
      BY <2>2
    <3>2. CASE Counted(fn) /\ ~(path = "spec" /\ e \in called)
      <4>1. Slot(e) \notin Filled
        BY <1>1, <3>1, <3>2, CountedCall
      <4>2. results' = [x \in Elem |-> IF x = Slot(e) THEN <<fn, v>> ELSE results[x]]
        BY <3>1, <3>2 DEF Call, ElementFunction, Store
      <4> QED BY <4>1, <4>2 DEF Filled
    <3>3. CASE ~(Counted(fn) /\ ~(path = "spec" /\ e \in called))
      BY <3>1, <3>3, <2>1 DEF Call, ElementFunction, DirectFunction
    <3> QED BY <3>2, <3>3
  <2>3. CASE Next /\ ~(\E e \in Elem, fn \in {"fulfil", "reject"}, v \in Val :
                           Call(e, fn, v))
    BY <2>1, <2>3 DEF Next, HandOver, ThenReturns, ElementThrows,
       NextThrowsInDrain, IteratorFails, Fail, Exhausted, NativeCall
  <2> QED BY <1>1, <2>2, <2>3
<1>2. Spec => []IInv
  BY Invariance
<1> QED BY <1>1, <1>2, PTL DEF Spec, ResultsStable

------------------------------------------------------------------------------
(* The refinement.                                                           *)

Open == Iterating \/ (kind = "race" /\ pc = "returned")

\* A step of the iteration gathers a member, ends the gathering or fails.
LEMMA IterationJoins ==
  ASSUME IInv,
         \/ HandOver \/ ThenReturns \/ ElementThrows \/ NextThrowsInDrain
         \/ IteratorFails \/ Exhausted
  PROVE  J!Next \/ UNCHANGED J!jvars
<1>0. handed \in Nat /\ handed <= N /\ called \in SUBSET (1..handed) /\ N \in Nat
  BY TypeFacts
<1>1. CASE HandOver
  <2>1. /\ Iterating /\ Iterating' /\ handed' = handed + 1
        /\ UNCHANGED <<kind, called, outcome>> /\ handed + 1 \in Elem
    BY <1>0, <1>1 DEF HandOver, Iterating, Elem
  <2>2. 1..handed' = 1..handed \cup {handed + 1}
    BY <1>0, <2>1
  <2>3. J!Gather({handed + 1})
    BY <2>1, <2>2 DEF J!Gather
  <2> QED BY <2>1, <2>3 DEF J!Next
<1>2. CASE ThenReturns \/ ElementThrows \/ NextThrowsInDrain
  <2>1. Iterating /\ Iterating' /\ UNCHANGED <<kind, handed, called, outcome>>
    BY <1>2 DEF ThenReturns, ElementThrows, NextThrowsInDrain, Iterating
  <2> QED BY <2>1 DEF J!jvars
<1>3. CASE IteratorFails
  <2>1. /\ Iterating /\ ~Iterating' /\ pc' = "failed"
        /\ UNCHANGED <<kind, handed, called>> /\ outcome' = SettleWith("short")
    BY <1>3 DEF IteratorFails, Fail, Iterating
  <2>2. J!Abort
    BY <2>1 DEF J!Abort, J!Undecided, SettleWith
  <2> QED BY <2>2 DEF J!Next
<1>4. CASE Exhausted /\ kind = "race"
  <2>1. /\ Iterating /\ pc' = "returned"
        /\ UNCHANGED <<kind, handed, called, outcome>>
    BY <1>4 DEF Exhausted, Iterating
  <2> QED BY <1>4, <2>1 DEF J!jvars
<1>5. CASE Exhausted /\ kind # "race"
  <2>1. /\ Iterating /\ ~Iterating' /\ pc' = "returned" /\ pc = "iterate"
        /\ UNCHANGED <<kind, handed, called>> /\ CountedTo(remaining - 1)
    BY <1>5 DEF Exhausted, Iterating
  <2>2. remaining - 1 = Cardinality((1..handed) \ called)
    <3>1. Cardinality((1..handed) \ called) \in Nat
      BY <1>0, Finite
    <3>2. remaining = 1 + Cardinality((1..handed) \ called)
      BY <1>5, <2>1 DEF IInv, CountInv, Held, Unanswered
    <3> QED BY <3>1, <3>2
  <2>3. remaining - 1 = 0 <=> called = 1..handed
    BY <1>0, <2>2, Finite
  <2>4. outcome' = IF called = 1..handed THEN SettleWith("joined") ELSE outcome
    BY <2>1, <2>3 DEF CountedTo
  <2>5. J!Close({})
    BY <1>5, <2>1, <2>4 DEF J!Close, J!Undecided, SettleWith
  <2> QED BY <2>5 DEF J!Next
<1> QED BY <1>1, <1>2, <1>3, <1>4, <1>5

LEMMA NativeJoins ==
  ASSUME IInv, NEW n \in 0..N, NativeCall(n)
  PROVE  J!Next
<1>1. /\ pc = "iterate" /\ pc' = "returned" /\ UNCHANGED <<kind, called>>
      /\ handed = 0 /\ handed' = n
  BY DEF NativeCall, IInv, PathInv
<1>2. called = {} /\ N \in Nat /\ n \in Nat /\ 1..handed = {}
  BY <1>1, TypeFacts
<1>3. 1..n \in SUBSET Elem
  BY <1>2 DEF Elem
<1>4. CASE kind = "race"
  <2>1. J!Gather(1..n)
    BY <1>1, <1>2, <1>4 DEF J!Gather, Iterating, NativeCall
  <2> QED BY <1>3, <2>1 DEF J!Next
<1>5. CASE kind # "race"
  <2>1. outcome' = IF n = 0 THEN SettleWith("joined") ELSE outcome
    BY <1>5 DEF NativeCall, CountedTo
  <2>2. n = 0 <=> called = 1..n
    BY <1>2
  <2>3. J!Close(1..n)
    BY <1>1, <1>2, <1>5, <2>1, <2>2
       DEF J!Close, J!Undecided, SettleWith, Iterating
  <2> QED BY <1>3, <2>3 DEF J!Next
<1> QED BY <1>4, <1>5

\* A call that counts answers for its element; the last one is the one that
\* brings the count to zero.
LEMMA CallJoins ==
  ASSUME IInv, ~OverriddenResolve, NEW e \in Elem, NEW fn \in {"fulfil", "reject"},
         NEW v \in Val, Call(e, fn, v)
  PROVE  J!Next \/ UNCHANGED J!jvars
<1>0. UNCHANGED <<kind, path, pc, handed>>
  BY DEF Call
<1>1. CASE Counted(fn) /\ ~(path = "spec" /\ e \in called)
  <2>1. /\ kind # "race" /\ e \in (1..handed) \ called
        /\ called' = called \cup {e} /\ CountedTo(remaining - 1)
        /\ Cardinality(Unanswered') = Cardinality(Unanswered) - 1
        /\ Cardinality(Unanswered) \in Nat \ {0}
    BY <1>1, CountedCall
  <2>2. Cardinality(Unanswered') = 0 <=> called' = 1..handed
    <3>1. handed \in Nat /\ called' \in SUBSET (1..handed)
      BY <2>1, TypeFacts
    <3> QED BY <1>0, <3>1, Finite DEF Unanswered
  <2>3. outcome' = IF ~Open /\ called' = 1..handed
                   THEN SettleWith("joined") ELSE outcome
    <3>1. CASE Iterating
      <4>1. remaining - 1 # 0
        BY <2>1, <3>1 DEF IInv, TypeOK, CountInv, Held, Iterating
      <4> QED BY <2>1, <3>1, <4>1 DEF CountedTo, Open
    <3>2. CASE pc = "failed"
      <4>1. remaining - 1 # 0 /\ outcome # "pending"
        BY <2>1, <3>2 DEF IInv, TypeOK, CountInv, PathInv
      <4> QED BY <2>1, <4>1 DEF CountedTo, SettleWith
    <3>3. CASE pc = "returned"
      <4>1. remaining - 1 = Cardinality(Unanswered')
        BY <2>1, <3>3 DEF IInv, TypeOK, CountInv, Held
      <4> QED BY <2>1, <2>2, <3>3, <4>1 DEF CountedTo, Open, Iterating
    <3> QED BY <3>1, <3>2, <3>3 DEF IInv, TypeOK, Iterating
  <2>4. J!Answer(e)
    BY <1>0, <2>1, <2>3 DEF J!Answer, J!Undecided, SettleWith, Open, Iterating
  <2> QED BY <2>4 DEF J!Next
<1>2. CASE Counted(fn) /\ path = "spec" /\ e \in called
  BY <1>0, <1>2 DEF Call, ElementFunction, J!jvars, Iterating
<1>3. CASE ~Counted(fn)
  <2>1. J!Decide
    BY <1>0, <1>3 DEF Call, DirectFunction, J!Decide, J!Undecided, SettleWith,
       Iterating
  <2> QED BY <2>1 DEF J!Next
<1> QED BY <1>1, <1>2, <1>3

\* Counting implements the join: the promise is settled by the count in the very
\* step in which the last element answers, and by nothing else once it is decided.
THEOREM CountingJoins == ~OverriddenResolve => (Spec => ImplementsJoin)
<1> SUFFICES ASSUME ~OverriddenResolve PROVE Spec => ImplementsJoin
  OBVIOUS
<1>1. Init => J!Init
  BY DEF Init, J!Init, Iterating
<1>2. ASSUME IInv, [Next]_vars PROVE [J!Next]_(J!jvars)
  <2>1. CASE \/ HandOver \/ ThenReturns \/ ElementThrows \/ NextThrowsInDrain
             \/ IteratorFails \/ Exhausted
    BY <1>2, <2>1, IterationJoins
  <2>2. CASE \E n \in 0..N : NativeCall(n)
    BY <1>2, <2>2, NativeJoins
  <2>3. CASE \E e \in Elem, fn \in {"fulfil", "reject"}, v \in Val : Call(e, fn, v)
    BY <1>2, <2>3, CallJoins
  <2>4. CASE UNCHANGED vars
    BY <2>4 DEF vars, J!jvars, Iterating
  <2> QED BY <1>2, <2>1, <2>2, <2>3, <2>4 DEF Next
<1>3. Spec => []IInv
  BY Invariance
<1> QED BY <1>1, <1>2, <1>3, PTL DEF Spec, ImplementsJoin, J!Spec
=============================================================================

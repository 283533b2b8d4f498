----------------------------- MODULE Combinator -----------------------------
(***************************************************************************)
(* Promise.all, allSettled, race and any (src/runtime/src/TsPromise.cpp).  *)
(* One call of one combinator takes one of three paths:                    *)
(*   "spec"    a receiver that is not the builtin Promise: the elements    *)
(*             are taken one by one and may be thenables, whose `then' is  *)
(*             user code (ts_promise_combinator_spec);                     *)
(*   "native"  the builtin Promise: every element of an array is wrapped   *)
(*             in a promise first (ts_promise_all, _race, ...);            *)
(*   "drain"   Promise.any of an iterable that is not an array.            *)
(* An element decides alone through a direct function or is counted down:  *)
(* `remaining' is what decides when the combinator is finished.            *)
(***************************************************************************)
EXTENDS Integers, FiniteSets

CONSTANTS N,          \* elements the iterable can yield: the runaway guard
          Thenable,   \* elements that are user objects, not promises
          Val, None,
          Paths,      \* the paths the run takes
          OverriddenResolve  \* has user code replaced Promise.resolve?

Elem  == 1..N
Kinds == {"all", "allSettled", "race", "any"}

ASSUME CombinatorAssumption ==
  /\ N \in Nat
  /\ Thenable \subseteq Elem
  /\ Paths \subseteq {"spec", "native", "drain"}
  /\ OverriddenResolve \in BOOLEAN
  /\ None \notin {"fulfil", "reject"} \X Val

VARIABLES kind, path,
          pc,         \* where the call is; user code runs in all but "start"
          handed,     \* elements whose functions have been given away
          remaining,
          called,     \* elements counted down (SpecElemCtx::called)
          ran,        \* promises among the elements whose reaction has run
          results,
          finishes,   \* how often the last element has finished the call
          outcome     \* of the promise: "joined" by the count, "short" alone

vars == <<kind, path, pc, handed, remaining, called, ran, results, finishes, outcome>>

Init ==
  /\ kind \in Kinds
  /\ path \in Paths
  /\ path = "drain" => kind = "any"
  /\ pc = "iterate"
  /\ handed = 0
  /\ remaining = 1
  /\ called = {}
  /\ ran = {}
  /\ results = [e \in Elem |-> None]
  /\ finishes = 0
  /\ outcome = "pending"

\* A promise settles once, whoever calls first (the capability is taken to be
\* that of Promise or of a subclass, and to be resolved with plain values; what
\* a promise does when it is resolved with another one is in PromiseJobs).
SettleWith(o) == IF outcome = "pending" THEN o ELSE outcome

\* The count reaches r; at zero the results, or an AggregateError of the
\* errors, settle the promise.
CountedTo(r) ==
  /\ remaining' = r
  /\ finishes' = IF r = 0 THEN finishes + 1 ELSE finishes
  /\ outcome' = IF r = 0 THEN SettleWith("joined") ELSE outcome

-----------------------------------------------------------------------------
(* The iteration.                                                          *)

\* Mutant: remaining++ without effect.
HoldNothing(n) == remaining

\* remaining++, after the results were grown; a race does not count.
Hold(n) == IF kind = "race" THEN remaining ELSE remaining + n

\* processElement up to the call of the element's `then', which gets the
\* functions and may call them at once, later, repeatedly or never.
HandOver ==
  /\ pc = "iterate" /\ path # "native" /\ handed < N
  /\ handed' = handed + 1
  /\ remaining' = Hold(1)
  /\ pc' = "then"
  /\ UNCHANGED <<kind, path, called, ran, results, finishes, outcome>>

ThenReturns ==
  /\ pc = "then"
  /\ pc' = "iterate"
  /\ UNCHANGED <<kind, path, handed, remaining, called, ran, results, finishes, outcome>>

\* The element's `then' throws, or its resolve does (the drain has counted it
\* by then), or it has no `then', or the guard against endless iterators bites:
\* the iterator's return method is called, which is user code.
ElementThrows ==
  /\ path # "native"
  /\ \/ /\ pc = "then"
        /\ UNCHANGED remaining
     \/ /\ pc = "iterate" /\ handed < N
        /\ remaining' = IF path = "drain" THEN remaining + 1 ELSE remaining
     \/ /\ pc = "iterate" /\ handed = N /\ path = "spec"
        /\ UNCHANGED remaining
  /\ pc' = "closing"
  /\ UNCHANGED <<kind, path, handed, called, ran, results, finishes, outcome>>

\* The exception of next() closes the iterator on the drain only.
NextThrowsInDrain ==
  /\ pc = "iterate" /\ path = "drain"
  /\ pc' = "closing"
  /\ UNCHANGED <<kind, path, handed, remaining, called, ran, results, finishes, outcome>>

Fail ==
  /\ pc' = "failed"
  /\ outcome' = SettleWith("short")
  /\ UNCHANGED <<kind, path, handed, remaining, called, ran, results, finishes>>

\* Rejects through the capability, once return() is over or at once: the
\* argument is not iterable, next() throws or returns no object, or the guard
\* of the drain bites.
IteratorFails == pc \in {"iterate", "closing"} /\ Fail

\* Mutant: a race counts too.
ExhaustedCountsRace ==
  /\ pc = "iterate" /\ path # "native"
  /\ pc' = "returned"
  /\ CountedTo(remaining - 1)
  /\ UNCHANGED <<kind, path, handed, called, ran, results>>

\* The iteration gives up its own hold.
Exhausted ==
  /\ pc = "iterate" /\ path # "native"
  /\ pc' = "returned"
  /\ IF kind = "race" THEN UNCHANGED <<remaining, finishes, outcome>>
                      ELSE CountedTo(remaining - 1)
  /\ UNCHANGED <<kind, path, handed, called, ran, results>>

\* Mutant: one element too many.
NativeCallOneMore(n) ==
  /\ pc = "iterate" /\ path = "native"
  /\ pc' = "returned"
  /\ handed' = n + 1
  /\ IF kind = "race" THEN UNCHANGED <<remaining, finishes, outcome>>
                      ELSE CountedTo(n)
  /\ UNCHANGED <<kind, path, called, ran, results>>

\* The builtin path counts the n elements before it wraps them.
NativeCall(n) ==
  /\ pc = "iterate" /\ path = "native"
  /\ pc' = "returned"
  /\ handed' = n
  /\ IF kind = "race" THEN UNCHANGED <<remaining, finishes, outcome>>
                      ELSE CountedTo(n)
  /\ UNCHANGED <<kind, path, called, ran, results>>

-----------------------------------------------------------------------------
(* The functions given to the elements.                                    *)

\* The functions that count; the others are the capability's own.
Counted(fn) ==
  \/ fn = "fulfil" /\ kind \in {"all", "allSettled"}
  \/ fn = "reject" /\ kind \in {"any", "allSettled"}

\* An object of the user calls its functions whenever and however often it
\* likes; a promise runs one reaction, later.
Unruly(e) ==
  /\ e \in Thenable
  /\ path = "spec" \/ (path = "drain" /\ OverriddenResolve)

MayCall(e) ==
  /\ e <= handed
  /\ Unruly(e) \/ (pc # "then" /\ e \notin ran)

\* Promise.any of the builtin Promise pushes errors in the order they come.
Filled == {e \in Elem : results[e] # None}

\* Mutant: indices count from zero.
SlotFromZero(e) == IF e = 1 THEN e ELSE e - 1

Slot(e) == IF kind = "any" /\ path # "spec" THEN Cardinality(Filled) + 1 ELSE e

Store(e, result) ==
  results' = [x \in Elem |-> IF x = Slot(e) THEN result ELSE results[x]]

\* Mutant: the result is stored before the flag is read.
ElementFunctionStoresFirst(e, result) ==
  /\ Store(e, result)
  /\ IF path = "spec" /\ e \in called
     THEN UNCHANGED <<remaining, called, finishes, outcome>>
     ELSE /\ called' = called \cup {e}
          /\ CountedTo(remaining - 1)

\* The helper that counts down; only those of the spec path have a flag.
ElementFunction(e, result) ==
  IF path = "spec" /\ e \in called
  THEN UNCHANGED <<remaining, called, results, finishes, outcome>>
  ELSE /\ called' = called \cup {e}
       /\ Store(e, result)
       /\ CountedTo(remaining - 1)

\* resolveFn or rejectFn of the capability, without any flag of its own.
DirectFunction ==
  /\ outcome' = SettleWith("short")
  /\ UNCHANGED <<remaining, called, results, finishes>>

\* A counter below zero never comes back: one such value is enough.
Call(e, fn, v) ==
  /\ MayCall(e)
  /\ remaining >= 0
  /\ ran' = IF Unruly(e) THEN ran ELSE ran \cup {e}
  /\ IF Counted(fn) THEN ElementFunction(e, <<fn, v>>) ELSE DirectFunction
  /\ UNCHANGED <<kind, path, pc, handed>>

Next ==
  \/ HandOver \/ ThenReturns \/ ElementThrows \/ NextThrowsInDrain
  \/ IteratorFails \/ Exhausted
  \/ \E n \in 0..N : NativeCall(n)
  \/ \E e \in Elem, fn \in {"fulfil", "reject"}, v \in Val : Call(e, fn, v)

Spec == Init /\ [][Next]_vars

-----------------------------------------------------------------------------
TypeOK ==
  /\ kind \in Kinds
  /\ path \in Paths
  /\ pc \in {"iterate", "then", "closing", "failed", "returned"}
  /\ handed \in 0..N
  /\ remaining \in Int
  /\ called \subseteq 1..handed
  /\ ran \subseteq 1..handed
  /\ results \in [Elem -> {None} \cup ({"fulfil", "reject"} \X Val)]
  /\ finishes \in Nat
  /\ outcome \in {"pending", "joined", "short"}

Iterating == pc \in {"iterate", "then", "closing"}

Unanswered == (1..handed) \ called

\* The last element finishes the call, whatever the elements do: exactly when
\* the iteration is over and every element has been counted, and once.  With
\* a flag or a hold less it would finish early, twice or never.
FinishExact ==
  kind # "race" =>
    finishes = IF pc = "returned" /\ Unanswered = {} THEN 1 ELSE 0

\* When the call is finished every element has its own result: the array
\* handed to the program has no hole.
ResultsComplete ==
  finishes > 0 => \A e \in 1..handed : results[e] # None

\* A result is never overwritten, so neither a thenable that calls again nor a
\* late element can change the array that the program already holds.
ResultsStable ==
  [][\A e \in Elem : results[e] # None => results'[e] = results[e]]_vars

\* Counting down implements the join: the outcome is decided in the step in
\* which the last member answers, a race of nothing never settles, and after a
\* failed iteration nothing is joined.
J == INSTANCE Join WITH
       open     <- Iterating \/ (kind = "race" /\ pc = "returned"),
       members  <- 1..handed,
       answered <- called,
       outcome  <- outcome

ImplementsJoin == J!Spec
=============================================================================

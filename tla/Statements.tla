------------------------------ MODULE Statements ------------------------------
(***************************************************************************)
(* How the compiler lowers statements that leave constructs abruptly        *)
(* (ASTToHIR_Statements.cpp), executed with the exception handlers of the   *)
(* runtime (Core.cpp).  A try statement and the body of a for-of loop over  *)
(* an iterator push a handler; break, continue and return are branches, so  *)
(* the code they become has to pop the handlers and with scopes it jumps    *)
(* over, close the iterators, and pass through the finally blocks.  What    *)
(* the lowering counts (tryDepth_, withDepth_, finallyStack_ and            *)
(* forofIterStack_) are functions of the constructs around the statement;   *)
(* what it emits acts on handlers and withs.  The program is arbitrary: any *)
(* statement may follow any other.                                          *)
(***************************************************************************)
EXTENDS Integers, Sequences, FiniteSets, FiniteSetsExt

CONSTANTS Value, Undefined, MaxNest,
          AllJumps  \* FALSE leaves out the jumps that are not Tidy

ASSUME NestAssumption == MaxNest \in Nat

VARIABLES nest,      \* the constructs around the statement that runs
          going,     \* what the emitted code is doing, beyond the statement
          handlers,  \* exceptionStack of the runtime; the caller's is the first
          withs,     \* the size of the runtime's stack of with scopes
          outcome    \* how the function was left, or Normal
vars == <<nest, going, handlers, withs, outcome>>

Normal    == [how |-> "normal", to |-> 0, val |-> Undefined]
Throw     == [how |-> "throw", to |-> 0, val |-> Undefined]
Return(v) == [how |-> "return", to |-> 0, val |-> v]
Jump(how, k) == [how |-> how, to |-> k, val |-> Undefined]

Loops == {"loop", "forof"}
Tries == {"tryCatch", "tryFinally", "tryBoth"}
Kinds == Loops \cup Tries \cup {"switch", "with"}
HasFinally(kind) == kind \in {"tryFinally", "tryBoth"}

\* Mutant: the discriminant is not initialised on entry.
ConstructStale(kind) ==
    [kind |-> kind, part |-> "body", disc |-> [how |-> "return", to |-> 0],
     val |-> Undefined, exc |-> FALSE,
     iter |-> IF kind = "forof" THEN "open" ELSE "none"]

\* A construct with the allocas of FinallyContext (disc, val), pendingExc (exc)
\* and the state of a for-of's iterator.
Construct(kind) ==
    [kind |-> kind, part |-> "body", disc |-> [how |-> "normal", to |-> 0],
     val |-> Undefined, exc |-> FALSE,
     iter |-> IF kind = "forof" THEN "open" ELSE "none"]

Doing(what)   == [do |-> what, c |-> Normal, left |-> {}]
Run           == Doing("run")
Throwing      == Doing("throw")
Closing(c, s) == [do |-> "close", c |-> c, left |-> s]
AtClose(c)    == [do |-> "closeBlock", c |-> c, left |-> {}]

Here        == Len(nest)
Top         == nest[Here]
Outer(k)    == SubSeq(nest, 1, k - 1)
Runs        == going = Run /\ outcome = Normal
Innermost(S) == Max(S \cup {0})

------------------------------------------------------------------------------
(* What the lowering knows of a statement inside the first k constructs.     *)

Armed(f) == f.kind = "forof" \/ (f.kind \in Tries /\ f.part = "body")
TryDepth(k)  == Cardinality({i \in 1 .. k : Armed(nest[i])})
WithDepth(k) == Cardinality({i \in 1 .. k : nest[i].kind = "with"})

\* finallyStack_: a finally is taken off before its own body is lowered.
Finallys(k) == {i \in 1 .. k : HasFinally(nest[i].kind) /\ nest[i].part # "finally"}
Crossed(c)  == {i \in Finallys(Here) : i > c.to}

Targets(how) == {i \in 1 .. Here : \/ nest[i].kind \in Loops
                                   \/ how = "break" /\ nest[i].kind = "switch"}

\* A switch has no label: a break reaches it from inside only when nothing
\* nearer takes it.
Abrupt == {Return(v) : v \in Value}
          \cup {Jump("continue", k) : k \in Targets("continue")}
          \cup {Jump("break", k) : k \in
                   {i \in Targets("break") : nest[i].kind = "switch" =>
                                                 i = Max(Targets("break"))}}

\* Mutant: any finally around the jump keeps the iterators from being closed.
ClosersOuterOnly(c) ==
    {i \in 1 .. Here : /\ nest[i].kind = "forof" /\ i > c.to
                       /\ Finallys(Here) = {}}

\* emitOpenIteratorCloses: not those with a finally between them and the jump.
Closers(c) == {i \in 1 .. Here : /\ nest[i].kind = "forof" /\ i > c.to
                                 /\ \A f \in Finallys(Here) : f < i}

\* With scopes a direct jump unwinds: to the target, except that break without
\* a label goes by the innermost loop, also when its target is a switch.
Unwound(c) ==
    LET loop == Innermost(Targets("continue"))
        to   == IF c.to = 0 THEN 0 ELSE WithDepth(c.to - 1)
    IN  WithDepth(Here) - IF c.how = "break" /\ nest[c.to].kind = "switch"
                          THEN IF loop = 0 THEN WithDepth(Here)
                                           ELSE WithDepth(loop - 1)
                          ELSE to

\* The jumps whose direct branch restores what their target expects: a direct
\* break or continue pops every handler of the function.
Tidy(c) == \/ c.how = "return" \/ Crossed(c) # {}
           \/ /\ TryDepth(c.to - 1) = 0
              /\ Unwound(c) = WithDepth(Here) - WithDepth(c.to - 1)

------------------------------------------------------------------------------
(* Emitted code.                                                             *)

\* ts_pop_exception_handler, n times.
PopHandlers(n) == handlers' = SubSeq(handlers, 1, Len(handlers) - n)

\* ts_push_exception_handler
Arm(k) == handlers' = Append(handlers, [at |-> k, withs |-> withs])

\* The branch to the block of the jump's target, or out of the function.
Arrive(c) ==
    LET k == c.to
    IN  IF c.how = "return"
        THEN nest' = <<>> /\ going' = Run /\ outcome' = c
        ELSE /\ UNCHANGED outcome
             /\ IF c.how = "break" /\ nest[k].kind # "forof"
                THEN nest' = Outer(k) /\ going' = Run
                ELSE /\ nest' = SubSeq(nest, 1, k)
                     /\ going' = IF nest[k].kind # "forof" THEN Run
                                 ELSE IF c.how = "break" THEN AtClose(c)
                                                         ELSE Doing("next")

\* Mutant: the with scopes stay.
EnterFinallyScoped(g, pops, scopes, c) ==
    /\ PopHandlers(pops)
    /\ nest' = Append(Outer(g), [nest[g] EXCEPT !.part = "finally",
                                    !.disc = [how |-> c.how, to |-> c.to],
                                    !.val = c.val])
    /\ going' = Run
    /\ UNCHANGED <<withs, outcome>>

\* Store the completion in the g-th construct and branch to its finally block.
EnterFinally(g, pops, scopes, c) ==
    /\ PopHandlers(pops)
    /\ withs' = withs - scopes
    /\ nest' = Append(Outer(g), [nest[g] EXCEPT !.part = "finally",
                                    !.disc = [how |-> c.how, to |-> c.to],
                                    !.val = IF c.how = "return" THEN c.val ELSE @])
    /\ going' = Run
    /\ UNCHANGED outcome

\* Mutant: the handlers of the crossed try are taken to be popped already.
RouteInside(c) ==
    LET g == Max(Finallys(Here))
    IN  EnterFinally(g, TryDepth(Here) - TryDepth(g), WithDepth(Here) - WithDepth(g - 1), c)

\* routeAbruptThroughFinally
Route(c) ==
    LET g == Max(Finallys(Here))
    IN  EnterFinally(g, TryDepth(Here) - TryDepth(g - 1),
                     WithDepth(Here) - WithDepth(g - 1), c)

\* The fast path of visitBreakStatement and visitContinueStatement, and the end
\* of visitReturnStatement.
Direct(c) == /\ PopHandlers(TryDepth(Here))
             /\ withs' = withs - Unwound(c)
             /\ Arrive(c)

------------------------------------------------------------------------------
(* Statements.                                                               *)

Init == /\ nest = <<>>
        /\ going = Run
        /\ handlers = <<[at |-> 0, withs |-> 0]>>
        /\ withs = 0
        /\ outcome = Normal

\* visitTryStatement arms its handler at once, a for-of in each round.
Open(kind) ==
    /\ Runs /\ Here < MaxNest
    /\ nest' = Append(nest, Construct(kind))
    /\ going' = IF kind = "forof" THEN Doing("next") ELSE Run
    /\ IF kind \in Tries THEN Arm(Here + 1) ELSE UNCHANGED handlers
    /\ withs' = IF kind = "with" THEN withs + 1 ELSE withs
    /\ UNCHANGED outcome

\* The construct ends, or the loop does; a loop's next round changes nothing.
EndBlock ==
    /\ Runs /\ nest # <<>> /\ Top.kind \in {"loop", "switch", "with"}
    /\ nest' = Outer(Here)
    /\ withs' = IF Top.kind = "with" THEN withs - 1 ELSE withs
    /\ UNCHANGED <<going, handlers, outcome>>

EndTryOrCatch ==
    /\ Runs /\ nest # <<>> /\ Top.kind \in Tries /\ Top.part # "finally"
    /\ nest' = IF HasFinally(Top.kind)
               THEN Append(Outer(Here), [Top EXCEPT !.part = "finally"])
               ELSE Outer(Here)
    /\ IF Top.part = "body" THEN PopHandlers(1) ELSE UNCHANGED handlers
    /\ UNCHANGED <<going, withs, outcome>>

EndRound == /\ Runs /\ nest # <<>> /\ Top.kind = "forof"
            /\ PopHandlers(1)
            /\ going' = Doing("next")
            /\ UNCHANGED <<nest, withs, outcome>>

\* forof.cond calls next() without a handler of the loop.
Another == /\ going.do = "next"
           /\ Arm(Here)
           /\ going' = Run
           /\ UNCHANGED <<nest, withs, outcome>>
Exhausted == /\ going.do = "next"
             /\ nest' = Outer(Here)
             /\ going' = Run
             /\ UNCHANGED <<handlers, withs, outcome>>
NextThrows == /\ going.do = "next"
              /\ nest' = Outer(Here)
              /\ going' = Throwing
              /\ UNCHANGED <<handlers, withs, outcome>>

\* break, continue and return: close the iterators first.
Complete(c) == /\ Runs
               /\ AllJumps \/ Tidy(c)
               /\ going' = Closing(c, Closers(c))
               /\ UNCHANGED <<nest, handlers, withs, outcome>>

CloseOne == /\ going.do = "close" /\ going.left # {}
            /\ LET i == Max(going.left)
               IN  /\ nest' = [nest EXCEPT ![i].iter = "closed"]
                   /\ going' \in {[going EXCEPT !.left = @ \ {i}], Throwing}
            /\ UNCHANGED <<handlers, withs, outcome>>

Depart == /\ going.do = "close" /\ going.left = {}
          /\ IF Crossed(going.c) # {} THEN Route(going.c) ELSE Direct(going.c)

\* forof.close: where a break of this loop arrives.
CloseBlock == /\ going.do = "closeBlock"
              /\ nest' = Outer(Here)
              /\ going' \in {Run, Throwing}
              /\ UNCHANGED <<handlers, withs, outcome>>

\* Mutant: the finally just inside the target is taken to be outside of it.
ReRaisePast(F, c) == {g \in Finallys(F - 1) : g > c.to + 1}

\* The enclosing finally that has to see c before its target does.
ReRaise(F, c) == {g \in Finallys(F - 1) : g > c.to}

\* The end of a finally block and emitFinallyDispatch.
Dispatch ==
    /\ Runs /\ nest # <<>> /\ Top.part = "finally"
    /\ LET c == [how |-> Top.disc.how, to |-> Top.disc.to,
                 val |-> IF Top.disc.how = "return" THEN Top.val ELSE Undefined]
           g == Innermost(ReRaise(Here, c))
           to == IF c.to = 0 THEN 0 ELSE c.to - 1
       IN  CASE c.how = "normal" ->
                   /\ nest' = Outer(Here)
                   /\ going' = IF Top.exc THEN Throwing ELSE Run
                   /\ UNCHANGED <<handlers, withs, outcome>>
             [] c.how # "normal" /\ g # 0 ->
                   EnterFinally(g, TryDepth(Here - 1) - TryDepth(g - 1),
                                WithDepth(Here - 1) - WithDepth(g - 1), c)
             [] OTHER ->
                   /\ PopHandlers(TryDepth(Here - 1) - TryDepth(to))
                   /\ withs' = withs - (WithDepth(Here - 1) - WithDepth(to))
                   /\ Arrive(c)

StatementThrows == /\ Runs
                   /\ going' = Throwing
                   /\ UNCHANGED <<nest, handlers, withs, outcome>>

\* ts_throw: to the handler on top, which it removes, with the with scopes of
\* the time it was pushed.
Catch ==
    /\ going.do = "throw"
    /\ LET h == handlers[Len(handlers)]
           k == h.at
       IN  /\ PopHandlers(1)
           /\ withs' = h.withs
           /\ IF k = 0
              THEN nest' = <<>> /\ going' = Run /\ outcome' = Throw
              ELSE /\ UNCHANGED outcome
                   /\ going' = IF nest[k].kind = "forof" THEN Doing("throwClose")
                                                         ELSE Run
                   /\ nest' = LET n == SubSeq(nest, 1, k)
                              IN  CASE nest[k].kind = "forof" -> n
                                    [] nest[k].kind = "tryFinally" ->
                                          [n EXCEPT ![k].part = "finally", ![k].exc = TRUE]
                                    [] OTHER -> [n EXCEPT ![k].part = "catch"]

\* forof.throwclose: errors of the close are swallowed, the exception goes on.
ThrowClose == /\ going.do = "throwClose"
              /\ nest' = Outer(Here)
              /\ going' = Throwing
              /\ UNCHANGED <<handlers, withs, outcome>>

Next == \/ \E kind \in Kinds : Open(kind)
        \/ EndBlock \/ EndTryOrCatch \/ EndRound \/ Dispatch
        \/ Another \/ Exhausted \/ NextThrows
        \/ \E c \in Abrupt : Complete(c)
        \/ CloseOne \/ Depart \/ CloseBlock
        \/ StatementThrows \/ Catch \/ ThrowClose

Spec == Init /\ [][Next]_vars

------------------------------------------------------------------------------
(* Properties.                                                               *)

Completion == {Normal, Throw} \cup {Return(v) : v \in Value}
              \cup {Jump(how, k) : how \in {"break", "continue"}, k \in 1 .. MaxNest}

\* Every variable has its type; a construct keeps a completion only while its
\* finally block runs.
TypeOK ==
    /\ Here <= MaxNest
    /\ \A i \in 1 .. Here :
          /\ nest[i].kind \in Kinds
          /\ nest[i].part \in {"body", "catch", "finally"}
          /\ nest[i].part = "catch" => nest[i].kind \in {"tryCatch", "tryBoth"}
          /\ nest[i].part = "finally" => HasFinally(nest[i].kind)
          /\ nest[i].disc.how \in {"normal", "return", "break", "continue"}
          /\ nest[i].disc.to < i
          /\ nest[i].val \in Value \cup {Undefined}
          /\ nest[i].disc.how # "normal" \/ nest[i].exc => nest[i].part = "finally"
          /\ nest[i].iter \in {"none", "open", "closed"}
    /\ going.do \in {"run", "next", "close", "closeBlock", "throw", "throwClose"}
    /\ going.c \in Completion /\ going.left \subseteq 1 .. Here
    /\ outcome \in Completion

\* "break/continue that cross an enclosing try's finally must run it, and must
\* pop handlers down to the loop's own tryDepth": whatever way control took, the
\* handlers pushed are those of the constructs around it, below them the
\* caller's; and the caller's is the top one when the function returns.
ArmedHere ==
    {i \in 1 .. Here :
        Armed(nest[i]) /\ (i = Here => going.do \notin {"next", "closeBlock", "throwClose"})}
HandlersMatch ==
    outcome.how # "throw" =>
        /\ Len(handlers) = 1 + Cardinality(ArmedHere)
        /\ handlers[1].at = 0
        /\ {handlers[i].at : i \in 2 .. Len(handlers)} = ArmedHere

\* The with scopes of the runtime are those around the statement that runs, and
\* none is left when the function has ended.
ScopesMatch == /\ Runs => withs = WithDepth(Here)
               /\ outcome # Normal => withs = 0

\* An iterator is not left open: a for-of loop that ends otherwise than by
\* its iterator has closed it, except that a completion held back by a finally
\* block inside the loop, once it goes on, does not close outer loops' ones.
IteratorsClosed ==
    [][\A k \in 1 .. Here :
          (Len(nest') < k /\ nest[k].iter = "open") =>
              \/ k = Here /\ going.do \in {"next", "closeBlock", "throwClose"}
              \/ k < Here /\ Top.part = "finally"]_vars

\* "must run F when the try/catch body exits abruptly via break/continue/return,
\* not only on normal/exception completion": no step leaves a try statement from
\* its try or its catch block past its finally block.
FinallyAlwaysRuns ==
    [][\A k \in 1 .. Here :
          HasFinally(nest[k].kind) /\ nest[k].part # "finally" => Len(nest') >= k]_vars

\* The lowered code takes each completion where the language has it go: through
\* the finally blocks on its way, with its value, to its target, its catch
\* clause or its caller.
Language == INSTANCE Completions WITH
    nest   <- [i \in 1 .. Here |->
                 [kind |-> nest[i].kind, part |-> nest[i].part,
                  pending |-> IF nest[i].exc THEN Throw
                              ELSE [how |-> nest[i].disc.how, to |-> nest[i].disc.to,
                                    val |-> nest[i].val]]],
    flight <- CASE going.do \in {"throw", "throwClose"} -> Throw
                [] going.do = "closeBlock" -> going.c
                [] OTHER -> Normal
ImplementsLanguage == Language!Spec
=============================================================================

----------------------------- MODULE Completions -----------------------------
(***************************************************************************)
(* What break, continue, return and throw promise in the body of one       *)
(* function: a completion leaves the constructs around the statement one   *)
(* after the other, innermost first, until one of them stops it: the       *)
(* target of the jump, a catch clause, a finally block.  A finally block   *)
(* keeps the completion and sends it on when it ends, unless it completes  *)
(* abruptly itself.  How many constructs a completion leaves in one step   *)
(* is left open.  Statements is shown to implement this module.            *)
(***************************************************************************)
EXTENDS Integers, Sequences

CONSTANTS Value,      \* the values a function returns
          Undefined,  \* not a Value
          MaxNest     \* bound: the constructs open at a time

VARIABLES nest,     \* the constructs around the current statement
          flight,   \* the completion that is leaving them, or Normal
          outcome   \* what left the function, or Normal
vars == <<nest, flight, outcome>>

Normal    == [how |-> "normal", to |-> 0, val |-> Undefined]
Throw     == [how |-> "throw", to |-> 0, val |-> Undefined]
Return(v) == [how |-> "return", to |-> 0, val |-> v]
Jump(how, k) == [how |-> how, to |-> k, val |-> Undefined]

Loops == {"loop", "forof"}
Tries == {"tryCatch", "tryFinally", "tryBoth"}
Kinds == Loops \cup Tries \cup {"switch", "with"}
HasFinally(kind) == kind \in {"tryFinally", "tryBoth"}

Construct(kind) == [kind |-> kind, part |-> "body", pending |-> Normal]
Top   == nest[Len(nest)]
Below == SubSeq(nest, 1, Len(nest) - 1)

\* The i-th construct, f, stops c.  An exception of a catch block passes the
\* finally block of its own statement by: Statements!FinallyAlwaysRuns is about
\* this difference from the language.
Stops(f, i, c) ==
    \/ c.how \in {"break", "continue"} /\ c.to = i
    \/ c.how = "throw" /\ f.kind \in Tries /\ f.part = "body"
    \/ c.how # "throw" /\ HasFinally(f.kind) /\ f.part \in {"body", "catch"}

\* The constructs n after the last of them has stopped c.
Landed(n, c) ==
    LET k == Len(n)
    IN  CASE c.how = "break" /\ c.to = k -> SubSeq(n, 1, k - 1)
          [] c.how = "continue" /\ c.to = k -> n
          [] c.how = "throw" /\ n[k].kind # "tryFinally" ->
                [n EXCEPT ![k].part = "catch"]
          [] OTHER -> [n EXCEPT ![k].part = "finally", ![k].pending = c]

Leave(n, c) ==
    \E k \in 0 .. Len(n) :
        /\ \A i \in k + 1 .. Len(n) : ~Stops(n[i], i, c)
        /\ LET kept == SubSeq(n, 1, k)
           IN  \/ nest' = kept /\ flight' = c /\ UNCHANGED outcome
               \/ /\ k > 0 /\ Stops(n[k], k, c)
                  /\ nest' = Landed(kept, c) /\ flight' = Normal
                  /\ UNCHANGED outcome
               \/ /\ k = 0 /\ c.how \in {"return", "throw"}
                  /\ nest' = <<>> /\ flight' = Normal /\ outcome' = c

Init == nest = <<>> /\ flight = Normal /\ outcome = Normal

Runs == flight = Normal /\ outcome = Normal

Open(kind) == /\ Runs /\ Len(nest) < MaxNest
              /\ nest' = Append(nest, Construct(kind))
              /\ UNCHANGED <<flight, outcome>>

\* The current block ends, or a loop does; a loop's next round changes nothing.
End == /\ Runs /\ nest # <<>>
       /\ IF HasFinally(Top.kind) /\ Top.part # "finally"
          THEN /\ nest' = Append(Below, [Top EXCEPT !.part = "finally"])
               /\ UNCHANGED <<flight, outcome>>
          ELSE IF Top.pending = Normal
          THEN nest' = Below /\ UNCHANGED <<flight, outcome>>
          ELSE Leave(Below, Top.pending)

Targets(how) == {i \in 1 .. Len(nest) : \/ nest[i].kind \in Loops
                                        \/ how = "break" /\ nest[i].kind = "switch"}
Abrupt == {Throw} \cup {Return(v) : v \in Value}
          \cup {Jump("break", k) : k \in Targets("break")}
          \cup {Jump("continue", k) : k \in Targets("continue")}

Complete == Runs /\ \E c \in Abrupt : Leave(nest, c)

Unwind == flight # Normal /\ Leave(nest, flight)

\* break closes the iterator of the for-of it ends: an exception of the close
\* takes its place.
CloseFails == /\ flight.how = "break" /\ Len(nest) = flight.to
              /\ Top.kind = "forof"
              /\ nest' = Below /\ flight' = Throw
              /\ UNCHANGED outcome

Next == (\E kind \in Kinds : Open(kind)) \/ End \/ Complete \/ Unwind \/ CloseFails

Spec == Init /\ [][Next]_vars
=============================================================================

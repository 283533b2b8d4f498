---------------------------- MODULE PromiseJobs ------------------------------
(* Promises, the microtask queue and the event loop of the runtime:          *)
(* src/runtime/src/TsPromise.cpp and EventLoop.cpp.                          *)
(*                                                                           *)
(* Everything runs on one native stack.  Its bottom frame is the event loop; *)
(* `await` in compiled code does not suspend the function but pumps the      *)
(* microtasks and the event loop in a frame of its own (ts_promise_await),   *)
(* so jobs run nested inside the function that waits.                        *)
(*                                                                           *)
(* Values are opaque, but for objects whose "then" resolving has to look up: *)
(* the lookup may run an accessor, which is user code.  User code may do what *)
(* it can do with the promises it has: create, chain, settle, await, return,  *)
(* throw.                                                                    *)
(* Adopting a promise registers a reaction without handlers on it whose      *)
(* derived promise is the adopter: both helpers of the code do exactly what  *)
(* a missing handler does, and nobody sees the promise they derive.          *)
EXTENDS Naturals, Sequences, FiniteSets

CONSTANTS Promise,    \* promises
          Value,      \* plain values
          Object,     \* an object that is not a promise; its "then" is looked up
          Derived,    \* promises with a prototype of their own: so is theirs
          CycleError, \* the TypeError of a promise resolved with itself
          None,
          MaxOps,     \* bound: operations of user code on promises
          MaxAwaits   \* bound: awaits on the stack at once

Outcome    == Value \cup {CycleError, Object}
Resolution == Value \cup Promise \cup {Object}

ASSUME PromiseAssumption ==
    /\ None \notin Promise \cup Outcome
    /\ Promise \cap Outcome = {}
    /\ Object \notin Value \cup {CycleError}
    /\ Derived \subseteq Promise
    /\ MaxOps \in Nat /\ MaxAwaits \in Nat

VARIABLES state,      \* [Promise -> {"unused", "pending", "fulfilled", "rejected"}]
          value,      \* [Promise -> Outcome \cup {None}]
          handled,    \* promises whose rejection somebody takes care of
          callbacks,  \* [Promise -> Seq(Reaction)]
          queue,      \* entries of `microtasks' that have not run
          stack,      \* frames of native and user code, the running one last
          resolvers,  \* promises whose resolving functions user code holds
          reported,   \* promises reported as unhandled rejections
          ops         \* operations so far

\* History, read by the properties only.
VARIABLES registered, \* [Promise -> number of reactions ever registered]
          ran,        \* [Promise -> Seq of the numbers of those that ran]
          first,      \* [Promise -> what user code first resolved it with]
          again,      \* promises user code settled again while still pending
          overwritten,\* promises that were settled when a lookup fulfilled them
          cut         \* promises whose reactions an exception cut off

promiseVars == <<state, value, handled, callbacks>>
damage      == <<overwritten, cut>>
history     == <<registered, ran, first, again, overwritten, cut>>
vars == <<state, value, handled, callbacks, queue, stack, resolvers, reported,
          ops, registered, ran, first, again, overwritten, cut>>

\* The native frames.  A pump drains the queue and polls the event loop, for
\* ever (the loop itself) or until its promise is settled (an await).  "left"
\* holds the reactions a settle job or a reaction job still has to run.  A user
\* function settles `returns' with its result and `throws' with its exception.
\* A lookup is user code too: it reads the "then" of what p is resolved with.
Pump(p, at)          == [kind |-> "pump", promise |-> p, at |-> at]
Reactions(p, cbs, s) == [kind |-> "reactions", promise |-> p, left |-> cbs,
                         settles |-> s]
User(ret, thr)       == [kind |-> "user", returns |-> ret, throws |-> thr]
Lookup(p, v)         == [kind |-> "lookup", promise |-> p, of |-> v]

SettleJob(p)       == [job |-> "settle", promise |-> p]
ReactionJob(p, cb) == [job |-> "reaction", promise |-> p, cb |-> cb]
ThenableJob(p)     == [job |-> "thenable", promise |-> p]
CallbackJob        == [job |-> "callback"]

Settled(p) == state[p] \in {"fulfilled", "rejected"}
Top        == stack[Len(stack)]
Below      == SubSeq(stack, 1, Len(stack) - 1)
Replace(f) == stack' = Append(Below, f)
Push(f)    == stack' = Append(stack, f)

Init == /\ state = [p \in Promise |-> "unused"]
        /\ value = [p \in Promise |-> None]
        /\ handled = {}
        /\ callbacks = [p \in Promise |-> <<>>]
        /\ queue = <<>>
        /\ stack = <<Pump(None, "drain"), User(None, None)>>
        /\ resolvers = {}
        /\ reported = {}
        /\ ops = 0
        /\ registered = [p \in Promise |-> 0]
        /\ ran = [p \in Promise |-> <<>>]
        /\ first = [p \in Promise |-> None]
        /\ again = {}
        /\ overwritten = {}
        /\ cut = {}

------------------------------------------------------------------------------
(* The operations of TsPromise, as relations on promiseVars and the queue.   *)

\* Mutants: the value is not stored; no job is queued for no callbacks.
SettleWithoutValue(p, how, v) ==
    /\ state' = [state EXCEPT ![p] = how]
    /\ queue' = Append(queue, SettleJob(p))
    /\ UNCHANGED <<value, handled, callbacks, registered>>

SettleIfAwaited(p, how, v) ==
    /\ state' = [state EXCEPT ![p] = how]
    /\ value' = [value EXCEPT ![p] = v]
    /\ queue' = IF callbacks[p] = <<>> THEN queue ELSE Append(queue, SettleJob(p))
    /\ UNCHANGED <<handled, callbacks, registered>>

\* ts_promise_reject_internal, and the end of ts_promise_resolve_internal.
Settle(p, how, v) ==
    /\ state' = [state EXCEPT ![p] = how]
    /\ value' = [value EXCEPT ![p] = v]
    /\ queue' = Append(queue, SettleJob(p))
    /\ UNCHANGED <<handled, callbacks, registered>>

\* Mutant: no check of the Pending state.
RejectAlways(p, v) == Settle(p, "rejected", v)

RejectInternal(p, v) ==
    IF state[p] = "pending" THEN Settle(p, "rejected", v)
                            ELSE UNCHANGED <<promiseVars, queue, registered>>

\* Mutants: callbacks run last in, first out; a settled promise keeps the
\* callback instead of queueing it.
Enlist(p, cb, cbs) ==
    /\ registered' = [registered EXCEPT ![p] = @ + 1]
    /\ handled' = handled \cup {p}
    /\ callbacks' = [callbacks EXCEPT ![p] = cbs]
    /\ UNCHANGED <<value, queue>>
NextReaction(p, f, r, next) ==
    [id |-> registered[p] + 1, onFulfilled |-> f, onRejected |-> r, next |-> next]
RegisterFirst(p, f, r, next) ==
    LET cb == NextReaction(p, f, r, next) IN Enlist(p, cb, <<cb>> \o callbacks[p])
RegisterOnly(p, f, r, next) ==
    LET cb == NextReaction(p, f, r, next) IN Enlist(p, cb, Append(callbacks[p], cb))

\* TsPromise::then: f and r say whether there is a handler for either outcome.
Register(p, f, r, next) ==
    LET cb == NextReaction(p, f, r, next)
    IN  /\ registered' = [registered EXCEPT ![p] = cb.id]
        /\ handled' = handled \cup {p}
        /\ IF Settled(p)
           THEN /\ queue' = Append(queue, ReactionJob(p, cb))
                /\ UNCHANGED callbacks
           ELSE /\ callbacks' = [callbacks EXCEPT ![p] = Append(@, cb)]
                /\ UNCHANGED queue
        /\ UNCHANGED value

\* Mutant: a settled promise is adopted by copying its value.
ResolveByValue(p, v, rest) ==
    /\ stack' = rest
    /\ IF state[p] = "pending" /\ v \in Promise /\ Settled(v)
       THEN Settle(p, "fulfilled", value[v])
       ELSE IF state[p] = "pending" /\ v \in Outcome
       THEN Settle(p, "fulfilled", v)
       ELSE UNCHANGED <<promiseVars, queue, registered>>

\* ts_promise_resolve_internal, called from the stack `rest', up to its end or
\* to the lookup of "then".
ResolveInternal(p, v, rest) ==
    IF state[p] # "pending"
    THEN stack' = rest /\ UNCHANGED <<promiseVars, queue, registered>>
    ELSE \/ v = p /\ RejectInternal(p, CycleError) /\ stack' = rest
         \/ /\ v \in Promise \ (Derived \cup {p})
            /\ Register(v, FALSE, FALSE, p)
            /\ UNCHANGED state /\ stack' = rest
         \/ /\ v \in (Derived \cup {Object}) \ {p}
            /\ stack' = Append(rest, Lookup(p, v))
            /\ UNCHANGED <<promiseVars, queue, registered>>
         \/ v \in Outcome \ {Object} /\ Settle(p, "fulfilled", v) /\ stack' = rest

\* History of what user code asked for.
Remember(p, v) == /\ first' = IF first[p] = None THEN [first EXCEPT ![p] = v]
                                                 ELSE first
                  /\ again' = IF first[p] # None /\ state[p] = "pending"
                              THEN again \cup {p} ELSE again

------------------------------------------------------------------------------
(* User code: what the function on top of the stack may do next.             *)

UserRuns == stack # <<>> /\ Top.kind \in {"user", "lookup"}
Operate  == UserRuns /\ ops < MaxOps /\ ops' = ops + 1

\* new Promise(executor): the executor's calls are calls of user code.
New(p) == /\ Operate
          /\ state[p] = "unused"
          /\ state' = [state EXCEPT ![p] = "pending"]
          /\ resolvers' = resolvers \cup {p}
          /\ UNCHANGED <<value, handled, callbacks, queue, stack, reported, history>>

Then(p, f, r, next) ==
    /\ Operate
    /\ state[p] # "unused" /\ state[next] = "unused"
    /\ state' = [state EXCEPT ![next] = "pending"]
    /\ Register(p, f, r, next)
    /\ UNCHANGED <<stack, resolvers, reported, ran, first, again, damage>>

Resolve(p, v) == /\ Operate
                 /\ p \in resolvers
                 /\ v \in Promise => state[v] # "unused"
                 /\ ResolveInternal(p, v, stack)
                 /\ Remember(p, v)
                 /\ UNCHANGED <<resolvers, reported, ran, damage>>

\* The reason is not looked into, whatever it is.
Reject(p, v) == /\ Operate
                /\ p \in resolvers
                /\ RejectInternal(p, v)
                /\ Remember(p, v)
                /\ UNCHANGED <<stack, resolvers, reported, ran, damage>>

\* queueMicrotask, process.nextTick.
QueueCallback == /\ Operate
                 /\ queue' = Append(queue, CallbackJob)
                 /\ UNCHANGED <<promiseVars, stack, resolvers, reported, history>>

Awaits == {i \in 1 .. Len(stack) : stack[i].kind = "pump" /\ i # 1}

\* ts_promise_await: a settled promise is not waited for.
Await(p) == /\ Operate
            /\ state[p] # "unused"
            /\ handled' = handled \cup {p}
            /\ IF Settled(p) THEN UNCHANGED stack
               ELSE Cardinality(Awaits) < MaxAwaits /\ Push(Pump(p, "drain"))
            /\ UNCHANGED <<state, value, callbacks, queue, resolvers, reported, history>>

\* A handler's result resolves the promise derived from its reaction.
Return(v) ==
    /\ stack # <<>> /\ Top.kind = "user"
    /\ IF Top.returns = None
       THEN stack' = Below /\ UNCHANGED <<promiseVars, queue, registered, first, again>>
       ELSE /\ v \in Promise => state[v] # "unused"
            /\ ResolveInternal(Top.returns, v, Below)
            /\ Remember(Top.returns, v)
    /\ UNCHANGED <<resolvers, reported, ops, ran, damage>>

\* An exception of a handler, or of a thenable's "then", rejects its promise.
Throw(v) == /\ stack # <<>> /\ Top.kind = "user"
            /\ Top.throws # None
            /\ stack' = Below
            /\ RejectInternal(Top.throws, v)
            /\ Remember(Top.throws, v)
            /\ UNCHANGED <<resolvers, reported, ops, ran, damage>>

LooksUp == stack # <<>> /\ Top.kind = "lookup"

\* The lookup yields a function, to be called by a job, or something else: then
\* a promise is adopted, and with another object p is fulfilled.  The state of
\* p, which the accessor may have settled, is not checked again.
EndLookup ==
    /\ LooksUp
    /\ stack' = Below
    /\ LET p == Top.promise
       IN  \/ /\ queue' = Append(queue, ThenableJob(p))
              /\ UNCHANGED <<promiseVars, registered, overwritten>>
           \/ /\ Top.of \in Promise
              /\ Register(Top.of, FALSE, FALSE, p)
              /\ UNCHANGED <<state, overwritten>>
           \/ /\ Top.of = Object
              /\ Settle(p, "fulfilled", Object)
              /\ overwritten' = IF Settled(p) THEN overwritten \cup {p} ELSE overwritten
    /\ UNCHANGED <<resolvers, reported, ops, ran, first, again, cut>>

\* An exception of the accessor rejects the promise.
ThrowLookup(v) ==
    /\ LooksUp
    /\ Top.of = Object
    /\ stack' = Below
    /\ RejectInternal(Top.promise, v)
    /\ UNCHANGED <<resolvers, reported, ops, ran, first, again, damage>>

\* That of a promise goes on to the caller of the resolving function ...
ThrowToCaller ==
    /\ LooksUp
    /\ Top.of \in Promise
    /\ stack[Len(stack) - 1].kind # "reactions"
    /\ stack' = Below
    /\ UNCHANGED <<promiseVars, queue, resolvers, reported, ops, history>>

\* Mutant: the exception unwinds the drain and what was queued is lost.
ThrowThroughDrain ==
    /\ stack # <<>> /\ Top.kind = "user"
    /\ Top.throws = None
    /\ Awaits # {}
    /\ stack' = SubSeq(stack, 1, (CHOOSE i \in Awaits : TRUE) - 1)
    /\ queue' = <<>>
    /\ UNCHANGED <<promiseVars, resolvers, reported, ops, history>>

\* What nothing catches unwinds to the async function whose await pumps (its
\* prologue's handler), and ends the process if there is none.
Unwind ==
    /\ \/ Awaits = {} /\ stack' = <<>>
       \/ \E i \in Awaits : /\ \A j \in Awaits : j <= i
                            /\ stack' = SubSeq(stack, 1, i - 1)
    /\ UNCHANGED <<promiseVars, queue, resolvers, reported, ops>>

\* Nothing catches an exception of the main program, of a queued callback or of
\* an event's.
ThrowUncaught ==
    /\ stack # <<>> /\ Top.kind = "user"
    /\ Top.throws = None
    /\ Unwind
    /\ UNCHANGED history

\* ... and nothing is there to catch it when a handler's result is resolved
\* with: the reactions that were to run next are lost.
ThrowThroughReactions ==
    /\ LooksUp
    /\ Top.of \in Promise
    /\ stack[Len(stack) - 1].kind = "reactions"
    /\ Unwind
    /\ cut' = cut \cup {p \in Promise :
                           \E i \in Len(stack') + 1 .. Len(stack) :
                               stack[i].kind = "reactions" /\ stack[i].promise = p}
    /\ UNCHANGED <<registered, ran, first, again, overwritten>>

------------------------------------------------------------------------------
(* The runtime: ts_loop_run, ts_run_microtasks, the jobs.                    *)

Pumps(at) == stack # <<>> /\ Top.kind = "pump" /\ Top.at = at

\* One entry of the queue.  The settle job first reports a rejection that
\* nobody handles by now.
RunJob ==
    /\ Pumps("drain")
    /\ queue # <<>>
    /\ queue' = Tail(queue)
    /\ LET j == Head(queue)
       IN  /\ \/ j.job = "settle"
                 /\ Push(Reactions(j.promise, callbacks[j.promise], TRUE))
              \/ j.job = "reaction" /\ Push(Reactions(j.promise, <<j.cb>>, FALSE))
              \/ j.job = "thenable" /\ Push(User(None, j.promise))
              \/ j.job = "callback" /\ Push(User(None, None))
           /\ reported' = reported \cup
                 {p \in Promise : /\ j = SettleJob(p)
                                  /\ state[p] = "rejected" /\ p \notin handled}
           /\ resolvers' = resolvers \cup {p \in Promise : j = ThenableJob(p)}
    /\ UNCHANGED <<promiseVars, ops, history>>

\* ts_promise_run_callback: call the handler for the outcome, or pass the
\* outcome on to the derived promise when there is none.
RunReaction ==
    /\ stack # <<>> /\ Top.kind = "reactions" /\ Top.left # <<>>
    /\ LET p      == Top.promise
           cb     == Head(Top.left)
           rest   == [Top EXCEPT !.left = Tail(@)]
           called == IF state[p] = "fulfilled" THEN cb.onFulfilled ELSE cb.onRejected
       IN  /\ ran' = [ran EXCEPT ![p] = Append(@, cb.id)]
           /\ IF called
              THEN /\ stack' = Append(Append(Below, rest), User(cb.next, cb.next))
                   /\ UNCHANGED <<promiseVars, queue, registered>>
              ELSE IF state[p] = "fulfilled"
              THEN ResolveInternal(cb.next, value[p], Append(Below, rest))
              ELSE RejectInternal(cb.next, value[p]) /\ Replace(rest)
    /\ UNCHANGED <<resolvers, reported, ops, first, again, damage>>

EndReactions ==
    /\ stack # <<>> /\ Top.kind = "reactions" /\ Top.left = <<>>
    /\ stack' = Below
    /\ callbacks' = IF Top.settles THEN [callbacks EXCEPT ![Top.promise] = <<>>]
                                   ELSE callbacks
    /\ UNCHANGED <<state, value, handled, queue, resolvers, reported, ops, history>>

Waiting(f) == f.promise = None \/ state[f.promise] = "pending"

\* The queue is empty: poll, unless an await's promise is settled by now.
EndDrain == /\ Pumps("drain")
            /\ queue = <<>>
            /\ IF Waiting(Top) THEN Replace([Top EXCEPT !.at = "poll"])
                               ELSE stack' = Below
            /\ UNCHANGED <<promiseVars, queue, resolvers, reported, ops, history>>

\* uv_run runs the callbacks of any number of events, then the pump starts
\* over; an await whose promise they settled does not drain the queue.
Event == /\ Pumps("poll")
         /\ ops < MaxOps /\ ops' = ops + 1
         /\ Push(User(None, None))
         /\ UNCHANGED <<promiseVars, queue, resolvers, reported, history>>

\* Mutant: leaving an await clears the queue, as the end of a drain does.
EndPollAndClear ==
    /\ Pumps("poll")
    /\ IF Waiting(Top) THEN Replace([Top EXCEPT !.at = "drain"]) /\ UNCHANGED queue
                       ELSE stack' = Below /\ queue' = <<>>
    /\ UNCHANGED <<promiseVars, resolvers, reported, ops, history>>

EndPoll == /\ Pumps("poll")
           /\ IF Waiting(Top) THEN Replace([Top EXCEPT !.at = "drain"])
                              ELSE stack' = Below
           /\ UNCHANGED <<promiseVars, queue, resolvers, reported, ops, history>>

UserCode ==
    \/ \E p \in Promise : New(p) \/ Await(p)
    \/ \E p, next \in Promise, f, r \in BOOLEAN : Then(p, f, r, next)
    \/ \E p \in Promise, v \in Resolution : Resolve(p, v)
    \/ \E p \in Promise, v \in Value : Reject(p, v)
    \/ \E v \in Resolution : Return(v)
    \/ \E v \in Value : Throw(v) \/ ThrowLookup(v)
    \/ EndLookup \/ QueueCallback
    \/ ThrowUncaught \/ ThrowToCaller \/ ThrowThroughReactions

Runtime == RunJob \/ RunReaction \/ EndReactions \/ EndDrain \/ EndPoll

Next == UserCode \/ Runtime \/ Event

Spec == Init /\ [][Next]_vars

\* User functions return, and the loop keeps running: nothing is assumed of the
\* events, nor of what user code does in between.
FairSpec == /\ Spec /\ WF_vars(Runtime)
            /\ WF_vars(EndLookup \/ \E v \in Resolution : Return(v))

------------------------------------------------------------------------------
(* Properties.                                                               *)

Reaction == [id : Nat, onFulfilled : BOOLEAN, onRejected : BOOLEAN, next : Promise]

Job == [job : {"settle", "thenable"}, promise : Promise]
       \cup [job : {"reaction"}, promise : Promise, cb : Reaction]
       \cup [job : {"callback"}]

Frame == [kind : {"pump"}, promise : Promise \cup {None}, at : {"drain", "poll"}]
         \cup [kind : {"reactions"}, promise : Promise, left : Seq(Reaction),
               settles : BOOLEAN]
         \cup [kind : {"user"}, returns : Promise \cup {None},
               throws : Promise \cup {None}]
         \cup [kind : {"lookup"}, promise : Promise, of : Derived \cup {Object}]

\* Every variable has its type, and a promise has a value when it is settled.
TypeOK ==
    /\ state \in [Promise -> {"unused", "pending", "fulfilled", "rejected"}]
    /\ value \in [Promise -> Outcome \cup {None}]
    /\ \A p \in Promise : Settled(p) <=> value[p] # None
    /\ handled \subseteq Promise /\ resolvers \subseteq Promise
    /\ reported \subseteq Promise
    /\ callbacks \in [Promise -> Seq(Reaction)]
    /\ queue \in Seq(Job) /\ stack \in Seq(Frame)
    /\ ops \in 0 .. MaxOps

\* The reactions of p that are still to run, wherever they are kept: in the
\* frame of its settle job, else in p itself; in reaction jobs, queued or begun.
Ids(cbs) == [i \in 1 .. Len(cbs) |-> cbs[i].id]
FramesOf(p) == {i \in 1 .. Len(stack) :
                   stack[i].kind = "reactions" /\ stack[i].promise = p}
Places(p) ==
    {<<"frame", i, k>> : i \in FramesOf(p), k \in 1 .. registered[p]}
    \cup {<<"queue", i, 1>> : i \in 1 .. Len(queue)}
    \cup {<<"promise", 0, k>> : k \in 1 .. registered[p]}
Holds(p, place, n) ==
    CASE place[1] = "frame" -> LET left == stack[place[2]].left
                               IN  place[3] <= Len(left) /\ left[place[3]].id = n
      [] place[1] = "queue" -> LET j == queue[place[2]]
                               IN  /\ j.job = "reaction" /\ j.promise = p
                                   /\ j.cb.id = n
      [] place[1] = "promise" -> /\ \A i \in FramesOf(p) : ~stack[i].settles
                                 /\ place[3] <= Len(callbacks[p])
                                 /\ callbacks[p][place[3]].id = n
WaitingAt(p, n) == {place \in Places(p) : Holds(p, place, n)}
TimesRan(p, n)  == Cardinality({i \in 1 .. Len(ran[p]) : ran[p][i] = n})

\* A reaction is neither lost nor run twice: at every moment each reaction ever
\* registered on a promise has run once or is waiting in one place, however
\* deeply the pumps of awaits are nested and whatever an exception unwound.
\* Promises overwritten or cut off are the exception, see OnceSemantics and
\* ThrowThroughReactions.
ReactionsOnce ==
    \A p \in Promise \ (overwritten \cup cut) : \A n \in 1 .. registered[p] :
        TimesRan(p, n) + Cardinality(WaitingAt(p, n)) = 1

\* Reactions of an overwritten promise may run twice, but none is lost.
NoneLost ==
    \A p \in Promise \ cut : \A n \in 1 .. registered[p] :
        TimesRan(p, n) > 0 \/ WaitingAt(p, n) # {}

\* What waits in a settled promise is on its way: a settle job for it is queued
\* or running; and there is no second one, but for an overwritten promise, and
\* none before the promise is settled.
SettleScheduled ==
    \A p \in Promise :
        LET jobs == {i \in 1 .. Len(queue) : queue[i] = SettleJob(p)}
            runs == {i \in FramesOf(p) : stack[i].settles}
        IN  /\ p \notin overwritten => Cardinality(jobs) + Cardinality(runs) <= 1
            /\ Settled(p) /\ callbacks[p] # <<>> /\ p \notin cut => jobs \cup runs # {}
            /\ state[p] \in {"unused", "pending"} => jobs \cup runs = {}

\* Reactions of one promise run in the order of their registration, those that
\* waited for it to settle before those registered afterwards; the one exception
\* is that the pump of an await in a handler runs what is queued before the
\* reactions its own drain has begun with.  Overwritten promises, whose
\* reactions may run twice, and promises cut off are left out.
Suspended(p) == UNION {{stack[i].left[k].id : k \in 1 .. Len(stack[i].left)} :
                          i \in {f \in FramesOf(p) : \E a \in Awaits : a > f}}
ReactionsInOrder ==
    [][\A p \in Promise \ (overwritten \cup cut) : Len(ran'[p]) > Len(ran[p]) =>
          \A n \in 1 .. ran'[p][Len(ran'[p])] - 1 :
              TimesRan(p, n) = 1 \/ n \in Suspended(p)]_vars

\* When the loop has nothing left to run, each rejection nobody handles has
\* been reported.
UnhandledReported ==
    (stack # <<>> /\ Len(stack) = 1 /\ queue = <<>>) =>
        \A p \in Promise : state[p] = "rejected" /\ p \notin handled => p \in reported

\* A promise resolved with another promise, and not settled again by user code
\* in the meantime, settles as that one does.  But an object is looked up anew
\* when it is passed on; and a reaction of an overwritten promise may run twice,
\* and do so twice.
Adopts(p) == LET q == first[p]
             IN  q \in Promise \ {p} /\ Settled(p) =>
                     \/ state[q] = state[p] /\ value[q] = value[p]
                     \/ value[q] = Object
AdoptionKept == overwritten = {} => \A p \in Promise \ again : Adopts(p)

\* A settled promise keeps its state and value, until a lookup of "then" ends
\* that began when it was pending.
Stays(p) == state'[p] = state[p] /\ value'[p] = value[p]
SettledForGood ==
    [][\A p \in Promise : Settled(p) =>
          Stays(p) \/ (Top = Lookup(p, Object) /\ stack' = Below)]_vars

\* "Once-semantics come from the Pending-state check in resolve/reject_internal":
\* the first call of a resolving function decides, whatever is called later, also
\* while "then" is looked up; so no settled promise is settled again, and one
\* resolved with another promise settles as that one does.
OnceSemantics ==
    [][\A p \in Promise : (Settled(p) => Stays(p)) /\ Adopts(p)']_vars

\* "Run microtasks + libuv until settled": an await is left when its promise is
\* settled, and not before.
AwaitUntilSettled ==
    [][\A i \in Awaits : Len(stack') < i /\ stack' # <<>> =>
                             Settled(stack[i].promise)]_vars

\* Once a promise is settled its reactions get to run, unless an exception ends
\* the process or cuts them off; or there is always some await that waits for a
\* promise that is not settled, and holds up, below it on the stack, the drain
\* they belong to.
ReactionsRun ==
    \/ \A p \in Promise :
          Settled(p) ~> \/ \A n \in 1 .. registered[p] : TimesRan(p, n) > 0
                        \/ stack = <<>> \/ p \in cut
    \/ <>[](\E i \in Awaits : Waiting(stack[i]))
=============================================================================

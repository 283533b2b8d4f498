----------------------------- MODULE Generator -----------------------------
(***************************************************************************)
(* One generator object, sync or async: the requests next, return and      *)
(* throw (src/runtime/src/TsPromise.cpp) and the state machine the         *)
(* compiler turns its body into (src/compiler/hir/HIRToLLVM_*.cpp).  The   *)
(* body runs in invocations of one function: a yield returns from it, a    *)
(* request calls it again.  Exception handlers are a stack of the whole    *)
(* process, so each invocation has to leave it as it found it.             *)
(*   The body and what it delegates to are user code.  While they run, an  *)
(* await may pump other code too: either can make requests in the middle.  *)
(***************************************************************************)
EXTENDS Integers, Sequences, SequencesExt

CONSTANTS Kinds,        \* of "sync", "async" (the suspendable ones)
          MaxRequests,  \* bound on next, return and throw together
          MaxTry        \* bound on the try statements around a point

Modes == {"next", "throw", "return"}

ASSUME GeneratorAssumption ==
  /\ Kinds \subseteq {"sync", "async"}
  /\ MaxRequests \in Nat
  /\ MaxTry \in Nat

VARIABLES kind,
          pc,         \* "idle", in the "body", in its "delegate", just "returned"
          point,      \* where the body was suspended last (AsyncContext::state)
          scopes,     \* try statements around the place where the body is
          handlers,   \* exceptionStack, from the caller's handler on
          done,
          delegate,   \* is delegateIterator set?
          asked,      \* which method of the delegate is being called
          executing,
          queue,      \* requestQueue
          at,         \* entries of the queue the drain has driven
          current,    \* the request being served (pendingNextPromise); or 0
          requests,   \* the modes of all requests so far
          answers     \* what has been answered, in order

service == <<executing, queue, at, requests>>
vars == <<kind, pc, point, scopes, handlers, done, delegate, asked, service, current, answers>>

Init ==
  /\ kind \in Kinds
  /\ pc = "idle"
  /\ point = "start"
  /\ scopes = 0
  /\ handlers = <<"caller">>
  /\ done = FALSE
  /\ delegate = FALSE
  /\ asked = "next"
  /\ executing = FALSE
  /\ queue = <<>>
  /\ at = 0
  /\ current = 0
  /\ requests = <<>>
  /\ answers = <<>>

Answer(r, result) ==
  answers' = Append(answers, [req |-> r, point |-> point, result |-> result])

\* Mutant: pendingNextPromise is not cleared.
AnswerOnly(result) ==
  /\ Answer(current, result)
  /\ UNCHANGED current
  /\ pc' = IF kind = "async" THEN "returned" ELSE "idle"

\* The promise of the current request is settled and forgotten; a sync
\* generator returns to the one who made the request.
AnswerCurrent(result) ==
  /\ Answer(current, result)
  /\ current' = 0
  /\ pc' = IF kind = "async" THEN "returned" ELSE "idle"

Tries(n) == [i \in 1..n |-> "try"]

\* ts_pop_exception_handler n times, without a look at what is popped.
Popped(n) == SubSeq(handlers, 1, Len(handlers) - n)

\* The barrier is pushed in every invocation that resumes the body.
Barrier == IF kind = "async" THEN <<"barrier">> ELSE <<>>

\* emitRearmTryHandlers: once more for the try statements around the point.
Armed == handlers \o Barrier \o Tries(scopes)

-----------------------------------------------------------------------------
(* Exceptions.                                                             *)

Caught ==
  /\ pc' = "body"
  /\ scopes' = scopes - 1
  /\ UNCHANGED <<done, current, answers>>

\* Mutant: agen_impl_reject without the mark that the generator is completed.
RejectAndGoOn ==
  /\ scopes' = 0
  /\ AnswerCurrent("thrown")
  /\ UNCHANGED done

\* agen_impl_reject, ts_agen_complete_reject; a sync generator was marked
\* before it was resumed and the exception passes through to its caller, whose
\* handler is used up and of whom we assume that it sets up another one.
Uncaught ==
  /\ scopes' = 0
  /\ done' = TRUE
  /\ AnswerCurrent("thrown")

\* ts_throw unwinds to the topmost handler, whoever pushed it.
Throw ==
  /\ IF Last(handlers) = "try" THEN Caught ELSE Uncaught
  /\ handlers' = IF Last(handlers) = "caller" THEN handlers ELSE Front(handlers)
  /\ UNCHANGED <<kind, point, asked, service>>

-----------------------------------------------------------------------------
(* Resuming the body for request r.                                        *)

\* At a yield* the delegate is asked, in the mode of the request; elsewhere the
\* body goes on.  A plain yield of a sync generator has no look at the mode.
ResumeBody(r, m) ==
  /\ current' = r
  /\ handlers' = Armed
  /\ IF point = "star" THEN pc' = "delegate" /\ asked' = m
                       ELSE pc' = "body" /\ UNCHANGED asked
  /\ UNCHANGED <<point, scopes, delegate, answers>>

\* Mode 1 of emitAgenResumeModeDispatch: arm and throw, in one go.
ResumeByThrow(r) ==
  /\ handlers' = Front(Armed)
  /\ IF scopes > 0
     THEN /\ pc' = "body"
          /\ scopes' = scopes - 1
          /\ current' = r
          /\ UNCHANGED <<done, answers>>
     ELSE /\ pc' = "returned"
          /\ done' = TRUE
          /\ Answer(r, "thrown")
          /\ UNCHANGED <<scopes, current>>
  /\ UNCHANGED <<point, delegate, asked>>

\* Mode 2, agen_forced_return: completes without the finally blocks.  Only the
\* barrier has been pushed, and is popped.
ResumeByReturn(r) ==
  /\ pc' = "returned"
  /\ scopes' = 0
  /\ done' = TRUE
  /\ Answer(r, "done")
  /\ UNCHANGED <<point, handlers, delegate, asked, current>>

\* A completed generator settles at once.
AnswerStale(r, m) ==
  /\ Answer(r, IF m = "throw" THEN "thrown" ELSE "done")
  /\ UNCHANGED <<point, scopes, handlers, delegate, asked, current>>

\* agen_drive_request.
Drive(r, m) ==
  IF done THEN AnswerStale(r, m) /\ pc' = "returned" /\ UNCHANGED done
  ELSE IF point = "star" \/ m = "next" THEN ResumeBody(r, m) /\ UNCHANGED done
  ELSE IF m = "throw" THEN ResumeByThrow(r)
  ELSE ResumeByReturn(r)

\* agen_enqueue_request.
Enqueue(r, m) ==
  IF executing
  THEN /\ queue' = Append(queue, r)
       /\ UNCHANGED <<pc, point, scopes, handlers, done, delegate, asked,
                      executing, at, current, answers>>
  ELSE /\ executing' = TRUE
       /\ Drive(r, m)
       /\ UNCHANGED <<queue, at>>

\* TsGenerator::next, gen_resume_abrupt: marked as completed before it runs.
SyncResume(r, m) ==
  /\ done' = TRUE
  /\ ResumeBody(r, m)

\* Generator_return and Generator_throw complete it, unless it delegates.
SyncAnswer(r, m) ==
  /\ done' = TRUE
  /\ AnswerStale(r, m)
  /\ UNCHANGED pc

\* Mutant: done is asked for next only.
ResumesCompleted(m) == m = "next" \/ delegate

Resumes(m) == ~done /\ (m = "next" \/ delegate)

\* A request of any code that runs, the body and the delegate included.  (What
\* a sync throw request throws is taken to be caught by the code that made it.)
Request(m) ==
  /\ pc # "returned"
  /\ Len(requests) < MaxRequests
  /\ requests' = Append(requests, m)
  /\ LET r == Len(requests') IN
       IF kind = "async" THEN Enqueue(r, m)
       ELSE /\ IF Resumes(m) THEN SyncResume(r, m) ELSE SyncAnswer(r, m)
            /\ UNCHANGED <<executing, queue, at>>
  /\ UNCHANGED kind

\* Mutant: the latest first.
DrainNextNewest ==
  /\ pc = "returned"
  /\ at < Len(queue)
  /\ at' = at + 1
  /\ Drive(queue[Len(queue) - at], requests[queue[Len(queue) - at]])
  /\ UNCHANGED <<kind, executing, queue, requests>>

\* What was queued meanwhile is driven in the order of its arrival; the length
\* is read again each time.  (The safety net behind resumeFn, which completes a
\* request the body has left unanswered, is the subject of SettledOnReturn.)
DrainNext ==
  /\ pc = "returned"
  /\ at < Len(queue)
  /\ at' = at + 1
  /\ Drive(queue[at + 1], requests[queue[at + 1]])
  /\ UNCHANGED <<kind, executing, queue, requests>>

\* Mutant: drives one request of the queue only.
EndDrainEarly ==
  /\ pc = "returned"
  /\ at >= Len(queue) \/ at > 0
  /\ pc' = "idle"
  /\ executing' = FALSE
  /\ queue' = <<>>
  /\ at' = 0
  /\ UNCHANGED <<kind, point, scopes, handlers, done, delegate, asked, current, requests, answers>>

\* Mutant: the index is not reset with the queue.
EndDrainKeepsIndex ==
  /\ pc = "returned"
  /\ at >= Len(queue)
  /\ pc' = "idle"
  /\ executing' = FALSE
  /\ queue' = <<>>
  /\ UNCHANGED <<kind, point, scopes, handlers, done, delegate, asked, at, current, requests, answers>>

EndDrain ==
  /\ pc = "returned"
  /\ at >= Len(queue)
  /\ pc' = "idle"
  /\ executing' = FALSE
  /\ queue' = <<>>
  /\ at' = 0
  /\ UNCHANGED <<kind, point, scopes, handlers, done, delegate, asked, current, requests, answers>>

-----------------------------------------------------------------------------
(* The body.                                                               *)

EnterTry ==
  /\ pc = "body" /\ scopes < MaxTry
  /\ scopes' = scopes + 1
  /\ handlers' = Append(handlers, "try")
  /\ UNCHANGED <<kind, pc, point, done, delegate, asked, service, current, answers>>

LeaveTry ==
  /\ pc = "body" /\ scopes > 0
  /\ scopes' = scopes - 1
  /\ handlers' = Popped(1)
  /\ UNCHANGED <<kind, pc, point, done, delegate, asked, service, current, answers>>

\* By the body, by an awaited operand of yield that rejects, by pumped code.
BodyThrows == pc = "body" /\ Throw /\ UNCHANGED delegate

\* Mutant: the handlers stay, as if the function did not return.
LeavePushed(n) == handlers

\* The function returns with n try statements to leave: emitSuspendHandlerPops
\* and the pop of the barrier.
Leave(n) == Popped(n + Len(Barrier))

\* yield, the operand awaited: the request is answered, the state set, the
\* handlers popped.
SuspendAt(p) ==
  /\ point' = p
  /\ handlers' = Leave(scopes)
  /\ done' = (kind = "async" /\ done)
  /\ AnswerCurrent("value")
  /\ UNCHANGED <<kind, scopes, asked, service>>

Yield == pc = "body" /\ SuspendAt("yield") /\ UNCHANGED delegate

\* return, through the try statements, which it pops: ts_agen_complete.
BodyReturns ==
  /\ pc = "body"
  /\ handlers' = Leave(scopes)
  /\ scopes' = 0
  /\ done' = TRUE
  /\ AnswerCurrent("done")
  /\ UNCHANGED <<kind, point, delegate, asked, service>>

-----------------------------------------------------------------------------
(* yield*.                                                                 *)

DelegateTo ==
  /\ pc = "body"
  /\ pc' = "delegate"
  /\ delegate' = TRUE
  /\ asked' = "next"
  /\ UNCHANGED <<kind, point, scopes, handlers, done, service, current, answers>>

\* Its result is not done: the value is yielded.
DelegateYields == pc = "delegate" /\ SuspendAt("star") /\ UNCHANGED delegate

DelegateDone ==
  /\ pc = "delegate" /\ asked # "return"
  /\ pc' = "body"
  /\ delegate' = FALSE
  /\ UNCHANGED <<kind, point, scopes, handlers, done, asked, service, current, answers>>

\* Its return is done, or there is no such method: the generator is completed
\* in the helper, and the function returns after it.
DelegateReturned ==
  /\ pc = "delegate" /\ asked = "return"
  /\ delegate' = (kind = "async" /\ delegate)
  /\ handlers' = Leave(scopes)
  /\ scopes' = 0
  /\ done' = TRUE
  /\ AnswerCurrent("done")
  /\ UNCHANGED <<kind, point, asked, service>>

\* It throws, it rejects or its result is no object.
DelegateThrows == pc = "delegate" /\ Throw /\ UNCHANGED delegate

\* It has no throw method: the sync helper forgets it before the TypeError.
DelegateHasNoThrow ==
  /\ pc = "delegate" /\ asked = "throw"
  /\ delegate' = (kind = "async" /\ delegate)
  /\ Throw

Next ==
  \/ \E m \in Modes : Request(m)
  \/ DrainNext \/ EndDrain
  \/ EnterTry \/ LeaveTry \/ BodyThrows \/ Yield \/ BodyReturns
  \/ DelegateTo \/ DelegateYields \/ DelegateDone \/ DelegateReturned
  \/ DelegateThrows \/ DelegateHasNoThrow

Spec == Init /\ [][Next]_vars

-----------------------------------------------------------------------------
TypeOK ==
  /\ kind \in Kinds
  /\ pc \in {"idle", "body", "delegate", "returned"}
  /\ point \in {"start", "yield", "star"}
  /\ scopes \in 0..MaxTry
  /\ handlers \in Seq({"caller", "barrier", "try"})
  /\ {done, delegate, executing} \subseteq BOOLEAN
  /\ asked \in Modes
  /\ requests \in Seq(Modes)
  /\ queue \in Seq(DOMAIN requests)
  /\ at \in 0..Len(queue)
  /\ current \in 0..Len(requests)
  /\ answers \in Seq([req : DOMAIN requests,
                      point : {"start", "yield", "star"},
                      result : {"value", "done", "thrown"}])

Running == pc \in {"body", "delegate"}

\* The exception handlers are balanced across every way in and out of the body:
\* while it runs the stack holds the barrier and its try statements on top of
\* the caller's handler, and nothing of it afterwards.  One pop too few leaves
\* a handler of a dead frame, one too many takes the caller's.
HandlersBalanced ==
  handlers = <<"caller">> \o (IF Running THEN Barrier \o Tries(scopes) ELSE <<>>)

\* The requests of an async generator are answered once each, in their order,
\* also those made while the body ran; those of a sync generator once each.
AnswersExact ==
  /\ IsInjective([i \in DOMAIN answers |-> answers[i].req])
  /\ kind = "async" => \A i \in DOMAIN answers : answers[i].req = i

\* No request is forgotten: when the generator is at rest all are answered.
NothingForgotten ==
  pc = "idle" => Len(answers) = Len(requests) /\ queue = <<>> /\ ~executing

\* Whatever way the body comes back it has answered the request: the safety
\* net of agen_drive_request ("it always should once the Stage-3 lowering
\* lands") has nothing to catch, so no caller hangs on a pending promise.
SettledOnReturn == ~Running => current = 0

\* After the first answer that ends an async generator no value comes from it.
NoValueAfterEnd ==
  kind = "async" =>
    \A i, j \in DOMAIN answers :
      i < j /\ answers[i].result # "value" => answers[j].result # "value"

\* A completed generator is never resumed and never comes to life again.
CompletedForGood == [][~Running /\ done => done' /\ ~Running']_vars
=============================================================================

--------------------------- MODULE PromiseProofs ---------------------------
(* Proofs about module PromiseJobs, for any set of promises and values, any  *)
(* number of operations and any nesting of awaits.  IInv is about jobs: a    *)
(* settled promise stays as it is, its reactions are on their way, and no    *)
(* rejection goes unreported.  HistoryInv is about the places where single   *)
(* reactions are kept: they run once, in order.  HeadInv is about who can    *)
(* settle a promise: what one was resolved with is what it settles as.  The  *)
(* last section is about the ends of awaits.                                 *)
(*                                                                           *)
(* What the argument rests on: what settles a promise queues its job in the  *)
(* same step, a settled promise is not settled again, the queue loses        *)
(* entries at its head only, and an exception that unwinds the stack takes   *)
(* off a pump and the function it called, but never a frame with reactions   *)
(* still to run (FrameInv).  Two actions are the exception: EndLookup may    *)
(* settle what the accessor has settled, and ThrowThroughReactions takes off *)
(* such a frame.  The promises they damage are remembered (overwritten, cut) *)
(* and the invariants leave out those, and no others.                        *)
EXTENDS PromiseJobs, SequenceTheorems, FiniteSetTheorems, TLAPS

\* The settle jobs of p: queued, and running.
Jobs(p) == {i \in 1 .. Len(queue) : queue[i] = SettleJob(p)}
Runs(p) == {i \in 1 .. Len(stack) : /\ stack[i].kind = "reactions"
                                    /\ stack[i].promise = p /\ stack[i].settles}

\* TypeOK without the stack, and with the type of one history variable.
PromiseType ==
    /\ state \in [Promise -> {"unused", "pending", "fulfilled", "rejected"}]
    /\ value \in [Promise -> Outcome \cup {None}]
    /\ \A p \in Promise : Settled(p) <=> value[p] # None
    /\ handled \subseteq Promise
    /\ callbacks \in [Promise -> Seq(Reaction)]
    /\ registered \in [Promise -> Nat]
    /\ queue \in Seq(Job)

\* What is queued or runs for a promise has been queued because it is settled.
QueueInv == \A i \in 1 .. Len(queue) :
                queue[i].job \in {"settle", "reaction"} => Settled(queue[i].promise)

\* And a function nobody catches the exceptions of has been called by a pump.
FrameInv == \A i \in 1 .. Len(stack) :
    /\ stack[i].kind = "reactions" => Settled(stack[i].promise)
    /\ stack[i].kind = "user" /\ stack[i].throws = None =>
           i > 1 /\ stack[i - 1].kind = "pump"

\* There is one settle job for a promise, queued or running, unless a lookup has
\* overwritten it.
OneJob == \A p \in Promise \ overwritten :
    /\ \A i, j \in Jobs(p) : i = j
    /\ \A i, j \in Runs(p) : i = j
    /\ Jobs(p) = {} \/ Runs(p) = {}

\* What waits in a settled promise is on its way, if it has not been cut off.
OnItsWay == \A p \in Promise \ cut :
    Settled(p) /\ callbacks[p] # <<>> => Jobs(p) # {} \/ Runs(p) # {}

\* A rejection nobody handles has been reported, or the job that does is queued.
ReportInv == \A p \in Promise :
    state[p] = "rejected" /\ p \notin handled => p \in reported \/ Jobs(p) # {}

\* What IInv says of the queue.
Orderly == QueueInv /\ OneJob /\ OnItsWay /\ ReportInv

\* The inductive invariant.
IInv == /\ PromiseType /\ stack \in Seq(Frame)
        /\ resolvers \subseteq Promise /\ reported \subseteq Promise /\ ops \in 0 .. MaxOps
        /\ FrameInv /\ Orderly

------------------------------------------------------------------------------
(* Jobs and frames.                                                          *)

\* Frames by their kind.
LEMMA FrameKinds ==
  ASSUME NEW f \in Frame
  PROVE  /\ f.kind \in {"pump", "reactions", "user", "lookup"}
         /\ f.kind = "pump" => /\ f \in [kind : {"pump"}, promise : Promise \cup {None},
                                         at : {"drain", "poll"}]
         /\ f.kind = "reactions" => f \in [kind : {"reactions"}, promise : Promise,
                                           left : Seq(Reaction), settles : BOOLEAN]
         /\ f.kind = "user" => f \in [kind : {"user"}, returns : Promise \cup {None},
                                      throws : Promise \cup {None}]
         /\ f.kind = "lookup" => /\ f \in [kind : {"lookup"}, promise : Promise,
                                           of : Derived \cup {Object}]
                                /\ f = Lookup(f.promise, f.of)
BY DEF Frame, Lookup

\* Jobs by their kind; which of them are settle jobs.
LEMMA JobKinds ==
  ASSUME NEW j \in Job
  PROVE  /\ j.job \in {"settle", "reaction", "thenable", "callback"}
         /\ j.job = "settle" => j.promise \in Promise /\ j = SettleJob(j.promise)
         /\ j.job = "reaction" => j.promise \in Promise /\ j.cb \in Reaction
         /\ j.job = "thenable" => j.promise \in Promise /\ j = ThenableJob(j.promise)
         /\ \A p \in Promise : j = SettleJob(p) => j.job = "settle" /\ j.promise = p
BY DEF Job, SettleJob, ThenableJob

------------------------------------------------------------------------------
(* The queue.                                                                *)

\* A job is appended; it is a settle job of p or of nobody else.
LEMMA QueueGrows ==
  ASSUME queue \in Seq(Job), NEW j \in Job, queue' = Append(queue, j)
  PROVE  /\ Len(queue) \in Nat /\ Len(queue') = Len(queue) + 1
         /\ \A i \in 1 .. Len(queue) : queue'[i] = queue[i]
         /\ queue'[Len(queue) + 1] = j
         /\ \A p : Jobs(p)' = Jobs(p) \cup (IF j = SettleJob(p) THEN {Len(queue) + 1} ELSE {})
<1>1. /\ Len(queue) \in Nat /\ Len(queue') = Len(queue) + 1
      /\ \A i \in 1 .. Len(queue) : queue'[i] = queue[i]
      /\ queue'[Len(queue) + 1] = j
  BY AppendProperties
<1>2. ASSUME NEW p
      PROVE  Jobs(p)' = Jobs(p) \cup (IF j = SettleJob(p) THEN {Len(queue) + 1} ELSE {})
  <2>1. SettleJob(p)' = SettleJob(p)  BY DEF SettleJob
  <2>2. 1 .. Len(queue') = (1 .. Len(queue)) \cup {Len(queue) + 1}  BY <1>1
  <2>3. Jobs(p)' = {i \in 1 .. Len(queue') : queue'[i] = SettleJob(p)}  BY <2>1 DEF Jobs
  <2>4. ASSUME NEW i
        PROVE  i \in Jobs(p)' <=>
                 i \in Jobs(p) \cup (IF j = SettleJob(p) THEN {Len(queue) + 1} ELSE {})
    <3>1. CASE i \in 1 .. Len(queue)  BY <1>1, <2>2, <2>3, <3>1 DEF Jobs
    <3>2. CASE i = Len(queue) + 1  BY <1>1, <2>2, <2>3, <3>2 DEF Jobs
    <3>3. CASE i \notin (1 .. Len(queue)) \cup {Len(queue) + 1}
      BY <2>2, <2>3, <3>3 DEF Jobs
    <3> QED  BY <3>1, <3>2, <3>3
  <2> QED  BY <2>4
<1> QED  BY <1>1, <1>2

\* What every operation on promises comes to: settled promises stay as they are,
\* but for the one a lookup ends for, and a job is queued exactly for the promise
\* that is settled by it.
Operated ==
  /\ PromiseType'
  /\ \A q \in Promise : Settled(q) =>
        /\ Settled(q)' /\ callbacks'[q] = callbacks[q]
        /\ \/ Stays(q)
           \/ /\ state'[q] = "fulfilled" /\ q \in overwritten'
              /\ Top = Lookup(q, Object) /\ stack' = Below
  /\ handled \subseteq handled'
  /\ \/ queue' = queue /\ \A q \in Promise : Settled(q)' => Settled(q)
     \/ \E j \in Job :
           /\ queue' = Append(queue, j)
           /\ \A q \in Promise :
                 /\ ~Settled(q) /\ Settled(q)' => j = SettleJob(q)
                 /\ j = SettleJob(q) => Settled(q)' /\ (~Settled(q) \/ q \in overwritten')
           /\ j.job = "reaction" => Settled(j.promise)

\* The damage done is not forgotten.
Remembered == overwritten \subseteq overwritten' /\ cut \subseteq cut'

\* A settled promise is rejected only if it was.
LEMMA StillRejected ==
  ASSUME Operated, NEW q \in Promise, Settled(q), state'[q] = "rejected"
  PROVE  state[q] = "rejected"
BY DEF Operated, Stays

\* An operation keeps the order of the queue as long as no frame with reactions
\* comes, nor goes unless it is cut off.
LEMMA Steady ==
  ASSUME IInv, Operated, Remembered, reported \subseteq reported',
         \A p \in Promise : /\ Runs(p)' \subseteq Runs(p)
                            /\ p \notin cut' => Runs(p)' = Runs(p)
  PROVE  Orderly'
<1>1. /\ PromiseType /\ QueueInv /\ OneJob /\ OnItsWay /\ ReportInv
      /\ FrameInv /\ stack \in Seq(Frame)
  BY DEF IInv, Orderly
<1>2. queue \in Seq(Job) /\ Len(queue) \in Nat /\ \A i \in 1 .. Len(queue) : queue[i] \in Job
  BY <1>1 DEF PromiseType
<1>3. \A q \in Promise : Settled(q) => Settled(q)' /\ callbacks'[q] = callbacks[q]
  BY DEF Operated
<1>4. \A q \in Promise : Settled(q) /\ state'[q] = "rejected" => state[q] = "rejected"
  BY StillRejected
<1>5. \A q \in Promise : Runs(q) # {} => Settled(q)
  BY <1>1 DEF Runs, FrameInv
<1>6. \A q \in Promise : Jobs(q) # {} => Settled(q)
  <2> SUFFICES ASSUME NEW q \in Promise, NEW i \in 1 .. Len(queue), queue[i] = SettleJob(q)
               PROVE  Settled(q)
    BY DEF Jobs
  <2>1. queue[i].job = "settle" /\ queue[i].promise = q  BY <1>2, JobKinds
  <2> QED  BY <1>1, <2>1 DEF QueueInv
<1>7. \A q : /\ q \notin handled' => q \notin handled
             /\ q \notin overwritten' => q \notin overwritten
             /\ q \notin cut' => q \notin cut
  BY DEF Operated, Remembered
<1>8. CASE queue' = queue /\ \A q \in Promise : Settled(q)' => Settled(q)
  <2>1. \A q \in Promise : Jobs(q)' = Jobs(q)  BY <1>8 DEF Jobs, SettleJob
  <2>2. QueueInv'
    <3> SUFFICES ASSUME NEW i \in 1 .. Len(queue), queue[i].job \in {"settle", "reaction"}
                 PROVE  Settled(queue[i].promise)'
      BY <1>8 DEF QueueInv, Settled
    <3>1. queue[i].promise \in Promise /\ Settled(queue[i].promise)
      BY <1>1, <1>2, JobKinds DEF QueueInv
    <3> QED  BY <1>3, <1>8, <3>1 DEF Settled
  <2>3. OneJob'
    <3> SUFFICES ASSUME NEW q \in Promise, q \notin overwritten'
                 PROVE  /\ \A i, k \in Jobs(q)' : i = k
                        /\ \A i, k \in Runs(q)' : i = k
                        /\ Jobs(q)' = {} \/ Runs(q)' = {}
      BY DEF OneJob
    <3>1. q \notin overwritten /\ Runs(q)' \subseteq Runs(q)  BY <1>7
    <3> QED  BY <1>1, <2>1, <3>1 DEF OneJob
  <2>4. OnItsWay'
    <3> SUFFICES ASSUME NEW q \in Promise, q \notin cut', Settled(q)', callbacks'[q] # <<>>
                 PROVE  Jobs(q)' # {} \/ Runs(q)' # {}
      BY DEF OnItsWay
    <3> QED  BY <1>1, <1>3, <1>7, <1>8, <2>1 DEF OnItsWay
  <2>5. ReportInv'
    <3> SUFFICES ASSUME NEW q \in Promise, state'[q] = "rejected", q \notin handled'
                 PROVE  q \in reported' \/ Jobs(q)' # {}
      BY DEF ReportInv
    <3>1. Settled(q)  BY <1>8 DEF Settled
    <3> QED  BY <1>1, <1>4, <1>7, <2>1, <3>1 DEF ReportInv
  <2> QED  BY <2>2, <2>3, <2>4, <2>5 DEF Orderly
<1>9. ASSUME NEW j \in Job, queue' = Append(queue, j),
             \A q \in Promise :
                /\ ~Settled(q) /\ Settled(q)' => j = SettleJob(q)
                /\ j = SettleJob(q) => Settled(q)' /\ (~Settled(q) \/ q \in overwritten'),
             j.job = "reaction" => Settled(j.promise)
      PROVE  Orderly'
  <2>1. /\ Len(queue') = Len(queue) + 1
        /\ \A i \in 1 .. Len(queue) : queue'[i] = queue[i]
        /\ queue'[Len(queue) + 1] = j
        /\ \A p : Jobs(p)' = Jobs(p) \cup (IF j = SettleJob(p) THEN {Len(queue) + 1} ELSE {})
    BY <1>2, <1>9, QueueGrows
  <2>2. QueueInv'
    <3> SUFFICES ASSUME NEW i \in 1 .. Len(queue) + 1,
                        queue'[i].job \in {"settle", "reaction"}
                 PROVE  state'[queue'[i].promise] \in {"fulfilled", "rejected"}
      BY <2>1 DEF QueueInv, Settled
    <3> DEFINE p == queue'[i].promise
    <3>1. CASE i \in 1 .. Len(queue)
      <4>1. p = queue[i].promise /\ p \in Promise /\ Settled(p)
        BY <1>1, <1>2, <2>1, <3>1, JobKinds DEF QueueInv
      <4> QED  BY <4>1 DEF Operated, Settled
    <3>2. CASE i = Len(queue) + 1
      <4>1. j.job \in {"settle", "reaction"} /\ p = j.promise  BY <2>1, <3>2
      <4>2. CASE j.job = "settle"
        <5>1. p \in Promise /\ j = SettleJob(p)  BY <4>1, <4>2, JobKinds
        <5> HIDE DEF p
        <5>2. state'[p] \in {"fulfilled", "rejected"}  BY <1>9, <5>1 DEF Settled
        <5> QED  BY <5>2 DEF p
      <4>3. CASE j.job = "reaction"
        <5>1. p \in Promise /\ Settled(p)  BY <1>9, <4>1, <4>3, JobKinds
        <5> QED  BY <5>1 DEF Operated, Settled
      <4> QED  BY <4>1, <4>2, <4>3
    <3> QED  BY <1>2, <3>1, <3>2
  <2>3. ASSUME NEW q \in Promise, q \notin overwritten'
        PROVE  /\ \A i, k \in Jobs(q)' : i = k
               /\ \A i, k \in Runs(q)' : i = k
               /\ Jobs(q)' = {} \/ Runs(q)' = {}
    <3>1. CASE j = SettleJob(q)
      <4>1. Jobs(q) = {} /\ Runs(q) = {}  BY <1>5, <1>6, <1>9, <2>3, <3>1
      <4> QED  BY <2>1, <3>1, <4>1
    <3>2. CASE j # SettleJob(q)
      <4>1. Jobs(q)' = Jobs(q) /\ q \notin overwritten  BY <1>7, <2>1, <2>3, <3>2
      <4> QED  BY <1>1, <4>1 DEF OneJob
    <3> QED  BY <3>1, <3>2
  <2>4. OneJob'  BY <2>3 DEF OneJob
  <2>5. \A q \in Promise : /\ Jobs(q) # {} => Jobs(q)' # {}
                           /\ ~Settled(q) /\ Settled(q)' => Jobs(q)' # {}
    BY <1>9, <2>1
  <2>6. OnItsWay'
    <3> SUFFICES ASSUME NEW q \in Promise, q \notin cut', Settled(q)', callbacks'[q] # <<>>
                 PROVE  Jobs(q)' # {} \/ Runs(q)' # {}
      BY DEF OnItsWay
    <3>1. CASE Settled(q)  BY <1>1, <1>3, <1>7, <2>5, <3>1 DEF OnItsWay
    <3>2. CASE ~Settled(q)  BY <2>5, <3>2
    <3> QED  BY <3>1, <3>2
  <2>7. ReportInv'
    <3> SUFFICES ASSUME NEW q \in Promise, state'[q] = "rejected", q \notin handled'
                 PROVE  q \in reported' \/ Jobs(q)' # {}
      BY DEF ReportInv
    <3>1. Settled(q)'  BY DEF Settled
    <3>2. CASE Settled(q)  BY <1>1, <1>4, <1>7, <2>5, <3>2 DEF ReportInv
    <3>3. CASE ~Settled(q)  BY <2>5, <3>1, <3>3
    <3> QED  BY <3>2, <3>3
  <2> QED  BY <2>2, <2>4, <2>6, <2>7 DEF Orderly
<1> QED  BY <1>8, <1>9 DEF Operated

------------------------------------------------------------------------------
(* The operations.                                                           *)

\* The operations of TsPromise do what Operated says: nothing,
LEMMA Untouched ==
  ASSUME PromiseType, UNCHANGED <<promiseVars, queue, registered>>
  PROVE  Operated
<1>1. UNCHANGED <<state, value, handled, callbacks, queue, registered>>  BY DEF promiseVars
<1>2. PromiseType'  BY <1>1 DEF PromiseType, Settled
<1> QED  BY <1>1, <1>2 DEF Operated, Settled, Stays

\* settling a pending promise,
LEMMA Settles ==
  ASSUME PromiseType, NEW p \in Promise, state[p] = "pending",
         NEW how \in {"fulfilled", "rejected"}, NEW v \in Outcome, Settle(p, how, v)
  PROVE  Operated
<1>1. /\ state' = [state EXCEPT ![p] = how] /\ value' = [value EXCEPT ![p] = v]
      /\ queue' = Append(queue, SettleJob(p)) /\ UNCHANGED <<handled, callbacks, registered>>
  BY DEF Settle
<1>2. v # None  BY PromiseAssumption
<1>3. \A q \in Promise : /\ Settled(q)' <=> q = p \/ Settled(q)
                         /\ q # p => state'[q] = state[q] /\ value'[q] = value[q]
  BY <1>1 DEF PromiseType, Settled
<1>4. ~Settled(p) /\ state'[p] = how /\ value'[p] = v  BY <1>1 DEF PromiseType, Settled
<1>5. SettleJob(p) \in Job /\ SettleJob(p).job = "settle"  BY DEF SettleJob, Job
<1>6. queue' \in Seq(Job)  BY <1>1, <1>5 DEF PromiseType
<1>7. PromiseType'
  <2>1. \A q \in Promise : Settled(q)' <=> value'[q] # None
    BY <1>2, <1>3, <1>4 DEF PromiseType
  <2> QED  BY <1>1, <1>6, <2>1 DEF PromiseType
<1>8. \A q \in Promise : SettleJob(p) = SettleJob(q) <=> q = p
  BY DEF SettleJob
<1>9. \A q \in Promise : /\ ~Settled(q) /\ Settled(q)' => SettleJob(p) = SettleJob(q)
                         /\ SettleJob(p) = SettleJob(q) => Settled(q)' /\ ~Settled(q)
  BY <1>3, <1>4, <1>8
<1>10. \A q \in Promise : Settled(q) => Settled(q)' /\ Stays(q) /\ callbacks'[q] = callbacks[q]
  BY <1>1, <1>3, <1>4 DEF Stays
<1> QED  BY <1>1, <1>5, <1>7, <1>9, <1>10 DEF Operated

\* settling a promise when its lookup ends, whatever it is by then,
LEMMA Overwrites ==
  ASSUME PromiseType, NEW p \in Promise, Settle(p, "fulfilled", Object),
         Top = Lookup(p, Object), stack' = Below,
         overwritten' = IF Settled(p) THEN overwritten \cup {p} ELSE overwritten
  PROVE  Operated
<1>1. /\ state' = [state EXCEPT ![p] = "fulfilled"] /\ value' = [value EXCEPT ![p] = Object]
      /\ queue' = Append(queue, SettleJob(p)) /\ UNCHANGED <<handled, callbacks, registered>>
  BY DEF Settle
<1>2. Object # None /\ Object \in Outcome  BY PromiseAssumption DEF Outcome
<1>3. \A q \in Promise : /\ Settled(q)' <=> q = p \/ Settled(q)
                         /\ q # p => state'[q] = state[q] /\ value'[q] = value[q]
  BY <1>1 DEF PromiseType, Settled
<1>4. state'[p] = "fulfilled" /\ value'[p] = Object  BY <1>1 DEF PromiseType
<1>5. SettleJob(p) \in Job /\ SettleJob(p).job = "settle"  BY DEF SettleJob, Job
<1>6. queue' \in Seq(Job)  BY <1>1, <1>5 DEF PromiseType
<1>7. PromiseType'
  <2>1. \A q \in Promise : Settled(q)' <=> value'[q] # None
    BY <1>2, <1>3, <1>4 DEF PromiseType
  <2> QED  BY <1>1, <1>2, <1>6, <2>1 DEF PromiseType
<1>8. \A q \in Promise : SettleJob(p) = SettleJob(q) <=> q = p
  BY DEF SettleJob
<1>9. \A q \in Promise :
         /\ ~Settled(q) /\ Settled(q)' => SettleJob(p) = SettleJob(q)
         /\ SettleJob(p) = SettleJob(q) => Settled(q)' /\ (~Settled(q) \/ q \in overwritten')
  BY <1>3, <1>8
<1>10. \A q \in Promise : Settled(q) =>
         /\ Settled(q)' /\ callbacks'[q] = callbacks[q]
         /\ \/ Stays(q)
            \/ /\ state'[q] = "fulfilled" /\ q \in overwritten'
               /\ Top = Lookup(q, Object) /\ stack' = Below
  BY <1>1, <1>3, <1>4 DEF Stays
<1> QED  BY <1>1, <1>5, <1>7, <1>9, <1>10 DEF Operated

\* TsPromise::then, with a promise derived or without,
LEMMA Registers ==
  ASSUME PromiseType, NEW p \in Promise, NEW next \in Promise,
         NEW f \in BOOLEAN, NEW r \in BOOLEAN, Register(p, f, r, next),
         \/ UNCHANGED state
         \/ state[next] = "unused" /\ state' = [state EXCEPT ![next] = "pending"]
  PROVE  Operated
<1> DEFINE cb == NextReaction(p, f, r, next)
<1>1. /\ registered' = [registered EXCEPT ![p] = cb.id] /\ handled' = handled \cup {p}
      /\ UNCHANGED value
      /\ \/ Settled(p) /\ queue' = Append(queue, ReactionJob(p, cb)) /\ UNCHANGED callbacks
         \/ /\ ~Settled(p) /\ UNCHANGED queue
            /\ callbacks' = [callbacks EXCEPT ![p] = Append(@, cb)]
  BY DEF Register
<1>2. cb \in Reaction /\ cb.id \in Nat  BY DEF NextReaction, Reaction, PromiseType
<1> HIDE DEF cb
<1>3. /\ state' \in [Promise -> {"unused", "pending", "fulfilled", "rejected"}]
      /\ \A q \in Promise : /\ Settled(q)' <=> Settled(q)
                            /\ Settled(q) => state'[q] = state[q]
  BY DEF PromiseType, Settled
<1>4. PromiseType'
  <2>0. callbacks \in [Promise -> Seq(Reaction)] /\ queue \in Seq(Job)  BY DEF PromiseType
  <2>1. callbacks' \in [Promise -> Seq(Reaction)]
    <3>1. Append(callbacks[p], cb) \in Seq(Reaction)  BY <1>2, <2>0
    <3>2. \/ callbacks' = callbacks
          \/ callbacks' = [callbacks EXCEPT ![p] = Append(callbacks[p], cb)]
      BY <1>1
    <3> QED  BY <2>0, <3>1, <3>2
  <2>2. queue' \in Seq(Job)
    <3>1. ReactionJob(p, cb) \in Job  BY <1>2 DEF ReactionJob, Job
    <3>2. Append(queue, ReactionJob(p, cb)) \in Seq(Job)  BY <2>0, <3>1
    <3>3. queue' = queue \/ queue' = Append(queue, ReactionJob(p, cb))  BY <1>1
    <3> QED  BY <2>0, <3>2, <3>3
  <2>3. \A q \in Promise : Settled(q)' <=> value'[q] # None  BY <1>1, <1>3 DEF PromiseType
  <2> QED  BY <1>1, <1>2, <1>3, <2>1, <2>2, <2>3 DEF PromiseType
<1>5. \A q \in Promise : Settled(q) => callbacks'[q] = callbacks[q] /\ Stays(q)
  BY <1>1, <1>3 DEF PromiseType, Stays
<1>6. CASE Settled(p)
  <2> DEFINE j == ReactionJob(p, cb)
  <2>1. j \in Job /\ j.job = "reaction" /\ j.promise = p  BY <1>2 DEF ReactionJob, Job
  <2>2. \A q \in Promise : j # SettleJob(q)  BY DEF ReactionJob, SettleJob
  <2>3. queue' = Append(queue, j)  BY <1>1, <1>6
  <2> HIDE DEF j
  <2> QED  BY <1>1, <1>3, <1>4, <1>5, <1>6, <2>1, <2>2, <2>3 DEF Operated
<1>7. CASE ~Settled(p)
  BY <1>1, <1>3, <1>4, <1>5, <1>7 DEF Operated
<1> QED  BY <1>6, <1>7

\* queueing a job that is no reaction,
LEMMA Queues ==
  ASSUME PromiseType, NEW j \in Job, j.job \in {"thenable", "callback"},
         queue' = Append(queue, j), UNCHANGED <<promiseVars, registered>>
  PROVE  Operated
<1>1. UNCHANGED <<state, value, handled, callbacks, registered>>  BY DEF promiseVars
<1>2. queue' \in Seq(Job)  BY DEF PromiseType
<1>3. PromiseType'  BY <1>1, <1>2 DEF PromiseType, Settled
<1>4. \A q \in Promise : j # SettleJob(q)  BY JobKinds
<1> QED  BY <1>1, <1>3, <1>4 DEF Operated, Settled, Stays

\* ts_promise_reject_internal,
LEMMA Rejects ==
  ASSUME PromiseType, NEW p \in Promise, NEW v \in Outcome, RejectInternal(p, v)
  PROVE  Operated
<1>1. CASE state[p] = "pending"  BY <1>1, Settles DEF RejectInternal
<1>2. CASE state[p] # "pending"  BY <1>2, Untouched DEF RejectInternal
<1> QED  BY <1>1, <1>2

\* ts_promise_resolve_internal, which may end with a lookup on the stack.
LEMMA Resolves ==
  ASSUME PromiseType, NEW p \in Promise, NEW v, NEW rest, ResolveInternal(p, v, rest)
  PROVE  /\ Operated
         /\ \/ stack' = rest
            \/ stack' = Append(rest, Lookup(p, v)) /\ Lookup(p, v) \in Frame
<1>1. CASE state[p] # "pending"  BY <1>1, Untouched DEF ResolveInternal
<1>2. CASE state[p] = "pending"
  <2>1. CASE v = p /\ RejectInternal(p, CycleError) /\ stack' = rest
    BY <2>1, Rejects DEF Outcome
  <2>2. CASE /\ v \in Promise \ (Derived \cup {p})
             /\ Register(v, FALSE, FALSE, p)
             /\ UNCHANGED state /\ stack' = rest
    BY <2>2, Registers
  <2>3. CASE /\ v \in (Derived \cup {Object}) \ {p}
             /\ stack' = Append(rest, Lookup(p, v))
             /\ UNCHANGED <<promiseVars, queue, registered>>
    <3>1. Lookup(p, v) \in Frame  BY <2>3 DEF Lookup, Frame
    <3> QED  BY <2>3, <3>1, Untouched
  <2>4. CASE v \in Outcome \ {Object} /\ Settle(p, "fulfilled", v) /\ stack' = rest
    BY <1>2, <2>4, Settles
  <2> QED  BY <1>2, <2>1, <2>2, <2>3, <2>4 DEF ResolveInternal
<1> QED  BY <1>1, <1>2

------------------------------------------------------------------------------
(* The stack.                                                                *)

\* Frames the invariant does not tell apart.
Alike(f, g) ==
  /\ f.kind = g.kind
  /\ f.kind = "reactions" => f.promise = g.promise /\ f.settles = g.settles
  /\ f.kind = "user" => f.throws = g.throws

\* The stack changes above its first n frames, where there are no reactions.
LEMMA SameBelow ==
  ASSUME stack \in Seq(Frame), stack' \in Seq(Frame), FrameInv, Operated,
         NEW n \in Nat, n <= Len(stack), n <= Len(stack'),
         \A i \in 1 .. n : Alike(stack'[i], stack[i]),
         \A i \in n + 1 .. Len(stack) : stack[i].kind # "reactions",
         \A i \in n + 1 .. Len(stack') :
            /\ stack'[i].kind # "reactions"
            /\ stack'[i].kind = "user" /\ stack'[i].throws = None =>
                 i > 1 /\ stack'[i - 1].kind = "pump"
  PROVE  FrameInv' /\ \A q \in Promise : Runs(q)' = Runs(q)
<1>1. /\ Len(stack) \in Nat /\ Len(stack') \in Nat
      /\ \A i \in 1 .. Len(stack) : stack[i] \in Frame
  BY ElementOfSeq
<1>2. ASSUME NEW i \in 1 .. Len(stack'), stack'[i].kind = "reactions"
      PROVE  state'[stack'[i].promise] \in {"fulfilled", "rejected"}
  <2>1. i \in 1 .. n  BY <1>1, <1>2
  <2>2. stack[i].kind = "reactions" /\ stack[i].promise = stack'[i].promise
    BY <1>2, <2>1 DEF Alike
  <2>3. stack[i].promise \in Promise /\ Settled(stack[i].promise)
    BY <1>1, <2>1, <2>2, FrameKinds DEF FrameInv
  <2> QED  BY <2>2, <2>3 DEF Operated, Settled
<1>3. ASSUME NEW i \in 1 .. Len(stack'), stack'[i].kind = "user", stack'[i].throws = None
      PROVE  i > 1 /\ stack'[i - 1].kind = "pump"
  <2>1. CASE i \in 1 .. n
    <3>1. stack[i].kind = "user" /\ stack[i].throws = None  BY <1>3, <2>1 DEF Alike
    <3>2. i > 1 /\ stack[i - 1].kind = "pump"  BY <1>1, <2>1, <3>1 DEF FrameInv
    <3>3. i - 1 \in 1 .. n  BY <2>1, <3>2
    <3> QED  BY <3>2, <3>3 DEF Alike
  <2>2. CASE i \notin 1 .. n  BY <1>1, <1>3, <2>2
  <2> QED  BY <2>1, <2>2
<1>4. FrameInv'  BY <1>2, <1>3 DEF FrameInv, Settled
<1>5. ASSUME NEW q \in Promise, NEW i
      PROVE  i \in Runs(q)' <=> i \in Runs(q)
  <2>1. CASE i \in 1 .. n  BY <1>1, <2>1 DEF Runs, Alike
  <2>2. CASE i \notin 1 .. n  BY <1>1, <2>2 DEF Runs
  <2> QED  BY <2>1, <2>2
<1> QED  BY <1>4, <1>5

\* A pump or a function is called.
LEMMA Pushed ==
  ASSUME stack \in Seq(Frame), FrameInv, Operated, NEW f \in Frame,
         stack' = Append(stack, f), f.kind # "reactions",
         f.kind = "user" /\ f.throws = None => stack # <<>> /\ Top.kind = "pump"
  PROVE  stack' \in Seq(Frame) /\ FrameInv' /\ \A q \in Promise : Runs(q)' = Runs(q)
<1> DEFINE n == Len(stack)
<1>1. /\ stack' \in Seq(Frame) /\ Len(stack') = n + 1 /\ n \in Nat
      /\ \A i \in 1 .. n : stack'[i] = stack[i]
      /\ stack'[n + 1] = f
  BY AppendProperties
<1> HIDE DEF n
<1>2. \A i \in 1 .. n : Alike(stack'[i], stack[i])  BY <1>1 DEF Alike
<1>3. \A i \in n + 1 .. Len(stack) : stack[i].kind # "reactions"  BY <1>1 DEF n
<1>4. ASSUME NEW i \in n + 1 .. Len(stack')
      PROVE  /\ stack'[i].kind # "reactions"
             /\ stack'[i].kind = "user" /\ stack'[i].throws = None =>
                  i > 1 /\ stack'[i - 1].kind = "pump"
  <2>1. i = n + 1 /\ stack'[i] = f  BY <1>1
  <2>2. ASSUME stack # <<>> /\ Top.kind = "pump"
        PROVE  i > 1 /\ stack'[i - 1].kind = "pump"
    <3>1. n > 0  BY <1>1, <2>2, EmptySeq DEF n
    <3>2. n \in 1 .. n /\ i - 1 = n /\ stack[n].kind = "pump"  BY <1>1, <2>1, <2>2, <3>1 DEF Top, n
    <3> QED  BY <1>1, <3>1, <3>2
  <2> QED  BY <2>1, <2>2
<1>5. n <= Len(stack) /\ n <= Len(stack')  BY <1>1 DEF n
<1> QED  BY <1>1, <1>2, <1>3, <1>4, <1>5, SameBelow

\* Frames return or are unwound.
LEMMA Unwinds ==
  ASSUME stack \in Seq(Frame), FrameInv, Operated, NEW n \in 0 .. Len(stack),
         stack' = SubSeq(stack, 1, n)
  PROVE  /\ stack' \in Seq(Frame) /\ FrameInv'
         /\ Len(stack') = n /\ \A i \in 1 .. n : stack'[i] = stack[i]
         /\ \A q \in Promise : Runs(q)' = {i \in Runs(q) : i <= n}
<1>1. /\ Len(stack) \in Nat /\ n \in Nat /\ n <= Len(stack)
      /\ \A i \in 1 .. n : stack[i] \in Frame
  BY ElementOfSeq
<1>2. stack' \in Seq(Frame) /\ Len(stack') = n /\ \A i \in 1 .. n : stack'[i] = stack[i]
  <2>1. /\ SubSeq(stack, 1, n) \in Seq(Frame)
        /\ Len(SubSeq(stack, 1, n)) = IF 1 <= n THEN n - 1 + 1 ELSE 0
        /\ \A i \in 1 .. n - 1 + 1 : SubSeq(stack, 1, n)[i] = stack[1 + i - 1]
    BY <1>1, SubSeqProperties
  <2> QED  BY <1>1, <2>1
<1>3. FrameInv'
  <2> SUFFICES ASSUME NEW i \in 1 .. n
               PROVE  /\ stack'[i].kind = "reactions" =>
                           state'[stack'[i].promise] \in {"fulfilled", "rejected"}
                      /\ stack'[i].kind = "user" /\ stack'[i].throws = None =>
                           i > 1 /\ stack'[i - 1].kind = "pump"
    BY <1>2 DEF FrameInv, Settled
  <2>1. i \in 1 .. Len(stack) /\ stack'[i] = stack[i] /\ (i > 1 => stack'[i - 1] = stack[i - 1])
    BY <1>1, <1>2
  <2>2. /\ stack[i].kind = "reactions" => Settled(stack[i].promise)
        /\ stack[i].kind = "user" /\ stack[i].throws = None =>
              i > 1 /\ stack[i - 1].kind = "pump"
    BY <2>1 DEF FrameInv
  <2>3. ASSUME stack[i].kind = "reactions"
        PROVE  state'[stack[i].promise] \in {"fulfilled", "rejected"}
    <3>1. stack[i].promise \in Promise  BY <1>1, <2>3, FrameKinds
    <3> QED  BY <2>2, <2>3, <3>1 DEF Operated, Settled
  <2> QED  BY <2>1, <2>2, <2>3
<1>4. ASSUME NEW q \in Promise, NEW i
      PROVE  i \in Runs(q)' <=> i \in Runs(q) /\ i <= n
  <2>1. CASE i \in 1 .. n  BY <1>1, <1>2, <2>1 DEF Runs
  <2>2. CASE i \notin 1 .. n  BY <1>1, <1>2, <2>2 DEF Runs
  <2> QED  BY <2>1, <2>2
<1> QED  BY <1>2, <1>3, <1>4

\* Those of them that are no frames with reactions.
LEMMA Cut ==
  ASSUME stack \in Seq(Frame), FrameInv, Operated, NEW n \in 0 .. Len(stack),
         stack' = SubSeq(stack, 1, n),
         \A i \in n + 1 .. Len(stack) : stack[i].kind # "reactions"
  PROVE  stack' \in Seq(Frame) /\ FrameInv' /\ \A q \in Promise : Runs(q)' = Runs(q)
<1>1. \A q \in Promise : \A i \in Runs(q) : i <= n  BY DEF Runs
<1>2. /\ stack' \in Seq(Frame) /\ FrameInv'
      /\ \A q \in Promise : Runs(q)' = {i \in Runs(q) : i <= n}
  BY Unwinds
<1> QED  BY <1>1, <1>2

\* The topmost frame gets on.
LEMMA Replaced ==
  ASSUME stack \in Seq(Frame), FrameInv, Operated, stack # <<>>, NEW f \in Frame,
         stack' = Append(Below, f), Alike(f, Top)
  PROVE  /\ stack' \in Seq(Frame) /\ FrameInv' /\ \A q \in Promise : Runs(q)' = Runs(q)
         /\ Below \in Seq(Frame) /\ Len(stack') = Len(stack)
<1> DEFINE n == Len(stack)
<1>1. n \in Nat /\ n > 0 /\ \A i \in 1 .. n - 1 : stack[i] \in Frame
  BY EmptySeq, ElementOfSeq
<1>2. Below \in Seq(Frame) /\ Len(Below) = n - 1 /\ \A i \in 1 .. n - 1 : Below[i] = stack[i]
  <2> DEFINE k == n - 1  b == SubSeq(stack, 1, k)
  <2>1. k \in Nat /\ \A i \in 1 .. k : stack[i] \in Frame  BY <1>1
  <2> HIDE DEF n, k
  <2>2. /\ b \in Seq(Frame) /\ Len(b) = (IF 1 <= k THEN k - 1 + 1 ELSE 0)
        /\ \A i \in 1 .. k - 1 + 1 : b[i] = stack[1 + i - 1]
    BY <2>1, SubSeqProperties
  <2> HIDE DEF b
  <2>3. b \in Seq(Frame) /\ Len(b) = k /\ \A i \in 1 .. k : b[i] = stack[i]
    BY <2>1, <2>2
  <2>4. Below = b  BY DEF Below, b, k, n
  <2> QED  BY <2>3, <2>4 DEF k
<1>3. /\ stack' \in Seq(Frame) /\ Len(stack') = Len(Below) + 1
      /\ \A i \in 1 .. Len(Below) : stack'[i] = Below[i]
      /\ stack'[Len(Below) + 1] = f
  <2> DEFINE b == Below
  <2>1. b \in Seq(Frame)  BY <1>2
  <2> HIDE DEF b
  <2>2. /\ Append(b, f) \in Seq(Frame) /\ Len(Append(b, f)) = Len(b) + 1
        /\ \A i \in 1 .. Len(b) : Append(b, f)[i] = b[i]
        /\ Append(b, f)[Len(b) + 1] = f
    BY <2>1, AppendProperties
  <2> QED  BY <2>2 DEF b
<1>4. Len(stack') = n  BY <1>1, <1>2, <1>3
<1>5. \A i \in 1 .. n : Alike(stack'[i], stack[i])
  <2> SUFFICES ASSUME NEW i \in 1 .. n  PROVE Alike(stack'[i], stack[i])
    OBVIOUS
  <2>1. CASE i \in 1 .. n - 1  BY <1>1, <1>2, <1>3, <2>1 DEF Alike
  <2>2. CASE i = n  BY <1>1, <1>2, <1>3, <2>2 DEF Top
  <2>3. i \in 1 .. n - 1 \/ i = n  BY <1>1
  <2> QED  BY <2>1, <2>2, <2>3
<1>6. (\A i \in n + 1 .. Len(stack) : FALSE) /\ \A i \in n + 1 .. Len(stack') : FALSE
  BY <1>1, <1>4
<1>7. n <= Len(stack) /\ n <= Len(stack')  BY <1>1, <1>4
<1> HIDE DEF n
<1>8. FrameInv' /\ \A q \in Promise : Runs(q)' = Runs(q)
  BY <1>1, <1>3, <1>5, <1>6, <1>7, SameBelow
<1> QED  BY <1>2, <1>3, <1>4, <1>8 DEF n

------------------------------------------------------------------------------
(* The actions.                                                              *)

\* The step of SettledForGood; a promise that does not stay is overwritten.
Final == \A p \in Promise : Settled(p) =>
            Stays(p) \/ (Top = Lookup(p, Object) /\ stack' = Below /\ p \in overwritten')

\* The steps that leave the frames with reactions in their places.
LEMMA Kept ==
  ASSUME IInv, Operated, Remembered, stack' \in Seq(Frame), FrameInv',
         \A q \in Promise : Runs(q)' = Runs(q), UNCHANGED reported,
         resolvers' \subseteq Promise, ops' \in 0 .. MaxOps
  PROVE  IInv' /\ Final
<1>1. Orderly'  BY Steady
<1>2. Final  BY DEF Final, Operated
<1>3. PromiseType' /\ reported' \subseteq Promise  BY DEF Operated, IInv
<1> QED  BY <1>1, <1>2, <1>3 DEF IInv

\* Those that do not touch the stack at all.
LEMMA StackStays ==
  ASSUME IInv, Operated, Remembered, UNCHANGED <<stack, reported>>,
         resolvers' \subseteq Promise, ops' \in 0 .. MaxOps
  PROVE  IInv' /\ Final
<1> DEFINE n == Len(stack)
<1>1. stack \in Seq(Frame) /\ FrameInv /\ n \in Nat  BY DEF IInv
<1>2. stack' = stack  OBVIOUS
<1>3. stack' \in Seq(Frame) /\ n <= Len(stack) /\ n <= Len(stack')
      /\ (\A i \in 1 .. n : Alike(stack'[i], stack[i]))
      /\ (\A i \in n + 1 .. Len(stack) : FALSE) /\ \A i \in n + 1 .. Len(stack') : FALSE
  BY <1>1, <1>2 DEF Alike
<1> HIDE DEF n
<1>4. FrameInv' /\ \A q \in Promise : Runs(q)' = Runs(q)  BY <1>1, <1>3, SameBelow
<1> QED  BY <1>3, <1>4, Kept

\* New, Then, Reject and QueueCallback.
LEMMA Operates ==
  ASSUME IInv,
         \/ \E p \in Promise : New(p)
         \/ \E p, next \in Promise, f, r \in BOOLEAN : Then(p, f, r, next)
         \/ \E p \in Promise, v \in Value : Reject(p, v)
         \/ QueueCallback
  PROVE  IInv' /\ Final
<1>1. PromiseType /\ resolvers \subseteq Promise /\ ops \in 0 .. MaxOps  BY DEF IInv
<1>2. /\ ops' \in 0 .. MaxOps /\ resolvers' \subseteq Promise
      /\ UNCHANGED <<stack, reported, overwritten, cut>>
  BY <1>1, PromiseAssumption DEF New, Then, Reject, QueueCallback, Operate, history, damage
<1>3. Operated
  <2>1. ASSUME NEW p \in Promise, New(p)  PROVE Operated
    <3>1. /\ state[p] = "unused" /\ state' = [state EXCEPT ![p] = "pending"]
          /\ UNCHANGED <<value, handled, callbacks, queue, registered>>
      BY <2>1 DEF New, history
    <3>2. \A q \in Promise : /\ Settled(q)' <=> Settled(q)
                             /\ Settled(q) => state'[q] = state[q]
      BY <1>1, <3>1 DEF PromiseType, Settled
    <3>3. PromiseType'  BY <1>1, <3>1, <3>2 DEF PromiseType
    <3> QED  BY <3>1, <3>2, <3>3 DEF Operated, Stays
  <2>2. ASSUME NEW p \in Promise, NEW next \in Promise, NEW f \in BOOLEAN, NEW r \in BOOLEAN,
               Then(p, f, r, next)
        PROVE  Operated
    BY <1>1, <2>2, Registers DEF Then
  <2>3. ASSUME NEW p \in Promise, NEW v \in Value, Reject(p, v)  PROVE Operated
    BY <1>1, <2>3, Rejects DEF Reject, Outcome
  <2>4. CASE QueueCallback
    <3>1. CallbackJob \in Job /\ CallbackJob.job = "callback"  BY DEF CallbackJob, Job
    <3> QED  BY <1>1, <2>4, <3>1, Queues DEF QueueCallback, history
  <2> QED  BY <2>1, <2>2, <2>3, <2>4
<1>4. Remembered  BY <1>2 DEF Remembered
<1> QED  BY <1>2, <1>3, <1>4, StackStays

\* Resolve, with or without a lookup.
LEMMA Resolved ==
  ASSUME IInv, NEW p \in Promise, NEW v \in Resolution, Resolve(p, v)
  PROVE  IInv' /\ Final
<1>1. /\ PromiseType /\ resolvers \subseteq Promise /\ ops \in 0 .. MaxOps
      /\ stack \in Seq(Frame) /\ FrameInv
  BY DEF IInv
<1>2. /\ ops' \in 0 .. MaxOps /\ resolvers' \subseteq Promise
      /\ UNCHANGED <<reported, overwritten, cut>> /\ ResolveInternal(p, v, stack)
  BY <1>1, PromiseAssumption DEF Resolve, Operate, damage
<1>3. /\ Operated /\ Remembered
      /\ \/ stack' = stack
         \/ stack' = Append(stack, Lookup(p, v)) /\ Lookup(p, v) \in Frame
  BY <1>1, <1>2, Resolves DEF Remembered
<1>4. CASE stack' = stack  BY <1>2, <1>3, <1>4, StackStays
<1>5. CASE stack' = Append(stack, Lookup(p, v)) /\ Lookup(p, v) \in Frame
  <2>1. Lookup(p, v).kind = "lookup"  BY DEF Lookup
  <2>2. stack' \in Seq(Frame) /\ FrameInv' /\ \A q \in Promise : Runs(q)' = Runs(q)
    BY <1>1, <1>3, <1>5, <2>1, Pushed
  <2> QED  BY <1>2, <1>3, <2>2, Kept
<1> QED  BY <1>3, <1>4, <1>5

\* Await, with or without a pump of its own.
LEMMA Awaited ==
  ASSUME IInv, NEW p \in Promise, Await(p)
  PROVE  IInv' /\ Final
<1>1. /\ PromiseType /\ resolvers \subseteq Promise /\ ops \in 0 .. MaxOps
      /\ stack \in Seq(Frame) /\ FrameInv
  BY DEF IInv
<1>2. /\ ops' \in 0 .. MaxOps /\ resolvers' \subseteq Promise /\ handled' = handled \cup {p}
      /\ UNCHANGED <<state, value, callbacks, queue, reported, registered, overwritten, cut>>
      /\ UNCHANGED stack \/ stack' = Append(stack, Pump(p, "drain"))
  BY <1>1, PromiseAssumption DEF Await, Operate, Push, history
<1>3. PromiseType'  BY <1>1, <1>2 DEF PromiseType, Settled
<1>4. Operated /\ Remembered  BY <1>2, <1>3 DEF Operated, Settled, Stays, Remembered
<1>5. CASE UNCHANGED stack  BY <1>2, <1>4, <1>5, StackStays
<1>6. CASE stack' = Append(stack, Pump(p, "drain"))
  <2>1. Pump(p, "drain") \in Frame /\ Pump(p, "drain").kind = "pump"  BY DEF Pump, Frame
  <2>2. stack' \in Seq(Frame) /\ FrameInv' /\ \A q \in Promise : Runs(q)' = Runs(q)
    BY <1>1, <1>4, <1>6, <2>1, Pushed
  <2> QED  BY <1>2, <1>4, <2>2, Kept
<1> QED  BY <1>2, <1>5, <1>6

\* The topmost frame returns and has no reactions.
LEMMA TopPopped ==
  ASSUME IInv, Operated, Remembered, stack # <<>>, Top.kind # "reactions", stack' = Below,
         UNCHANGED <<reported, resolvers, ops>>
  PROVE  IInv' /\ Final
<1> DEFINE n == Len(stack) - 1
<1>1. stack \in Seq(Frame) /\ FrameInv /\ resolvers \subseteq Promise /\ ops \in 0 .. MaxOps
  BY DEF IInv
<1>2. n \in 0 .. Len(stack) /\ \A i \in n + 1 .. Len(stack) : stack[i].kind # "reactions"
  <2>1. Len(stack) \in Nat /\ Len(stack) > 0  BY <1>1, EmptySeq
  <2> QED  BY <2>1 DEF Top
<1>3. stack' = SubSeq(stack, 1, n)  BY DEF Below
<1> HIDE DEF n
<1>4. stack' \in Seq(Frame) /\ FrameInv' /\ \A q \in Promise : Runs(q)' = Runs(q)
  BY <1>1, <1>2, <1>3, Cut
<1> QED  BY <1>1, <1>4, Kept

\* Or it is exchanged for a frame of its callee.
LEMMA TopExchanged ==
  ASSUME IInv, Operated, Remembered, stack # <<>>, Top.kind # "reactions",
         NEW f \in Frame, f.kind = "lookup", stack' = Append(Below, f),
         UNCHANGED <<reported, resolvers, ops>>
  PROVE  IInv' /\ Final
<1> DEFINE n == Len(stack)  k == n - 1
<1>1. stack \in Seq(Frame) /\ FrameInv /\ resolvers \subseteq Promise /\ ops \in 0 .. MaxOps
  BY DEF IInv
<1>2. n \in Nat /\ n > 0 /\ stack[n].kind # "reactions"  BY <1>1, EmptySeq DEF Top
<1>3. Below \in Seq(Frame) /\ Len(Below) = k /\ \A i \in 1 .. k : Below[i] = stack[i]
  <2> DEFINE b == SubSeq(stack, 1, k)
  <2>1. k \in Nat /\ \A i \in 1 .. k : stack[i] \in Frame  BY <1>1, <1>2, ElementOfSeq
  <2>2. Below = b  BY DEF Below
  <2> HIDE DEF n, k
  <2>3. /\ b \in Seq(Frame) /\ Len(b) = (IF 1 <= k THEN k - 1 + 1 ELSE 0)
        /\ \A i \in 1 .. k - 1 + 1 : b[i] = stack[1 + i - 1]
    BY <2>1, SubSeqProperties
  <2> HIDE DEF b
  <2> QED  BY <2>1, <2>2, <2>3
<1>4. /\ stack' \in Seq(Frame) /\ Len(stack') = n
      /\ \A i \in 1 .. k : stack'[i] = stack[i]
      /\ stack'[n] = f
  <2> DEFINE b == Below
  <2>1. b \in Seq(Frame)  BY <1>3
  <2> HIDE DEF b
  <2>2. /\ Append(b, f) \in Seq(Frame) /\ Len(Append(b, f)) = Len(b) + 1
        /\ \A i \in 1 .. Len(b) : Append(b, f)[i] = b[i]
        /\ Append(b, f)[Len(b) + 1] = f
    BY <2>1, AppendProperties
  <2>3. stack' = Append(b, f)  BY DEF b
  <2>4. Len(b) = k /\ \A i \in 1 .. k : b[i] = stack[i]  BY <1>3 DEF b
  <2> QED  BY <1>2, <2>2, <2>3, <2>4
<1>5. k \in Nat /\ k <= Len(stack) /\ k <= Len(stack')  BY <1>2, <1>4
<1>6. \A i \in 1 .. k : Alike(stack'[i], stack[i])  BY <1>4 DEF Alike
<1>7. \A i \in k + 1 .. Len(stack) : stack[i].kind # "reactions"  BY <1>2
<1>8. \A i \in k + 1 .. Len(stack') : stack'[i].kind = "lookup"  BY <1>2, <1>4
<1> HIDE DEF n, k
<1>9. FrameInv' /\ \A q \in Promise : Runs(q)' = Runs(q)
  BY <1>1, <1>4, <1>5, <1>6, <1>7, <1>8, SameBelow
<1> QED  BY <1>1, <1>4, <1>9, Kept

\* A function returns or throws, and settles the promise derived from it.
LEMMA FunctionEnds ==
  ASSUME IInv, (\E v \in Resolution : Return(v)) \/ \E v \in Value : Throw(v)
  PROVE  IInv' /\ Final
<1>1. PromiseType /\ stack \in Seq(Frame)  BY DEF IInv
<1>2. /\ stack # <<>> /\ Top.kind = "user" /\ UNCHANGED <<reported, resolvers, ops>>
      /\ Remembered
  BY DEF Return, Throw, damage, Remembered
<1>3. Top \in [kind : {"user"}, returns : Promise \cup {None}, throws : Promise \cup {None}]
  <2>1. Len(stack) \in 1 .. Len(stack)  BY <1>1, <1>2, EmptySeq
  <2>2. Top \in Frame  BY <1>1, <2>1 DEF Top
  <2> QED  BY <1>2, <2>2, FrameKinds
<1>4. ASSUME NEW v \in Resolution, Return(v), Top.returns = None  PROVE IInv' /\ Final
  <2>1. Operated /\ stack' = Below  BY <1>1, <1>4, Untouched DEF Return
  <2> QED  BY <1>2, <2>1, TopPopped
<1>5. ASSUME NEW v \in Resolution, Return(v), Top.returns # None  PROVE IInv' /\ Final
  <2> DEFINE p == Top.returns
  <2>1. p \in Promise /\ ResolveInternal(p, v, Below)
    BY <1>3, <1>5 DEF Return
  <2> HIDE DEF p
  <2>2. /\ Operated
        /\ \/ stack' = Below
           \/ stack' = Append(Below, Lookup(p, v)) /\ Lookup(p, v) \in Frame
    BY <1>1, <2>1, Resolves
  <2>3. Lookup(p, v).kind = "lookup"  BY DEF Lookup
  <2>4. CASE stack' = Below  BY <1>2, <2>2, <2>4, TopPopped
  <2>5. CASE stack' = Append(Below, Lookup(p, v)) /\ Lookup(p, v) \in Frame
    BY <1>2, <2>2, <2>3, <2>5, TopExchanged
  <2> QED  BY <2>2, <2>4, <2>5
<1>6. ASSUME NEW v \in Value, Throw(v)  PROVE IInv' /\ Final
  <2>1. /\ Top.throws \in Promise /\ RejectInternal(Top.throws, v) /\ v \in Outcome
        /\ stack' = Below
    BY <1>3, <1>6 DEF Throw, Outcome
  <2>2. Operated  BY <1>1, <2>1, Rejects
  <2> QED  BY <1>2, <2>1, <2>2, TopPopped
<1> QED  BY <1>4, <1>5, <1>6

\* A lookup ends, or throws to where its exception is caught.
LEMMA LookupEnds ==
  ASSUME IInv, EndLookup \/ ThrowToCaller \/ \E v \in Value : ThrowLookup(v)
  PROVE  IInv' /\ Final
<1> DEFINE p == Top.promise
<1>1. PromiseType /\ stack \in Seq(Frame)  BY DEF IInv
<1>2. /\ stack # <<>> /\ Top.kind = "lookup" /\ stack' = Below
      /\ UNCHANGED <<reported, resolvers, ops>>
  BY DEF EndLookup, ThrowToCaller, ThrowLookup, LooksUp
<1>3. p \in Promise /\ Top.of \in Derived \cup {Object} /\ Top = Lookup(p, Top.of)
  <2>1. Len(stack) \in 1 .. Len(stack)  BY <1>1, <1>2, EmptySeq
  <2>2. Top \in Frame  BY <1>1, <2>1 DEF Top
  <2> QED  BY <1>2, <2>2, FrameKinds
<1>4. Remembered
  BY DEF EndLookup, ThrowToCaller, ThrowLookup, history, damage, Remembered
<1>5. CASE ThrowToCaller
  <2>1. Operated  BY <1>1, <1>5, Untouched DEF ThrowToCaller, history
  <2> QED  BY <1>2, <1>4, <2>1, TopPopped
<1>6. ASSUME NEW v \in Value, ThrowLookup(v)  PROVE IInv' /\ Final
  <2>1. Operated  BY <1>1, <1>3, <1>6, Rejects DEF ThrowLookup, Outcome
  <2> QED  BY <1>2, <1>4, <2>1, TopPopped
<1>7. CASE EndLookup
  <2>1. CASE queue' = Append(queue, ThenableJob(p)) /\ UNCHANGED <<promiseVars, registered>>
    <3> HIDE DEF p
    <3>1. ThenableJob(p) \in Job /\ ThenableJob(p).job = "thenable"
      BY <1>3 DEF ThenableJob, Job
    <3>2. Operated  BY <1>1, <2>1, <3>1, Queues
    <3> QED  BY <1>2, <1>4, <3>2, TopPopped
  <2>2. CASE Top.of \in Promise /\ Register(Top.of, FALSE, FALSE, p) /\ UNCHANGED state
    <3>1. Operated  BY <1>1, <1>3, <2>2, Registers
    <3> QED  BY <1>2, <1>4, <3>1, TopPopped
  <2>3. CASE /\ Top.of = Object
             /\ Settle(p, "fulfilled", Object)
             /\ overwritten' = IF Settled(p) THEN overwritten \cup {p} ELSE overwritten
    <3>1. Operated  BY <1>1, <1>2, <1>3, <2>3, Overwrites
    <3> QED  BY <1>2, <1>4, <3>1, TopPopped
  <2> QED  BY <1>7, <2>1, <2>2, <2>3 DEF EndLookup
<1> QED  BY <1>5, <1>6, <1>7

\* An exception unwinds to the function of the last await, or the whole stack.
LEMMA UnwindsTo ==
  ASSUME stack \in Seq(Frame), Unwind
  PROVE  \E m \in 0 .. Len(stack) :
            /\ stack' = SubSeq(stack, 1, m)
            /\ \A j \in Awaits : j <= m + 1
            /\ m = 0 \/ m + 1 \in Awaits
<1>1. Len(stack) \in Nat /\ \A j \in Awaits : j \in 2 .. Len(stack)  BY DEF Awaits
<1>2. CASE Awaits = {} /\ stack' = <<>>
  <2>1. SubSeq(stack, 1, 0) = <<>>  BY <1>1
  <2>2. 0 \in 0 .. Len(stack)  BY <1>1
  <2> QED  BY <1>2, <2>1, <2>2
<1>3. ASSUME NEW i \in Awaits, \A j \in Awaits : j <= i, stack' = SubSeq(stack, 1, i - 1)
      PROVE  \E m \in 0 .. Len(stack) :
                /\ stack' = SubSeq(stack, 1, m)
                /\ \A j \in Awaits : j <= m + 1
                /\ m = 0 \/ m + 1 \in Awaits
  <2>1. i - 1 \in 0 .. Len(stack) /\ i - 1 + 1 = i  BY <1>1
  <2> QED  BY <1>3, <2>1
<1> QED  BY <1>2, <1>3 DEF Unwind

\* One nobody catches unwinds a pump and the function it has called, or the whole
\* stack; that is why no reaction is lost by it.
LEMMA Unwinding ==
  ASSUME stack \in Seq(Frame), FrameInv, ThrowUncaught
  PROVE  \E m \in 0 .. Len(stack) :
            /\ stack' = SubSeq(stack, 1, m)
            /\ \A i \in m + 1 .. Len(stack) : stack[i].kind # "reactions"
<1> DEFINE n == Len(stack)
<1>1. stack # <<>> /\ Top.kind = "user" /\ Top.throws = None /\ Unwind
  BY DEF ThrowUncaught
<1>2. n \in Nat /\ n > 1 /\ stack[n].kind = "user" /\ stack[n - 1].kind = "pump"
  <2>1. n \in Nat /\ n \in 1 .. n  BY <1>1, EmptySeq
  <2> QED  BY <1>1, <2>1 DEF FrameInv, Top
<1>3. PICK m \in 0 .. n : /\ stack' = SubSeq(stack, 1, m)
                          /\ \A j \in Awaits : j <= m + 1
  BY <1>1, UnwindsTo
<1>4. n = 2 \/ n - 1 \in Awaits  BY <1>2 DEF Awaits
<1>5. m + 1 >= n - 1 \/ n = 2  BY <1>3, <1>4
<1>6. \A i \in m + 1 .. n : i = n \/ i = n - 1
  BY <1>2, <1>5
<1> QED  BY <1>2, <1>3, <1>6

LEMMA Unwound ==
  ASSUME IInv, ThrowUncaught
  PROVE  IInv' /\ Final
<1>1. PromiseType /\ stack \in Seq(Frame) /\ FrameInv /\ resolvers \subseteq Promise
      /\ ops \in 0 .. MaxOps
  BY DEF IInv
<1>2. UNCHANGED <<promiseVars, queue, registered, resolvers, reported, ops, overwritten, cut>>
  BY DEF ThrowUncaught, Unwind, history
<1>3. PICK m \in 0 .. Len(stack) : /\ stack' = SubSeq(stack, 1, m)
                                   /\ \A i \in m + 1 .. Len(stack) : stack[i].kind # "reactions"
  BY <1>1, Unwinding
<1>4. Operated /\ Remembered  BY <1>1, <1>2, Untouched DEF Remembered
<1>5. stack' \in Seq(Frame) /\ FrameInv' /\ \A q \in Promise : Runs(q)' = Runs(q)
  BY <1>1, <1>3, <1>4, Cut
<1> QED  BY <1>1, <1>2, <1>4, <1>5, Kept

\* One that passes reactions cuts them off.
LEMMA CutOff ==
  ASSUME IInv, ThrowThroughReactions
  PROVE  IInv' /\ Final
<1> DEFINE n == Len(stack)
<1>1. /\ PromiseType /\ stack \in Seq(Frame) /\ FrameInv /\ resolvers \subseteq Promise
      /\ ops \in 0 .. MaxOps /\ reported \subseteq Promise
  BY DEF IInv
<1>2. /\ UNCHANGED <<promiseVars, queue, registered, resolvers, reported, ops, overwritten>>
      /\ Unwind
      /\ cut' = cut \cup {p \in Promise : \E i \in Len(stack') + 1 .. n :
                                stack[i].kind = "reactions" /\ stack[i].promise = p}
  BY DEF ThrowThroughReactions, Unwind
<1>3. PICK m \in 0 .. n : stack' = SubSeq(stack, 1, m)  BY <1>1, <1>2, UnwindsTo
<1>4. Operated /\ Remembered  BY <1>1, <1>2, Untouched DEF Remembered
<1>5. /\ stack' \in Seq(Frame) /\ FrameInv' /\ Len(stack') = m
      /\ \A q \in Promise : Runs(q)' = {i \in Runs(q) : i <= m}
  BY <1>1, <1>2, <1>3, <1>4, Unwinds
<1>6. ASSUME NEW q \in Promise, q \notin cut'  PROVE Runs(q)' = Runs(q)
  <2>1. \A i \in m + 1 .. n : ~(stack[i].kind = "reactions" /\ stack[i].promise = q)
    BY <1>2, <1>5, <1>6
  <2>2. \A i \in Runs(q) : i <= m  BY <1>3, <2>1 DEF Runs
  <2> QED  BY <1>5, <2>2
<1>7. Orderly'  BY <1>2, <1>4, <1>5, <1>6, Steady
<1>8. Final  BY <1>2 DEF Final, Stays, promiseVars
<1>9. PromiseType'  BY <1>4 DEF Operated
<1> QED  BY <1>1, <1>2, <1>5, <1>7, <1>8, <1>9 DEF IInv

\* A pump drains, polls, runs an event's callback or is left.
LEMMA PumpTurns ==
  ASSUME IInv, EndDrain \/ EndPoll \/ Event
  PROVE  IInv' /\ Final
<1>1. /\ PromiseType /\ stack \in Seq(Frame) /\ FrameInv /\ resolvers \subseteq Promise
      /\ ops \in 0 .. MaxOps
  BY DEF IInv
<1>2. /\ stack # <<>> /\ Top.kind = "pump"
      /\ UNCHANGED <<promiseVars, queue, registered, resolvers, reported, overwritten, cut>>
      /\ ops' \in 0 .. MaxOps
      /\ ~Event => UNCHANGED ops
  BY <1>1, PromiseAssumption DEF EndDrain, EndPoll, Event, Pumps, history
<1>3. Top \in [kind : {"pump"}, promise : Promise \cup {None}, at : {"drain", "poll"}]
  <2>1. Len(stack) \in 1 .. Len(stack)  BY <1>1, <1>2, EmptySeq
  <2>2. Top \in Frame  BY <1>1, <2>1 DEF Top
  <2> QED  BY <1>2, <2>2, FrameKinds
<1>4. Operated /\ Remembered  BY <1>1, <1>2, Untouched DEF Remembered
<1>5. CASE Event
  <2>1. stack' = Append(stack, User(None, None))  BY <1>5 DEF Event, Push
  <2>2. User(None, None) \in Frame /\ User(None, None).kind = "user"  BY DEF User, Frame
  <2>3. stack' \in Seq(Frame) /\ FrameInv' /\ \A q \in Promise : Runs(q)' = Runs(q)
    BY <1>1, <1>2, <1>4, <2>1, <2>2, Pushed
  <2> QED  BY <1>1, <1>2, <1>4, <2>3, Kept
<1>6. CASE ~Event /\ stack' = Below
  BY <1>2, <1>4, <1>6, TopPopped
<1>7. ASSUME NEW a \in {"drain", "poll"}, stack' = Append(Below, [Top EXCEPT !.at = a])
      PROVE  IInv' /\ Final
  <2> DEFINE f == [Top EXCEPT !.at = a]
  <2>1. f \in Frame /\ Alike(f, Top)  BY <1>3 DEF Frame, Alike
  <2>2. stack' = Append(Below, f)  BY <1>7
  <2> HIDE DEF f
  <2>3. stack' \in Seq(Frame) /\ FrameInv' /\ \A q \in Promise : Runs(q)' = Runs(q)
    BY <1>1, <1>2, <1>4, <2>1, <2>2, Replaced
  <2> QED  BY <1>1, <1>2, <1>4, <2>3, Kept
<1>8. \/ Event
      \/ ~Event /\ stack' = Below
      \/ stack' = Append(Below, [Top EXCEPT !.at = "poll"])
      \/ stack' = Append(Below, [Top EXCEPT !.at = "drain"])
  BY DEF EndDrain, EndPoll, Replace
<1> QED  BY <1>5, <1>6, <1>7, <1>8

\* A reaction is called, or passes the outcome on.
LEMMA ReactionRuns ==
  ASSUME IInv, RunReaction
  PROVE  IInv' /\ Final
<1> DEFINE p    == Top.promise
           cb   == Head(Top.left)
           rest == [Top EXCEPT !.left = Tail(@)]
<1>1. /\ PromiseType /\ stack \in Seq(Frame) /\ FrameInv /\ resolvers \subseteq Promise
      /\ ops \in 0 .. MaxOps
  BY DEF IInv
<1>2. /\ stack # <<>> /\ Top.kind = "reactions" /\ Top.left # <<>>
      /\ UNCHANGED <<resolvers, reported, ops>>
      /\ \/ /\ stack' = Append(Append(Below, rest), User(cb.next, cb.next))
            /\ UNCHANGED <<promiseVars, queue, registered>>
         \/ ResolveInternal(cb.next, value[p], Append(Below, rest))
         \/ RejectInternal(cb.next, value[p]) /\ stack' = Append(Below, rest)
      /\ Remembered
  BY DEF RunReaction, Replace, damage, Remembered
<1>3. /\ Top \in Frame
      /\ Top \in [kind : {"reactions"}, promise : Promise, left : Seq(Reaction),
                  settles : BOOLEAN]
      /\ Settled(p)
  <2>1. Len(stack) \in 1 .. Len(stack)  BY <1>1, <1>2, EmptySeq
  <2>2. Top \in Frame  BY <1>1, <2>1 DEF Top
  <2>3. Settled(p)  BY <1>1, <1>2, <2>1 DEF FrameInv, Top
  <2> QED  BY <1>2, <2>2, <2>3, FrameKinds
<1>4. cb \in Reaction /\ Tail(Top.left) \in Seq(Reaction)
  <2>1. Top.left \in Seq(Reaction)  BY <1>3
  <2> QED  BY <1>2, <2>1
<1>5. rest \in Frame /\ Alike(rest, Top)
  BY <1>3, <1>4 DEF Frame, Alike
<1>6. p \in Promise /\ value[p] \in Outcome  BY <1>1, <1>3 DEF PromiseType
<1>7. cb.next \in Promise  BY <1>4 DEF Reaction
<1> HIDE DEF p, cb, rest
<1>8. ASSUME Operated, NEW u \in Frame, u.kind \in {"user", "lookup"},
             u.kind = "user" => u.throws # None,
             stack' = Append(Append(Below, rest), u)
      PROVE  IInv' /\ Final
  <2> DEFINE n == Len(stack)  b == Append(Below, rest)
  <2>1. /\ n \in Nat /\ n > 0 /\ b \in Seq(Frame) /\ Len(b) = n
        /\ \A i \in 1 .. n : Alike(b[i], stack[i])
    <3>1. n \in Nat /\ n > 0  BY <1>1, <1>2, EmptySeq
    <3> DEFINE k == n - 1  c == SubSeq(stack, 1, k)
    <3>2. k \in Nat /\ \A i \in 1 .. k : stack[i] \in Frame  BY <1>1, <3>1, ElementOfSeq
    <3>3. c \in Seq(Frame) /\ Len(c) = k /\ \A i \in 1 .. k : c[i] = stack[i]
      <4> HIDE DEF n, k
      <4>1. /\ c \in Seq(Frame) /\ Len(c) = (IF 1 <= k THEN k - 1 + 1 ELSE 0)
            /\ \A i \in 1 .. k - 1 + 1 : c[i] = stack[1 + i - 1]
        BY <3>2, SubSeqProperties
      <4> QED  BY <3>2, <4>1
    <3>4. b = Append(c, rest)  BY DEF Below
    <3> HIDE DEF c
    <3>5. /\ Append(c, rest) \in Seq(Frame) /\ Len(Append(c, rest)) = Len(c) + 1
          /\ \A i \in 1 .. Len(c) : Append(c, rest)[i] = c[i]
          /\ Append(c, rest)[Len(c) + 1] = rest
      BY <1>5, <3>3, AppendProperties
    <3> HIDE DEF b
    <3>6. Len(b) = n /\ b[n] = rest /\ \A i \in 1 .. k : b[i] = stack[i]
      BY <3>1, <3>3, <3>4, <3>5
    <3>7. stack[n] = Top  BY DEF Top
    <3>8. \A i \in 1 .. n : i \in 1 .. k \/ i = n  BY <3>1
    <3>9. \A i \in 1 .. n : Alike(b[i], stack[i])
      BY <1>5, <3>6, <3>7, <3>8 DEF Alike
    <3> QED  BY <3>1, <3>4, <3>5, <3>6, <3>9
  <2>2. stack' = Append(b, u)  BY <1>8
  <2> HIDE DEF b, n
  <2>3. /\ stack' \in Seq(Frame) /\ Len(stack') = n + 1
        /\ \A i \in 1 .. n : stack'[i] = b[i]
        /\ stack'[n + 1] = u
    BY <1>8, <2>1, <2>2, AppendProperties
  <2>4. \A i \in 1 .. n : Alike(stack'[i], stack[i])  BY <2>1, <2>3
  <2>5. \A i \in n + 1 .. Len(stack) : FALSE  BY <2>1 DEF n
  <2>6. \A i \in n + 1 .. Len(stack') : stack'[i] = u  BY <2>1, <2>3
  <2>7. n <= Len(stack) /\ n <= Len(stack')  BY <2>1, <2>3 DEF n
  <2>8. FrameInv' /\ \A q \in Promise : Runs(q)' = Runs(q)
    BY <1>1, <1>8, <2>1, <2>3, <2>4, <2>5, <2>6, <2>7, SameBelow
  <2> QED  BY <1>1, <1>2, <1>8, <2>3, <2>8, Kept
<1>9. ASSUME Operated, stack' = Append(Below, rest)  PROVE IInv' /\ Final
  <2>1. stack' \in Seq(Frame) /\ FrameInv' /\ \A q \in Promise : Runs(q)' = Runs(q)
    BY <1>1, <1>2, <1>5, <1>9, Replaced
  <2> QED  BY <1>1, <1>2, <1>9, <2>1, Kept
<1>10. CASE /\ stack' = Append(Append(Below, rest), User(cb.next, cb.next))
            /\ UNCHANGED <<promiseVars, queue, registered>>
  <2> DEFINE u == User(cb.next, cb.next)
  <2>1. u \in Frame /\ u.kind = "user" /\ u.throws # None
    <3>1. cb.next # None  BY <1>7, PromiseAssumption
    <3> QED  BY <1>7, <3>1 DEF User, Frame
  <2>2. Operated  BY <1>1, <1>10, Untouched
  <2>3. stack' = Append(Append(Below, rest), u)  BY <1>10
  <2> HIDE DEF u
  <2> QED  BY <1>8, <2>1, <2>2, <2>3
<1>11. CASE ResolveInternal(cb.next, value[p], Append(Below, rest))
  <2> DEFINE u == Lookup(cb.next, value[p])  b == Append(Below, rest)
  <2>1. u.kind = "lookup"  BY DEF Lookup
  <2> HIDE DEF u, b
  <2>2. Operated /\ (stack' = b \/ (stack' = Append(b, u) /\ u \in Frame))
    BY <1>1, <1>7, <1>11, Resolves DEF u, b
  <2> QED  BY <1>8, <1>9, <2>1, <2>2 DEF b
<1>12. CASE RejectInternal(cb.next, value[p]) /\ stack' = Append(Below, rest)
  BY <1>1, <1>6, <1>7, <1>9, <1>12, Rejects
<1> QED  BY <1>2, <1>10, <1>11, <1>12

\* The settle job has run the reactions and clears them.
LEMMA ReactionsEnd ==
  ASSUME IInv, EndReactions
  PROVE  IInv' /\ Final
<1> DEFINE n == Len(stack)  p == Top.promise
<1>1. /\ PromiseType /\ stack \in Seq(Frame) /\ FrameInv /\ resolvers \subseteq Promise
      /\ ops \in 0 .. MaxOps /\ QueueInv /\ OneJob /\ OnItsWay /\ ReportInv
      /\ reported \subseteq Promise
  BY DEF IInv, Orderly
<1>2. /\ stack # <<>> /\ Top.kind = "reactions" /\ stack' = Below
      /\ callbacks' = IF Top.settles THEN [callbacks EXCEPT ![p] = <<>>] ELSE callbacks
      /\ UNCHANGED <<state, value, handled, queue, resolvers, reported, ops, registered,
                     overwritten, cut>>
  BY DEF EndReactions, history
<1>3. /\ n \in Nat /\ n > 0
      /\ Top \in [kind : {"reactions"}, promise : Promise, left : Seq(Reaction),
                  settles : BOOLEAN]
  <2>1. Len(stack) \in 1 .. Len(stack) /\ n \in Nat  BY <1>1, <1>2, EmptySeq
  <2>2. Top \in Frame  BY <1>1, <2>1 DEF Top
  <2> QED  BY <1>2, <2>1, <2>2, FrameKinds
<1>4. p \in Promise  BY <1>3
<1>5. PromiseType'
  <2>1. callbacks' \in [Promise -> Seq(Reaction)]
    <3>1. callbacks \in [Promise -> Seq(Reaction)] /\ <<>> \in Seq(Reaction)
      BY <1>1 DEF PromiseType
    <3> HIDE DEF p
    <3> QED  BY <1>2, <3>1
  <2> QED  BY <1>1, <1>2, <2>1 DEF PromiseType, Settled
<1>6. /\ stack' \in Seq(Frame) /\ Len(stack') = n - 1
      /\ \A i \in 1 .. n - 1 : stack'[i] = stack[i]
  <2> DEFINE k == n - 1  c == SubSeq(stack, 1, k)
  <2>1. k \in Nat /\ \A i \in 1 .. k : stack[i] \in Frame  BY <1>1, <1>3, ElementOfSeq
  <2> HIDE DEF n, k
  <2>2. /\ c \in Seq(Frame) /\ Len(c) = (IF 1 <= k THEN k - 1 + 1 ELSE 0)
        /\ \A i \in 1 .. k - 1 + 1 : c[i] = stack[1 + i - 1]
    BY <2>1, SubSeqProperties
  <2>3. stack' = c  BY <1>2 DEF Below, k, n
  <2> HIDE DEF c
  <2>4. Len(c) = k /\ \A i \in 1 .. k : c[i] = stack[i]  BY <2>1, <2>2
  <2> QED  BY <2>2, <2>3, <2>4 DEF k
<1>7. stack[n] = Top  BY DEF Top
<1> HIDE DEF n, p
<1>8. \A i \in 1 .. n : i \in 1 .. n - 1 \/ i = n  BY <1>3
<1>9. \A i \in 1 .. n - 1 : i \in 1 .. n /\ (i > 1 => i - 1 \in 1 .. n - 1)  BY <1>3
<1>10. FrameInv'
  <2>1. \A i \in 1 .. n :
          /\ stack[i].kind = "reactions" => Settled(stack[i].promise)
          /\ stack[i].kind = "user" /\ stack[i].throws = None =>
                 i > 1 /\ stack[i - 1].kind = "pump"
    BY <1>1 DEF FrameInv, n
  <2>2. ASSUME NEW i \in 1 .. n - 1
        PROVE  /\ stack'[i].kind = "reactions" =>
                    state'[stack'[i].promise] \in {"fulfilled", "rejected"}
               /\ stack'[i].kind = "user" /\ stack'[i].throws = None =>
                      i > 1 /\ stack'[i - 1].kind = "pump"
    <3>1. stack'[i] = stack[i] /\ (i > 1 => stack'[i - 1] = stack[i - 1])  BY <1>6, <1>9
    <3> QED  BY <1>2, <1>9, <2>1, <3>1 DEF Settled
  <2> QED  BY <1>6, <2>2 DEF FrameInv, Settled
<1>11. \A q \in Promise : Jobs(q)' = Jobs(q)  BY <1>2 DEF Jobs, SettleJob
<1>12. \A q \in Promise : Runs(q) = {i \in 1 .. n : /\ stack[i].kind = "reactions"
                                                    /\ stack[i].promise = q /\ stack[i].settles}
  BY DEF Runs, n
<1>13. \A q \in Promise : Runs(q)' = {i \in 1 .. n - 1 : /\ stack[i].kind = "reactions"
                                                        /\ stack[i].promise = q /\ stack[i].settles}
  BY <1>6 DEF Runs
<1>14. \A q \in Promise : /\ Runs(q)' \subseteq Runs(q)
                          /\ q # p \/ ~Top.settles => Runs(q)' = Runs(q)
  <2> SUFFICES ASSUME NEW q \in Promise
               PROVE  /\ Runs(q)' \subseteq Runs(q)
                      /\ q # p \/ ~Top.settles => Runs(q)' = Runs(q)
    OBVIOUS
  <2>1. Runs(q)' \subseteq Runs(q)  BY <1>9, <1>12, <1>13
  <2>2. ASSUME q # p \/ ~Top.settles, NEW i \in Runs(q)  PROVE i \in Runs(q)'
    <3>1. i # n  BY <1>7, <1>12, <2>2 DEF p
    <3> QED  BY <1>8, <1>12, <1>13, <2>2, <3>1
  <2> QED  BY <2>1, <2>2
<1>15. QueueInv'  BY <1>1, <1>2 DEF QueueInv, Settled
<1>16. OneJob'
  <2> SUFFICES ASSUME NEW q \in Promise, q \notin overwritten
               PROVE  /\ \A i, j \in Jobs(q)' : i = j
                      /\ \A i, j \in Runs(q)' : i = j
                      /\ Jobs(q)' = {} \/ Runs(q)' = {}
    BY <1>2 DEF OneJob
  <2>1. /\ \A i, j \in Jobs(q) : i = j
        /\ \A i, j \in Runs(q) : i = j
        /\ Jobs(q) = {} \/ Runs(q) = {}
    BY <1>1 DEF OneJob
  <2> QED  BY <1>11, <1>14, <2>1
<1>17. OnItsWay'
  <2> SUFFICES ASSUME NEW q \in Promise, q \notin cut, Settled(q), callbacks'[q] # <<>>
               PROVE  Jobs(q)' # {} \/ Runs(q)' # {}
    BY <1>2 DEF OnItsWay, Settled
  <2>1. q # p \/ ~Top.settles  BY <1>1, <1>2, <1>4 DEF PromiseType
  <2>2. callbacks'[q] = callbacks[q]  BY <1>1, <1>2, <2>1 DEF PromiseType
  <2> QED  BY <1>1, <1>11, <1>14, <2>1, <2>2 DEF OnItsWay
<1>18. ReportInv'  BY <1>1, <1>2, <1>11 DEF ReportInv
<1>19. Final  BY <1>2 DEF Final, Stays
<1> QED  BY <1>1, <1>2, <1>5, <1>6, <1>10, <1>15, <1>16, <1>17, <1>18, <1>19 DEF IInv, Orderly

\* The job at the head of the queue becomes a frame.
LEMMA JobRuns ==
  ASSUME IInv, RunJob
  PROVE  IInv' /\ Final
<1> DEFINE n == Len(stack)  m == Len(queue)  j == Head(queue)
<1>1. /\ PromiseType /\ stack \in Seq(Frame) /\ FrameInv /\ resolvers \subseteq Promise
      /\ ops \in 0 .. MaxOps /\ QueueInv /\ OneJob /\ OnItsWay /\ ReportInv
      /\ reported \subseteq Promise
  BY DEF IInv, Orderly
<1>2. queue \in Seq(Job) /\ callbacks \in [Promise -> Seq(Reaction)]  BY <1>1 DEF PromiseType
<1>3. /\ stack # <<>> /\ Top.kind = "pump" /\ queue # <<>> /\ queue' = Tail(queue)
      /\ UNCHANGED <<state, value, handled, callbacks, ops, registered, overwritten, cut>>
      /\ reported' = reported \cup
            {p \in Promise : j = SettleJob(p) /\ state[p] = "rejected" /\ p \notin handled}
      /\ resolvers' = resolvers \cup {p \in Promise : j = ThenableJob(p)}
      /\ \/ /\ j.job = "settle"
            /\ stack' = Append(stack, Reactions(j.promise, callbacks[j.promise], TRUE))
         \/ /\ j.job = "reaction"
            /\ stack' = Append(stack, Reactions(j.promise, <<j.cb>>, FALSE))
         \/ j.job = "thenable" /\ stack' = Append(stack, User(None, j.promise))
         \/ j.job = "callback" /\ stack' = Append(stack, User(None, None))
  BY DEF RunJob, Pumps, Push, promiseVars, history
<1>4. /\ n \in Nat /\ n > 0 /\ stack[n].kind = "pump"
      /\ m \in Nat /\ m > 0
  BY <1>1, <1>2, <1>3, EmptySeq DEF Top
<1>5. j = queue[1] /\ j \in Job  BY <1>2, <1>3
<1>6. /\ queue' \in Seq(Job) /\ Len(queue') = m - 1
      /\ \A i \in 1 .. m - 1 : queue'[i] = queue[i + 1]
  BY <1>2, <1>3
<1>7. /\ j.job \in {"settle", "reaction", "thenable", "callback"}
      /\ j.job = "settle" => j.promise \in Promise /\ j = SettleJob(j.promise)
      /\ j.job = "reaction" => j.promise \in Promise /\ j.cb \in Reaction
      /\ j.job = "thenable" => j.promise \in Promise
      /\ \A p \in Promise : j = SettleJob(p) => j.job = "settle" /\ j.promise = p
      /\ j.job \in {"settle", "reaction"} => Settled(j.promise)
  <2>1. 1 \in 1 .. m  BY <1>4
  <2>2. j.job \in {"settle", "reaction"} => Settled(j.promise)
    BY <1>1, <1>5, <2>1 DEF QueueInv
  <2> HIDE DEF j
  <2> QED  BY <1>5, <2>2, JobKinds
<1> HIDE DEF j
<1>8. PICK f \in Frame :
        /\ stack' = Append(stack, f)
        /\ f.kind = "reactions" => state[f.promise] \in {"fulfilled", "rejected"}
        /\ \A q \in Promise :
             f.kind = "reactions" /\ f.promise = q /\ f.settles <=> j = SettleJob(q)
  <2>1. CASE j.job = "settle"
    <3> DEFINE f == Reactions(j.promise, callbacks[j.promise], TRUE)
    <3>1. /\ f \in Frame /\ f.kind = "reactions" /\ f.promise = j.promise /\ f.settles
      BY <1>2, <1>7, <2>1 DEF Reactions, Frame
    <3>2. stack' = Append(stack, f)  BY <1>3, <2>1
    <3> HIDE DEF f
    <3> QED  BY <1>7, <2>1, <3>1, <3>2 DEF Settled
  <2>2. CASE j.job = "reaction"
    <3> DEFINE f == Reactions(j.promise, <<j.cb>>, FALSE)
    <3>1. /\ f \in Frame /\ f.kind = "reactions" /\ f.promise = j.promise /\ ~f.settles
      BY <1>7, <2>2 DEF Reactions, Frame
    <3>2. stack' = Append(stack, f)  BY <1>3, <2>2
    <3> HIDE DEF f
    <3> QED  BY <1>7, <2>2, <3>1, <3>2 DEF Settled
  <2>3. CASE j.job \in {"thenable", "callback"}
    <3>1. PICK p \in Promise \cup {None} : stack' = Append(stack, User(None, p))
      BY <1>3, <1>7, <2>3
    <3> DEFINE f == User(None, p)
    <3>2. f \in Frame /\ f.kind = "user"  BY DEF User, Frame
    <3>3. stack' = Append(stack, f)  BY <3>1
    <3> HIDE DEF f
    <3> QED  BY <1>7, <2>3, <3>2, <3>3
  <2> QED  BY <1>7, <2>1, <2>2, <2>3
<1>9. /\ stack' \in Seq(Frame) /\ Len(stack') = n + 1
      /\ \A i \in 1 .. n : stack'[i] = stack[i]
      /\ stack'[n + 1] = f
  BY <1>1, <1>8, AppendProperties
<1>10. \A i \in 1 .. n + 1 : i \in 1 .. n \/ i = n + 1  BY <1>4
<1>11. PromiseType'  BY <1>1, <1>3, <1>6 DEF PromiseType, Settled
<1>12. FrameInv'
  <2>1. ASSUME NEW i \in 1 .. n + 1
        PROVE  /\ stack'[i].kind = "reactions" =>
                    state'[stack'[i].promise] \in {"fulfilled", "rejected"}
               /\ stack'[i].kind = "user" /\ stack'[i].throws = None =>
                    i > 1 /\ stack'[i - 1].kind = "pump"
    <3>1. CASE i \in 1 .. n
      <4>1. i > 1 => i - 1 \in 1 .. n  BY <1>4, <3>1
      <4>2. stack'[i] = stack[i] /\ (i > 1 => stack'[i - 1] = stack[i - 1])
        BY <1>9, <3>1, <4>1
      <4> QED  BY <1>1, <1>3, <3>1, <4>2 DEF FrameInv, Settled
    <3>2. CASE i = n + 1
      <4>1. n \in 1 .. n /\ i - 1 = n /\ i > 1  BY <1>4, <3>2
      <4>2. stack'[i] = f /\ stack'[i - 1].kind = "pump"  BY <1>4, <1>9, <3>2, <4>1
      <4> QED  BY <1>3, <1>8, <4>1, <4>2
    <3> QED  BY <1>10, <3>1, <3>2
  <2> QED  BY <1>9, <2>1 DEF FrameInv, Settled
<1>13. ASSUME NEW q \in Promise
       PROVE  /\ Runs(q)' = Runs(q) \cup (IF j = SettleJob(q) THEN {n + 1} ELSE {})
              /\ \A i : i \in Jobs(q)' <=> i \in 1 .. m - 1 /\ i + 1 \in Jobs(q)
              /\ 1 \in Jobs(q) <=> j = SettleJob(q)
              /\ \A i \in Jobs(q) : i = 1 \/ i - 1 \in Jobs(q)'
  <2> HIDE DEF n
  <2>1. Runs(q)' = {i \in 1 .. n + 1 : /\ stack'[i].kind = "reactions"
                                       /\ stack'[i].promise = q /\ stack'[i].settles}
    BY <1>9 DEF Runs
  <2>2. Runs(q) = {i \in 1 .. n : /\ stack[i].kind = "reactions"
                                  /\ stack[i].promise = q /\ stack[i].settles}
    BY DEF Runs, n
  <2>3. ASSUME NEW i
        PROVE  i \in Runs(q)' <=>
                 i \in Runs(q) \cup (IF j = SettleJob(q) THEN {n + 1} ELSE {})
    <3>1. CASE i \in 1 .. n  BY <1>4, <1>9, <2>1, <2>2, <3>1
    <3>2. CASE i = n + 1
      <4>1. i \notin Runs(q) /\ i \in 1 .. n + 1  BY <1>4, <2>2, <3>2
      <4>2. i \in Runs(q)' <=> j = SettleJob(q)  BY <1>8, <1>9, <2>1, <3>2, <4>1
      <4> QED  BY <3>2, <4>1, <4>2
    <3>3. CASE i \notin 1 .. n + 1  BY <1>4, <1>10, <2>1, <2>2, <3>3
    <3> QED  BY <1>10, <3>1, <3>2, <3>3
  <2>4. Jobs(q)' = {i \in 1 .. m - 1 : queue'[i] = SettleJob(q)}
    BY <1>6 DEF Jobs, SettleJob
  <2>5. Jobs(q) = {i \in 1 .. m : queue[i] = SettleJob(q)}  BY DEF Jobs
  <2> HIDE DEF m
  <2>6. \A i \in 1 .. m - 1 : i + 1 \in 1 .. m  BY <1>4
  <2>7. \A i : i \in Jobs(q)' <=> i \in 1 .. m - 1 /\ i + 1 \in Jobs(q)
    BY <1>6, <2>4, <2>5, <2>6
  <2>8. 1 \in Jobs(q) <=> j = SettleJob(q)  BY <1>4, <1>5, <2>5
  <2>9. ASSUME NEW i \in Jobs(q), i # 1  PROVE i - 1 \in Jobs(q)'
    <3>1. i - 1 \in 1 .. m - 1 /\ i - 1 + 1 = i  BY <1>4, <2>5, <2>9
    <3> QED  BY <2>7, <2>9, <3>1
  <2> QED  BY <2>3, <2>7, <2>8, <2>9
<1>14. QueueInv'
  <2> SUFFICES ASSUME NEW i \in 1 .. m - 1, queue'[i].job \in {"settle", "reaction"}
               PROVE  state'[queue'[i].promise] \in {"fulfilled", "rejected"}
    BY <1>6 DEF QueueInv, Settled
  <2>1. i + 1 \in 1 .. m /\ queue'[i] = queue[i + 1]  BY <1>4, <1>6
  <2> QED  BY <1>1, <1>3, <2>1 DEF QueueInv, Settled
<1>15. OneJob'
  <2> SUFFICES ASSUME NEW q \in Promise, q \notin overwritten
               PROVE  /\ \A i, k \in Jobs(q)' : i = k
                      /\ \A i, k \in Runs(q)' : i = k
                      /\ Jobs(q)' = {} \/ Runs(q)' = {}
    BY <1>3 DEF OneJob
  <2>1. /\ \A i, k \in Jobs(q) : i = k
        /\ \A i, k \in Runs(q) : i = k
        /\ Jobs(q) = {} \/ Runs(q) = {}
    BY <1>1 DEF OneJob
  <2>2. \A i, k \in Jobs(q)' : i = k
    <3> SUFFICES ASSUME NEW i \in Jobs(q)', NEW k \in Jobs(q)'  PROVE i = k
      OBVIOUS
    <3>1. i \in Int /\ k \in Int /\ i + 1 = k + 1  BY <1>13, <2>1
    <3> QED  BY <3>1
  <2>3. CASE j = SettleJob(q)
    <3>1. 1 \in Jobs(q) /\ Runs(q) = {}  BY <1>13, <2>1, <2>3
    <3>2. Jobs(q)' = {}
      <4> SUFFICES ASSUME NEW i \in Jobs(q)'  PROVE FALSE
        OBVIOUS
      <4>1. i \in 1 .. m - 1 /\ i + 1 = 1  BY <1>13, <2>1, <3>1
      <4> QED  BY <4>1
    <3>3. Runs(q)' = {n + 1}  BY <1>13, <2>3, <3>1
    <3> QED  BY <3>2, <3>3
  <2>4. CASE j # SettleJob(q)
    <3>1. Runs(q)' = Runs(q)  BY <1>13, <2>4
    <3>2. Jobs(q) = {} => Jobs(q)' = {}  BY <1>13
    <3> QED  BY <2>1, <2>2, <3>1, <3>2
  <2> QED  BY <2>3, <2>4
<1>16. OnItsWay'
  <2> SUFFICES ASSUME NEW q \in Promise, q \notin cut, Settled(q), callbacks[q] # <<>>
               PROVE  Jobs(q)' # {} \/ Runs(q)' # {}
    BY <1>3 DEF OnItsWay, Settled
  <2>1. Jobs(q) # {} \/ Runs(q) # {}  BY <1>1 DEF OnItsWay
  <2>2. CASE j = SettleJob(q)  BY <1>13, <2>2
  <2>3. CASE j # SettleJob(q)  BY <1>13, <2>1, <2>3
  <2> QED  BY <2>2, <2>3
<1>17. ReportInv'
  <2> SUFFICES ASSUME NEW q \in Promise, state[q] = "rejected", q \notin handled
               PROVE  q \in reported' \/ Jobs(q)' # {}
    BY <1>3 DEF ReportInv
  <2>1. q \in reported \/ Jobs(q) # {}  BY <1>1 DEF ReportInv
  <2>2. CASE j = SettleJob(q)  BY <1>3, <2>2
  <2>3. CASE j # SettleJob(q)  BY <1>3, <1>13, <2>1, <2>3
  <2> QED  BY <2>2, <2>3
<1>18. Final  BY <1>3 DEF Final, Stays
<1>19. resolvers' \subseteq Promise /\ reported' \subseteq Promise /\ ops' \in 0 .. MaxOps
  BY <1>1, <1>3
<1> QED  BY <1>9, <1>11, <1>12, <1>14, <1>15, <1>16, <1>17, <1>18, <1>19 DEF IInv, Orderly

\* The initial state.
LEMMA Started == Init => IInv
<1> SUFFICES ASSUME Init  PROVE IInv
  OBVIOUS
<1>1. /\ state = [p \in Promise |-> "unused"] /\ value = [p \in Promise |-> None]
      /\ handled = {} /\ callbacks = [p \in Promise |-> <<>>] /\ queue = <<>>
      /\ resolvers = {} /\ reported = {} /\ ops = 0 /\ registered = [p \in Promise |-> 0]
      /\ stack = <<Pump(None, "drain"), User(None, None)>>
  BY DEF Init
<1>2. PromiseType
  <2>1. callbacks \in [Promise -> Seq(Reaction)]  BY <1>1
  <2>2. queue \in Seq(Job)  BY <1>1
  <2> QED  BY <1>1, <2>1, <2>2 DEF PromiseType, Settled
<1>3. /\ stack \in Seq(Frame) /\ Len(stack) = 2
      /\ stack[1].kind = "pump" /\ stack[2].kind = "user"
  <2> DEFINE f == Pump(None, "drain")  g == User(None, None)
  <2>1. f \in Frame /\ g \in Frame /\ f.kind = "pump" /\ g.kind = "user"
    BY DEF Pump, User, Frame
  <2>2. stack = <<f, g>>  BY <1>1
  <2> HIDE DEF f, g
  <2> QED  BY <2>1, <2>2
<1>4. FrameInv
  <2> SUFFICES ASSUME NEW i \in 1 .. 2
               PROVE  stack[i].kind # "reactions" /\ (stack[i].kind = "user" =>
                                                        i > 1 /\ stack[i - 1].kind = "pump")
    BY <1>3 DEF FrameInv
  <2>1. i = 1 \/ i = 2  OBVIOUS
  <2> QED  BY <1>3, <2>1
<1>5. \A p \in Promise : Jobs(p) = {} /\ Runs(p) = {} /\ ~Settled(p)
  <2>1. \A p \in Promise : Jobs(p) = {} /\ ~Settled(p)  BY <1>1 DEF Jobs, Settled
  <2>2. \A i \in 1 .. 2 : stack[i].kind # "reactions"
    <3>1. \A i \in 1 .. 2 : i = 1 \/ i = 2  OBVIOUS
    <3> QED  BY <1>3, <3>1
  <2> QED  BY <1>3, <2>1, <2>2 DEF Runs
<1>6. Orderly
  <2>1. QueueInv  BY <1>1 DEF QueueInv
  <2>2. OneJob /\ OnItsWay  BY <1>5 DEF OneJob, OnItsWay
  <2>3. ReportInv  BY <1>5 DEF ReportInv, Settled
  <2> QED  BY <2>1, <2>2, <2>3 DEF Orderly
<1> QED  BY <1>1, <1>2, <1>3, <1>4, <1>6, PromiseAssumption DEF IInv

\* Every step keeps the invariant and, lookups apart, settled promises as they are.
LEMMA Stepped ==
  ASSUME IInv, [Next]_vars
  PROVE  IInv' /\ Final
<1>1. CASE \/ \E p \in Promise : New(p)
           \/ \E p, next \in Promise, f, r \in BOOLEAN : Then(p, f, r, next)
           \/ \E p \in Promise, v \in Value : Reject(p, v)
           \/ QueueCallback
  BY <1>1, Operates
<1>2. CASE \/ \E p \in Promise : Await(p)
           \/ \E p \in Promise, v \in Resolution : Resolve(p, v)
  BY <1>2, Awaited, Resolved
<1>3. CASE (\E v \in Resolution : Return(v)) \/ \E v \in Value : Throw(v)
  BY <1>3, FunctionEnds
<1>4. CASE ThrowUncaught \/ ThrowThroughReactions  BY <1>4, Unwound, CutOff
<1>5. CASE RunJob  BY <1>5, JobRuns
<1>6. CASE RunReaction  BY <1>6, ReactionRuns
<1>7. CASE EndReactions  BY <1>7, ReactionsEnd
<1>8. CASE EndDrain \/ EndPoll \/ Event  BY <1>8, PumpTurns
<1>9. CASE UNCHANGED vars
  <2>1. PromiseType /\ resolvers \subseteq Promise /\ ops \in 0 .. MaxOps  BY DEF IInv
  <2>2. /\ UNCHANGED <<promiseVars, queue, registered, overwritten, cut>>
        /\ UNCHANGED <<stack, reported, resolvers, ops>>
    BY <1>9 DEF vars, promiseVars
  <2>3. Operated /\ Remembered  BY <2>1, <2>2, Untouched DEF Remembered
  <2> QED  BY <2>1, <2>2, <2>3, StackStays
<1>10. CASE EndLookup \/ ThrowToCaller \/ \E v \in Value : ThrowLookup(v)
  BY <1>10, LookupEnds
<1> QED  BY <1>1, <1>2, <1>3, <1>4, <1>5, <1>6, <1>7, <1>8, <1>9, <1>10
         DEF Next, UserCode, Runtime

\* A set no two elements of which differ has one element or none.
LEMMA AtMostOne ==
  ASSUME NEW S, \A i, j \in S : i = j
  PROVE  /\ Cardinality(S) \in {0, 1}
         /\ Cardinality(S) = 0 <=> S = {}
<1>1. CASE S = {}  BY <1>1, FS_EmptySet
<1>2. CASE S # {}
  <2>1. PICK x \in S : TRUE  BY <1>2
  <2>2. S = {x}  BY <2>1
  <2>3. Cardinality({x}) = 1  BY FS_Singleton
  <2> QED  BY <1>2, <2>2, <2>3
<1> QED  BY <1>1, <1>2

------------------------------------------------------------------------------
(* The theorems.                                                             *)

\* IInv, the inductive invariant: what is queued or runs for a promise has been
\* queued when it was settled, and once unless a lookup settled it again.
THEOREM Invariance == Spec => []IInv
<1>1. IInv /\ [Next]_vars => IInv'  BY Stepped
<1> QED  BY Started, <1>1, PTL DEF Spec

\* Every variable has its type, and a promise has a value when it is settled.
THEOREM Typed == Spec => []TypeOK
<1>1. IInv => TypeOK  BY DEF IInv, PromiseType, TypeOK
<1> QED  BY Invariance, <1>1, PTL

\* A settled promise keeps its state and value, whatever user code does, but for
\* the end of a lookup that was begun for it.
THEOREM NeverResettled == Spec => SettledForGood
<1>1. IInv /\ [Next]_vars =>
        [\A p \in Promise : Settled(p) =>
            Stays(p) \/ (Top = Lookup(p, Object) /\ stack' = Below)]_vars
  BY Stepped DEF Final
<1> QED  BY Invariance, <1>1, PTL DEF Spec, SettledForGood

\* What waits in a settled promise has one settle job, queued or running; those
\* a lookup overwrote may have two, and an exception may cut off one that runs.
THEOREM Scheduled == Spec => []SettleScheduled
<1>1. IInv => SettleScheduled
  <2> SUFFICES ASSUME IInv, NEW p \in Promise
               PROVE  LET jobs == {i \in 1 .. Len(queue) : queue[i] = SettleJob(p)}
                          runs == {i \in FramesOf(p) : stack[i].settles}
                      IN  /\ p \notin overwritten =>
                                Cardinality(jobs) + Cardinality(runs) <= 1
                          /\ Settled(p) /\ callbacks[p] # <<>> /\ p \notin cut =>
                                jobs \cup runs # {}
                          /\ state[p] \in {"unused", "pending"} => jobs \cup runs = {}
    BY DEF SettleScheduled
  <2>1. /\ PromiseType /\ FrameInv /\ QueueInv /\ OneJob /\ OnItsWay
    BY DEF IInv, Orderly
  <2> DEFINE jobs == {i \in 1 .. Len(queue) : queue[i] = SettleJob(p)}
             runs == {i \in FramesOf(p) : stack[i].settles}
  <2>2. jobs = Jobs(p) /\ runs = Runs(p)  BY DEF Jobs, Runs, FramesOf
  <2> HIDE DEF jobs, runs
  <2>3. ASSUME p \notin overwritten  PROVE Cardinality(jobs) + Cardinality(runs) <= 1
    <3>1. Cardinality(Jobs(p)) \in {0, 1} /\ (Cardinality(Jobs(p)) = 0 <=> Jobs(p) = {})
      BY <2>1, <2>3, AtMostOne DEF OneJob
    <3>2. Cardinality(Runs(p)) \in {0, 1} /\ (Cardinality(Runs(p)) = 0 <=> Runs(p) = {})
      BY <2>1, <2>3, AtMostOne DEF OneJob
    <3>3. Jobs(p) = {} \/ Runs(p) = {}  BY <2>1, <2>3 DEF OneJob
    <3> QED  BY <2>2, <3>1, <3>2, <3>3
  <2>4. Settled(p) /\ callbacks[p] # <<>> /\ p \notin cut => jobs \cup runs # {}
    BY <2>1, <2>2 DEF OnItsWay
  <2>5. ASSUME state[p] \in {"unused", "pending"}  PROVE jobs \cup runs = {}
    <3>1. ~Settled(p)  BY <2>5 DEF Settled
    <3>2. Runs(p) = {}  BY <2>1, <3>1 DEF Runs, FrameInv
    <3>3. Jobs(p) = {}
      <4> SUFFICES ASSUME NEW i \in 1 .. Len(queue), queue[i] = SettleJob(p)  PROVE FALSE
        BY DEF Jobs
      <4>1. queue[i].job = "settle" /\ queue[i].promise = p  BY DEF SettleJob
      <4> QED  BY <2>1, <3>1, <4>1 DEF QueueInv
    <3> QED  BY <2>2, <3>2, <3>3
  <2> QED  BY <2>3, <2>4, <2>5 DEF jobs, runs
<1> QED  BY Invariance, <1>1, PTL

\* When the loop is idle each rejection nobody handles has been reported.
THEOREM Reported == Spec => []UnhandledReported
<1>1. IInv => UnhandledReported
  <2> SUFFICES ASSUME IInv, queue = <<>>, NEW p \in Promise,
                      state[p] = "rejected", p \notin handled
               PROVE  p \in reported
    BY DEF UnhandledReported
  <2>1. Jobs(p) = {}  BY DEF Jobs
  <2> QED  BY <2>1 DEF IInv, Orderly, ReportInv
<1> QED  BY Invariance, <1>1, PTL

------------------------------------------------------------------------------
(* Where reactions are kept.                                                 *)

\* Reaction cb of p is kept at place s until it runs: in a frame, in the queue,
\* or in p as long as the frame of its settle job does not have it.
Keeps(p, s, cb) ==
    \/ \E i \in FramesOf(p) : \E k \in 1 .. Len(stack[i].left) :
           s = <<"frame", i, k>> /\ cb = stack[i].left[k]
    \/ \E i \in 1 .. Len(queue) : s = <<"queue", i, 1>> /\ queue[i] = ReactionJob(p, cb)
    \/ Runs(p) = {} /\ \E k \in 1 .. Len(callbacks[p]) :
           s = <<"promise", 0, k>> /\ cb = callbacks[p][k]

\* The reaction with number n is there, or has run.
At(p, s, n) ==
    \/ \E cb : Keeps(p, s, cb) /\ cb.id = n
    \/ \E i \in 1 .. Len(ran[p]) : s = <<"ran", i, 0>> /\ ran[p][i] = n

\* Of two places the first one's reaction is older.
Earlier(s, t) ==
    \/ t[1] = "queue" /\ (s[1] = "queue" => s[2] < t[2])
    \/ s[1] = t[1] /\ s[2] = t[2] /\ s[3] < t[3]

\* Each reaction is at one place, and older ones are where they run earlier.
PlacedOnce(p) ==
    /\ \A n \in 1 .. registered[p] : \E s : At(p, s, n)
    /\ \A s, n : At(p, s, n) => n \in 1 .. registered[p]
    /\ \A s, t, n : At(p, s, n) /\ At(p, t, n) => s = t
    /\ \A s, t, m, n : At(p, s, m) /\ At(p, t, n) /\ Earlier(s, t) => m < n

\* The promises no lookup and no exception has done damage to.
Whole == Promise \ (overwritten \cup cut)

PlaceInv == \A p \in Whole : PlacedOnce(p)

\* The settle job of p comes before everything that runs reactions of p.
JobInv == \A p \in Whole : \A i \in Jobs(p) :
    /\ FramesOf(p) = {}
    /\ \A k \in 1 .. Len(queue) :
          queue[k].job = "reaction" /\ queue[k].promise = p => i < k

\* Reactions run in a frame on top of others' only if a pump has begun with them.
ShapeInv == \A i, k \in 1 .. Len(stack) :
    i < k /\ stack[i].kind = "reactions" /\ stack[k].kind = "reactions" =>
        \E a \in i + 1 .. k - 1 : stack[a].kind = "pump"

HistoryInv == /\ ran \in [Promise -> Seq(Nat)]
              /\ PlaceInv /\ JobInv /\ ShapeInv

------------------------------------------------------------------------------
(* The stack.                                                                *)

\* What is whole has been whole.
LEMMA WholeBefore ==
  ASSUME Remembered
  PROVE  Whole' \subseteq Whole /\ Whole' \subseteq Promise
BY DEF Remembered, Whole

\* No frame with reactions of a whole promise comes, goes or gets on.
SameFrames == \A p \in Whole' :
    /\ FramesOf(p)' = FramesOf(p) /\ Runs(p)' = Runs(p)
    /\ \A i \in FramesOf(p) : stack'[i] = stack[i]

\* The stack changes above its first n frames, where there are no such frames.
LEMMA FramesStay ==
  ASSUME Len(stack) \in Nat, Len(stack') \in Nat, NEW n \in Nat,
         n <= Len(stack), n <= Len(stack'),
         \A i \in 1 .. n : stack'[i] = stack[i],
         \A i \in n + 1 .. Len(stack) :
            stack[i].kind = "reactions" => stack[i].promise \notin Whole',
         \A i \in n + 1 .. Len(stack') : stack'[i].kind # "reactions"
  PROVE  SameFrames
<1> SUFFICES ASSUME NEW p \in Whole'
             PROVE  /\ FramesOf(p)' = FramesOf(p) /\ Runs(p)' = Runs(p)
                    /\ \A i \in FramesOf(p) : stack'[i] = stack[i]
  BY DEF SameFrames
<1>1. \A i \in FramesOf(p) : i \in 1 .. n  BY DEF FramesOf
<1>2. \A i \in FramesOf(p)' : i \in 1 .. n  BY DEF FramesOf
<1>3. ASSUME NEW i \in 1 .. n
      PROVE  (i \in FramesOf(p)' <=> i \in FramesOf(p)) /\ (i \in Runs(p)' <=> i \in Runs(p))
  BY <1>3 DEF FramesOf, Runs
<1>4. \A i : (i \in Runs(p) => i \in FramesOf(p)) /\ (i \in Runs(p)' => i \in FramesOf(p)')
  BY DEF FramesOf, Runs
<1> QED  BY <1>1, <1>2, <1>3, <1>4

\* The pumps between reactions stay too.
LEMMA ShapeStays ==
  ASSUME ShapeInv, Len(stack) \in Nat, Len(stack') \in Nat, NEW n \in Nat,
         n <= Len(stack), n <= Len(stack'),
         \A i \in 1 .. n : stack'[i] = stack[i],
         \A i \in n + 1 .. Len(stack') : stack'[i].kind # "reactions"
  PROVE  ShapeInv'
<1> SUFFICES ASSUME NEW i \in 1 .. Len(stack'), NEW k \in 1 .. Len(stack'), i < k,
                    stack'[i].kind = "reactions", stack'[k].kind = "reactions"
             PROVE  \E a \in i + 1 .. k - 1 : stack'[a].kind = "pump"
  BY DEF ShapeInv
<1>1. i \in 1 .. n /\ k \in 1 .. n  OBVIOUS
<1>2. i \in 1 .. Len(stack) /\ k \in 1 .. Len(stack)  BY <1>1
<1>3. PICK a \in i + 1 .. k - 1 : stack[a].kind = "pump"  BY <1>1, <1>2 DEF ShapeInv
<1>4. a \in 1 .. n  BY <1>1
<1> QED  BY <1>3, <1>4

\* A frame is pushed.
LEMMA FramePushed ==
  ASSUME stack \in Seq(Frame), NEW f \in Frame, stack' = Append(stack, f)
  PROVE  /\ Len(stack) \in Nat /\ Len(stack') = Len(stack) + 1
         /\ \A i \in 1 .. Len(stack) : stack'[i] = stack[i]
         /\ stack'[Len(stack) + 1] = f
         /\ stack # <<>> => Len(stack) > 0 /\ Len(stack) \in 1 .. Len(stack)
<1>1. /\ Len(stack) \in Nat /\ Len(stack') = Len(stack) + 1
      /\ \A i \in 1 .. Len(stack) : stack'[i] = stack[i]
      /\ stack'[Len(stack) + 1] = f
  BY AppendProperties
<1>2. stack # <<>> => Len(stack) > 0  BY <1>1, EmptySeq
<1> QED  BY <1>1, <1>2

\* The frames above the first n are taken off.
LEMMA FramesCut ==
  ASSUME stack \in Seq(Frame), NEW n \in 0 .. Len(stack), stack' = SubSeq(stack, 1, n)
  PROVE  /\ Len(stack) \in Nat /\ Len(stack') = n
         /\ \A i \in 1 .. n : stack'[i] = stack[i]
<1>1. /\ Len(stack) \in Nat /\ n \in Nat
      /\ \A i \in 1 .. n : stack[i] \in Frame
  BY ElementOfSeq
<1>2. /\ Len(SubSeq(stack, 1, n)) = IF 1 <= n THEN n - 1 + 1 ELSE 0
      /\ \A i \in 1 .. n - 1 + 1 : SubSeq(stack, 1, n)[i] = stack[1 + i - 1]
  BY <1>1, SubSeqProperties
<1> QED  BY <1>1, <1>2

\* The topmost frame is exchanged for another one.
LEMMA FrameExchanged ==
  ASSUME stack \in Seq(Frame), stack # <<>>, NEW f \in Frame, NEW s, s = Append(Below, f)
  PROVE  /\ Len(stack) \in Nat /\ Len(stack) > 0 /\ s \in Seq(Frame) /\ Len(s) = Len(stack)
         /\ \A i \in 1 .. Len(stack) - 1 : s[i] = stack[i]
         /\ s[Len(stack)] = f
<1> DEFINE k == Len(stack) - 1
           b == SubSeq(stack, 1, k)
<1>1. Len(stack) \in Nat /\ Len(stack) > 0 /\ k \in Nat /\ Len(stack) = k + 1
  BY EmptySeq
<1>2. \A i \in 1 .. k : stack[i] \in Frame  BY <1>1, ElementOfSeq
<1> HIDE DEF k
<1>3. /\ b \in Seq(Frame) /\ Len(b) = (IF 1 <= k THEN k - 1 + 1 ELSE 0)
      /\ \A i \in 1 .. k - 1 + 1 : b[i] = stack[1 + i - 1]
  BY <1>1, <1>2, SubSeqProperties
<1>4. s = Append(b, f)  BY DEF Below, b, k
<1> HIDE DEF b
<1>5. Len(b) = k /\ \A i \in 1 .. k : b[i] = stack[i]  BY <1>1, <1>3
<1>6. /\ s \in Seq(Frame) /\ Len(s) = Len(b) + 1
      /\ \A i \in 1 .. Len(b) : s[i] = b[i]
      /\ s[Len(b) + 1] = f
  BY <1>3, <1>4, AppendProperties
<1> QED  BY <1>1, <1>5, <1>6 DEF k

\* A function on the stack was there before, or is a callback of an event.
OldFunctions == \A i \in 1 .. Len(stack') : stack'[i].kind = "user" =>
    (i \in 1 .. Len(stack) /\ stack'[i] = stack[i]) \/ stack'[i] = User(None, None)

\* What all steps do to the stack but those of jobs and reactions.
QuietStack == stack' \in Seq(Frame) /\ SameFrames /\ ShapeInv' /\ OldFunctions

\* The stack is left alone,
LEMMA LeftAlone ==
  ASSUME stack \in Seq(Frame), ShapeInv, stack' = stack
  PROVE  QuietStack
<1>1. SameFrames  BY DEF SameFrames, FramesOf, Runs
<1>2. ShapeInv'  BY DEF ShapeInv
<1> QED  BY <1>1, <1>2 DEF QuietStack, OldFunctions

\* loses frames without reactions of whole promises,
LEMMA CutQuietly ==
  ASSUME stack \in Seq(Frame), ShapeInv, NEW n \in 0 .. Len(stack),
         stack' = SubSeq(stack, 1, n),
         \A i \in n + 1 .. Len(stack) :
            stack[i].kind = "reactions" => stack[i].promise \notin Whole'
  PROVE  QuietStack
<1>1. /\ Len(stack) \in Nat /\ n \in Nat /\ n <= Len(stack) /\ Len(stack') = n
      /\ \A i \in 1 .. n : stack'[i] = stack[i]
  BY FramesCut
<1>2. /\ \A i \in n + 1 .. Len(stack') : FALSE
      /\ \A i \in 1 .. n : i \in 1 .. Len(stack)
  BY <1>1
<1>3. SameFrames  BY <1>1, <1>2, FramesStay
<1>4. ShapeInv'  BY <1>1, <1>2, ShapeStays
<1>5. OldFunctions  BY <1>1, <1>2 DEF OldFunctions
<1>6. stack' \in Seq(Frame)
  <2>1. \A i \in 1 .. n : stack[i] \in Frame  BY <1>2
  <2> QED  BY <1>1, <2>1, SubSeqProperties
<1> QED  BY <1>3, <1>4, <1>5, <1>6 DEF QuietStack

\* gets a pump, a lookup or a callback,
LEMMA PushedQuietly ==
  ASSUME stack \in Seq(Frame), ShapeInv, NEW f \in Frame, stack' = Append(stack, f),
         f.kind \in {"pump", "lookup"} \/ f = User(None, None)
  PROVE  QuietStack
<1> DEFINE n == Len(stack)
<1>1. /\ n \in Nat /\ Len(stack') = n + 1
      /\ \A i \in 1 .. n : stack'[i] = stack[i]
      /\ stack'[n + 1] = f
  BY FramePushed
<1>2. f.kind # "reactions"  BY DEF User
<1>3. /\ n <= Len(stack) /\ n <= Len(stack') /\ \A i \in n + 1 .. Len(stack) : FALSE
      /\ \A i \in n + 1 .. Len(stack') : stack'[i] = f
  BY <1>1
<1>4. SameFrames  BY <1>1, <1>2, <1>3, FramesStay DEF n
<1>5. ShapeInv'  BY <1>1, <1>2, <1>3, ShapeStays DEF n
<1> HIDE DEF n
<1>6. OldFunctions
  <2> SUFFICES ASSUME NEW i \in 1 .. n + 1, stack'[i].kind = "user"
               PROVE  \/ i \in 1 .. n /\ stack'[i] = stack[i]
                      \/ stack'[i] = User(None, None)
    BY <1>1 DEF OldFunctions, n
  <2>1. i \in 1 .. n \/ i = n + 1  BY <1>1
  <2> QED  BY <1>1, <2>1
<1>7. stack' \in Seq(Frame)  BY AppendProperties
<1> QED  BY <1>4, <1>5, <1>6, <1>7 DEF QuietStack

\* or has its topmost frame exchanged for one of these.
LEMMA ExchangedQuietly ==
  ASSUME stack \in Seq(Frame), stack # <<>>, ShapeInv, NEW f \in Frame,
         stack' = Append(Below, f), f.kind \in {"pump", "lookup"}, Top.kind # "reactions"
  PROVE  QuietStack
<1>0. /\ Len(stack) \in Nat /\ Len(stack) > 0 /\ Len(stack') = Len(stack)
      /\ \A i \in 1 .. Len(stack) - 1 : stack'[i] = stack[i]
      /\ stack'[Len(stack)] = f
  BY FrameExchanged
<1>8. stack' \in Seq(Frame)  BY FrameExchanged
<1> DEFINE n == Len(stack)
<1>1. /\ n \in Nat /\ n > 0 /\ stack' \in Seq(Frame) /\ Len(stack') = n
      /\ \A i \in 1 .. n - 1 : stack'[i] = stack[i]
      /\ stack'[n] = f
  BY ONLY <1>0, <1>8
<1>2. stack[n] = Top  BY DEF Top
<1>3. \A i \in 1 .. n : i \in 1 .. n - 1 \/ i = n  BY <1>1
<1>4. /\ n - 1 \in Nat /\ n - 1 <= Len(stack) /\ n - 1 <= Len(stack')
      /\ \A i \in n - 1 + 1 .. Len(stack) : i = n
      /\ \A i \in n - 1 + 1 .. Len(stack') : i = n
  BY <1>1
<1>5. SameFrames  BY <1>1, <1>2, <1>4, FramesStay
<1>6. ShapeInv'  BY <1>1, <1>2, <1>4, ShapeStays
<1> HIDE DEF n
<1>7. OldFunctions
  <2> SUFFICES ASSUME NEW i \in 1 .. n, stack'[i].kind = "user"
               PROVE  stack'[i] = stack[i]
    BY <1>1 DEF OldFunctions, n
  <2> QED  BY <1>1, <1>3
<1> QED  BY <1>1, <1>5, <1>6, <1>7 DEF QuietStack

------------------------------------------------------------------------------
(* The places.                                                               *)

\* No reaction is registered.
Unregistered ==
  /\ UNCHANGED <<callbacks, registered>>
  /\ \/ queue' = queue
     \/ \E j \in Job : /\ queue' = Append(queue, j) /\ j.job # "reaction"
                       /\ \A q \in Whole' : j = SettleJob(q) => ~Settled(q)

\* Reaction cb is registered on p.
RegisteredOn(p, cb) ==
  /\ cb \in Reaction /\ cb.id = registered[p] + 1
  /\ registered' = [registered EXCEPT ![p] = cb.id]
  /\ \/ Settled(p) /\ queue' = Append(queue, ReactionJob(p, cb)) /\ UNCHANGED callbacks
     \/ /\ ~Settled(p) /\ UNCHANGED queue
        /\ callbacks' = [callbacks EXCEPT ![p] = Append(@, cb)]

\* What kinds of places there are.
LEMMA PlaceKinds ==
  ASSUME NEW p, NEW s, NEW n
  PROVE  /\ At(p, s, n) => s[1] \in {"frame", "queue", "promise", "ran"}
         /\ \A cb : Keeps(p, s, cb) => s[1] \in {"frame", "queue", "promise"}
BY DEF At, Keeps

\* Reactions that stay where they are.
LEMMA PlacesStay ==
  ASSUME NEW p \in Promise, PlacedOnce(p), registered'[p] = registered[p], ran'[p] = ran[p],
         \A s, cb : Keeps(p, s, cb)' <=> Keeps(p, s, cb)
  PROVE  PlacedOnce(p)'
<1>1. \A s, n : At(p, s, n)' <=> At(p, s, n)  BY DEF At
<1> QED  BY <1>1 DEF PlacedOnce, Earlier

\* A reaction more, at a place no reaction is behind.
LEMMA PlaceFound ==
  ASSUME NEW p \in Promise, PlacedOnce(p), ran'[p] = ran[p], registered[p] \in Nat,
         registered'[p] = registered[p] + 1,
         NEW s0, NEW new, new.id = registered[p] + 1, s0[1] \in {"queue", "promise"},
         \A s, cb : Keeps(p, s, cb)' <=> Keeps(p, s, cb) \/ (s = s0 /\ cb = new),
         ~Earlier(s0, s0), \A s, cb : Keeps(p, s, cb) => s # s0 /\ ~Earlier(s0, s)
  PROVE  PlacedOnce(p)'
<1> DEFINE m == registered[p] + 1
<1>1. \A s, n : At(p, s, n)' <=> At(p, s, n) \/ (s = s0 /\ n = m)
  BY DEF At
<1>2. \A s, n : At(p, s, n) => s # s0 /\ ~Earlier(s0, s) /\ n \in 1 .. registered[p]
  <2> SUFFICES ASSUME NEW s, NEW n, At(p, s, n)
               PROVE  s # s0 /\ ~Earlier(s0, s) /\ n \in 1 .. registered[p]
    OBVIOUS
  <2>1. n \in 1 .. registered[p]  BY DEF PlacedOnce
  <2>2. CASE \E cb : Keeps(p, s, cb) /\ cb.id = n  BY <2>1, <2>2
  <2>3. CASE s[1] = "ran"  BY <2>1, <2>3 DEF Earlier
  <2> QED  BY <2>2, <2>3 DEF At
<1>3. \A s, n : At(p, s, n)' => n \in 1 .. m  BY <1>1, <1>2
<1>4. \A n \in 1 .. m : n \in 1 .. registered[p] \/ n = m  OBVIOUS
<1>5. \A n \in 1 .. registered[p] : n \in 1 .. m /\ n < m  OBVIOUS
<1> QED
  <2>1. \A n \in 1 .. m : \E s : At(p, s, n)'  BY <1>1, <1>4 DEF PlacedOnce
  <2>2. \A s, n : At(p, s, n)' => n \in 1 .. m  BY <1>1, <1>2, <1>5
  <2>3. \A s, t, n : At(p, s, n)' /\ At(p, t, n)' => s = t
    BY <1>1, <1>2, <1>5 DEF PlacedOnce
  <2>4. \A s, t, k, n : At(p, s, k)' /\ At(p, t, n)' /\ Earlier(s, t) => k < n
    BY <1>1, <1>2, <1>5 DEF PlacedOnce
  <2> QED  BY <2>1, <2>2, <2>3, <2>4 DEF PlacedOnce, Earlier

\* Reactions that move: B tells where they were.
LEMMA PlacesMove ==
  ASSUME NEW p \in Promise, PlacedOnce(p), registered'[p] = registered[p], NEW B,
         \A s, n : At(p, s, n)' => At(p, B[s], n),
         \A s, n : At(p, s, n) => \E t : At(p, t, n)',
         \A s, t, n : At(p, s, n)' /\ At(p, t, n)' /\ B[s] = B[t] => s = t,
         \A s, t, m, n : At(p, s, m)' /\ At(p, t, n)' /\ Earlier(s, t) => Earlier(B[s], B[t])
  PROVE  PlacedOnce(p)'
<1>1. \A n \in 1 .. registered[p] : \E s : At(p, s, n)'  BY DEF PlacedOnce
<1>2. \A s, n : At(p, s, n)' => n \in 1 .. registered[p]  BY DEF PlacedOnce
<1>3. \A s, t, n : At(p, s, n)' /\ At(p, t, n)' => s = t  BY DEF PlacedOnce
<1>4. \A s, t, m, n : At(p, s, m)' /\ At(p, t, n)' /\ Earlier(s, t) => m < n
  BY DEF PlacedOnce
<1> QED  BY <1>1, <1>2, <1>3, <1>4 DEF PlacedOnce, Earlier

\* Reaction jobs.
LEMMA ReactionJobs ==
  ASSUME NEW j \in Job, NEW p
  PROVE  /\ j.job = "reaction" /\ j.promise = p => j = ReactionJob(p, j.cb)
         /\ \A cb : /\ j = ReactionJob(p, cb) => j.job = "reaction" /\ j.promise = p /\ j.cb = cb
                    /\ j # SettleJob(p) \/ j # ReactionJob(p, cb)
BY DEF Job, ReactionJob, SettleJob

\* No reaction comes to the queue or leaves it.
LEMMA QuietQueue ==
  ASSUME queue \in Seq(Job), Unregistered, NEW p, NEW cb, NEW i
  PROVE  i \in 1 .. Len(queue') /\ queue'[i] = ReactionJob(p, cb) <=>
         i \in 1 .. Len(queue) /\ queue[i] = ReactionJob(p, cb)
<1>1. CASE queue' = queue  BY <1>1
<1>2. ASSUME NEW j \in Job, queue' = Append(queue, j), j.job # "reaction"
      PROVE  i \in 1 .. Len(queue') /\ queue'[i] = ReactionJob(p, cb) <=>
             i \in 1 .. Len(queue) /\ queue[i] = ReactionJob(p, cb)
  <2>1. /\ Len(queue) \in Nat /\ Len(queue') = Len(queue) + 1
        /\ \A k \in 1 .. Len(queue) : queue'[k] = queue[k]
        /\ queue'[Len(queue) + 1] = j
    BY <1>2, QueueGrows
  <2>2. j # ReactionJob(p, cb)  BY <1>2, ReactionJobs
  <2>3. i \in 1 .. Len(queue') <=> i \in 1 .. Len(queue) \/ i = Len(queue) + 1  BY <2>1
  <2> QED  BY <2>1, <2>2, <2>3
<1> QED  BY <1>1, <1>2 DEF Unregistered

\* Nothing is registered and no frame with reactions moves.
LEMMA QuietKeeps ==
  ASSUME queue \in Seq(Job), SameFrames, Unregistered, NEW p \in Whole', NEW s, NEW cb
  PROVE  Keeps(p, s, cb)' <=> Keeps(p, s, cb)
<1>1. /\ FramesOf(p)' = FramesOf(p) /\ Runs(p)' = Runs(p)
      /\ \A i \in FramesOf(p) : stack'[i] = stack[i]
      /\ callbacks' = callbacks
  BY DEF SameFrames, Unregistered
<1>2. ReactionJob(p, cb)' = ReactionJob(p, cb)  BY DEF ReactionJob
<1>3. \A i : i \in 1 .. Len(queue') /\ queue'[i] = ReactionJob(p, cb) <=>
             i \in 1 .. Len(queue) /\ queue[i] = ReactionJob(p, cb)
  BY QuietQueue
<1> QED  BY <1>1, <1>2, <1>3 DEF Keeps

\* What is queued comes after the settle jobs.
LEMMA JobsFirst ==
  ASSUME queue \in Seq(Job), QueueInv, FrameInv, JobInv, Remembered,
         \A p \in Whole' : FramesOf(p)' = FramesOf(p),
         \/ queue' = queue
         \/ \E j \in Job : /\ queue' = Append(queue, j)
                           /\ \A q \in Whole' : j = SettleJob(q) => ~Settled(q)
  PROVE  JobInv'
<1> DEFINE m == Len(queue)
<1>1. m \in Nat /\ \A i \in 1 .. m : queue[i] \in Job  OBVIOUS
<1>0. Whole' \subseteq Whole /\ Whole' \subseteq Promise  BY WholeBefore
<1>2. \A p \in Whole' : FramesOf(p)' = FramesOf(p)  OBVIOUS
<1>3. \A p \in Whole' : FramesOf(p) # {} => Settled(p)  BY DEF FramesOf, FrameInv
<1>4. CASE queue' = queue
  BY <1>0, <1>2, <1>4 DEF JobInv, Jobs, SettleJob
<1>5. ASSUME NEW j \in Job, queue' = Append(queue, j),
             \A q \in Whole' : j = SettleJob(q) => ~Settled(q)
      PROVE  JobInv'
  <2>1. /\ Len(queue') = m + 1 /\ queue'[m + 1] = j
        /\ \A i \in 1 .. m : queue'[i] = queue[i]
        /\ \A p : Jobs(p)' = Jobs(p) \cup (IF j = SettleJob(p) THEN {m + 1} ELSE {})
    BY <1>5, QueueGrows
  <2>2. \A k \in 1 .. m + 1 : k \in 1 .. m \/ k = m + 1  BY <1>1
  <2> SUFFICES ASSUME NEW p \in Whole', NEW i \in Jobs(p)'
               PROVE  /\ FramesOf(p) = {}
                      /\ \A k \in 1 .. m + 1 :
                            queue'[k].job = "reaction" /\ queue'[k].promise = p => i < k
    BY <1>2, <2>1 DEF JobInv
  <2>3. CASE i \in Jobs(p)
    <3>1. i \in 1 .. m /\ i < m + 1  BY <1>1, <2>3 DEF Jobs
    <3>2. /\ FramesOf(p) = {}
          /\ \A k \in 1 .. m : queue[k].job = "reaction" /\ queue[k].promise = p => i < k
      BY <1>0, <2>3 DEF JobInv
    <3> HIDE DEF m
    <3> QED  BY <2>1, <2>2, <3>1, <3>2
  <2>4. CASE j = SettleJob(p)
    <3>1. ~Settled(p) /\ j.job = "settle"  BY <1>5, <2>4 DEF SettleJob
    <3>2. \A k \in 1 .. m : queue[k].job = "reaction" => queue[k].promise # p
      BY <3>1 DEF QueueInv
    <3> HIDE DEF m
    <3> QED  BY <1>3, <2>1, <2>2, <3>1, <3>2
  <2> QED  BY <2>1, <2>3, <2>4
<1> QED  BY <1>4, <1>5

\* Where a reaction that is registered goes.
LEMMA NewPlace ==
  ASSUME IInv, SameFrames, Whole' \subseteq Promise, NEW p \in Promise, NEW new, RegisteredOn(p, new)
  PROVE  /\ \A q \in Whole' \ {p} : \A s, cb : Keeps(q, s, cb)' <=> Keeps(q, s, cb)
         /\ p \in Whole' => \E s0 :
              /\ s0[1] \in {"queue", "promise"} /\ ~Earlier(s0, s0)
              /\ \A s, cb : Keeps(p, s, cb)' <=> Keeps(p, s, cb) \/ (s = s0 /\ cb = new)
              /\ \A s, cb : Keeps(p, s, cb) => s # s0 /\ ~Earlier(s0, s)
<1> DEFINE m == Len(queue)  n == Len(callbacks[p])  j == ReactionJob(p, new)
<1>1. /\ queue \in Seq(Job) /\ callbacks \in [Promise -> Seq(Reaction)]
      /\ QueueInv /\ FrameInv /\ m \in Nat /\ n \in Nat /\ new \in Reaction
      /\ \A i \in 1 .. m : queue[i] \in Job
  BY DEF IInv, PromiseType, Orderly, RegisteredOn
<1>2. \A q \in Whole' : /\ FramesOf(q)' = FramesOf(q) /\ Runs(q)' = Runs(q)
                         /\ \A i \in FramesOf(q) : stack'[i] = stack[i]
  BY DEF SameFrames
<1>3. \A q, cb : ReactionJob(q, cb)' = ReactionJob(q, cb)  BY DEF ReactionJob
<1>4. CASE Settled(p) /\ queue' = Append(queue, j) /\ UNCHANGED callbacks
  <2>0. j \in Job  BY <1>1 DEF ReactionJob, Job
  <2>1. /\ Len(queue') = m + 1 /\ queue'[m + 1] = j
        /\ \A i \in 1 .. m : queue'[i] = queue[i]
    BY <1>1, <1>4, <2>0, QueueGrows
  <2>2. \A i : i \in 1 .. m + 1 <=> i \in 1 .. m \/ i = m + 1  BY <1>1
  <2>3. \A q, cb : j = ReactionJob(q, cb) <=> q = p /\ cb = new  BY DEF ReactionJob
  <2>4. \A i \in 1 .. m : i # m + 1 /\ ~ m + 1 < i  BY <1>1
  <2> DEFINE s0 == <<"queue", m + 1, 1>>
  <2>5. \A q \in Whole' : \A s, cb : Keeps(q, s, cb)' <=>
             Keeps(q, s, cb) \/ (q = p /\ s = s0 /\ cb = new)
    <3> SUFFICES ASSUME NEW q \in Whole', NEW s, NEW cb
                 PROVE  Keeps(q, s, cb)' <=> Keeps(q, s, cb) \/ (q = p /\ s = s0 /\ cb = new)
      OBVIOUS
    <3> HIDE DEF j
    <3>1. (\E i \in 1 .. m + 1 : s = <<"queue", i, 1>> /\ queue'[i] = ReactionJob(q, cb)) <=>
             \/ \E i \in 1 .. m : s = <<"queue", i, 1>> /\ queue[i] = ReactionJob(q, cb)
             \/ q = p /\ s = s0 /\ cb = new
      <4> HIDE DEF m
      <4> QED  BY <2>1, <2>2, <2>3
    <3>2. Keeps(q, s, cb)' <=>
            \/ \E i \in FramesOf(q) : \E k \in 1 .. Len(stack[i].left) :
                   s = <<"frame", i, k>> /\ cb = stack[i].left[k]
            \/ \E i \in 1 .. m + 1 : s = <<"queue", i, 1>> /\ queue'[i] = ReactionJob(q, cb)
            \/ Runs(q) = {} /\ \E k \in 1 .. Len(callbacks[q]) :
                   s = <<"promise", 0, k>> /\ cb = callbacks[q][k]
      BY <1>2, <1>3, <1>4, <2>1 DEF Keeps
    <3> QED  BY <3>1, <3>2 DEF Keeps
  <2>6. s0[1] = "queue" /\ ~Earlier(s0, s0)  BY <1>1 DEF Earlier
  <2>7. \A s, cb : Keeps(p, s, cb) => s # s0 /\ ~Earlier(s0, s)
    <3> SUFFICES ASSUME NEW s, NEW cb, Keeps(p, s, cb)
                 PROVE  s # s0 /\ ~Earlier(s0, s)
      OBVIOUS
    <3>1. CASE \E i \in 1 .. m : s = <<"queue", i, 1>>
      BY <2>4, <3>1 DEF Earlier
    <3>2. CASE s[1] # "queue"  BY <3>2 DEF Earlier
    <3> QED  BY <3>1, <3>2 DEF Keeps
  <2> HIDE DEF s0
  <2> QED  BY <2>5, <2>6, <2>7
<1>5. CASE /\ ~Settled(p) /\ UNCHANGED queue
           /\ callbacks' = [callbacks EXCEPT ![p] = Append(@, new)]
  <2> DEFINE c == callbacks[p]  d == callbacks'[p]
  <2>1. c \in Seq(Reaction) /\ d = Append(c, new)  BY <1>1, <1>5
  <2>2. Len(d) = n + 1 /\ d[n + 1] = new /\ \A k \in 1 .. n : d[k] = c[k]
    <3> HIDE DEF c, d
    <3>1. Len(d) = Len(c) + 1 /\ d[Len(c) + 1] = new /\ \A k \in 1 .. Len(c) : d[k] = c[k]
      BY <1>1, <2>1, AppendProperties
    <3> QED  BY <3>1 DEF c
  <2>3. Runs(p) = {}  BY <1>1, <1>5 DEF Runs, FrameInv
  <2>4. \A q \in Whole' \ {p} : callbacks'[q] = callbacks[q]  BY <1>1, <1>5
  <2>5. \A i : i \in 1 .. n + 1 <=> i \in 1 .. n \/ i = n + 1  BY <1>1
  <2>6. \A i \in 1 .. n : i # n + 1 /\ ~ n + 1 < i  BY <1>1
  <2> DEFINE s0 == <<"promise", 0, n + 1>>
  <2>7. \A q \in Whole' \ {p} : \A s, cb : Keeps(q, s, cb)' <=> Keeps(q, s, cb)
    BY <1>2, <1>3, <1>5, <2>4 DEF Keeps
  <2>8. ASSUME p \in Whole', NEW s, NEW cb
        PROVE  Keeps(p, s, cb)' <=> Keeps(p, s, cb) \/ (s = s0 /\ cb = new)
    <3>1. (\E k \in 1 .. n + 1 : s = <<"promise", 0, k>> /\ cb = d[k]) <=>
             \/ \E k \in 1 .. n : s = <<"promise", 0, k>> /\ cb = c[k]
             \/ s = s0 /\ cb = new
      <4> HIDE DEF n, c, d
      <4> QED  BY <2>2, <2>5
    <3>2. Keeps(p, s, cb)' <=>
            \/ \E i \in FramesOf(p) : \E k \in 1 .. Len(stack[i].left) :
                   s = <<"frame", i, k>> /\ cb = stack[i].left[k]
            \/ \E i \in 1 .. Len(queue) : s = <<"queue", i, 1>> /\ queue[i] = ReactionJob(p, cb)
            \/ \E k \in 1 .. n + 1 : s = <<"promise", 0, k>> /\ cb = d[k]
      BY <1>2, <1>3, <1>5, <2>2, <2>3, <2>8 DEF Keeps
    <3> QED  BY <2>3, <3>1, <3>2 DEF Keeps
  <2>9. s0[1] = "promise" /\ ~Earlier(s0, s0)  BY <1>1 DEF Earlier
  <2>10. \A s, cb : Keeps(p, s, cb) => s # s0 /\ ~Earlier(s0, s)
    <3> SUFFICES ASSUME NEW s, NEW cb, Keeps(p, s, cb)
                 PROVE  s # s0 /\ ~Earlier(s0, s)
      OBVIOUS
    <3>1. CASE \E k \in 1 .. n : s = <<"promise", 0, k>>
      BY <2>6, <3>1 DEF Earlier
    <3>2. CASE s[1] = "frame"  BY <3>2 DEF Earlier
    <3>3. ASSUME NEW i \in 1 .. m, queue[i] = ReactionJob(p, cb)  PROVE FALSE
      <4>1. queue[i].job = "reaction" /\ queue[i].promise = p  BY <3>3 DEF ReactionJob
      <4> QED  BY <1>1, <1>5, <4>1 DEF QueueInv
    <3> QED  BY <3>1, <3>2, <3>3 DEF Keeps
  <2> HIDE DEF s0
  <2> QED  BY <2>7, <2>8, <2>9, <2>10
<1> QED  BY <1>4, <1>5 DEF RegisteredOn
------------------------------------------------------------------------------
(* The operations again.                                                     *)

\* What an operation does to the reactions.
Files == Unregistered \/ \E p \in Promise : \E cb : RegisteredOn(p, cb)

\* ts_promise_reject_internal and the end of ts_promise_resolve_internal,
LEMMA SettleFiles ==
  ASSUME NEW p \in Promise, NEW v, NEW how,
         \/ state[p] = "pending" /\ Settle(p, how, v)
         \/ UNCHANGED <<promiseVars, queue, registered>>
         \/ RejectInternal(p, v)
  PROVE  Unregistered
<1>1. CASE UNCHANGED <<promiseVars, queue, registered>>
  BY <1>1 DEF Unregistered, promiseVars
<1>2. ASSUME NEW h, state[p] = "pending", Settle(p, h, v)  PROVE Unregistered
  <2>1. /\ UNCHANGED <<callbacks, registered>> /\ queue' = Append(queue, SettleJob(p))
    BY <1>2 DEF Settle
  <2>2. SettleJob(p) \in Job /\ SettleJob(p).job # "reaction"  BY DEF SettleJob, Job
  <2>3. \A q \in Whole' : SettleJob(p) = SettleJob(q) => ~Settled(q)
    BY <1>2 DEF SettleJob, Settled
  <2> QED  BY <2>1, <2>2, <2>3 DEF Unregistered
<1> QED  BY <1>1, <1>2 DEF RejectInternal

\* the end of a lookup that finds no function,
LEMMA OverwriteFiles ==
  ASSUME NEW p \in Promise, Settle(p, "fulfilled", Object),
         overwritten' = IF Settled(p) THEN overwritten \cup {p} ELSE overwritten
  PROVE  Unregistered
<1>1. /\ UNCHANGED <<callbacks, registered>> /\ queue' = Append(queue, SettleJob(p))
  BY DEF Settle
<1>2. SettleJob(p) \in Job /\ SettleJob(p).job # "reaction"  BY DEF SettleJob, Job
<1>3. \A q \in Whole' : SettleJob(p) = SettleJob(q) => ~Settled(q)
  <2>1. Settled(p) => p \notin Whole'  BY DEF Whole
  <2> QED  BY <2>1 DEF SettleJob
<1> QED  BY <1>1, <1>2, <1>3 DEF Unregistered

\* a job for a thenable,
LEMMA ThenableFiles ==
  ASSUME NEW p \in Promise, queue' = Append(queue, ThenableJob(p)),
         UNCHANGED <<promiseVars, registered>>
  PROVE  Unregistered
<1>1. ThenableJob(p) \in Job /\ ThenableJob(p).job = "thenable"  BY DEF ThenableJob, Job
<1>2. \A q \in Whole' : ThenableJob(p) # SettleJob(q)  BY DEF ThenableJob, SettleJob
<1> QED  BY <1>1, <1>2 DEF Unregistered, promiseVars

\* TsPromise::then,
LEMMA RegisterFiles ==
  ASSUME PromiseType, NEW p \in Promise, NEW next \in Promise, NEW f \in BOOLEAN,
         NEW r \in BOOLEAN, Register(p, f, r, next)
  PROVE  RegisteredOn(p, NextReaction(p, f, r, next))
<1> DEFINE cb == NextReaction(p, f, r, next)
<1>1. /\ registered' = [registered EXCEPT ![p] = cb.id]
      /\ \/ Settled(p) /\ queue' = Append(queue, ReactionJob(p, cb)) /\ UNCHANGED callbacks
         \/ /\ ~Settled(p) /\ UNCHANGED queue
            /\ callbacks' = [callbacks EXCEPT ![p] = Append(@, cb)]
  BY DEF Register
<1>2. cb \in Reaction /\ cb.id = registered[p] + 1
  BY DEF NextReaction, Reaction, PromiseType
<1> QED  BY <1>1, <1>2 DEF RegisteredOn

\* ts_promise_resolve_internal: only another promise gets a reaction.
LEMMA ResolveFiles ==
  ASSUME PromiseType, NEW p \in Promise, NEW v, NEW rest, ResolveInternal(p, v, rest)
  PROVE  \/ Unregistered
         \/ /\ state[p] = "pending" /\ v \in Promise \ {p} /\ UNCHANGED state
            /\ RegisteredOn(v, NextReaction(v, FALSE, FALSE, p)) /\ stack' = rest
<1>1. CASE state[p] # "pending"  BY <1>1, SettleFiles DEF ResolveInternal
<1>2. CASE state[p] = "pending"
  <2>1. CASE v = p /\ RejectInternal(p, CycleError)
    BY <2>1, SettleFiles
  <2>2. CASE /\ v \in Promise \ (Derived \cup {p}) /\ Register(v, FALSE, FALSE, p)
             /\ UNCHANGED state /\ stack' = rest
    BY <1>2, <2>2, RegisterFiles
  <2>3. CASE UNCHANGED <<promiseVars, queue, registered>>
    BY <2>3, SettleFiles
  <2>4. CASE v \in Outcome /\ Settle(p, "fulfilled", v)
    BY <1>2, <2>4, SettleFiles
  <2> QED  BY <1>2, <2>1, <2>2, <2>3, <2>4 DEF ResolveInternal
<1> QED  BY <1>1, <1>2

\* In all these steps each reaction stays at its place, or gets the first one.
LEMMA Filed ==
  ASSUME IInv, HistoryInv, Remembered, QuietStack, Files, ran' = ran
  PROVE  HistoryInv'
<1>1. /\ PromiseType /\ QueueInv /\ FrameInv /\ PlaceInv /\ JobInv /\ ShapeInv
      /\ ran \in [Promise -> Seq(Nat)] /\ queue \in Seq(Job) /\ SameFrames
  BY DEF IInv, Orderly, HistoryInv, PromiseType, QuietStack
<1>0. Whole' \subseteq Whole /\ Whole' \subseteq Promise  BY WholeBefore
<1>2. CASE Unregistered
  <2>1. PlaceInv'
    <3> SUFFICES ASSUME NEW p \in Whole'  PROVE PlacedOnce(p)'
      BY DEF PlaceInv
    <3>1. PlacedOnce(p) /\ registered'[p] = registered[p] /\ ran'[p] = ran[p]
      BY <1>0, <1>1, <1>2 DEF PlaceInv, Unregistered
    <3>2. \A s, cb : Keeps(p, s, cb)' <=> Keeps(p, s, cb)  BY <1>1, <1>2, QuietKeeps
    <3> QED  BY <1>0, <3>1, <3>2, PlacesStay
  <2>2. JobInv'  BY <1>1, <1>2, JobsFirst DEF Unregistered, SameFrames
  <2> QED  BY <1>1, <2>1, <2>2 DEF HistoryInv, QuietStack
<1>3. ASSUME NEW p \in Promise, NEW new, RegisteredOn(p, new)  PROVE HistoryInv'
  <2>1. /\ \A q \in Whole' \ {p} : \A s, cb : Keeps(q, s, cb)' <=> Keeps(q, s, cb)
        /\ p \in Whole' => \E s0 :
             /\ s0[1] \in {"queue", "promise"} /\ ~Earlier(s0, s0)
             /\ \A s, cb : Keeps(p, s, cb)' <=> Keeps(p, s, cb) \/ (s = s0 /\ cb = new)
             /\ \A s, cb : Keeps(p, s, cb) => s # s0 /\ ~Earlier(s0, s)
    BY <1>0, <1>1, <1>3, NewPlace
  <2>2. /\ registered \in [Promise -> Nat] /\ new.id = registered[p] + 1
        /\ registered' = [registered EXCEPT ![p] = new.id]
        /\ new \in Reaction
    BY <1>1, <1>3 DEF RegisteredOn, PromiseType
  <2>3. ASSUME p \in Whole'  PROVE PlacedOnce(p)'
    <3>1. PlacedOnce(p) /\ ran'[p] = ran[p] /\ registered[p] \in Nat
          /\ registered'[p] = registered[p] + 1
      BY <1>0, <1>1, <2>2, <2>3 DEF PlaceInv
    <3> QED  BY <2>1, <2>2, <2>3, <3>1, PlaceFound
  <2>4. ASSUME NEW q \in Whole' \ {p}  PROVE PlacedOnce(q)'
    <3>1. PlacedOnce(q) /\ ran'[q] = ran[q] /\ registered'[q] = registered[q]
      BY <1>0, <1>1, <2>2 DEF PlaceInv
    <3> QED  BY <1>0, <2>1, <3>1, PlacesStay
  <2>5. PlaceInv'  BY <2>3, <2>4 DEF PlaceInv
  <2>6. JobInv'
    <3>1. \/ queue' = queue
          \/ queue' = Append(queue, ReactionJob(p, new))
      BY <1>3 DEF RegisteredOn
    <3>2. ReactionJob(p, new) \in Job /\ \A q \in Whole' : ReactionJob(p, new) # SettleJob(q)
      BY <2>2 DEF ReactionJob, SettleJob, Job
    <3> QED  BY <1>1, <3>1, <3>2, JobsFirst DEF SameFrames
  <2> QED  BY <1>1, <2>5, <2>6 DEF HistoryInv, QuietStack
<1> QED  BY <1>2, <1>3 DEF Files

------------------------------------------------------------------------------
(* The actions again.                                                        *)

\* New, Then, Reject, QueueCallback and steps that change nothing.
LEMMA OperationsFile ==
  ASSUME IInv, HistoryInv, Remembered,
         \/ \E p \in Promise : New(p)
         \/ \E p, next \in Promise, f, r \in BOOLEAN : Then(p, f, r, next)
         \/ \E p \in Promise, v \in Value : Reject(p, v)
         \/ QueueCallback
         \/ UNCHANGED vars
  PROVE  HistoryInv'
<1>1. PromiseType /\ stack \in Seq(Frame) /\ ShapeInv  BY DEF IInv, HistoryInv
<1>2. stack' = stack /\ ran' = ran
  BY DEF New, Then, Reject, QueueCallback, history, vars
<1>3. Files
  <2>1. ASSUME NEW p \in Promise, New(p)  PROVE Files
    BY <2>1 DEF New, history, Unregistered, Files
  <2>2. ASSUME NEW p \in Promise, NEW next \in Promise, NEW f \in BOOLEAN, NEW r \in BOOLEAN,
               Then(p, f, r, next)
        PROVE  Files
    BY <1>1, <2>2, RegisterFiles DEF Then, Files
  <2>4. ASSUME NEW p \in Promise, NEW v \in Value, Reject(p, v)  PROVE Files
    BY <2>4, SettleFiles DEF Reject, Files
  <2>5. CASE QueueCallback
    <3>1. CallbackJob \in Job /\ CallbackJob.job # "reaction"  BY DEF CallbackJob, Job
    <3>2. \A q \in Whole' : CallbackJob # SettleJob(q)
      BY DEF CallbackJob, SettleJob
    <3> QED  BY <2>5, <3>1, <3>2 DEF QueueCallback, history, promiseVars, Unregistered, Files
  <2>6. CASE UNCHANGED vars
    BY <2>6 DEF vars, Unregistered, Files
  <2> QED  BY <2>1, <2>2, <2>4, <2>5, <2>6
<1>4. QuietStack  BY <1>1, <1>2, LeftAlone
<1> QED  BY <1>2, <1>3, <1>4, Filed

\* The topmost frame.
LEMMA TopFrame ==
  ASSUME stack \in Seq(Frame), stack # <<>>
  PROVE  /\ Len(stack) \in Nat /\ Len(stack) > 0 /\ Len(stack) \in 1 .. Len(stack)
         /\ Top \in Frame /\ Top = stack[Len(stack)]
<1>1. Len(stack) \in Nat /\ Len(stack) > 0 /\ Len(stack) \in 1 .. Len(stack)  BY EmptySeq
<1> QED  BY <1>1 DEF Top

\* A frame without reactions is left.
LEMMA PoppedQuietly ==
  ASSUME stack \in Seq(Frame), stack # <<>>, ShapeInv, Top.kind # "reactions", stack' = Below
  PROVE  QuietStack
<1> DEFINE n == Len(stack) - 1
<1>1. n \in 0 .. Len(stack) /\ \A i \in n + 1 .. Len(stack) : stack[i].kind # "reactions"
  BY TopFrame
<1>2. stack' = SubSeq(stack, 1, n)  BY DEF Below
<1> HIDE DEF n
<1> QED  BY <1>1, <1>2, CutQuietly

\* Await and what pumps do,
LEMMA PumpsFile ==
  ASSUME IInv, HistoryInv, (\E p \in Promise : Await(p)) \/ EndDrain \/ EndPoll \/ Event
  PROVE  QuietStack /\ Files /\ ran' = ran
<1>1. stack \in Seq(Frame) /\ ShapeInv  BY DEF IInv, HistoryInv
<1>2. ran' = ran  BY DEF Await, EndDrain, EndPoll, Event, history
<1>3. stack # <<>> /\ Top \in Frame
  <2>1. stack # <<>>  BY DEF Await, EndDrain, EndPoll, Event, Operate, UserRuns, Pumps
  <2> QED  BY <1>1, <2>1, TopFrame
<1>4. ASSUME NEW p \in Promise, Await(p)  PROVE QuietStack /\ Files
  <2>1. /\ UNCHANGED <<queue, callbacks, registered>>
        /\ stack' = stack \/ stack' = Append(stack, Pump(p, "drain"))
    BY <1>4 DEF Await, Push, history
  <2>2. Pump(p, "drain") \in Frame /\ Pump(p, "drain").kind = "pump"  BY DEF Pump, Frame
  <2>3. QuietStack  BY <1>1, <1>3, <2>1, <2>2, LeftAlone, PushedQuietly
  <2> QED  BY <2>1, <2>3 DEF Files, Unregistered
<1>5. CASE EndDrain \/ EndPoll \/ Event
  <2>1. Files /\ Top.kind = "pump"
    BY <1>5 DEF EndDrain, EndPoll, Event, Pumps, history, promiseVars, Files, Unregistered
  <2>2. Top \in [kind : {"pump"}, promise : Promise \cup {None}, at : {"drain", "poll"}]
    BY <1>3, <2>1, FrameKinds
  <2>3. CASE stack' = Append(stack, User(None, None))
    <3>1. User(None, None) \in Frame  BY DEF User, Frame
    <3> QED  BY <1>1, <1>2, <1>3, <2>1, <2>3, <3>1, PushedQuietly
  <2>4. CASE stack' = Below  BY <1>1, <1>2, <1>3, <2>1, <2>4, PoppedQuietly
  <2>5. ASSUME NEW a \in {"drain", "poll"}, stack' = Append(Below, [Top EXCEPT !.at = a])
        PROVE  QuietStack
    <3> DEFINE f == [Top EXCEPT !.at = a]
    <3>1. f \in Frame /\ f.kind = "pump"  BY <2>2 DEF Frame
    <3>2. stack' = Append(Below, f)  BY <2>5
    <3> HIDE DEF f
    <3> QED  BY <1>1, <1>3, <2>1, <3>1, <3>2, ExchangedQuietly
  <2> QED  BY <1>2, <1>5, <2>1, <2>3, <2>4, <2>5 DEF EndDrain, EndPoll, Event, Push, Replace
<1> QED  BY <1>2, <1>4, <1>5

\* resolving and the end of a function,
LEMMA CallsFile ==
  ASSUME IInv, HistoryInv,
         \/ \E p \in Promise, v \in Resolution : Resolve(p, v)
         \/ (\E v \in Resolution : Return(v)) \/ \E v \in Value : Throw(v)
  PROVE  QuietStack /\ Files /\ ran' = ran
<1>1. PromiseType /\ stack \in Seq(Frame) /\ ShapeInv  BY DEF IInv, HistoryInv
<1>2. ran' = ran  BY DEF Resolve, Return, Throw
<1>3. stack # <<>> /\ Top \in Frame
  <2>1. stack # <<>>  BY DEF Resolve, Return, Throw, Operate, UserRuns
  <2> QED  BY <1>1, <2>1, TopFrame
<1>4. \A p, v : Lookup(p, v).kind = "lookup"  BY DEF Lookup
<1>5. ASSUME Top.kind = "user"
      PROVE  Top \in [kind : {"user"}, returns : Promise \cup {None},
                      throws : Promise \cup {None}]
  BY <1>3, <1>5, FrameKinds
<1>6. ASSUME NEW p \in Promise, NEW v \in Resolution, Resolve(p, v)
      PROVE  QuietStack /\ Files
  <2>1. ResolveInternal(p, v, stack)  BY <1>6 DEF Resolve
  <2>2. \/ stack' = stack
        \/ stack' = Append(stack, Lookup(p, v)) /\ Lookup(p, v) \in Frame
    BY <1>1, <2>1, Resolves
  <2>3. QuietStack  BY <1>1, <1>4, <2>2, LeftAlone, PushedQuietly
  <2> QED  BY <1>1, <2>1, <2>3, ResolveFiles DEF Files
<1>7. ASSUME NEW v \in Resolution, Return(v)  PROVE QuietStack /\ Files
  <2>1. Top.kind = "user"  BY <1>7 DEF Return
  <2>2. CASE Top.returns = None
    <3>1. stack' = Below  BY <1>7, <2>2 DEF Return
    <3>2. QuietStack  BY <1>1, <1>3, <2>1, <3>1, PoppedQuietly
    <3> QED  BY <1>7, <2>2, <3>2 DEF Return, Files, Unregistered, promiseVars
  <2>3. CASE Top.returns # None
    <3> DEFINE p == Top.returns
    <3>1. p \in Promise /\ ResolveInternal(p, v, Below)
      BY <1>5, <1>7, <2>1, <2>3 DEF Return
    <3> HIDE DEF p
    <3>2. \/ stack' = Below
          \/ stack' = Append(Below, Lookup(p, v)) /\ Lookup(p, v) \in Frame
      BY <1>1, <3>1, Resolves
    <3>3. QuietStack  BY <1>1, <1>3, <1>4, <2>1, <3>2, PoppedQuietly, ExchangedQuietly
    <3> QED  BY <1>1, <3>1, <3>3, ResolveFiles DEF Files
  <2> QED  BY <2>2, <2>3
<1>8. ASSUME NEW v \in Value, Throw(v)  PROVE QuietStack /\ Files
  <2>1. Top.kind = "user" /\ stack' = Below  BY <1>8 DEF Throw
  <2>2. QuietStack  BY <1>1, <1>3, <2>1, PoppedQuietly
  <2>3. Top.throws \in Promise /\ RejectInternal(Top.throws, v)
    BY <1>5, <1>8, <2>1 DEF Throw
  <2> QED  BY <2>2, <2>3, SettleFiles DEF Files
<1> QED  BY <1>2, <1>6, <1>7, <1>8

\* the end of a lookup,
LEMMA LookupsFile ==
  ASSUME IInv, HistoryInv, EndLookup \/ ThrowToCaller \/ \E v \in Value : ThrowLookup(v)
  PROVE  QuietStack /\ Files /\ ran' = ran
<1>1. PromiseType /\ stack \in Seq(Frame) /\ ShapeInv  BY DEF IInv, HistoryInv
<1>2. ran' = ran  BY DEF EndLookup, ThrowToCaller, ThrowLookup, history
<1>3. stack # <<>> /\ Top.kind = "lookup" /\ stack' = Below
  BY DEF EndLookup, ThrowToCaller, ThrowLookup, LooksUp
<1>4. QuietStack  BY <1>1, <1>3, PoppedQuietly
<1>5. Top \in [kind : {"lookup"}, promise : Promise, of : Derived \cup {Object}]
  <2>1. Top \in Frame  BY <1>1, <1>3, TopFrame
  <2> QED  BY <1>3, <2>1, FrameKinds
<1> DEFINE p == Top.promise
<1>6. p \in Promise  BY <1>5
<1>7. ASSUME EndLookup  PROVE Files
  <2>1. CASE queue' = Append(queue, ThenableJob(p)) /\ UNCHANGED <<promiseVars, registered>>
    BY <1>6, <2>1, ThenableFiles DEF Files
  <2>2. CASE Top.of \in Promise /\ Register(Top.of, FALSE, FALSE, p)
    BY <1>1, <1>6, <2>2, RegisterFiles DEF Files
  <2>3. CASE /\ Settle(p, "fulfilled", Object)
             /\ overwritten' = IF Settled(p) THEN overwritten \cup {p} ELSE overwritten
    BY <1>6, <2>3, OverwriteFiles DEF Files
  <2> HIDE DEF p
  <2> QED  BY <1>7, <2>1, <2>2, <2>3 DEF EndLookup, p
<1>8. ASSUME NEW v \in Value, ThrowLookup(v)  PROVE Files
  BY <1>6, <1>8, SettleFiles DEF ThrowLookup, Files
<1>9. CASE ThrowToCaller
  BY <1>2, <1>4, <1>9 DEF ThrowToCaller, history, promiseVars, Files, Unregistered
<1> QED  BY <1>2, <1>4, <1>7, <1>8, <1>9

\* and exceptions that unwind the stack.
LEMMA UnwoundFile ==
  ASSUME IInv, HistoryInv, ThrowUncaught \/ ThrowThroughReactions
  PROVE  QuietStack /\ Files /\ ran' = ran
<1>1. stack \in Seq(Frame) /\ FrameInv /\ ShapeInv  BY DEF IInv, HistoryInv
<1>2. ran' = ran /\ Files
  BY DEF ThrowUncaught, ThrowThroughReactions, Unwind, history, promiseVars, Files, Unregistered
<1>3. CASE ThrowUncaught  BY <1>1, <1>2, <1>3, Unwinding, CutQuietly
<1>4. CASE ThrowThroughReactions
  <2>1. PICK m \in 0 .. Len(stack) : stack' = SubSeq(stack, 1, m)
    BY <1>1, <1>4, UnwindsTo DEF ThrowThroughReactions
  <2>2. Len(stack') = m  BY <1>1, <2>1, FramesCut
  <2>3. ASSUME NEW i \in m + 1 .. Len(stack), stack[i].kind = "reactions",
               stack[i].promise \in Whole'
        PROVE  FALSE
    <3>1. stack[i].promise \in Promise /\ stack[i].promise \notin cut'  BY <2>3 DEF Whole
    <3>2. stack[i].promise \in cut'
      BY <1>4, <2>2, <2>3, <3>1 DEF ThrowThroughReactions
    <3> QED  BY <3>1, <3>2
  <2>4. QuietStack  BY <1>1, <2>1, <2>3, CutQuietly
  <2> QED  BY <1>2, <2>4
<1> QED  BY <1>3, <1>4

\* A frame that has run its reactions keeps none.
LEMMA EndFiles ==
  ASSUME IInv, HistoryInv, EndReactions
  PROVE  /\ HistoryInv'
         /\ \A p \in Promise : \A s, cb : Keeps(p, s, cb)' <=> Keeps(p, s, cb)
<1> DEFINE n == Len(stack)
<1>1. /\ PromiseType /\ stack \in Seq(Frame) /\ OneJob /\ ShapeInv /\ JobInv /\ PlaceInv
      /\ ran \in [Promise -> Seq(Nat)] /\ callbacks \in [Promise -> Seq(Reaction)]
  BY DEF IInv, Orderly, HistoryInv, PromiseType
<1>2. /\ stack # <<>> /\ Top.kind = "reactions" /\ Top.left = <<>> /\ stack' = Below
      /\ callbacks' = IF Top.settles THEN [callbacks EXCEPT ![Top.promise] = <<>>] ELSE callbacks
      /\ UNCHANGED <<queue, registered, ran, overwritten, cut>>
  BY DEF EndReactions, history
<1>3. n \in Nat /\ n > 0 /\ stack[n] = Top /\ Top \in Frame  BY <1>1, <1>2, TopFrame
<1>4. Len(stack') = n - 1 /\ \A i \in 1 .. n - 1 : stack'[i] = stack[i]
  <2> DEFINE k == n - 1
  <2>1. k \in 0 .. Len(stack) /\ stack' = SubSeq(stack, 1, k)  BY <1>2, <1>3 DEF Below
  <2> HIDE DEF k
  <2>2. Len(stack') = k /\ \A i \in 1 .. k : stack'[i] = stack[i]  BY <1>1, <2>1, FramesCut
  <2> QED  BY <2>2 DEF k
<1>5. \A i : /\ i \in 1 .. n <=> i \in 1 .. n - 1 \/ i = n
             /\ i \in 1 .. n - 1 => i # n
  BY <1>3
<1>6. \A p, i : /\ i \in FramesOf(p)' <=> i \in FramesOf(p) /\ i # n
                /\ i \in Runs(p)' <=> i \in Runs(p) /\ i # n
  <2> HIDE DEF n
  <2>1. \A p : /\ FramesOf(p)' = {i \in 1 .. n - 1 : /\ stack'[i].kind = "reactions"
                                                    /\ stack'[i].promise = p}
               /\ Runs(p)' = {i \in 1 .. n - 1 : /\ stack'[i].kind = "reactions"
                                                 /\ stack'[i].promise = p /\ stack'[i].settles}
    BY <1>4 DEF FramesOf, Runs
  <2>2. \A p : /\ FramesOf(p) = {i \in 1 .. n : stack[i].kind = "reactions" /\ stack[i].promise = p}
               /\ Runs(p) = {i \in 1 .. n : /\ stack[i].kind = "reactions"
                                            /\ stack[i].promise = p /\ stack[i].settles}
    BY DEF FramesOf, Runs, n
  <2> QED  BY <1>4, <1>5, <2>1, <2>2
<1>7. ASSUME NEW p \in Promise, NEW s, NEW cb
      PROVE  Keeps(p, s, cb)' <=> Keeps(p, s, cb)
  <2>1. (\E i \in FramesOf(p)' : \E k \in 1 .. Len(stack'[i].left) :
           s = <<"frame", i, k>> /\ cb = stack'[i].left[k]) <=>
        \E i \in FramesOf(p) : \E k \in 1 .. Len(stack[i].left) :
           s = <<"frame", i, k>> /\ cb = stack[i].left[k]
    <3>1. \A i \in FramesOf(p)' : i \in 1 .. n - 1 /\ stack'[i] = stack[i] /\ i \in FramesOf(p)
      BY <1>4, <1>5, <1>6 DEF FramesOf
    <3>2. \A k \in 1 .. Len(stack[n].left) : FALSE  BY <1>2, <1>3
    <3> HIDE DEF n
    <3>3. \A i \in FramesOf(p) : i = n \/ i \in FramesOf(p)'  BY <1>6
    <3> QED  BY <3>1, <3>2, <3>3
  <2>2. Runs(p)' = {} /\ (\E k \in 1 .. Len(callbacks'[p]) :
           s = <<"promise", 0, k>> /\ cb = callbacks'[p][k]) <=>
        Runs(p) = {} /\ \E k \in 1 .. Len(callbacks[p]) :
           s = <<"promise", 0, k>> /\ cb = callbacks[p][k]
    <3>1. n \in Runs(p) <=> Top.promise = p /\ Top.settles  BY <1>2, <1>3 DEF Runs
    <3>2. CASE n \in Runs(p)
      <4>1. callbacks'[p] = <<>>  BY <1>1, <1>2, <3>1, <3>2
      <4>2. \A k \in 1 .. Len(callbacks'[p]) : FALSE  BY <4>1
      <4> QED  BY <3>2, <4>2
    <3>3. CASE n \notin Runs(p)
      <4>1. Runs(p)' = Runs(p)  BY <1>6, <3>3
      <4>2. callbacks'[p] = callbacks[p]  BY <1>1, <1>2, <3>1, <3>3
      <4> QED  BY <4>1, <4>2
    <3> QED  BY <3>2, <3>3
  <2>3. ReactionJob(p, cb)' = ReactionJob(p, cb)  BY DEF ReactionJob
  <2> QED  BY <1>2, <2>1, <2>2, <2>3 DEF Keeps
<1>0. Whole' = Whole /\ Whole \subseteq Promise  BY <1>2 DEF Whole
<1>8. PlaceInv'
  <2> SUFFICES ASSUME NEW p \in Whole  PROVE PlacedOnce(p)'
    BY <1>0 DEF PlaceInv
  <2>1. PlacedOnce(p) /\ registered'[p] = registered[p] /\ ran'[p] = ran[p]
    BY <1>1, <1>2 DEF PlaceInv
  <2> QED  BY <1>0, <1>7, <2>1, PlacesStay
<1>9. JobInv'
  <2> SUFFICES ASSUME NEW p \in Whole, NEW i \in Jobs(p)'
               PROVE  /\ FramesOf(p)' = {}
                      /\ \A k \in 1 .. Len(queue') :
                            queue'[k].job = "reaction" /\ queue'[k].promise = p => i < k
    BY <1>0 DEF JobInv
  <2>1. i \in Jobs(p) /\ queue' = queue  BY <1>2 DEF Jobs, SettleJob
  <2>2. /\ FramesOf(p) = {}
        /\ \A k \in 1 .. Len(queue) :
              queue[k].job = "reaction" /\ queue[k].promise = p => i < k
    BY <1>1, <2>1 DEF JobInv
  <2>3. FramesOf(p)' = {}  BY <1>0, <1>6, <2>2
  <2> QED  BY <2>1, <2>2, <2>3
<1>10. ShapeInv'
  <2>1. n - 1 \in Nat /\ n - 1 <= Len(stack) /\ n - 1 <= Len(stack')  BY <1>3, <1>4
  <2>2. \A i \in n - 1 + 1 .. Len(stack') : FALSE  BY <1>3, <1>4
  <2> QED  BY <1>1, <1>3, <1>4, <2>1, <2>2, ShapeStays
<1> QED  BY <1>1, <1>2, <1>7, <1>8, <1>9, <1>10 DEF HistoryInv

\* A job is taken from the queue and gets a frame.
LEMMA JobTaken ==
  ASSUME IInv, RunJob
  PROVE  \E j \in Job : \E f \in Frame :
           /\ stack # <<>> /\ Top.kind = "pump" /\ stack' = Append(stack, f)
           /\ Len(queue) \in Nat /\ Len(queue) > 0 /\ queue[1] = j
           /\ Len(queue') = Len(queue) - 1
           /\ \A i \in 1 .. Len(queue) - 1 : queue'[i] = queue[i + 1]
           /\ \/ /\ j = SettleJob(j.promise) /\ j.promise \in Promise /\ f.settles
                 /\ f.kind = "reactions" /\ f.promise = j.promise /\ f.left = callbacks[j.promise]
              \/ /\ j = ReactionJob(j.promise, j.cb) /\ j.promise \in Promise /\ ~f.settles
                 /\ f.kind = "reactions" /\ f.promise = j.promise /\ f.left = <<j.cb>>
              \/ j = ThenableJob(j.promise) /\ j.promise \in Promise /\ f = User(None, j.promise)
              \/ j.job = "callback" /\ f = User(None, None)
           /\ resolvers' = resolvers \cup {p \in Promise : j = ThenableJob(p)}
<1> DEFINE j == Head(queue)
<1>1. /\ queue \in Seq(Job) /\ callbacks \in [Promise -> Seq(Reaction)]
  BY DEF IInv, PromiseType
<1>2. /\ stack # <<>> /\ Top.kind = "pump" /\ queue # <<>> /\ queue' = Tail(queue)
      /\ \/ j.job = "settle"
            /\ stack' = Append(stack, Reactions(j.promise, callbacks[j.promise], TRUE))
         \/ j.job = "reaction"
            /\ stack' = Append(stack, Reactions(j.promise, <<j.cb>>, FALSE))
         \/ j.job = "thenable" /\ stack' = Append(stack, User(None, j.promise))
         \/ j.job = "callback" /\ stack' = Append(stack, User(None, None))
      /\ resolvers' = resolvers \cup {p \in Promise : j = ThenableJob(p)}
  BY DEF RunJob, Pumps, Push
<1>3. /\ Len(queue) \in Nat /\ Len(queue) > 0 /\ queue[1] = j /\ j \in Job
      /\ Len(queue') = Len(queue) - 1
      /\ \A i \in 1 .. Len(queue) - 1 : queue'[i] = queue[i + 1]
  BY <1>1, <1>2
<1> HIDE DEF j
<1>4. CASE j.job = "settle"
  <2> DEFINE f == Reactions(j.promise, callbacks[j.promise], TRUE)
  <2>1. j = SettleJob(j.promise) /\ j.promise \in Promise  BY <1>3, <1>4, JobKinds
  <2>2. /\ f \in Frame /\ f.settles /\ f.kind = "reactions" /\ f.promise = j.promise
        /\ f.left = callbacks[j.promise]
    BY <1>1, <2>1 DEF Reactions, Frame
  <2>3. stack' = Append(stack, f)  BY <1>2, <1>4
  <2> HIDE DEF f
  <2> QED  BY <1>2, <1>3, <2>1, <2>2, <2>3
<1>5. CASE j.job = "reaction"
  <2> DEFINE f == Reactions(j.promise, <<j.cb>>, FALSE)
  <2>1. j = ReactionJob(j.promise, j.cb) /\ j.promise \in Promise /\ j.cb \in Reaction
    BY <1>3, <1>5, JobKinds, ReactionJobs
  <2>2. /\ f \in Frame /\ ~f.settles /\ f.kind = "reactions" /\ f.promise = j.promise
        /\ f.left = <<j.cb>>
    BY <2>1 DEF Reactions, Frame
  <2>3. stack' = Append(stack, f)  BY <1>2, <1>5
  <2> HIDE DEF f
  <2> QED  BY <1>2, <1>3, <2>1, <2>2, <2>3
<1>6. CASE j.job = "thenable"
  <2>1. j = ThenableJob(j.promise) /\ j.promise \in Promise  BY <1>3, <1>6, JobKinds
  <2>2. User(None, j.promise) \in Frame  BY <2>1 DEF User, Frame
  <2>3. stack' = Append(stack, User(None, j.promise))  BY <1>2, <1>6
  <2> QED  BY <1>2, <1>3, <2>1, <2>2, <2>3
<1>7. CASE j.job = "callback"
  <2>1. User(None, None) \in Frame  BY DEF User, Frame
  <2>2. stack' = Append(stack, User(None, None))  BY <1>2, <1>7
  <2> QED  BY <1>2, <1>3, <1>7, <2>1, <2>2
<1>8. j.job \in {"settle", "reaction", "thenable", "callback"}  BY <1>3, JobKinds
<1> QED  BY <1>4, <1>5, <1>6, <1>7, <1>8

\* Where places are.
Spots == {"frame", "queue", "promise", "ran"} \X Nat \X Nat

\* Earlier, and equality, of places.
LEMMA EarlierSpots ==
  ASSUME NEW a, NEW b, NEW c, NEW d, NEW e, NEW f
  PROVE  /\ Earlier(<<a, b, c>>, <<d, e, f>>) <=> \/ d = "queue" /\ (a = "queue" => b < e)
                                                  \/ a = d /\ b = e /\ c < f
         /\ <<a, b, c>> = <<d, e, f>> <=> a = d /\ b = e /\ c = f
BY DEF Earlier

\* B tells where the reactions of p were that are kept now, in the same order.
Moved(p, B) ==
  /\ \A s, cb : Keeps(p, s, cb)' => /\ Keeps(p, B[s], cb) /\ B[s][1] # "ran"
                                    /\ s[1] = "queue" => B[s][1] = "queue"
  /\ \A s, t, c, d : Keeps(p, s, c)' /\ Keeps(p, t, d)' =>
         (B[s] = B[t] => s = t) /\ (Earlier(s, t) => Earlier(B[s], B[t]))
  /\ \A i \in Nat : B[<<"ran", i, 0>>] = <<"ran", i, 0>>

\* The reactions of a job move to its frame, and the queue moves up.
LEMMA JobMoves ==
  ASSUME IInv, HistoryInv, RunJob, NEW p \in Whole
  PROVE  \E B : /\ Moved(p, B)
                /\ \A s, cb : Keeps(p, s, cb) => \E t : Keeps(p, t, cb)'
<1> DEFINE n == Len(stack)  m == Len(queue)
<1>1. /\ PromiseType /\ stack \in Seq(Frame) /\ OneJob /\ JobInv
      /\ queue \in Seq(Job) /\ callbacks \in [Promise -> Seq(Reaction)]
      /\ p \in Promise \ overwritten
  BY DEF IInv, Orderly, HistoryInv, PromiseType, Whole
<1>2. PICK j \in Job, f \in Frame :
           /\ stack # <<>> /\ stack' = Append(stack, f)
           /\ m \in Nat /\ m > 0 /\ queue[1] = j
           /\ Len(queue') = m - 1
           /\ \A i \in 1 .. m - 1 : queue'[i] = queue[i + 1]
           /\ \/ /\ j = SettleJob(j.promise) /\ j.promise \in Promise /\ f.settles
                 /\ f.kind = "reactions" /\ f.promise = j.promise /\ f.left = callbacks[j.promise]
              \/ /\ j = ReactionJob(j.promise, j.cb) /\ j.promise \in Promise /\ ~f.settles
                 /\ f.kind = "reactions" /\ f.promise = j.promise /\ f.left = <<j.cb>>
              \/ j = ThenableJob(j.promise) /\ j.promise \in Promise /\ f = User(None, j.promise)
              \/ j.job = "callback" /\ f = User(None, None)
  BY JobTaken
<1>3. /\ n \in Nat /\ Len(stack') = n + 1 /\ stack'[n + 1] = f
      /\ \A i \in 1 .. n : stack'[i] = stack[i]
  BY <1>1, <1>2, FramePushed
<1>4. callbacks' = callbacks  BY DEF RunJob, promiseVars
<1> DEFINE has == f.kind = "reactions" /\ f.promise = p
<1>5. /\ has => \/ j = SettleJob(p) /\ f.settles /\ f.left = callbacks[p]
                \/ \E cb : j = ReactionJob(p, cb) /\ ~f.settles /\ f.left = <<cb>>
      /\ j = SettleJob(p) => has /\ f.settles
      /\ \A cb : j = ReactionJob(p, cb) => has /\ ~f.settles /\ f.left = <<cb>>
  BY <1>2 DEF SettleJob, ReactionJob, ThenableJob, User
<1>6. f.settles /\ has => FramesOf(p) = {} /\ Runs(p) = {}
  <2> SUFFICES ASSUME j = SettleJob(p)  PROVE FramesOf(p) = {} /\ Runs(p) = {}
    BY <1>5 DEF SettleJob, ReactionJob
  <2>1. 1 \in Jobs(p)  BY <1>2 DEF Jobs
  <2> QED  BY <1>1, <2>1 DEF JobInv, OneJob
<1>7. \A i : i \in 1 .. n + 1 <=> i \in 1 .. n \/ i = n + 1  BY <1>3
<1>8. \A i : i \in 1 .. n => i # n + 1 /\ i \in Nat  BY <1>3
<1>9. \A i : i \in 1 .. m <=> i = 1 \/ (i \in Int /\ i - 1 \in 1 .. m - 1)  BY <1>2
<1>10. \A i : /\ i \in FramesOf(p)' <=> i \in FramesOf(p) \/ (has /\ i = n + 1)
              /\ i \in Runs(p)' <=> i \in Runs(p) \/ (has /\ f.settles /\ i = n + 1)
              /\ i \in FramesOf(p) => i \in 1 .. n
  <2>1. /\ FramesOf(p)' = {i \in 1 .. n + 1 : stack'[i].kind = "reactions" /\ stack'[i].promise = p}
        /\ Runs(p)' = {i \in 1 .. n + 1 : /\ stack'[i].kind = "reactions"
                                          /\ stack'[i].promise = p /\ stack'[i].settles}
    BY <1>3 DEF FramesOf, Runs
  <2>2. /\ FramesOf(p) = {i \in 1 .. n : stack[i].kind = "reactions" /\ stack[i].promise = p}
        /\ Runs(p) = {i \in 1 .. n : /\ stack[i].kind = "reactions"
                                     /\ stack[i].promise = p /\ stack[i].settles}
    BY DEF FramesOf, Runs
  <2> HIDE DEF n
  <2> QED  BY <1>3, <1>7, <1>8, <2>1, <2>2
<1> DEFINE old(s, cb) == \E i \in FramesOf(p) : \E k \in 1 .. Len(stack[i].left) :
                             s = <<"frame", i, k>> /\ cb = stack[i].left[k]
           got(s, cb) == has /\ \E k \in 1 .. Len(f.left) :
                             s = <<"frame", n + 1, k>> /\ cb = f.left[k]
           que(s, cb) == \E i \in 1 .. m - 1 :
                             s = <<"queue", i, 1>> /\ queue[i + 1] = ReactionJob(p, cb)
           own(s, cb) == /\ Runs(p) = {} /\ ~(has /\ f.settles)
                         /\ \E k \in 1 .. Len(callbacks[p]) :
                              s = <<"promise", 0, k>> /\ cb = callbacks[p][k]
<1>11. \A s, cb : Keeps(p, s, cb)' <=>
             old(s, cb) \/ got(s, cb) \/ que(s, cb) \/ own(s, cb)
  <2> SUFFICES ASSUME NEW s, NEW cb
               PROVE  Keeps(p, s, cb)' <=>
                        old(s, cb) \/ got(s, cb) \/ que(s, cb) \/ own(s, cb)
    OBVIOUS
  <2>1. Runs(p)' = {} <=> Runs(p) = {} /\ ~(has /\ f.settles)  BY <1>10
  <2>2. (\E i \in FramesOf(p)' : \E k \in 1 .. Len(stack'[i].left) :
           s = <<"frame", i, k>> /\ cb = stack'[i].left[k]) <=> old(s, cb) \/ got(s, cb)
    <3> HIDE DEF n, has
    <3> QED  BY <1>3, <1>10
  <2>3. (\E i \in 1 .. Len(queue') : s = <<"queue", i, 1>> /\ queue'[i] = ReactionJob(p, cb)) <=>
          que(s, cb)
    <3> HIDE DEF m
    <3> QED  BY <1>2
  <2>4. ReactionJob(p, cb)' = ReactionJob(p, cb)  BY DEF ReactionJob
  <2>5. Keeps(p, s, cb)' <=>
          \/ \E i \in FramesOf(p)' : \E k \in 1 .. Len(stack'[i].left) :
               s = <<"frame", i, k>> /\ cb = stack'[i].left[k]
          \/ \E i \in 1 .. Len(queue') : s = <<"queue", i, 1>> /\ queue'[i] = ReactionJob(p, cb)
          \/ Runs(p)' = {} /\ \E k \in 1 .. Len(callbacks[p]) :
               s = <<"promise", 0, k>> /\ cb = callbacks[p][k]
    BY <1>4, <2>4 DEF Keeps
  <2> HIDE DEF old, got, que, n, m, has
  <2> QED  BY <2>1, <2>2, <2>3, <2>5
<1> DEFINE B == [s \in Spots |->
                   IF s[1] = "queue" THEN <<"queue", s[2] + 1, 1>>
                   ELSE IF s[1] = "frame" /\ s[2] = n + 1
                   THEN IF f.settles THEN <<"promise", 0, s[3]>> ELSE <<"queue", 1, 1>>
                   ELSE s]
<1>12. /\ \A i \in 1 .. n, k \in Nat : B[<<"frame", i, k>>] = <<"frame", i, k>>
       /\ \A k \in Nat : B[<<"frame", n + 1, k>>] =
                            IF f.settles THEN <<"promise", 0, k>> ELSE <<"queue", 1, 1>>
       /\ \A i \in Nat : B[<<"queue", i, 1>>] = <<"queue", i + 1, 1>>
       /\ \A k \in Nat : B[<<"promise", 0, k>>] = <<"promise", 0, k>>
       /\ \A i \in Nat : B[<<"ran", i, 0>>] = <<"ran", i, 0>>
  <2> HIDE DEF n
  <2>1. /\ \A i \in 1 .. n, k \in Nat : <<"frame", i, k>> \in Spots
        /\ \A k \in Nat : <<"frame", n + 1, k>> \in Spots
        /\ \A i \in Nat : <<"queue", i, 1>> \in Spots
        /\ \A k \in Nat : <<"promise", 0, k>> \in Spots
        /\ \A i \in Nat : <<"ran", i, 0>> \in Spots
    BY <1>3 DEF Spots
  <2> QED  BY <1>3, <1>8, <2>1
<1> HIDE DEF B
<1>13. \A s, cb : Keeps(p, s, cb)' => /\ Keeps(p, B[s], cb) /\ B[s][1] # "ran"
                                      /\ s[1] = "queue" => B[s][1] = "queue"
  <2> SUFFICES ASSUME NEW s, NEW cb, Keeps(p, s, cb)'
               PROVE  /\ Keeps(p, B[s], cb) /\ B[s][1] # "ran"
                      /\ s[1] = "queue" => B[s][1] = "queue"
    OBVIOUS
  <2>1. CASE old(s, cb)  BY <1>10, <1>12, <2>1 DEF Keeps
  <2>2. CASE got(s, cb)
    <3>1. PICK k \in 1 .. Len(f.left) : s = <<"frame", n + 1, k>> /\ cb = f.left[k]  BY <2>2
    <3>2. CASE f.settles
      <4>1. B[s] = <<"promise", 0, k>> /\ f.left = callbacks[p] /\ Runs(p) = {}
        BY <1>5, <1>6, <1>12, <2>2, <3>1, <3>2
      <4> QED  BY <3>1, <4>1 DEF Keeps
    <3>3. CASE ~f.settles
      <4>1. PICK c : j = ReactionJob(p, c) /\ f.left = <<c>>  BY <1>5, <2>2, <3>3
      <4>2. B[s] = <<"queue", 1, 1>> /\ k = 1 /\ cb = c  BY <1>12, <3>1, <3>3, <4>1
      <4> QED  BY <1>2, <3>1, <4>1, <4>2 DEF Keeps
    <3> QED  BY <3>2, <3>3
  <2>3. CASE que(s, cb)
    <3>1. PICK i \in 1 .. m - 1 : s = <<"queue", i, 1>> /\ queue[i + 1] = ReactionJob(p, cb)
      BY <2>3
    <3>2. B[s] = <<"queue", i + 1, 1>> /\ i + 1 \in 1 .. m  BY <1>2, <1>12, <3>1
    <3> QED  BY <3>1, <3>2 DEF Keeps
  <2>4. CASE own(s, cb)  BY <1>12, <2>4 DEF Keeps
  <2> QED  BY <1>11, <2>1, <2>2, <2>3, <2>4
<1>14. ASSUME NEW s, NEW t, NEW c, NEW d, Keeps(p, s, c)', Keeps(p, t, d)'
       PROVE  (B[s] = B[t] => s = t) /\ (Earlier(s, t) => Earlier(B[s], B[t]))
  <2> DEFINE form(u) == \/ \E i \in 1 .. n : \E k \in Nat : u = <<"frame", i, k>>
                        \/ \E k \in Nat : u = <<"frame", n + 1, k>> /\ (f.settles \/ k = 1)
                        \/ \E i \in 1 .. m - 1 : u = <<"queue", i, 1>>
                        \/ \E k \in Nat : u = <<"promise", 0, k>>
             clash(u, v) == /\ u[1] = "frame" /\ u[2] = n + 1 /\ v[1] = "promise" /\ f.settles
  <2>1. \A u, cb : Keeps(p, u, cb)' => form(u)
    <3> SUFFICES ASSUME NEW u, NEW cb, Keeps(p, u, cb)'  PROVE form(u)
      OBVIOUS
    <3>1. CASE old(u, cb)  BY <1>10, <3>1
    <3>2. CASE got(u, cb)
      <4>1. PICK k \in 1 .. Len(f.left) : u = <<"frame", n + 1, k>> /\ cb = f.left[k]  BY <3>2
      <4>2. f.settles \/ k = 1  BY <1>5, <3>2, <4>1
      <4> QED  BY <4>1, <4>2
    <3>3. CASE que(u, cb)  BY <3>3
    <3>4. CASE own(u, cb)  BY <3>4
    <3> QED  BY <1>11, <3>1, <3>2, <3>3, <3>4
  <2>2. \A u, v, a, b : Keeps(p, u, a)' /\ Keeps(p, v, b)' => ~clash(u, v)
    <3> SUFFICES ASSUME NEW u, NEW v, NEW a, NEW b, Keeps(p, u, a)', Keeps(p, v, b)', clash(u, v)
                 PROVE  FALSE
      OBVIOUS
    <3>1. own(v, b)  BY <1>11
    <3>2. got(u, a)  BY <1>8, <1>10, <1>11
    <3> QED  BY <3>1, <3>2
  <2>3. form(s) /\ form(t) /\ ~clash(s, t) /\ ~clash(t, s)  BY <1>14, <2>1, <2>2
  <2>0. \A i \in 1 .. m - 1 : i \in Nat /\ i > 0  BY <1>2
  <2> HIDE DEF n, m
  <2>4. CASE s[1] = "queue"
    <3>1. PICK i \in 1 .. m - 1 : s = <<"queue", i, 1>>  BY <2>3, <2>4
    <3>2. B[s] = <<"queue", i + 1, 1>> /\ i \in Nat  BY <1>12, <3>1
    <3>3. ASSUME NEW k \in 1 .. m - 1, t = <<"queue", k, 1>>
          PROVE  (B[s] = B[t] => s = t) /\ (Earlier(s, t) => Earlier(B[s], B[t]))
      <4>1. B[t] = <<"queue", k + 1, 1>> /\ k \in Nat /\ i \in Nat  BY <1>12, <2>0, <3>3
      <4> QED  BY <3>1, <3>2, <3>3, <4>1, EarlierSpots
    <3>4. ASSUME NEW k \in Nat, t = <<"frame", n + 1, k>>, f.settles \/ k = 1
          PROVE  (B[s] = B[t] => s = t) /\ (Earlier(s, t) => Earlier(B[s], B[t]))
      <4>1. /\ B[t] = (IF f.settles THEN <<"promise", 0, k>> ELSE <<"queue", 1, 1>>)
            /\ i \in Nat /\ i > 0
        BY <1>12, <2>0, <3>4
      <4> QED  BY <3>1, <3>2, <3>4, <4>1, EarlierSpots
    <3>5. CASE t[1] # "queue" /\ B[t] = t
      BY <3>1, <3>2, <3>5 DEF Earlier
    <3> QED  BY <1>12, <2>3, <3>3, <3>4, <3>5
  <2>5. CASE \E k \in Nat : s = <<"frame", n + 1, k>> /\ (f.settles \/ k = 1)
    <3>1. PICK k \in Nat : s = <<"frame", n + 1, k>> /\ (f.settles \/ k = 1)  BY <2>5
    <3>2. B[s] = IF f.settles THEN <<"promise", 0, k>> ELSE <<"queue", 1, 1>>
      BY <1>12, <3>1
    <3>3. ASSUME NEW i \in 1 .. m - 1, t = <<"queue", i, 1>>
          PROVE  (B[s] = B[t] => s = t) /\ (Earlier(s, t) => Earlier(B[s], B[t]))
      <4>1. B[t] = <<"queue", i + 1, 1>> /\ i \in Nat /\ i > 0  BY <1>12, <2>0, <3>3
      <4> QED  BY <3>1, <3>2, <3>3, <4>1, EarlierSpots
    <3>4. ASSUME NEW i \in Nat, t = <<"frame", n + 1, i>>, f.settles \/ i = 1
          PROVE  (B[s] = B[t] => s = t) /\ (Earlier(s, t) => Earlier(B[s], B[t]))
      <4>1. B[t] = IF f.settles THEN <<"promise", 0, i>> ELSE <<"queue", 1, 1>>
        BY <1>12, <3>4
      <4> QED  BY <3>1, <3>2, <3>4, <4>1, EarlierSpots
    <3>5. CASE t[1] \in {"frame", "promise"} /\ B[t] = t /\ t[2] # n + 1 /\ (t[1] = "promise" => ~f.settles)
      BY <3>1, <3>2, <3>5 DEF Earlier
    <3>6. \/ \E i \in 1 .. m - 1 : t = <<"queue", i, 1>>
          \/ \E i \in Nat : t = <<"frame", n + 1, i>> /\ (f.settles \/ i = 1)
          \/ t[1] \in {"frame", "promise"} /\ B[t] = t /\ t[2] # n + 1 /\ (t[1] = "promise" => ~f.settles)
      <4>1. CASE \E i \in 1 .. n : \E l \in Nat : t = <<"frame", i, l>>
        <5>1. PICK i \in 1 .. n, l \in Nat : t = <<"frame", i, l>>  BY <4>1
        <5>2. B[t] = t /\ t[1] = "frame" /\ t[2] = i /\ i # n + 1  BY <1>8, <1>12, <5>1
        <5> QED  BY <5>2
      <4>2. CASE \E l \in Nat : t = <<"promise", 0, l>>
        <5>1. PICK l \in Nat : t = <<"promise", 0, l>>  BY <4>2
        <5>2. B[t] = t /\ t[1] = "promise" /\ t[2] = 0 /\ 0 # n + 1  BY <1>3, <1>12, <5>1
        <5>3. ~f.settles  BY <2>3, <3>1, <5>2
        <5> QED  BY <5>2, <5>3
      <4> QED  BY <2>3, <4>1, <4>2
    <3> QED  BY <3>3, <3>4, <3>5, <3>6
  <2>6. CASE s[1] \in {"frame", "promise"} /\ B[s] = s /\ s[2] # n + 1
    <3>1. ASSUME NEW i \in 1 .. m - 1, t = <<"queue", i, 1>>
          PROVE  (B[s] = B[t] => s = t) /\ (Earlier(s, t) => Earlier(B[s], B[t]))
      <4>1. B[t] = <<"queue", i + 1, 1>>  BY <1>12, <2>0, <3>1
      <4> QED  BY <2>6, <3>1, <4>1 DEF Earlier
    <3>2. ASSUME NEW k \in Nat, t = <<"frame", n + 1, k>>, f.settles \/ k = 1
          PROVE  (B[s] = B[t] => s = t) /\ (Earlier(s, t) => Earlier(B[s], B[t]))
      <4>1. B[t] = IF f.settles THEN <<"promise", 0, k>> ELSE <<"queue", 1, 1>>
        BY <1>12, <3>2
      <4> QED  BY <2>3, <2>6, <3>2, <4>1 DEF Earlier
    <3>3. CASE B[t] = t  BY <2>6, <3>3
    <3> QED  BY <1>12, <2>3, <3>1, <3>2, <3>3
  <2> QED  BY <1>3, <1>8, <1>12, <2>3, <2>4, <2>5, <2>6
<1>15. ASSUME NEW s, NEW cb, Keeps(p, s, cb)  PROVE \E t : Keeps(p, t, cb)'
  <2>1. CASE \E i \in FramesOf(p) : \E k \in 1 .. Len(stack[i].left) :
               s = <<"frame", i, k>> /\ cb = stack[i].left[k]
    BY <1>11, <2>1
  <2>2. ASSUME NEW i \in 1 .. m, queue[i] = ReactionJob(p, cb)
        PROVE  \E t : Keeps(p, t, cb)'
    <3>1. CASE i = 1
      <4>1. has /\ f.left = <<cb>>  BY <1>2, <1>5, <2>2, <3>1
      <4>2. 1 \in 1 .. Len(f.left) /\ f.left[1] = cb  BY <4>1
      <4>3. got(<<"frame", n + 1, 1>>, cb)  BY <4>1, <4>2
      <4> QED  BY <1>11, <4>3
    <3>2. CASE i # 1
      <4>1. i - 1 \in 1 .. m - 1 /\ i - 1 + 1 = i  BY <1>2, <3>2
      <4>2. que(<<"queue", i - 1, 1>>, cb)  BY <2>2, <4>1
      <4> QED  BY <1>11, <4>2
    <3> QED  BY <3>1, <3>2
  <2>3. ASSUME Runs(p) = {}, NEW k \in 1 .. Len(callbacks[p]), cb = callbacks[p][k]
        PROVE  \E t : Keeps(p, t, cb)'
    <3>1. CASE has /\ f.settles
      <4>1. f.left = callbacks[p]  BY <1>5, <3>1 DEF SettleJob, ReactionJob
      <4>2. got(<<"frame", n + 1, k>>, cb)  BY <2>3, <3>1, <4>1
      <4> QED  BY <1>11, <4>2
    <3>2. CASE ~(has /\ f.settles)
      <4>1. own(<<"promise", 0, k>>, cb)  BY <2>3, <3>2
      <4> QED  BY <1>11, <4>1
    <3> QED  BY <3>1, <3>2
  <2> QED  BY <1>15, <2>1, <2>2, <2>3 DEF Keeps
<1>16. Moved(p, B)
  <2> HIDE DEF old, got, que, own
  <2> QED  BY <1>12, <1>13, <1>14 DEF Moved
<1> QED  BY <1>15, <1>16

\* What has moved in order is placed once.
LEMMA MovedOnce ==
  ASSUME NEW p \in Promise, PlacedOnce(p), ran \in [Promise -> Seq(Nat)],
         registered'[p] = registered[p], ran' = ran, NEW B, Moved(p, B),
         \A s, cb : Keeps(p, s, cb) => \E t : Keeps(p, t, cb)'
  PROVE  PlacedOnce(p)'
<1>1. \A s, n : At(p, s, n)' <=> \/ \E cb : Keeps(p, s, cb)' /\ cb.id = n
                                 \/ \E i \in 1 .. Len(ran[p]) : s = <<"ran", i, 0>> /\ ran[p][i] = n
  BY DEF At
<1>2. \A i \in 1 .. Len(ran[p]) : i \in Nat  OBVIOUS
<1>3. \A s, cb : Keeps(p, s, cb)' => s[1] \in {"frame", "queue", "promise"}
  BY DEF Keeps
<1>4. \A s, n : At(p, s, n)' => At(p, B[s], n)  BY <1>1, <1>2 DEF At, Moved
<1>5. \A s, n : At(p, s, n) => \E t : At(p, t, n)'
  <2> SUFFICES ASSUME NEW s, NEW n, At(p, s, n)  PROVE \E t : At(p, t, n)'
    OBVIOUS
  <2>1. CASE \E cb : Keeps(p, s, cb) /\ cb.id = n
    <3>1. PICK cb : Keeps(p, s, cb) /\ cb.id = n  BY <2>1
    <3>2. PICK t : Keeps(p, t, cb)'  BY <3>1
    <3> QED  BY <1>1, <3>1, <3>2
  <2>2. CASE \E i \in 1 .. Len(ran[p]) : s = <<"ran", i, 0>> /\ ran[p][i] = n
    BY <1>1, <2>2
  <2> QED  BY <2>1, <2>2 DEF At
<1>6. ASSUME NEW s, NEW t, NEW m, NEW n, At(p, s, m)', At(p, t, n)'
      PROVE  (B[s] = B[t] => s = t) /\ (Earlier(s, t) => Earlier(B[s], B[t]))
  <2>1. CASE (\E c : Keeps(p, s, c)') /\ (\E d : Keeps(p, t, d)')
    BY <2>1 DEF Moved
  <2>2. CASE (\E c : Keeps(p, s, c)') /\ B[t] = t /\ t[1] = "ran"
    <3>1. PICK c : Keeps(p, s, c)'  BY <2>2
    <3>2. B[s][1] # "ran" /\ s[1] # "ran"  BY <1>3, <3>1 DEF Moved
    <3> QED  BY <2>2, <3>2 DEF Earlier
  <2>3. CASE B[s] = s /\ s[1] = "ran" /\ (\E d : Keeps(p, t, d)')
    <3>1. PICK d : Keeps(p, t, d)'  BY <2>3
    <3>2. /\ B[t][1] # "ran" /\ t[1] # "ran"
          /\ t[1] = "queue" => B[t][1] = "queue"
      BY <1>3, <3>1 DEF Moved
    <3> QED  BY <2>3, <3>2 DEF Earlier
  <2>4. CASE B[s] = s /\ B[t] = t  BY <2>4
  <2>5. ASSUME NEW u, NEW k, At(p, u, k)'
        PROVE  (\E c : Keeps(p, u, c)') \/ (B[u] = u /\ u[1] = "ran")
    <3>1. CASE \E c : Keeps(p, u, c)' /\ c.id = k  BY <3>1
    <3>2. ASSUME NEW i \in 1 .. Len(ran[p]), u = <<"ran", i, 0>>
          PROVE  B[u] = u /\ u[1] = "ran"
      <4>1. B[<<"ran", i, 0>>] = <<"ran", i, 0>>  BY <1>2 DEF Moved
      <4> QED  BY <3>2, <4>1
    <3> QED  BY <1>1, <2>5, <3>1, <3>2
  <2> QED  BY <1>6, <2>1, <2>2, <2>3, <2>4, <2>5
<1> QED  BY <1>4, <1>5, <1>6, PlacesMove

\* A job begins.
LEMMA JobFiles ==
  ASSUME IInv, HistoryInv, RunJob
  PROVE  HistoryInv'
<1> DEFINE n == Len(stack)  m == Len(queue)
<1>1. /\ PromiseType /\ stack \in Seq(Frame) /\ OneJob /\ JobInv /\ PlaceInv /\ ShapeInv
      /\ ran \in [Promise -> Seq(Nat)]
  BY DEF IInv, Orderly, HistoryInv, PromiseType
<1>2. ran' = ran /\ registered' = registered /\ Whole' = Whole /\ Whole \subseteq Promise
  BY DEF RunJob, history, Whole
<1>3. PlaceInv'
  <2> SUFFICES ASSUME NEW p \in Whole  PROVE PlacedOnce(p)'
    BY <1>2 DEF PlaceInv
  <2>1. PlacedOnce(p) /\ registered'[p] = registered[p]  BY <1>1, <1>2 DEF PlaceInv
  <2>2. \E B : /\ Moved(p, B)
               /\ \A s, cb : Keeps(p, s, cb) => \E t : Keeps(p, t, cb)'
    BY JobMoves
  <2> QED  BY <1>1, <1>2, <2>1, <2>2, MovedOnce
<1>4. PICK j \in Job, f \in Frame :
           /\ stack # <<>> /\ Top.kind = "pump" /\ stack' = Append(stack, f)
           /\ m \in Nat /\ m > 0 /\ queue[1] = j
           /\ Len(queue') = m - 1
           /\ \A i \in 1 .. m - 1 : queue'[i] = queue[i + 1]
           /\ \/ j = SettleJob(j.promise) /\ f.kind = "reactions" /\ f.promise = j.promise
              \/ /\ j = ReactionJob(j.promise, j.cb)
                 /\ f.kind = "reactions" /\ f.promise = j.promise
              \/ f.kind = "user"
  BY JobTaken DEF User
<1>5. /\ n \in Nat /\ n > 0 /\ Len(stack') = n + 1 /\ stack'[n + 1] = f /\ stack[n] = Top
      /\ \A i \in 1 .. n : stack'[i] = stack[i]
  BY <1>1, <1>4, FramePushed, TopFrame
<1>6. ShapeInv'
  <2> SUFFICES ASSUME NEW i \in 1 .. n + 1, NEW k \in 1 .. n + 1, i < k,
                      stack'[i].kind = "reactions", stack'[k].kind = "reactions"
               PROVE  \E a \in i + 1 .. k - 1 : stack'[a].kind = "pump"
    BY <1>5 DEF ShapeInv
  <2>1. CASE k = n + 1
    <3>1. i \in 1 .. n /\ stack'[n].kind = "pump" /\ i # n  BY <1>4, <1>5, <2>1
    <3>2. n \in i + 1 .. k - 1  BY <1>5, <2>1, <3>1
    <3> QED  BY <3>1, <3>2
  <2>2. CASE k # n + 1
    <3>1. i \in 1 .. n /\ k \in 1 .. n  BY <1>5, <2>2
    <3>2. PICK a \in i + 1 .. k - 1 : stack[a].kind = "pump"
      BY <1>1, <1>5, <3>1 DEF ShapeInv
    <3>3. a \in 1 .. n  BY <1>5, <3>1
    <3> QED  BY <1>5, <3>2, <3>3
  <2> QED  BY <2>1, <2>2
<1>7. JobInv'
  <2> SUFFICES ASSUME NEW p \in Whole, NEW i \in Jobs(p)'
               PROVE  /\ FramesOf(p)' = {}
                      /\ \A k \in 1 .. m - 1 :
                            queue'[k].job = "reaction" /\ queue'[k].promise = p => i < k
    BY <1>2, <1>4 DEF JobInv
  <2>1. i \in 1 .. m - 1 /\ queue'[i] = SettleJob(p)
    BY <1>4 DEF Jobs, SettleJob
  <2>2. i + 1 \in 1 .. m /\ 1 \in 1 .. m /\ i \in Nat /\ i + 1 # 1 /\ ~ i + 1 < 1
    BY <1>4, <2>1
  <2>3. i + 1 \in Jobs(p)  BY <1>4, <2>1, <2>2 DEF Jobs
  <2>4. /\ FramesOf(p) = {} /\ \A k \in Jobs(p) : k = i + 1
        /\ \A k \in 1 .. m : queue[k].job = "reaction" /\ queue[k].promise = p => i + 1 < k
    BY <1>1, <2>3 DEF JobInv, OneJob, Whole
  <2>5. ~(f.kind = "reactions" /\ f.promise = p)
    <3> SUFFICES ASSUME f.kind = "reactions", f.promise = p  PROVE FALSE
      OBVIOUS
    <3>1. CASE j = SettleJob(p)
      <4>1. 1 \in Jobs(p)  BY <1>4, <2>2, <3>1 DEF Jobs
      <4> QED  BY <2>2, <2>4, <4>1
    <3>2. CASE j = ReactionJob(p, j.cb)
      <4>1. queue[1].job = "reaction" /\ queue[1].promise = p
        BY <1>4, <3>2 DEF ReactionJob
      <4> QED  BY <2>2, <2>4, <4>1
    <3> QED  BY <1>4, <3>1, <3>2
  <2>6. FramesOf(p)' = {}
    <3> SUFFICES ASSUME NEW k \in 1 .. n + 1, stack'[k].kind = "reactions", stack'[k].promise = p
                 PROVE  FALSE
      BY <1>5 DEF FramesOf
    <3>1. CASE k = n + 1  BY <1>5, <2>5, <3>1
    <3>2. CASE k # n + 1
      <4>1. k \in 1 .. n  BY <1>5, <3>2
      <4> QED  BY <1>5, <2>4, <4>1 DEF FramesOf
    <3> QED  BY <3>1, <3>2
  <2>7. ASSUME NEW k \in 1 .. m - 1, queue'[k].job = "reaction", queue'[k].promise = p
        PROVE  i < k
    <3>1. k + 1 \in 1 .. m /\ queue'[k] = queue[k + 1] /\ k \in Nat  BY <1>4
    <3>2. i + 1 < k + 1  BY <2>4, <2>7, <3>1
    <3> QED  BY <2>2, <3>1, <3>2
  <2> QED  BY <2>6, <2>7
<1> QED  BY <1>1, <1>2, <1>3, <1>6, <1>7 DEF HistoryInv

\* Reaction cb of p, the first of the l in frame n, is taken out and runs; rest is
\* what it leaves.
Takes(p, cb, n, l, rest) ==
  /\ p \in Promise /\ cb \in Reaction /\ rest \in Frame
  /\ n \in Nat /\ n > 0 /\ n = Len(stack) /\ stack[n] = Top
  /\ Top.kind = "reactions" /\ Top.promise = p
  /\ l \in Nat /\ l > 0 /\ l = Len(Top.left) /\ Top.left[1] = cb
  /\ rest.kind = "reactions" /\ rest.promise = p /\ rest.settles = Top.settles
  /\ Len(rest.left) = l - 1 /\ \A k \in 1 .. l - 1 : rest.left[k] = Top.left[k + 1]
  /\ stack' \in Seq(Frame) /\ stack'[n] = rest
  /\ \A i \in 1 .. n - 1 : stack'[i] = stack[i]
  /\ \/ Len(stack') = n
     \/ Len(stack') = n + 1 /\ stack'[n + 1] = User(cb.next, cb.next)
     \/ /\ Len(stack') = n + 1 /\ stack'[n + 1] = Lookup(cb.next, Object)
        /\ value[p] = Object
  /\ ran' = [ran EXCEPT ![p] = Append(@, cb.id)]
  /\ Unregistered /\ UNCHANGED <<resolvers, first, again, overwritten, cut>>

\* That is what the topmost frame does.
LEMMA ReactionTaken ==
  ASSUME IInv, RunReaction
  PROVE  \E p, cb, n, l, rest : Takes(p, cb, n, l, rest)
<1> DEFINE p    == Top.promise
           cb   == Head(Top.left)
           rest == [Top EXCEPT !.left = Tail(@)]
           n    == Len(stack)
           l    == Len(Top.left)
           b    == Append(Below, rest)
<1>1. PromiseType /\ stack \in Seq(Frame) /\ FrameInv  BY DEF IInv
<1>2. /\ stack # <<>> /\ Top.kind = "reactions" /\ Top.left # <<>>
      /\ ran' = [ran EXCEPT ![p] = Append(@, cb.id)]
      /\ UNCHANGED <<resolvers, first, again, overwritten, cut>>
      /\ \/ /\ stack' = Append(b, User(cb.next, cb.next))
            /\ UNCHANGED <<promiseVars, queue, registered>>
         \/ ResolveInternal(cb.next, value[p], b)
         \/ RejectInternal(cb.next, value[p]) /\ stack' = b
  BY DEF RunReaction, Replace, damage
<1>3. /\ n \in Nat /\ n > 0 /\ n \in 1 .. n /\ Top = stack[n] /\ Top \in Frame
      /\ Top \in [kind : {"reactions"}, promise : Promise, left : Seq(Reaction),
                  settles : BOOLEAN]
      /\ Settled(p)
  <2>1. n \in Nat /\ n > 0 /\ n \in 1 .. n /\ Top = stack[n] /\ Top \in Frame
    BY <1>1, <1>2, TopFrame
  <2>2. Settled(p)  BY <1>1, <1>2, <2>1 DEF FrameInv
  <2> QED  BY <1>2, <2>1, <2>2, FrameKinds
<1>4. /\ cb \in Reaction /\ cb = Top.left[1] /\ l \in Nat /\ l > 0
      /\ Tail(Top.left) \in Seq(Reaction) /\ Len(Tail(Top.left)) = l - 1
      /\ \A k \in 1 .. l - 1 : Tail(Top.left)[k] = Top.left[k + 1]
  <2> DEFINE q == Top.left
  <2>1. q \in Seq(Reaction) /\ q # <<>>  BY <1>2, <1>3
  <2> HIDE DEF q
  <2>2. /\ Head(q) \in Reaction /\ Head(q) = q[1] /\ Len(q) \in Nat /\ Len(q) > 0
        /\ Tail(q) \in Seq(Reaction) /\ Len(Tail(q)) = Len(q) - 1
        /\ \A k \in 1 .. Len(q) - 1 : Tail(q)[k] = q[k + 1]
    BY <2>1
  <2> QED  BY <2>2 DEF q
<1>5. /\ rest \in Frame /\ rest.kind = "reactions" /\ rest.promise = p
      /\ rest.settles = Top.settles /\ rest.left = Tail(Top.left)
  BY <1>3, <1>4 DEF Frame
<1>6. p \in Promise /\ value[p] \in Outcome /\ cb.next \in Promise
  BY <1>1, <1>3, <1>4 DEF PromiseType, Reaction
<1> HIDE DEF p, cb, rest
<1>7. /\ b \in Seq(Frame) /\ Len(b) = n /\ b[n] = rest
      /\ \A i \in 1 .. n - 1 : b[i] = stack[i]
  BY <1>1, <1>2, <1>5, FrameExchanged
<1> HIDE DEF b, n, l
<1>8. CASE /\ stack' = Append(b, User(cb.next, cb.next))
           /\ UNCHANGED <<promiseVars, queue, registered>>
  <2>1. Unregistered  BY <1>8 DEF Unregistered, promiseVars
  <2>2. User(cb.next, cb.next) \in Frame  BY <1>6 DEF User, Frame
  <2>3. /\ stack' \in Seq(Frame) /\ Len(stack') = n + 1 /\ stack'[n + 1] = User(cb.next, cb.next)
        /\ \A i \in 1 .. n : stack'[i] = b[i]
    BY <1>7, <1>8, <2>2, AppendProperties
  <2>4. stack'[n] = rest /\ \A i \in 1 .. n - 1 : stack'[i] = stack[i]  BY <1>3, <1>7, <2>3
  <2>5. Takes(p, cb, n, l, rest)
    BY <1>2, <1>3, <1>4, <1>5, <1>6, <2>1, <2>3, <2>4 DEF n, l, p, Takes
  <2> QED  BY <2>5
<1>9. ASSUME ResolveInternal(cb.next, value[p], b) \/ RejectInternal(cb.next, value[p])
      PROVE  Unregistered
  <2>1. value[p] \notin Promise  BY <1>6, PromiseAssumption
  <2> QED  BY <1>1, <1>6, <1>9, <2>1, ResolveFiles, SettleFiles
<1>10. CASE RejectInternal(cb.next, value[p]) /\ stack' = b
  <2>1. Takes(p, cb, n, l, rest)
    BY <1>2, <1>3, <1>4, <1>5, <1>6, <1>7, <1>9, <1>10 DEF n, l, p, Takes
  <2> QED  BY <2>1
<1>11. CASE ResolveInternal(cb.next, value[p], b)
  <2> DEFINE f == Lookup(cb.next, value[p])
  <2>1. \/ stack' = b
        \/ stack' = Append(b, f) /\ f \in Frame
    BY <1>1, <1>6, <1>11, Resolves
  <2>2. CASE stack' = b
    <3>1. Takes(p, cb, n, l, rest)
      BY <1>2, <1>3, <1>4, <1>5, <1>6, <1>7, <1>9, <1>11, <2>2 DEF n, l, p, Takes
    <3> QED  BY <3>1
  <2>3. CASE stack' = Append(b, f) /\ f \in Frame
    <3>1. value[p] = Object
      <4>1. f.kind = "lookup" /\ f.of = value[p]  BY DEF Lookup
      <4>2. f.of \in Derived \cup {Object}
        <5> HIDE DEF f
        <5> QED  BY <2>3, <4>1, FrameKinds
      <4> QED  BY <1>6, <4>1, <4>2, PromiseAssumption
    <3> HIDE DEF f
    <3>2. /\ stack' \in Seq(Frame) /\ Len(stack') = n + 1 /\ stack'[n + 1] = f
          /\ \A i \in 1 .. n : stack'[i] = b[i]
      BY <1>7, <2>3, AppendProperties
    <3>3. stack'[n] = rest /\ \A i \in 1 .. n - 1 : stack'[i] = stack[i]  BY <1>3, <1>7, <3>2
    <3>4. f = Lookup(cb.next, Object)  BY <3>1 DEF f
    <3>5. Takes(p, cb, n, l, rest)
      BY <1>2, <1>3, <1>4, <1>5, <1>6, <1>9, <1>11, <3>1, <3>2, <3>3, <3>4 DEF n, l, p, Takes
    <3> QED  BY <3>5
  <2> QED  BY <2>1, <2>2, <2>3
<1> QED  BY <1>2, <1>8, <1>10, <1>11

\* The other reactions of its frame move up, and nothing else moves.
LEMMA ReactionKeeps ==
  ASSUME IInv, NEW p, NEW cb, NEW n, NEW l, NEW rest, Takes(p, cb, n, l, rest)
  PROVE  /\ \A q \in Promise : FramesOf(q)' = FramesOf(q) /\ Runs(q)' = Runs(q)
         /\ \A q \in Promise \ {p} : \A s, c : Keeps(q, s, c)' <=> Keeps(q, s, c)
         /\ \A s, c : Keeps(p, s, c)' <=>
               \/ Keeps(p, s, c) /\ ~(s[1] = "frame" /\ s[2] = n)
               \/ \E k \in 1 .. l - 1 : s = <<"frame", n, k>> /\ c = Top.left[k + 1]
         /\ \A s, c : Keeps(p, s, c) /\ s[1] = "frame" /\ s[2] = n <=>
               \E k \in 1 .. l : s = <<"frame", n, k>> /\ c = Top.left[k]
<1>1. /\ p \in Promise /\ n \in Nat /\ n > 0 /\ n = Len(stack) /\ stack[n] = Top
      /\ Top.kind = "reactions" /\ Top.promise = p /\ l = Len(Top.left)
      /\ rest.kind = "reactions" /\ rest.promise = p /\ rest.settles = Top.settles
      /\ Len(rest.left) = l - 1 /\ \A k \in 1 .. l - 1 : rest.left[k] = Top.left[k + 1]
      /\ stack'[n] = rest
      /\ \A i \in 1 .. n - 1 : stack'[i] = stack[i]
      /\ \/ Len(stack') = n
         \/ Len(stack') = n + 1 /\ stack'[n + 1].kind # "reactions"
      /\ Unregistered
  BY DEF Takes, User, Lookup
<1>2. queue \in Seq(Job)  BY DEF IInv, PromiseType
<1>3. \A i : i \in 1 .. n <=> i \in 1 .. n - 1 \/ i = n  BY <1>1
<1>4. \A i : i \in 1 .. Len(stack') => i \in 1 .. n \/ stack'[i].kind # "reactions"
  BY <1>1
<1>5. \A i : i \in 1 .. n => i \in 1 .. Len(stack')  BY <1>1
<1>6. \A q : FramesOf(q)' = FramesOf(q) /\ Runs(q)' = Runs(q)
  <2> SUFFICES ASSUME NEW q, NEW i
               PROVE  /\ i \in FramesOf(q)' <=> i \in FramesOf(q)
                      /\ i \in Runs(q)' <=> i \in Runs(q)
    OBVIOUS
  <2>2. /\ FramesOf(q)' = {x \in 1 .. Len(stack') : stack'[x].kind = "reactions" /\ stack'[x].promise = q}
        /\ Runs(q)' = {x \in 1 .. Len(stack') : /\ stack'[x].kind = "reactions"
                                                /\ stack'[x].promise = q /\ stack'[x].settles}
        /\ FramesOf(q) = {x \in 1 .. n : stack[x].kind = "reactions" /\ stack[x].promise = q}
        /\ Runs(q) = {x \in 1 .. n : /\ stack[x].kind = "reactions"
                                     /\ stack[x].promise = q /\ stack[x].settles}
    BY <1>1 DEF FramesOf, Runs
  <2>3. CASE i \in 1 .. n - 1  BY <1>1, <1>3, <1>5, <2>2, <2>3
  <2>4. CASE i = n  BY <1>1, <1>3, <1>5, <2>2, <2>4
  <2>5. CASE i \notin 1 .. n  BY <1>4, <2>2, <2>5
  <2> QED  BY <1>3, <2>3, <2>4, <2>5
<1>7. \A q : \A i \in FramesOf(q) : i \in 1 .. n /\ (i # n \/ q = p)
  BY <1>1 DEF FramesOf
<1>8. n \in FramesOf(p)  BY <1>1, <1>3 DEF FramesOf
<1> DEFINE others(q, s, c) ==
             \/ \E i \in FramesOf(q) \ {n} : \E k \in 1 .. Len(stack[i].left) :
                   s = <<"frame", i, k>> /\ c = stack[i].left[k]
             \/ \E i \in 1 .. Len(queue) : s = <<"queue", i, 1>> /\ queue[i] = ReactionJob(q, c)
             \/ Runs(q) = {} /\ \E k \in 1 .. Len(callbacks[q]) :
                   s = <<"promise", 0, k>> /\ c = callbacks[q][k]
<1>9. ASSUME NEW q, NEW s, NEW c
      PROVE  /\ Keeps(q, s, c) <=> others(q, s, c) \/
                  (q = p /\ \E k \in 1 .. l : s = <<"frame", n, k>> /\ c = Top.left[k])
             /\ others(q, s, c) => ~(s[1] = "frame" /\ s[2] = n)
  <2>1. (\E i \in FramesOf(q) : \E k \in 1 .. Len(stack[i].left) :
           s = <<"frame", i, k>> /\ c = stack[i].left[k]) <=>
        \/ \E i \in FramesOf(q) \ {n} : \E k \in 1 .. Len(stack[i].left) :
              s = <<"frame", i, k>> /\ c = stack[i].left[k]
        \/ q = p /\ \E k \in 1 .. l : s = <<"frame", n, k>> /\ c = Top.left[k]
    BY <1>1, <1>7, <1>8
  <2> QED  BY <2>1 DEF Keeps
<1>10. ASSUME NEW q, NEW s, NEW c
       PROVE  Keeps(q, s, c)' <=> others(q, s, c) \/
                (q = p /\ \E k \in 1 .. l - 1 : s = <<"frame", n, k>> /\ c = Top.left[k + 1])
  <2>1. (\E i \in FramesOf(q)' : \E k \in 1 .. Len(stack'[i].left) :
           s = <<"frame", i, k>> /\ c = stack'[i].left[k]) <=>
        \/ \E i \in FramesOf(q) \ {n} : \E k \in 1 .. Len(stack[i].left) :
              s = <<"frame", i, k>> /\ c = stack[i].left[k]
        \/ q = p /\ \E k \in 1 .. l - 1 : s = <<"frame", n, k>> /\ c = Top.left[k + 1]
    <3>1. \A i \in FramesOf(q) \ {n} : stack'[i] = stack[i]  BY <1>1, <1>3, <1>7
    <3>2. n \in FramesOf(q) <=> q = p  BY <1>1, <1>7, <1>8
    <3>3. (\E k \in 1 .. Len(stack'[n].left) : s = <<"frame", n, k>> /\ c = stack'[n].left[k]) <=>
          \E k \in 1 .. l - 1 : s = <<"frame", n, k>> /\ c = Top.left[k + 1]
      <4>1. /\ stack'[n].left = rest.left /\ Len(rest.left) = l - 1
            /\ \A k \in 1 .. l - 1 : rest.left[k] = Top.left[k + 1]
        BY <1>1
      <4> QED  BY <4>1
    <3>4. FramesOf(q)' = FramesOf(q)  BY <1>6
    <3> QED  BY <3>1, <3>2, <3>3, <3>4
  <2>2. \A i : i \in 1 .. Len(queue') /\ queue'[i] = ReactionJob(q, c) <=>
               i \in 1 .. Len(queue) /\ queue[i] = ReactionJob(q, c)
    BY <1>1, <1>2, QuietQueue
  <2>3. callbacks' = callbacks /\ Runs(q)' = Runs(q) /\ ReactionJob(q, c)' = ReactionJob(q, c)
    BY <1>1, <1>6 DEF Unregistered, ReactionJob
  <2> QED  BY <2>1, <2>2, <2>3 DEF Keeps
<1> HIDE DEF others
<1>11. \A k : \A s : s = <<"frame", n, k>> => s[1] = "frame" /\ s[2] = n  OBVIOUS
<1> QED  BY <1>1, <1>6, <1>9, <1>10, <1>11

\* A reaction runs.
LEMMA ReactionMoves ==
  ASSUME IInv, HistoryInv, NEW p, NEW cb, NEW n, NEW l, NEW rest, Takes(p, cb, n, l, rest),
         p \in Whole
  PROVE  PlacedOnce(p)'
<1> DEFINE r == Len(ran[p])
<1>1. /\ p \in Promise /\ n \in Nat /\ n > 0 /\ l \in Nat /\ l > 0 /\ Top.left[1] = cb
      /\ ran' = [ran EXCEPT ![p] = Append(@, cb.id)] /\ cb \in Reaction
  BY DEF Takes
<1>2. ran \in [Promise -> Seq(Nat)] /\ PlacedOnce(p) /\ registered'[p] = registered[p]
  BY <1>1 DEF HistoryInv, PlaceInv, Takes, Unregistered
<1>3. /\ r \in Nat /\ Len(ran'[p]) = r + 1 /\ ran'[p][r + 1] = cb.id
      /\ \A i \in 1 .. r : ran'[p][i] = ran[p][i]
  <2> DEFINE a == ran[p]  b == ran'[p]
  <2>1. a \in Seq(Nat) /\ b = Append(a, cb.id) /\ cb.id \in Nat
    BY <1>1, <1>2 DEF Reaction
  <2> HIDE DEF a, b
  <2>2. /\ Len(a) \in Nat /\ Len(b) = Len(a) + 1 /\ b[Len(a) + 1] = cb.id
        /\ \A i \in 1 .. Len(a) : b[i] = a[i]
    BY <2>1, AppendProperties
  <2> QED  BY <2>2 DEF a, b
<1>4. /\ \A s, c : Keeps(p, s, c)' <=>
            \/ Keeps(p, s, c) /\ ~(s[1] = "frame" /\ s[2] = n)
            \/ \E k \in 1 .. l - 1 : s = <<"frame", n, k>> /\ c = Top.left[k + 1]
      /\ \A s, c : Keeps(p, s, c) /\ s[1] = "frame" /\ s[2] = n <=>
            \E k \in 1 .. l : s = <<"frame", n, k>> /\ c = Top.left[k]
  BY ReactionKeeps
<1>5. PICK z : z = r  OBVIOUS
<1> HIDE DEF r
<1> DEFINE B == [s \in Spots |-> IF s[1] = "frame" /\ s[2] = n THEN <<"frame", n, s[3] + 1>>
                                 ELSE IF s = <<"ran", z + 1, 0>> THEN <<"frame", n, 1>> ELSE s]
<1>6. /\ \A k \in Nat : B[<<"frame", n, k>>] = <<"frame", n, k + 1>>
      /\ B[<<"ran", z + 1, 0>>] = <<"frame", n, 1>>
      /\ \A i \in 1 .. z : B[<<"ran", i, 0>>] = <<"ran", i, 0>>
      /\ \A s \in Spots : ~(s[1] = "frame" /\ s[2] = n) /\ s[1] # "ran" => B[s] = s
  <2>1. /\ \A k \in Nat : <<"frame", n, k>> \in Spots
        /\ <<"ran", z + 1, 0>> \in Spots
        /\ \A i \in 1 .. z : <<"ran", i, 0>> \in Spots /\ i # z + 1
    BY <1>1, <1>3, <1>5 DEF Spots
  <2> QED  BY <2>1
<1> HIDE DEF B
<1>7. \A s, c : Keeps(p, s, c) => s \in Spots /\ s[1] # "ran"
  <2> SUFFICES ASSUME NEW s, NEW c, Keeps(p, s, c)  PROVE s \in Spots /\ s[1] # "ran"
    OBVIOUS
  <2>1. CASE \E i \in FramesOf(p) : \E k \in 1 .. Len(stack[i].left) : s = <<"frame", i, k>>
    <3>1. PICK i \in FramesOf(p) : \E k \in 1 .. Len(stack[i].left) : s = <<"frame", i, k>>
      BY <2>1
    <3>2. i \in Nat /\ stack[i] \in Frame /\ stack[i].kind = "reactions"
      BY <3>1 DEF FramesOf, IInv
    <3>3. stack[i].left \in Seq(Reaction)  BY <3>2, FrameKinds
    <3>4. Len(stack[i].left) \in Nat  BY <3>3
    <3> QED  BY <3>1, <3>2, <3>4 DEF Spots
  <2>2. CASE \E i \in 1 .. Len(queue) : s = <<"queue", i, 1>>
    <3>1. Len(queue) \in Nat  BY DEF IInv, PromiseType
    <3> QED  BY <2>2, <3>1 DEF Spots
  <2>3. CASE \E k \in 1 .. Len(callbacks[p]) : s = <<"promise", 0, k>>
    <3>1. Len(callbacks[p]) \in Nat  BY <1>1 DEF IInv, PromiseType
    <3> QED  BY <2>3, <3>1 DEF Spots
  <2> QED  BY <2>1, <2>2, <2>3 DEF Keeps
<1> DEFINE stay(s, m) == \E c : Keeps(p, s, c) /\ ~(s[1] = "frame" /\ s[2] = n) /\ c.id = m
           up(s, m)   == \E k \in 1 .. l - 1 : s = <<"frame", n, k>> /\ Top.left[k + 1].id = m
           done(s, m) == \E i \in 1 .. z : s = <<"ran", i, 0>> /\ ran[p][i] = m
           now(s, m)  == s = <<"ran", z + 1, 0>> /\ cb.id = m
<1>8. \A s, m : At(p, s, m)' <=> stay(s, m) \/ up(s, m) \/ done(s, m) \/ now(s, m)
  <2>1. \A s, m : At(p, s, m)' <=>
           \/ \E c : Keeps(p, s, c)' /\ c.id = m
           \/ \E i \in 1 .. z + 1 : s = <<"ran", i, 0>> /\ ran'[p][i] = m
    BY <1>3, <1>5 DEF At
  <2>2. \A i : i \in 1 .. z + 1 <=> i \in 1 .. z \/ i = z + 1  BY <1>3, <1>5
  <2>3. ASSUME NEW s, NEW m
        PROVE  (\E i \in 1 .. z + 1 : s = <<"ran", i, 0>> /\ ran'[p][i] = m) <=>
                   done(s, m) \/ now(s, m)
    BY <1>3, <1>5, <2>2
  <2>4. ASSUME NEW s, NEW m
        PROVE  (\E c : Keeps(p, s, c)' /\ c.id = m) <=> stay(s, m) \/ up(s, m)
    BY <1>4
  <2> HIDE DEF stay, up, done, now
  <2> QED  BY <2>1, <2>3, <2>4
<1>9. /\ \A s, m : stay(s, m) => /\ B[s] = s /\ s[1] # "ran" /\ At(p, s, m)
                                 /\ ~(s[1] = "frame" /\ s[2] = n)
      /\ \A s, m : up(s, m) => \E k \in 1 .. l - 1 :
             s = <<"frame", n, k>> /\ B[s] = <<"frame", n, k + 1>> /\ At(p, B[s], m)
      /\ \A s, m : done(s, m) => B[s] = s /\ s[1] = "ran" /\ s[3] = 0 /\ At(p, s, m)
      /\ \A s, m : now(s, m) => s = <<"ran", z + 1, 0>> /\ B[s] = <<"frame", n, 1>> /\ At(p, B[s], m)
  <2>1. \A k \in 1 .. l : Keeps(p, <<"frame", n, k>>, Top.left[k])  BY <1>4
  <2>2. \A k \in 1 .. l - 1 : k + 1 \in 1 .. l /\ k \in Nat  BY <1>1
  <2>3. 1 \in 1 .. l  BY <1>1
  <2>4. \A s, m : stay(s, m) => B[s] = s /\ s[1] # "ran" /\ At(p, s, m)
    BY <1>6, <1>7 DEF At
  <2>5. ASSUME NEW s, NEW m, up(s, m)
        PROVE  \E k \in 1 .. l - 1 :
             s = <<"frame", n, k>> /\ B[s] = <<"frame", n, k + 1>> /\ At(p, B[s], m)
    <3>1. PICK k \in 1 .. l - 1 : s = <<"frame", n, k>> /\ Top.left[k + 1].id = m  BY <2>5
    <3>2. B[s] = <<"frame", n, k + 1>> /\ Keeps(p, <<"frame", n, k + 1>>, Top.left[k + 1])
      BY <1>6, <2>1, <2>2, <3>1
    <3> QED  BY <3>1, <3>2 DEF At
  <2>6. \A s, m : done(s, m) => B[s] = s /\ s[1] = "ran" /\ s[3] = 0 /\ At(p, s, m)
    BY <1>5, <1>6 DEF At, r
  <2>7. \A s, m : now(s, m) => s = <<"ran", z + 1, 0>> /\ B[s] = <<"frame", n, 1>> /\ At(p, B[s], m)
    BY <1>1, <1>6, <2>1, <2>3 DEF At
  <2>8. \A s, m : stay(s, m) => ~(s[1] = "frame" /\ s[2] = n)  OBVIOUS
  <2> HIDE DEF stay, up, done, now
  <2> QED  BY <2>4, <2>5, <2>6, <2>7, <2>8
<1>10. \A s, m : At(p, s, m)' => At(p, B[s], m)
  <2> HIDE DEF stay, up, done, now
  <2> QED  BY <1>8, <1>9
<1>11. ASSUME NEW s, NEW m, At(p, s, m)  PROVE \E t : At(p, t, m)'
  <2>1. ASSUME NEW c, Keeps(p, s, c), c.id = m  PROVE \E t : At(p, t, m)'
    <3>1. CASE ~(s[1] = "frame" /\ s[2] = n)
      <4>1. stay(s, m)  BY <2>1, <3>1
      <4> QED  BY <1>8, <4>1
    <3>2. CASE s[1] = "frame" /\ s[2] = n
      <4>1. PICK k \in 1 .. l : s = <<"frame", n, k>> /\ c = Top.left[k]  BY <1>4, <2>1, <3>2
      <4>2. CASE k = 1
        <5>1. now(<<"ran", z + 1, 0>>, m)  BY <1>1, <2>1, <4>1, <4>2
        <5> QED  BY <1>8, <5>1
      <4>3. CASE k # 1
        <5>1. k - 1 \in 1 .. l - 1 /\ k - 1 + 1 = k  BY <1>1, <4>3
        <5>2. up(<<"frame", n, k - 1>>, m)  BY <2>1, <4>1, <5>1
        <5> QED  BY <1>8, <5>2
      <4> QED  BY <4>2, <4>3
    <3> QED  BY <3>1, <3>2
  <2>2. CASE \E i \in 1 .. Len(ran[p]) : s = <<"ran", i, 0>> /\ ran[p][i] = m
    <3>1. done(s, m)  BY <1>5, <2>2 DEF r
    <3> QED  BY <1>8, <3>1
  <2> QED  BY <1>11, <2>1, <2>2 DEF At
<1>12. ASSUME NEW s, NEW t, NEW m, NEW k, At(p, s, m)', At(p, t, k)'
       PROVE  (B[s] = B[t] => s = t) /\ (Earlier(s, t) => Earlier(B[s], B[t]))
  <2> DEFINE same(u) == B[u] = u /\ ~(u[1] = "frame" /\ u[2] = n) /\ (u[1] = "ran" => u[3] = 0)
             moved(u) == \E i \in 1 .. l - 1 : u = <<"frame", n, i>> /\ B[u] = <<"frame", n, i + 1>>
             new(u) == u = <<"ran", z + 1, 0>> /\ B[u] = <<"frame", n, 1>>
  <2>1. /\ same(s) \/ moved(s) \/ new(s)
        /\ same(t) \/ moved(t) \/ new(t)
    <3> HIDE DEF stay, up, done, now
    <3>1. \A u, x : At(p, u, x)' => same(u) \/ moved(u) \/ new(u)
      <4>1. \A u, x : stay(u, x) => same(u)  BY <1>9
      <4>2. \A u, x : up(u, x) => moved(u)  BY <1>9
      <4>3. \A u, x : done(u, x) => same(u)
        <5>1. \A u : u[1] = "ran" => u[1] # "frame"  OBVIOUS
        <5> QED  BY <1>9, <5>1
      <4>4. \A u, x : now(u, x) => new(u)  BY <1>9
      <4> HIDE DEF same, moved, new
      <4> QED  BY <1>8, <4>1, <4>2, <4>3, <4>4
    <3> QED  BY <1>12, <3>1
  <2>2. \A i \in 1 .. l - 1 : i \in Nat /\ i > 0  BY <1>1
  <2>3. CASE same(s) /\ same(t)  BY <2>3
  <2>4. CASE same(s) /\ (moved(t) \/ new(t))
    <3>1. CASE moved(t)  BY <2>4, <3>1 DEF Earlier
    <3>2. CASE new(t)  BY <2>4, <3>2 DEF Earlier
    <3> QED  BY <2>4, <3>1, <3>2
  <2>5. CASE (moved(s) \/ new(s)) /\ same(t)
    <3>1. CASE moved(s)  BY <2>5, <3>1 DEF Earlier
    <3>2. CASE new(s)  BY <2>5, <3>2 DEF Earlier
    <3> QED  BY <2>5, <3>1, <3>2
  <2>6. CASE moved(s) /\ moved(t)
    <3>1. PICK i \in 1 .. l - 1 : s = <<"frame", n, i>> /\ B[s] = <<"frame", n, i + 1>>
      BY <2>6
    <3>2. PICK j \in 1 .. l - 1 : t = <<"frame", n, j>> /\ B[t] = <<"frame", n, j + 1>>
      BY <2>6
    <3>3. i \in Nat /\ j \in Nat  BY <2>2
    <3> QED  BY <3>1, <3>2, <3>3, EarlierSpots
  <2>7. CASE (moved(s) /\ new(t)) \/ (new(s) /\ moved(t))
    <3>1. PICK i \in 1 .. l - 1 : \/ s = <<"frame", n, i>> /\ B[s] = <<"frame", n, i + 1>> /\ new(t)
                                  \/ t = <<"frame", n, i>> /\ B[t] = <<"frame", n, i + 1>> /\ new(s)
      BY <2>7
    <3>2. i \in Nat /\ i > 0  BY <2>2
    <3> QED  BY <3>1, <3>2, EarlierSpots
  <2>8. CASE new(s) /\ new(t)  BY <2>8 DEF Earlier
  <2> HIDE DEF same, moved, new
  <2> QED  BY <2>1, <2>3, <2>4, <2>5, <2>6, <2>7, <2>8
<1> QED  BY <1>1, <1>2, <1>10, <1>11, <1>12, PlacesMove

\* So each reaction still is at one place.
LEMMA ReactionFiles ==
  ASSUME IInv, HistoryInv, RunReaction
  PROVE  HistoryInv'
<1>1. PICK p, cb, n, l, rest : Takes(p, cb, n, l, rest)  BY ReactionTaken
<1>2. /\ PromiseType /\ QueueInv /\ FrameInv /\ PlaceInv /\ JobInv /\ ShapeInv
      /\ ran \in [Promise -> Seq(Nat)] /\ queue \in Seq(Job)
  BY DEF IInv, Orderly, HistoryInv, PromiseType
<1>3. /\ p \in Promise /\ cb.id \in Nat /\ ran' = [ran EXCEPT ![p] = Append(@, cb.id)]
      /\ Unregistered /\ Whole' = Whole /\ Whole \subseteq Promise
  BY <1>1 DEF Takes, Reaction, Whole
<1>4. /\ \A q \in Promise : FramesOf(q)' = FramesOf(q)
      /\ \A q \in Promise \ {p} : \A s, c : Keeps(q, s, c)' <=> Keeps(q, s, c)
  BY <1>1, ReactionKeeps
<1>5. ran' \in [Promise -> Seq(Nat)]
  <2>1. Append(ran[p], cb.id) \in Seq(Nat)  BY <1>2, <1>3
  <2> QED  BY <1>2, <1>3, <2>1
<1>6. PlaceInv'
  <2>1. p \in Whole => PlacedOnce(p)'  BY <1>1, ReactionMoves
  <2>2. ASSUME NEW q \in Whole \ {p}  PROVE PlacedOnce(q)'
    <3>1. PlacedOnce(q) /\ registered'[q] = registered[q] /\ ran'[q] = ran[q]
      BY <1>2, <1>3, <2>2 DEF PlaceInv, Unregistered
    <3> QED  BY <1>3, <1>4, <3>1, PlacesStay
  <2> QED  BY <1>3, <2>1, <2>2 DEF PlaceInv
<1>7. JobInv'
  <2>1. Remembered  BY <1>1 DEF Takes, Remembered
  <2> QED  BY <1>2, <1>3, <1>4, <2>1, JobsFirst DEF Unregistered
<1>8. ShapeInv'
  <2>1. /\ n \in Nat /\ n > 0 /\ n = Len(stack) /\ stack[n].kind = "reactions"
        /\ \A i \in 1 .. n - 1 : stack'[i] = stack[i]
        /\ \/ Len(stack') = n
           \/ Len(stack') = n + 1 /\ stack'[n + 1].kind # "reactions"
    BY <1>1 DEF Takes, User, Lookup
  <2> SUFFICES ASSUME NEW i \in 1 .. Len(stack'), NEW k \in 1 .. Len(stack'), i < k,
                      stack'[i].kind = "reactions", stack'[k].kind = "reactions"
               PROVE  \E a \in i + 1 .. k - 1 : stack'[a].kind = "pump"
    BY DEF ShapeInv
  <2>2. k \in 1 .. n  BY <2>1
  <2>3. i \in 1 .. n - 1 /\ stack[i].kind = "reactions" /\ stack[k].kind = "reactions"
    BY <2>1, <2>2
  <2>4. PICK a \in i + 1 .. k - 1 : stack[a].kind = "pump"
    BY <1>2, <2>1, <2>2, <2>3 DEF ShapeInv
  <2>5. a \in 1 .. n - 1  BY <2>1, <2>2, <2>3
  <2> QED  BY <2>1, <2>4, <2>5
<1> QED  BY <1>5, <1>6, <1>7, <1>8 DEF HistoryInv

\* At first there are no reactions.
LEMMA HistoryStarted == Init => HistoryInv
<1> SUFFICES ASSUME Init  PROVE HistoryInv
  OBVIOUS
<1>1. /\ callbacks = [p \in Promise |-> <<>>] /\ queue = <<>>
      /\ registered = [p \in Promise |-> 0] /\ ran = [p \in Promise |-> <<>>]
      /\ stack = <<Pump(None, "drain"), User(None, None)>>
  BY DEF Init
<1>2. /\ Len(stack) = 2 /\ stack[1].kind = "pump" /\ stack[2].kind = "user"
  BY <1>1 DEF Pump, User
<1>3. \A i \in 1 .. 2 : stack[i].kind # "reactions"
  <2>1. \A i \in 1 .. 2 : i = 1 \/ i = 2  OBVIOUS
  <2> QED  BY <1>2, <2>1
<1>4. ASSUME NEW p \in Whole  PROVE PlacedOnce(p)
  <2>0. p \in Promise  BY DEF Whole
  <2>1. FramesOf(p) = {}  BY <1>2, <1>3 DEF FramesOf
  <2>2. \A s, cb : ~Keeps(p, s, cb)  BY <1>1, <2>0, <2>1 DEF Keeps
  <2>3. \A s, n : ~At(p, s, n)  BY <1>1, <2>0, <2>2 DEF At
  <2> QED  BY <1>1, <2>0, <2>3 DEF PlacedOnce
<1>5. ran \in [Promise -> Seq(Nat)]  BY <1>1
<1>6. JobInv  BY <1>1 DEF JobInv, Jobs
<1>7. ShapeInv
  BY <1>2, <1>3 DEF ShapeInv
<1> QED  BY <1>4, <1>5, <1>6, <1>7 DEF HistoryInv, PlaceInv

\* What is damaged stays so.
LEMMA NothingForgotten ==
  ASSUME [Next]_vars
  PROVE  Remembered
<1>1. CASE UserCode
  BY <1>1 DEF UserCode, Remembered, history, damage, New, Await, Then, Resolve, Reject, Return,
              Throw, ThrowLookup, EndLookup, QueueCallback, ThrowUncaught, ThrowToCaller,
              ThrowThroughReactions
<1>2. CASE Runtime \/ Event
  BY <1>2 DEF Runtime, Remembered, history, damage, RunJob, RunReaction, EndReactions,
              EndDrain, EndPoll, Event
<1>3. CASE UNCHANGED vars  BY <1>3 DEF Remembered, vars
<1> QED  BY <1>1, <1>2, <1>3 DEF Next

\* Every step keeps HistoryInv.
LEMMA HistoryStep ==
  ASSUME IInv, HistoryInv, [Next]_vars
  PROVE  HistoryInv'
<1>0. Remembered  BY NothingForgotten
<1>1. CASE \/ \E p \in Promise : New(p)
           \/ \E p, next \in Promise, f, r \in BOOLEAN : Then(p, f, r, next)
           \/ \E p \in Promise, v \in Value : Reject(p, v)
           \/ QueueCallback
           \/ UNCHANGED vars
  BY <1>0, <1>1, OperationsFile
<1>2. CASE (\E p \in Promise : Await(p)) \/ EndDrain \/ EndPoll \/ Event
  BY <1>0, <1>2, PumpsFile, Filed
<1>3. CASE \/ \E p \in Promise, v \in Resolution : Resolve(p, v)
           \/ (\E v \in Resolution : Return(v)) \/ \E v \in Value : Throw(v)
  BY <1>0, <1>3, CallsFile, Filed
<1>4. CASE EndLookup \/ ThrowToCaller \/ \E v \in Value : ThrowLookup(v)
  BY <1>0, <1>4, LookupsFile, Filed
<1>5. CASE ThrowUncaught \/ ThrowThroughReactions
  BY <1>0, <1>5, UnwoundFile, Filed
<1>6. CASE RunJob  BY <1>6, JobFiles
<1>7. CASE RunReaction  BY <1>7, ReactionFiles
<1>8. CASE EndReactions  BY <1>8, EndFiles
<1> QED  BY <1>1, <1>2, <1>3, <1>4, <1>5, <1>6, <1>7, <1>8 DEF Next, UserCode, Runtime

\* Each reaction is at one place, and older ones are where they run earlier.
THEOREM Placed == Spec => []HistoryInv
<1>1. IInv /\ HistoryInv /\ [Next]_vars => HistoryInv'  BY HistoryStep
<1> QED  BY Invariance, HistoryStarted, <1>1, PTL DEF Spec

------------------------------------------------------------------------------
(* What the places tell.                                                     *)

\* There are no more reactions than numbers for them.
LEMMA EnoughNumbers ==
  ASSUME NEW s \in Seq(Reaction), NEW m \in Nat,
         \A k \in 1 .. Len(s) : s[k].id \in 1 .. m,
         \A k, l \in 1 .. Len(s) : s[k].id = s[l].id => k = l
  PROVE  Len(s) <= m
<1> DEFINE f == [k \in 1 .. Len(s) |-> s[k].id]
<1> SUFFICES ASSUME Len(s) > m  PROVE FALSE
  OBVIOUS
<1>1. Len(s) \in Nat /\ f \in [1 .. Len(s) -> 1 .. m]  OBVIOUS
<1>2. /\ IsFiniteSet(1 .. Len(s)) /\ Cardinality(1 .. Len(s)) = Len(s)
      /\ IsFiniteSet(1 .. m) /\ Cardinality(1 .. m) = m
  <2>1. /\ IsFiniteSet(1 .. Len(s))
        /\ Cardinality(1 .. Len(s)) = IF 1 > Len(s) THEN 0 ELSE Len(s) - 1 + 1
    BY <1>1, FS_Interval
  <2>2. /\ IsFiniteSet(1 .. m) /\ Cardinality(1 .. m) = IF 1 > m THEN 0 ELSE m - 1 + 1
    BY FS_Interval
  <2> QED  BY <1>1, <2>1, <2>2
<1>3. \A k, l \in 1 .. Len(s) : f[k] = f[l] => k = l  OBVIOUS
<1> HIDE DEF f
<1> DEFINE S == 1 .. Len(s)  T == 1 .. m
<1>4. f \in [S -> T] /\ IsFiniteSet(S) /\ IsFiniteSet(T) /\ Cardinality(T) < Cardinality(S)
  BY <1>1, <1>2
<1>5. \A k, l \in S : f[k] = f[l] => k = l  BY <1>3
<1> HIDE DEF S, T
<1>6. \E k, l \in S : k # l /\ f[k] = f[l]  BY <1>4, FS_PigeonHole
<1> QED  BY <1>5, <1>6

\* Where the properties look for waiting reactions is where they are kept.
LEMMA WaitingPlaces ==
  ASSUME IInv, HistoryInv, NEW p \in Whole, NEW s, NEW n
  PROVE  s \in WaitingAt(p, n) <=> \E cb : Keeps(p, s, cb) /\ cb.id = n
<1>1. /\ PlacedOnce(p) /\ registered[p] \in Nat /\ stack \in Seq(Frame)
      /\ callbacks[p] \in Seq(Reaction) /\ queue \in Seq(Job)
  BY DEF IInv, PromiseType, HistoryInv, PlaceInv, Whole
<1>2. \A u, cb : Keeps(p, u, cb) => cb.id \in 1 .. registered[p]
  BY <1>1 DEF PlacedOnce, At
<1>3. ASSUME NEW u, NEW v, NEW c, NEW d, Keeps(p, u, c), Keeps(p, v, d), c.id = d.id
      PROVE  u = v
  <2>1. At(p, u, c.id) /\ At(p, v, c.id)  BY <1>3, Zenon DEF At
  <2>2. \A t, w, m : At(p, t, m) /\ At(p, w, m) => t = w  BY <1>1, Zenon DEF PlacedOnce
  <2> QED  BY ONLY <2>1, <2>2
<1>4. ASSUME NEW i \in FramesOf(p)
      PROVE  Len(stack[i].left) \in Nat /\ Len(stack[i].left) <= registered[p]
  <2>1. stack[i] \in Frame /\ stack[i].kind = "reactions"  BY <1>1, <1>4 DEF FramesOf
  <2>2. stack[i].left \in Seq(Reaction)  BY <2>1, FrameKinds
  <2>3. \A k \in 1 .. Len(stack[i].left) : Keeps(p, <<"frame", i, k>>, stack[i].left[k])
    BY <1>4 DEF Keeps
  <2>4. \A k \in 1 .. Len(stack[i].left) : stack[i].left[k].id \in 1 .. registered[p]
    BY <1>2, <2>3
  <2>5. \A k, l \in 1 .. Len(stack[i].left) :
           stack[i].left[k].id = stack[i].left[l].id => k = l
    <3> SUFFICES ASSUME NEW k \in 1 .. Len(stack[i].left), NEW l \in 1 .. Len(stack[i].left),
                        stack[i].left[k].id = stack[i].left[l].id
                 PROVE  k = l
      OBVIOUS
    <3>1. <<"frame", i, k>> = <<"frame", i, l>>  BY <1>3, <2>3
    <3> QED  BY <3>1
  <2> DEFINE q == stack[i].left  m == registered[p]
  <2>6. /\ q \in Seq(Reaction) /\ m \in Nat
        /\ \A k \in 1 .. Len(q) : q[k].id \in 1 .. m
        /\ \A k, l \in 1 .. Len(q) : q[k].id = q[l].id => k = l
    BY <1>1, <2>2, <2>4, <2>5
  <2> HIDE DEF q, m
  <2>7. Len(q) \in Nat /\ Len(q) <= m  BY <2>6, EnoughNumbers
  <2> QED  BY <2>7 DEF q, m
<1>5. ASSUME Runs(p) = {}
      PROVE  Len(callbacks[p]) \in Nat /\ Len(callbacks[p]) <= registered[p]
  <2>1. \A k \in 1 .. Len(callbacks[p]) : Keeps(p, <<"promise", 0, k>>, callbacks[p][k])
    BY <1>5 DEF Keeps
  <2>2. \A k \in 1 .. Len(callbacks[p]) : callbacks[p][k].id \in 1 .. registered[p]
    BY <1>2, <2>1
  <2>3. \A k, l \in 1 .. Len(callbacks[p]) : callbacks[p][k].id = callbacks[p][l].id => k = l
    <3> SUFFICES ASSUME NEW k \in 1 .. Len(callbacks[p]), NEW l \in 1 .. Len(callbacks[p]),
                        callbacks[p][k].id = callbacks[p][l].id
                 PROVE  k = l
      OBVIOUS
    <3>1. <<"promise", 0, k>> = <<"promise", 0, l>>  BY <1>3, <2>1
    <3> QED  BY <3>1
  <2> DEFINE q == callbacks[p]  m == registered[p]
  <2>4. /\ q \in Seq(Reaction) /\ m \in Nat
        /\ \A k \in 1 .. Len(q) : q[k].id \in 1 .. m
        /\ \A k, l \in 1 .. Len(q) : q[k].id = q[l].id => k = l
    BY <1>1, <2>2, <2>3
  <2> HIDE DEF q, m
  <2>5. Len(q) \in Nat /\ Len(q) <= m  BY <2>4, EnoughNumbers
  <2> QED  BY <2>5 DEF q, m
<1>6. Runs(p) = {} <=> \A i \in FramesOf(p) : ~stack[i].settles
  BY DEF Runs, FramesOf
<1>7. ASSUME NEW i \in FramesOf(p), NEW k \in Nat, s = <<"frame", i, k>>
      PROVE  Holds(p, s, n) <=> k <= Len(stack[i].left) /\ stack[i].left[k].id = n
  BY <1>7 DEF Holds
<1>8. ASSUME NEW i \in 1 .. Len(queue), s = <<"queue", i, 1>>
      PROVE  Holds(p, s, n) <=>
               queue[i].job = "reaction" /\ queue[i].promise = p /\ queue[i].cb.id = n
  BY <1>8 DEF Holds
<1>9. ASSUME NEW k \in Nat, s = <<"promise", 0, k>>
      PROVE  Holds(p, s, n) <=> /\ Runs(p) = {} /\ k <= Len(callbacks[p])
                                /\ callbacks[p][k].id = n
  BY <1>6, <1>9 DEF Holds
<1>10. ASSUME s \in WaitingAt(p, n)  PROVE \E cb : Keeps(p, s, cb) /\ cb.id = n
  <2>1. s \in Places(p) /\ Holds(p, s, n)  BY <1>10 DEF WaitingAt
  <2>2. ASSUME NEW i \in FramesOf(p), NEW k \in 1 .. registered[p], s = <<"frame", i, k>>
        PROVE  \E cb : Keeps(p, s, cb) /\ cb.id = n
    <3>1. k \in 1 .. Len(stack[i].left) /\ stack[i].left[k].id = n
      BY <1>1, <1>4, <1>7, <2>1, <2>2
    <3> QED  BY <2>2, <3>1 DEF Keeps
  <2>3. ASSUME NEW i \in 1 .. Len(queue), s = <<"queue", i, 1>>
        PROVE  \E cb : Keeps(p, s, cb) /\ cb.id = n
    <3>1. queue[i] = ReactionJob(p, queue[i].cb) /\ queue[i].cb.id = n
      <4>1. queue[i] \in Job  BY <1>1
      <4>2. queue[i].job = "reaction" /\ queue[i].promise = p /\ queue[i].cb.id = n
        BY <1>8, <2>1, <2>3
      <4> QED  BY <4>1, <4>2, ReactionJobs
    <3> QED  BY <2>3, <3>1 DEF Keeps
  <2>4. ASSUME NEW k \in 1 .. registered[p], s = <<"promise", 0, k>>
        PROVE  \E cb : Keeps(p, s, cb) /\ cb.id = n
    <3>1. Runs(p) = {} /\ k \in 1 .. Len(callbacks[p]) /\ callbacks[p][k].id = n
      BY <1>1, <1>5, <1>9, <2>1, <2>4
    <3> QED  BY <2>4, <3>1 DEF Keeps
  <2> QED  BY <2>1, <2>2, <2>3, <2>4 DEF Places
<1>11. ASSUME NEW cb, Keeps(p, s, cb), cb.id = n  PROVE s \in WaitingAt(p, n)
  <2>1. ASSUME NEW i \in FramesOf(p), NEW k \in 1 .. Len(stack[i].left),
               s = <<"frame", i, k>>, cb = stack[i].left[k]
        PROVE  s \in WaitingAt(p, n)
    <3>1. k \in 1 .. registered[p] /\ k \in Nat /\ k <= Len(stack[i].left)  BY <1>1, <1>4, <2>1
    <3>2. s \in Places(p)  BY <2>1, <3>1 DEF Places
    <3>3. Holds(p, s, n)  BY <1>7, <1>11, <2>1, <3>1
    <3> QED  BY <3>2, <3>3 DEF WaitingAt
  <2>2. ASSUME NEW i \in 1 .. Len(queue), s = <<"queue", i, 1>>, queue[i] = ReactionJob(p, cb)
        PROVE  s \in WaitingAt(p, n)
    <3>1. s \in Places(p)  BY <2>2 DEF Places
    <3>2. Holds(p, s, n)  BY <1>8, <1>11, <2>2 DEF ReactionJob
    <3> QED  BY <3>1, <3>2 DEF WaitingAt
  <2>3. ASSUME Runs(p) = {}, NEW k \in 1 .. Len(callbacks[p]),
               s = <<"promise", 0, k>>, cb = callbacks[p][k]
        PROVE  s \in WaitingAt(p, n)
    <3>1. k \in 1 .. registered[p] /\ k \in Nat /\ k <= Len(callbacks[p])  BY <1>1, <1>5, <2>3
    <3>2. s \in Places(p)  BY <2>3, <3>1 DEF Places
    <3>3. Holds(p, s, n)  BY <1>9, <1>11, <2>3, <3>1
    <3> QED  BY <3>2, <3>3 DEF WaitingAt
  <2> QED  BY <1>11, <2>1, <2>2, <2>3 DEF Keeps
<1> QED  BY <1>10, <1>11

\* A reaction runs once, and not while it waits.
LEMMA OnePlace ==
  ASSUME IInv, HistoryInv, NEW p \in Whole, NEW n \in 1 .. registered[p]
  PROVE  /\ TimesRan(p, n) + Cardinality(WaitingAt(p, n)) = 1
         /\ TimesRan(p, n) = 1 <=> \E i \in 1 .. Len(ran[p]) : ran[p][i] = n
<1> DEFINE R == {i \in 1 .. Len(ran[p]) : ran[p][i] = n}
           W == WaitingAt(p, n)
<1>1. /\ \E s : At(p, s, n)
      /\ \A s, t : At(p, s, n) /\ At(p, t, n) => s = t
  BY DEF HistoryInv, PlaceInv, PlacedOnce
<1>2. \A s : s \in W <=> \E cb : Keeps(p, s, cb) /\ cb.id = n  BY WaitingPlaces
<1> HIDE DEF W
<1>3. \A s : At(p, s, n) <=> s \in W \/ \E i \in R : s = <<"ran", i, 0>>
  BY <1>2 DEF At
<1>4. \A s \in W : s[1] # "ran"
  <2> SUFFICES ASSUME NEW s \in W  PROVE s[1] # "ran"
    OBVIOUS
  <2>1. PICK cb : Keeps(p, s, cb)  BY <1>2
  <2>2. s[1] \in {"frame", "queue", "promise"}  BY <2>1, PlaceKinds
  <2> QED  BY <2>2
<1> HIDE DEF R
<1>5. \A i, j \in R : i = j
  <2> SUFFICES ASSUME NEW i \in R, NEW j \in R  PROVE i = j
    OBVIOUS
  <2>1. <<"ran", i, 0>> = <<"ran", j, 0>>  BY <1>1, <1>3
  <2> QED  BY <2>1
<1>6. \A s, t \in W : s = t  BY <1>1, <1>3
<1>7. R = {} \/ W = {}
  <2> SUFFICES ASSUME NEW i \in R, NEW s \in W  PROVE FALSE
    OBVIOUS
  <2>1. s = <<"ran", i, 0>>  BY <1>1, <1>3
  <2> QED  BY <1>4, <2>1
<1>8. R # {} \/ W # {}  BY <1>1, <1>3
<1>9. /\ Cardinality(R) \in {0, 1} /\ (Cardinality(R) = 0 <=> R = {})
      /\ Cardinality(W) \in {0, 1} /\ (Cardinality(W) = 0 <=> W = {})
  BY <1>5, <1>6, AtMostOne
<1>10. TimesRan(p, n) = Cardinality(R)  BY DEF TimesRan, R
<1>11. R # {} <=> \E i \in 1 .. Len(ran[p]) : ran[p][i] = n  BY DEF R
<1> QED  BY <1>7, <1>8, <1>9, <1>10, <1>11 DEF W

\* A reaction is neither lost nor run twice.
THEOREM RunOnce == Spec => []ReactionsOnce
<1>1. IInv /\ HistoryInv => ReactionsOnce  BY OnePlace DEF ReactionsOnce, Whole
<1> QED  BY Invariance, Placed, <1>1, PTL

\* The reactions that are older than the one that runs have run or are suspended.
LEMMA OlderOnes ==
  ASSUME IInv, HistoryInv, NEW p, NEW cb, NEW n, NEW l, NEW rest, Takes(p, cb, n, l, rest), p \in Whole,
         NEW k \in 1 .. registered[p], k < cb.id
  PROVE  TimesRan(p, k) = 1 \/ k \in Suspended(p)
<1>1. /\ p \in Promise /\ n \in Nat /\ n > 0 /\ n = Len(stack) /\ stack[n] = Top
      /\ Top.kind = "reactions" /\ Top.promise = p /\ cb \in Reaction
      /\ l \in Nat /\ l > 0 /\ l = Len(Top.left) /\ Top.left[1] = cb
  BY DEF Takes
<1>2. /\ PlacedOnce(p) /\ JobInv /\ ShapeInv /\ OnItsWay /\ FrameInv /\ stack \in Seq(Frame)
      /\ registered[p] \in Nat /\ callbacks[p] \in Seq(Reaction)
  BY <1>1 DEF IInv, PromiseType, Orderly, HistoryInv, PlaceInv
<1>3. n \in FramesOf(p)  BY <1>1 DEF FramesOf
<1> DEFINE here == <<"frame", n, 1>>
<1>4. At(p, here, cb.id)
  <2>1. 1 \in 1 .. Len(stack[n].left)  BY <1>1
  <2>2. Keeps(p, here, cb)  BY <1>1, <1>3, <2>1 DEF Keeps
  <2> QED  BY <2>2 DEF At
<1>5. PICK s : At(p, s, k)  BY <1>2 DEF PlacedOnce
<1>6. cb.id \in Nat /\ k \in Nat /\ ~ cb.id < k  BY <1>1, <1>2 DEF Reaction
<1>7. ~Earlier(here, s)  BY <1>2, <1>4, <1>5, <1>6 DEF PlacedOnce
<1>8. CASE \E i \in 1 .. Len(ran[p]) : ran[p][i] = k  BY <1>1, <1>8, OnePlace
<1>9. ASSUME NEW i \in FramesOf(p), NEW x \in 1 .. Len(stack[i].left),
             s = <<"frame", i, x>>, stack[i].left[x].id = k
      PROVE  k \in Suspended(p)
  <2>1. i # n
    <3> SUFFICES ASSUME i = n  PROVE FALSE
      OBVIOUS
    <3>1. x \in Nat /\ x > 0  BY <1>1, <1>9
    <3>2. x # 1  BY <1>1, <1>6, <1>9
    <3>3. 1 < x  BY <3>1, <3>2
    <3> QED  BY <1>7, <1>9, <3>3, EarlierSpots
  <2>2. i \in 1 .. n - 1 /\ stack[i].kind = "reactions"  BY <1>1, <1>9, <2>1 DEF FramesOf
  <2>3. i \in 1 .. Len(stack) /\ n \in 1 .. Len(stack) /\ i < n  BY <1>1, <2>2
  <2>4. PICK w \in i + 1 .. n - 1 : stack[w].kind = "pump"  BY <1>1, <1>2, <2>2, <2>3 DEF ShapeInv
  <2>5. w \in 1 .. Len(stack) /\ w # 1 /\ w > i  BY <1>1, <2>3
  <2>6. w \in Awaits  BY <2>4, <2>5 DEF Awaits
  <2>7. i \in {f \in FramesOf(p) : \E a \in Awaits : a > f}  BY <1>9, <2>5, <2>6
  <2>8. k \in {stack[i].left[y].id : y \in 1 .. Len(stack[i].left)}  BY <1>9
  <2> QED  BY <2>7, <2>8 DEF Suspended
<1>10. ~(s[1] = "queue")  BY <1>7 DEF Earlier
<1>11. ASSUME Runs(p) = {}, NEW x \in 1 .. Len(callbacks[p])  PROVE FALSE
  <2>1. callbacks[p] # <<>>  BY <1>11
  <2>2. Settled(p)  BY <1>1, <1>2, <1>3 DEF FrameInv, FramesOf
  <2>3. Jobs(p) # {}  BY <1>1, <1>2, <1>11, <2>1, <2>2 DEF OnItsWay, Whole
  <2> QED  BY <1>1, <1>2, <1>3, <2>3 DEF JobInv
<1>12. ASSUME NEW c, Keeps(p, s, c), c.id = k  PROVE k \in Suspended(p)
  <2>1. s[1] # "queue"  BY <1>10
  <2> QED  BY <1>9, <1>11, <1>12, <2>1 DEF Keeps
<1> QED  BY <1>5, <1>8, <1>12 DEF At

\* Only RunReaction adds to what has run.
LEMMA OnlyReactionsRun ==
  ASSUME [Next]_vars
  PROVE  RunReaction \/ ran' = ran
BY DEF Next, UserCode, Runtime, vars, history, New, Await, Then, Resolve, Reject, Return, Throw,
       ThrowLookup, EndLookup, QueueCallback, ThrowUncaught, ThrowToCaller,
       ThrowThroughReactions, RunJob, EndReactions, EndDrain, EndPoll, Event

\* Reactions of one promise run in the order of their registration.
THEOREM InOrder == Spec => ReactionsInOrder
<1>1. ASSUME IInv, HistoryInv, HistoryInv', [Next]_vars
      PROVE  [\A p \in Promise \ (overwritten \cup cut) : Len(ran'[p]) > Len(ran[p]) =>
                \A n \in 1 .. ran'[p][Len(ran'[p])] - 1 :
                    TimesRan(p, n) = 1 \/ n \in Suspended(p)]_vars
  <2> SUFFICES ASSUME NEW q \in Whole, Len(ran'[q]) > Len(ran[q]),
                      NEW k \in 1 .. ran'[q][Len(ran'[q])] - 1
               PROVE  TimesRan(q, k) = 1 \/ k \in Suspended(q)
    BY DEF Whole
  <2>0. q \in Promise  BY DEF Whole
  <2>1. ran \in [Promise -> Seq(Nat)] /\ PlaceInv'  BY <1>1 DEF HistoryInv
  <2>2. ran' # ran
    <3>1. Len(ran[q]) \in Nat  BY <2>0, <2>1
    <3> QED  BY <3>1
  <2>3. PICK p, cb, n, l, rest : Takes(p, cb, n, l, rest)
    BY <1>1, <2>2, OnlyReactionsRun, ReactionTaken
  <2>4. /\ p \in Promise /\ cb.id \in Nat /\ ran' = [ran EXCEPT ![p] = Append(@, cb.id)]
        /\ n = Len(stack) /\ stack[n] = Top /\ l = Len(Top.left) /\ Top.left[1] = cb
        /\ l \in Nat /\ l > 0 /\ n \in Nat /\ n > 0
        /\ Top.kind = "reactions" /\ Top.promise = p
    BY <2>3 DEF Takes, Reaction
  <2>5. q = p
    <3> SUFFICES ASSUME q # p  PROVE FALSE
      OBVIOUS
    <3>1. ran'[q] = ran[q] /\ Len(ran[q]) \in Nat  BY <2>0, <2>1, <2>4
    <3> QED  BY <3>1
  <2>6. ran'[p][Len(ran'[p])] = cb.id
    <3> DEFINE a == ran[p]
    <3>1. a \in Seq(Nat) /\ ran'[p] = Append(a, cb.id)  BY <2>1, <2>4
    <3> HIDE DEF a
    <3>2. /\ Len(Append(a, cb.id)) = Len(a) + 1 /\ Append(a, cb.id)[Len(a) + 1] = cb.id
      BY <2>4, <3>1, AppendProperties
    <3> QED  BY <3>1, <3>2
  <2>7. cb.id \in 1 .. registered[p]
    <3>1. n \in FramesOf(p) /\ 1 \in 1 .. Len(stack[n].left)  BY <2>4 DEF FramesOf
    <3>2. Keeps(p, <<"frame", n, 1>>, cb)  BY <2>4, <3>1 DEF Keeps
    <3>3. At(p, <<"frame", n, 1>>, cb.id)  BY <3>2 DEF At
    <3> QED  BY <1>1, <2>4, <2>5, <3>3 DEF HistoryInv, PlaceInv, PlacedOnce
  <2>8. k \in 1 .. registered[p] /\ k < cb.id
    <3>1. registered[p] \in Nat  BY <1>1, <2>4 DEF IInv, PromiseType
    <3> QED  BY <2>4, <2>5, <2>6, <2>7, <3>1
  <2> QED  BY <1>1, <2>3, <2>5, <2>8, OlderOnes
<1>2. IInv /\ HistoryInv /\ [Next]_vars => HistoryInv'  BY HistoryStep
<1> QED  BY Invariance, Placed, <1>1, <1>2, PTL DEF Spec, ReactionsInOrder


------------------------------------------------------------------------------
(* Adoption.                                                                 *)

\* No lookup and no exception has done damage to any promise.
Undamaged == overwritten = {} /\ cut = {}

\* The functions whose results, or whose exceptions, settle p; the lookups and
\* the queued calls of a "then" for it.
Answers(p)  == {i \in 1 .. Len(stack) : stack[i].kind = "user" /\ stack[i].returns = p}
Throwers(p) == {i \in 1 .. Len(stack) : stack[i].kind = "user" /\ stack[i].throws = p}
Lookups(p)  == {i \in 1 .. Len(stack) : stack[i].kind = "lookup" /\ stack[i].promise = p}
Thens(p)    == {i \in 1 .. Len(queue) : queue[i] = ThenableJob(p)}

\* Reaction cb of q is still to run, and settles p.
Feeds(q, cb, p) == q \in Promise /\ cb.next = p /\ \E s : Keeps(q, s, cb)

\* All that is to settle p, or to hand out its resolving functions.
Claims(p, a) == \/ \E i \in Answers(p) : a = <<"answer", i, 0>>
                \/ \E i \in Lookups(p) : a = <<"lookup", i, 0>>
                \/ \E i \in Thens(p) : a = <<"thenable", i, 0>>
                \/ \E q, c : Feeds(q, c, p) /\ a = <<"reaction", q, c.id>>

\* One thing at most settles a promise that user code has not resolved: those who
\* hold its resolving functions, or one of the above.
Unresolved(p) ==
  /\ \A a : Claims(p, a) => state[p] = "pending" /\ p \notin resolvers
  /\ \A a, b : Claims(p, a) /\ Claims(p, b) => a = b
  /\ p \in resolvers => state[p] = "pending"

\* Reactions and lookups for a promise that was resolved with another one come
\* from that one, if nobody settles it again.
Follows(p) ==
  first[p] \in Promise \ {p} /\ p \notin again =>
      /\ Adopts(p)
      /\ \A q, c : Feeds(q, c, p) => q = first[p]
      /\ \A i \in Lookups(p) : \/ stack[i].of = first[p]
                               \/ stack[i].of = Object /\ value[first[p]] = Object

HeadsOf(p) ==
  /\ first[p] = None => Unresolved(p)
  /\ state[p] = "unused" => first[p] = None /\ Throwers(p) = {}
  /\ Follows(p)

HeadInv == /\ first \in [Promise -> Resolution \cup {None}]
           /\ \A p \in Promise : HeadsOf(p)

\* What user code asks for is not None.
LEMMA NotNone ==
  /\ \A v \in Resolution : v # None
  /\ \A v \in Value : v \in Resolution /\ v \notin Promise /\ v \in Outcome
  /\ \A v \in Outcome : v \notin Promise /\ v # None
  /\ Object \notin Promise /\ Object # None
BY PromiseAssumption DEF Resolution, Outcome

\* Settled promises stay as they are.
Lasting == \A p \in Promise : Settled(p) => Stays(p)

\* Without damage they do, and all promises are whole.
LEMMA WithoutDamage ==
  ASSUME Undamaged', Remembered, Final
  PROVE  Undamaged /\ Whole' = Promise /\ Whole = Promise /\ Lasting
BY DEF Undamaged, Remembered, Final, Lasting, Whole

\* Reactions that are kept have been kept before.
NoneNew == \A q \in Promise : \A s, c : Keeps(q, s, c)' => \E t : Keeps(q, t, c)

\* Or it is the one that is registered on p.
OneNew(p, new) == \A q \in Promise : \A s, c :
    Keeps(q, s, c)' => (\E t : Keeps(q, t, c)) \/ (q = p /\ c = new)

\* Lookups have been there before, or it is this one.
OldLookups(f) == \A i \in 1 .. Len(stack') : stack'[i].kind = "lookup" =>
    (i \in 1 .. Len(stack) /\ stack'[i] = stack[i]) \/ stack'[i] = f

\* The queued calls of a "then" for y may have moved up.
OldThens(y) == \E d \in {0, 1} : \A i \in Thens(y)' : i + d \in Thens(y)

\* Nothing comes up that is to settle y.
Unclaimed(y) ==
  /\ \A q, c : Feeds(q, c, y)' => Feeds(q, c, y)
  /\ Answers(y)' \subseteq Answers(y)
  /\ \A i \in Lookups(y)' : i \in Lookups(y) /\ stack'[i] = stack[i]
  /\ OldThens(y)

\* Then there is still one claim at most.
LEMMA SameClaims ==
  ASSUME NEW p, Unclaimed(p), \A a, b : Claims(p, a) /\ Claims(p, b) => a = b
  PROVE  /\ \A a : Claims(p, a)' => \E b : Claims(p, b)
         /\ \A a, b : Claims(p, a)' /\ Claims(p, b)' => a = b
<1>1. PICK d \in {0, 1} : \A i \in Thens(p)' : i + d \in Thens(p)
  BY DEF Unclaimed, OldThens
<1> DEFINE Was(a) == <<a[1], IF a[1] = "thenable" THEN a[2] + d ELSE a[2], a[3]>>
<1>2. \A i \in Thens(p)' : i \in Nat  BY DEF Thens
<1>3. ASSUME NEW a, Claims(p, a)'
      PROVE  /\ Claims(p, Was(a)) /\ a = <<a[1], a[2], a[3]>>
             /\ a[1] = "thenable" => a[2] \in Nat
  <2>1. ASSUME NEW i \in Answers(p)', a = <<"answer", i, 0>>
        PROVE  Claims(p, Was(a)) /\ a = <<a[1], a[2], a[3]>> /\ a[1] # "thenable"
    <3>1. i \in Answers(p) /\ Was(a) = <<"answer", i, 0>>  BY <2>1 DEF Unclaimed
    <3> HIDE DEF Was
    <3> QED  BY <2>1, <3>1 DEF Claims
  <2>2. ASSUME NEW i \in Lookups(p)', a = <<"lookup", i, 0>>
        PROVE  Claims(p, Was(a)) /\ a = <<a[1], a[2], a[3]>> /\ a[1] # "thenable"
    <3>1. i \in Lookups(p) /\ Was(a) = <<"lookup", i, 0>>  BY <2>2 DEF Unclaimed
    <3> HIDE DEF Was
    <3> QED  BY <2>2, <3>1 DEF Claims
  <2>3. ASSUME NEW i \in Thens(p)', a = <<"thenable", i, 0>>
        PROVE  Claims(p, Was(a)) /\ a = <<a[1], a[2], a[3]>> /\ a[2] \in Nat
    <3>1. i + d \in Thens(p) /\ Was(a) = <<"thenable", i + d, 0>>  BY <1>1, <2>3
    <3> HIDE DEF Was
    <3> QED  BY <1>2, <2>3, <3>1 DEF Claims
  <2>4. ASSUME NEW q, NEW c, Feeds(q, c, p)', a = <<"reaction", q, c.id>>
        PROVE  Claims(p, Was(a)) /\ a = <<a[1], a[2], a[3]>> /\ a[1] # "thenable"
    <3>1. Feeds(q, c, p) /\ Was(a) = <<"reaction", q, c.id>>  BY <2>4 DEF Unclaimed
    <3> HIDE DEF Was
    <3> QED  BY <2>4, <3>1 DEF Claims
  <2> HIDE DEF Was
  <2> QED  BY <1>3, <2>1, <2>2, <2>3, <2>4 DEF Claims
<1>4. ASSUME NEW a, NEW b, Claims(p, a)', Claims(p, b)'  PROVE a = b
  <2>1. Was(a) = Was(b)
    <3> HIDE DEF Was
    <3> QED  BY <1>3, <1>4
  <2>2. a[1] = b[1] /\ a[3] = b[3]  BY <2>1
  <2>3. a[2] = b[2]
    <3>1. (IF a[1] = "thenable" THEN a[2] + d ELSE a[2])
            = (IF b[1] = "thenable" THEN b[2] + d ELSE b[2])
      BY <2>1
    <3>2. /\ a[1] = "thenable" => a[2] \in Nat
          /\ b[1] = "thenable" => b[2] \in Nat
      BY <1>3, <1>4
    <3> QED  BY <2>2, <3>1, <3>2
  <2>4. a = <<a[1], a[2], a[3]>> /\ b = <<b[1], b[2], b[3]>>  BY <1>3, <1>4
  <2> QED  BY <2>2, <2>3, <2>4
<1> HIDE DEF Was
<1> QED  BY <1>3, <1>4

\* A promise that was adopted stays so.
LEMMA StillAdopts ==
  ASSUME IInv, Lasting, NEW p \in Promise, first'[p] = first[p], first[p] \in Promise \ {p}
  PROVE  /\ value[first[p]] = Object => value'[first[p]] = Object
         /\ Adopts(p) /\ state'[p] = state[p] => Adopts(p)'
<1> DEFINE q == first[p]
<1>1. value[q] = Object => Settled(q) /\ value'[q] = Object
  <2>1. value[q] = Object => Settled(q)  BY NotNone DEF IInv, PromiseType
  <2> QED  BY <2>1 DEF Lasting, Stays
<1>2. ASSUME Adopts(p), state'[p] = state[p], Settled(p)'
      PROVE  (state'[q] = state'[p] /\ value'[q] = value'[p]) \/ value'[q] = Object
  <2>1. Settled(p) /\ state'[p] = state[p] /\ value'[p] = value[p]
    BY <1>2 DEF Settled, Lasting, Stays
  <2>2. (state[q] = state[p] /\ value[q] = value[p]) \/ value[q] = Object
    BY <1>2, <2>1 DEF Adopts
  <2>3. ASSUME state[q] = state[p] /\ value[q] = value[p]
        PROVE  state'[q] = state'[p] /\ value'[q] = value'[p]
    <3>1. Settled(q)  BY <2>1, <2>3 DEF Settled
    <3> QED  BY <2>1, <2>3, <3>1 DEF Lasting, Stays
  <2> QED  BY <1>1, <2>2, <2>3
<1>3. Adopts(p) /\ state'[p] = state[p] => Adopts(p)'  BY <1>2 DEF Adopts
<1> QED  BY <1>1, <1>3

\* A step that has nothing to do with p.
LEMMA Uninvolved ==
  ASSUME IInv, Lasting, HeadInv, NEW p \in Promise, Unclaimed(p),
         first'[p] = first[p], p \in again => p \in again', state'[p] = state[p],
         first[p] = None => (p \in resolvers' => p \in resolvers),
         state[p] = "unused" => Throwers(p)' \subseteq Throwers(p)
  PROVE  HeadsOf(p)'
<1>0. HeadsOf(p)  BY DEF HeadInv
<1>1. ASSUME first[p] = None  PROVE Unresolved(p)'
  <2>1. Unresolved(p)  BY <1>0, <1>1 DEF HeadsOf
  <2>2. /\ \A a : Claims(p, a)' => \E b : Claims(p, b)
        /\ \A a, b : Claims(p, a)' /\ Claims(p, b)' => a = b
    BY <2>1, SameClaims DEF Unresolved
  <2>3. p \in resolvers' => p \in resolvers  BY <1>1
  <2> QED  BY <2>1, <2>2, <2>3 DEF Unresolved
<1>2. Follows(p)'
  <2> SUFFICES ASSUME first[p] \in Promise \ {p}, p \notin again'
               PROVE  /\ Adopts(p)' /\ \A q, c : Feeds(q, c, p)' => q = first[p]
                      /\ \A i \in Lookups(p)' :
                            \/ stack'[i].of = first[p]
                            \/ stack'[i].of = Object /\ value'[first[p]] = Object
    BY DEF Follows
  <2>1. /\ Adopts(p) /\ \A q, c : Feeds(q, c, p) => q = first[p]
        /\ \A i \in Lookups(p) : \/ stack[i].of = first[p]
                                 \/ stack[i].of = Object /\ value[first[p]] = Object
    BY <1>0 DEF HeadsOf, Follows
  <2>2. /\ Adopts(p)'
        /\ value[first[p]] = Object => value'[first[p]] = Object
    BY <2>1, StillAdopts
  <2> QED  BY <2>1, <2>2 DEF Unclaimed
<1> QED  BY <1>0, <1>1, <1>2 DEF HeadsOf

\* Functions of the past do not answer for other promises now.
LEMMA OldAnswers ==
  ASSUME OldFunctions, NEW p \in Promise
  PROVE  Answers(p)' \subseteq Answers(p) /\ Throwers(p)' \subseteq Throwers(p)
<1>1. User(None, None).returns # p /\ User(None, None).throws # p
  BY PromiseAssumption DEF User
<1> QED  BY <1>1 DEF OldFunctions, Answers, Throwers

\* Nothing is fed that was not.
LEMMA OldFeeds ==
  ASSUME NoneNew, NEW q, NEW c, NEW p, Feeds(q, c, p)'
  PROVE  Feeds(q, c, p)
BY DEF NoneNew, Feeds

\* Lookups for others do not concern p.
LEMMA OtherLookups ==
  ASSUME NEW p, NEW f, OldLookups(f), f.kind = "lookup" => f.promise # p,
         NEW i \in Lookups(p)'
  PROVE  i \in Lookups(p) /\ stack'[i] = stack[i]
BY DEF OldLookups, Lookups

\* What happens to the lookups when a frame is pushed or exchanged, and when some
\* are taken off.
LEMMA LookupFrames ==
  ASSUME stack \in Seq(Frame), NEW f \in Frame,
         \/ stack' = stack
         \/ \E n \in 0 .. Len(stack) : stack' = SubSeq(stack, 1, n)
         \/ stack' = Append(stack, f)
         \/ stack # <<>> /\ (stack' = Below \/ stack' = Append(Below, f))
  PROVE  OldLookups(f)
<1>0. Len(stack) \in Nat  OBVIOUS
<1>1. CASE stack' = stack  BY <1>1 DEF OldLookups
<1>2. ASSUME NEW n \in 0 .. Len(stack), stack' = SubSeq(stack, 1, n)  PROVE OldLookups(f)
  <2>1. Len(stack') = n /\ \A i \in 1 .. n : stack'[i] = stack[i]  BY <1>2, FramesCut
  <2>2. \A i \in 1 .. n : i \in 1 .. Len(stack)  BY <1>0
  <2> QED  BY <2>1, <2>2 DEF OldLookups
<1>3. CASE stack' = Append(stack, f)
  <2>1. /\ Len(stack') = Len(stack) + 1 /\ stack'[Len(stack) + 1] = f
        /\ \A i \in 1 .. Len(stack) : stack'[i] = stack[i]
    BY <1>3, FramePushed
  <2>2. \A i \in 1 .. Len(stack) + 1 : i \in 1 .. Len(stack) \/ i = Len(stack) + 1
    BY <1>0
  <2> QED  BY <2>1, <2>2 DEF OldLookups
<1>4. CASE stack # <<>> /\ stack' = Append(Below, f)
  <2>1. /\ Len(stack') = Len(stack) /\ stack'[Len(stack)] = f
        /\ \A i \in 1 .. Len(stack) - 1 : stack'[i] = stack[i]
    BY <1>4, FrameExchanged
  <2>2. \A i \in 1 .. Len(stack) : i \in 1 .. Len(stack) - 1 \/ i = Len(stack)
    BY <1>0
  <2> QED  BY <2>1, <2>2 DEF OldLookups
<1>5. CASE stack # <<>> /\ stack' = Below
  <2> DEFINE n == Len(stack) - 1
  <2>1. n \in 0 .. Len(stack) /\ stack' = SubSeq(stack, 1, n)  BY <1>5, TopFrame DEF Below
  <2> QED  BY <1>2, <2>1
<1> QED  BY <1>1, <1>2, <1>3, <1>4, <1>5

\* A job is queued that is not ThenableJob(y).
LEMMA OtherJob ==
  ASSUME queue \in Seq(Job), NEW y, NEW j \in Job, j # ThenableJob(y),
         queue' = queue \/ queue' = Append(queue, j)
  PROVE  Thens(y)' \subseteq Thens(y) /\ OldThens(y)
<1>1. ThenableJob(y)' = ThenableJob(y)  BY DEF ThenableJob
<1>2. Thens(y)' \subseteq Thens(y)
  <2>1. CASE queue' = queue  BY <1>1, <2>1 DEF Thens
  <2>2. CASE queue' = Append(queue, j)
    <3>1. /\ Len(queue) \in Nat /\ Len(queue') = Len(queue) + 1
          /\ \A i \in 1 .. Len(queue) : queue'[i] = queue[i]
          /\ queue'[Len(queue) + 1] = j
      BY <2>2, AppendProperties
    <3>2. \A i \in 1 .. Len(queue') : i \in 1 .. Len(queue) \/ i = Len(queue) + 1
      BY <3>1
    <3> QED  BY <1>1, <3>1, <3>2 DEF Thens
  <2> QED  BY <2>1, <2>2
<1>3. \A i \in Thens(y)' : i + 0 \in Thens(y)  BY <1>2 DEF Thens
<1> QED  BY <1>2, <1>3 DEF OldThens

\* The reactions of an operation.
LEMMA Gathered ==
  ASSUME IInv, SameFrames, Whole' = Promise
  PROVE  /\ Unregistered => NoneNew
         /\ \A p \in Promise : \A new : RegisteredOn(p, new) => OneNew(p, new)
<1>1. queue \in Seq(Job)  BY DEF IInv, PromiseType
<1>2. Unregistered => NoneNew  BY <1>1, QuietKeeps DEF NoneNew
<1>3. ASSUME NEW p \in Promise, NEW new, RegisteredOn(p, new)  PROVE OneNew(p, new)
  <2>0. /\ \A q \in Promise \ {p} : \A s, cb : Keeps(q, s, cb)' <=> Keeps(q, s, cb)
        /\ \E s0 :
             /\ s0[1] \in {"queue", "promise"} /\ ~Earlier(s0, s0)
             /\ \A s, cb : Keeps(p, s, cb)' <=> Keeps(p, s, cb) \/ (s = s0 /\ cb = new)
             /\ \A s, cb : Keeps(p, s, cb) => s # s0 /\ ~Earlier(s0, s)
    BY <1>3, NewPlace
  <2>1. \E s0 : \A s, cb : Keeps(p, s, cb)' <=> Keeps(p, s, cb) \/ (s = s0 /\ cb = new)
    BY <2>0
  <2>2. ASSUME NEW q \in Promise, NEW s, NEW c, Keeps(q, s, c)'
        PROVE  (\E t : Keeps(q, t, c)) \/ (q = p /\ c = new)
    <3>1. CASE q = p  BY <2>1, <2>2, <3>1
    <3>2. CASE q # p  BY <2>0, <2>2, <3>2
    <3> QED  BY <3>1, <3>2
  <2> QED  BY <2>2 DEF OneNew
<1> QED  BY <1>2, <1>3

\* Steps with which user code asks nothing of promises.
LEMMA NothingAsked ==
  ASSUME IInv, Lasting, HeadInv, OldFunctions, NoneNew, OldLookups(User(None, None)),
         UNCHANGED <<state, first, again, resolvers>>, \A p \in Promise : OldThens(p)
  PROVE  HeadInv'
<1>0. User(None, None).kind = "user"  BY DEF User
<1>1. ASSUME NEW p \in Promise  PROVE HeadsOf(p)'
  <2>1. Answers(p)' \subseteq Answers(p) /\ Throwers(p)' \subseteq Throwers(p)
    BY OldAnswers
  <2>2. \A q, c : Feeds(q, c, p)' => Feeds(q, c, p)  BY OldFeeds
  <2>3. \A i \in Lookups(p)' : i \in Lookups(p) /\ stack'[i] = stack[i]
    BY <1>0, OtherLookups
  <2>4. Unclaimed(p)  BY <2>1, <2>2, <2>3 DEF Unclaimed
  <2> QED  BY <2>1, <2>4, Uninvolved
<1> QED  BY <1>1 DEF HeadInv

\* What resolving or rejecting x with v comes to.
Effects(x, v) ==
  /\ \A y \in Promise \ {x} : state'[y] = state[y]
  /\ \A y \in Promise : OldThens(y)
  /\ \/ state'[x] = state[x]
     \/ /\ state[x] = "pending" /\ state'[x] \in {"fulfilled", "rejected"}
        /\ v \notin Promise \ {x}
  /\ \/ Unregistered
     \/ /\ state[x] = "pending" /\ v \in Promise \ {x} /\ state'[x] = state[x]
        /\ \E new : new.next = x /\ RegisteredOn(v, new)

\* A settled promise,
LEMMA SettleEffects ==
  ASSUME PromiseType, NEW x \in Promise, NEW v, NEW o, NEW how \in {"fulfilled", "rejected"},
         state[x] = "pending", v \notin Promise \ {x}, Settle(x, how, o)
  PROVE  Effects(x, v) /\ state'[x] = how /\ value'[x] = o
<1>1. /\ state' = [state EXCEPT ![x] = how] /\ value' = [value EXCEPT ![x] = o]
      /\ queue' = Append(queue, SettleJob(x)) /\ queue \in Seq(Job)
      /\ state \in [Promise -> {"unused", "pending", "fulfilled", "rejected"}]
      /\ value \in [Promise -> Outcome \cup {None}]
  BY DEF Settle, PromiseType
<1>2. SettleJob(x) \in Job /\ SettleJob(x).job = "settle"  BY DEF SettleJob, Job
<1>3. \A y : SettleJob(x) # ThenableJob(y)
  <2>1. \A y : ThenableJob(y).job = "thenable"  BY DEF ThenableJob
  <2> QED  BY <1>2, <2>1
<1>4. \A y \in Promise : OldThens(y)  BY <1>1, <1>2, <1>3, OtherJob
<1>5. Unregistered  BY SettleFiles
<1> QED  BY <1>1, <1>4, <1>5 DEF Effects

\* a promise left alone,
LEMMA NoEffects ==
  ASSUME PromiseType, NEW x \in Promise, NEW v, UNCHANGED <<promiseVars, queue, registered>>
  PROVE  Effects(x, v) /\ state' = state
<1>1. state' = state /\ queue' = queue /\ queue \in Seq(Job)  BY DEF promiseVars, PromiseType
<1>2. CallbackJob \in Job /\ \A y : CallbackJob # ThenableJob(y)
  BY DEF CallbackJob, ThenableJob, Job
<1>3. \A y \in Promise : OldThens(y)  BY <1>1, <1>2, OtherJob
<1>4. Unregistered  BY SettleFiles
<1> QED  BY <1>1, <1>3, <1>4 DEF Effects

\* ts_promise_reject_internal,
LEMMA RejectEffects ==
  ASSUME PromiseType, NEW x \in Promise, NEW v, v \notin Promise \ {x}, NEW o,
         RejectInternal(x, o)
  PROVE  /\ Effects(x, v)
         /\ \/ state'[x] = state[x]
            \/ state[x] = "pending" /\ state'[x] = "rejected" /\ value'[x] = o
BY SettleEffects, NoEffects DEF RejectInternal

\* a reaction that is registered,
LEMMA RegisterEffects ==
  ASSUME PromiseType, NEW q \in Promise, NEW x \in Promise, NEW f \in BOOLEAN,
         NEW r \in BOOLEAN, Register(q, f, r, x)
  PROVE  /\ \E new : new.next = x /\ RegisteredOn(q, new)
         /\ \A y : OldThens(y) /\ Thens(y)' \subseteq Thens(y)
<1> DEFINE new == NextReaction(q, f, r, x)
<1>1. RegisteredOn(q, new)  BY RegisterFiles
<1>2. new.next = x  BY DEF NextReaction
<1>3. /\ new \in Reaction
      /\ queue' = queue \/ queue' = Append(queue, ReactionJob(q, new))
  BY <1>1 DEF RegisteredOn
<1> HIDE DEF new
<1>4. ReactionJob(q, new) \in Job /\ ReactionJob(q, new).job = "reaction"
  BY <1>3 DEF ReactionJob, Job
<1>5. \A y : ReactionJob(q, new) # ThenableJob(y)
  <2>1. \A y : ThenableJob(y).job = "thenable"  BY DEF ThenableJob
  <2> QED  BY <1>4, <2>1
<1>6. \A y : OldThens(y) /\ Thens(y)' \subseteq Thens(y)
  BY <1>3, <1>4, <1>5, OtherJob DEF PromiseType
<1> QED  BY <1>1, <1>2, <1>6

\* ts_promise_resolve_internal.
LEMMA ResolveEffects ==
  ASSUME PromiseType, NEW x \in Promise, NEW v, NEW rest, ResolveInternal(x, v, rest)
  PROVE  /\ Effects(x, v)
         /\ \/ stack' = rest
            \/ /\ stack' = Append(rest, Lookup(x, v)) /\ Lookup(x, v) \in Frame
               /\ state[x] = "pending" /\ state' = state
         /\ v \in Outcome =>
               \/ state'[x] = state[x]
               \/ /\ state[x] = "pending" /\ state'[x] = "fulfilled" /\ value'[x] = v
                  /\ stack' = rest
<1>1. CASE state[x] # "pending"  BY <1>1, NoEffects DEF ResolveInternal
<1>2. CASE state[x] = "pending"
  <2>1. CASE v = x /\ RejectInternal(x, CycleError) /\ stack' = rest
    BY <2>1, NotNone, RejectEffects
  <2>2. CASE /\ v \in Promise \ (Derived \cup {x}) /\ Register(v, FALSE, FALSE, x)
             /\ UNCHANGED state /\ stack' = rest
    <3>1. PICK new : new.next = x /\ RegisteredOn(v, new)  BY <2>2, RegisterEffects
    <3>2. \A y : OldThens(y)  BY <2>2, RegisterEffects
    <3> QED  BY <1>2, <2>2, <3>1, <3>2, NotNone DEF Effects
  <2>3. CASE /\ v \in (Derived \cup {Object}) \ {x}
             /\ stack' = Append(rest, Lookup(x, v))
             /\ UNCHANGED <<promiseVars, queue, registered>>
    <3>1. Lookup(x, v) \in Frame  BY <2>3 DEF Lookup, Frame
    <3> QED  BY <1>2, <2>3, <3>1, NoEffects
  <2>4. CASE v \in Outcome \ {Object} /\ Settle(x, "fulfilled", v) /\ stack' = rest
    <3>1. v \notin Promise \ {x}  BY <2>4, NotNone
    <3> QED  BY <1>2, <2>4, <3>1, SettleEffects
  <2> QED  BY <1>2, <2>1, <2>2, <2>3, <2>4 DEF ResolveInternal
<1> QED  BY <1>1, <1>2

\* User code settles x, for the first time or not.
LEMMA UserAsks ==
  ASSUME IInv, Lasting, Whole' = Promise, HeadInv, OldFunctions, SameFrames,
         UNCHANGED resolvers,
         NEW x \in Promise, NEW v \in Resolution, Effects(x, v), Remember(x, v),
         OldLookups(Lookup(x, v)),
         state[x] = "pending" \/ OldLookups(User(None, None)),
         state[x] # "unused",
         first[x] = None /\ v \in Promise \ {x} =>
             state[x] = "pending" /\ (\A q, c : ~Feeds(q, c, x)) /\ Lookups(x) = {}
  PROVE  HeadInv'
<1>1. /\ first \in [Promise -> Resolution \cup {None}] /\ HeadsOf(x)
      /\ state \in [Promise -> {"unused", "pending", "fulfilled", "rejected"}]
  BY DEF HeadInv, IInv, PromiseType
<1>2. first' \in [Promise -> Resolution \cup {None}]
  BY <1>1 DEF Remember
<1>3. /\ \A y \in Promise \ {x} : first'[y] = first[y]
      /\ first'[x] = (IF first[x] = None THEN v ELSE first[x]) /\ v # None
      /\ again \subseteq again'
  BY <1>1, NotNone DEF Remember
<1>4. /\ Lookup(x, v).promise = x /\ Lookup(x, v).of = v
      /\ User(None, None).kind = "user"
  BY DEF Lookup, User
<1>5. ASSUME NEW y \in Promise \ {x}  PROVE HeadsOf(y)'
  <2>1. \A q, c : Feeds(q, c, y)' => Feeds(q, c, y)
    <3>1. CASE Unregistered  BY <3>1, Gathered, OldFeeds
    <3>2. ASSUME NEW new, new.next = x, RegisteredOn(v, new), v \in Promise
          PROVE  \A q, c : Feeds(q, c, y)' => Feeds(q, c, y)
      <4>1. OneNew(v, new)  BY <3>2, Gathered
      <4> QED  BY <3>2, <4>1 DEF OneNew, Feeds
    <3> QED  BY <3>1, <3>2 DEF Effects
  <2>2. Answers(y)' \subseteq Answers(y) /\ Throwers(y)' \subseteq Throwers(y)
    BY OldAnswers
  <2>3. \A i \in Lookups(y)' : i \in Lookups(y) /\ stack'[i] = stack[i]
    BY <1>4, OtherLookups
  <2>4. OldThens(y) /\ state'[y] = state[y]  BY DEF Effects
  <2>5. Unclaimed(y)  BY <2>1, <2>2, <2>3, <2>4 DEF Unclaimed
  <2> QED  BY <1>3, <2>2, <2>4, <2>5, Uninvolved
<1>6. state'[x] # "unused"  BY DEF Effects
<1>7. first'[x] # None  BY <1>3
<1>8. Follows(x)'
  <2> SUFFICES ASSUME first'[x] \in Promise \ {x}, x \notin again'
               PROVE  /\ Adopts(x)' /\ \A q, c : Feeds(q, c, x)' => q = first'[x]
                      /\ \A i \in Lookups(x)' :
                            \/ stack'[i].of = first'[x]
                            \/ stack'[i].of = Object /\ value'[first'[x]] = Object
    BY DEF Follows
  <2>1. CASE first[x] = None
    <3>1. /\ v \in Promise \ {x} /\ first'[x] = v /\ state[x] = "pending"
          /\ (\A q, c : ~Feeds(q, c, x)) /\ Lookups(x) = {}
      BY <1>3, <2>1
    <3>2. state'[x] = "pending"  BY <3>1 DEF Effects
    <3>3. Adopts(x)'  BY <3>2 DEF Adopts, Settled
    <3>4. Unregistered => \A q, c : ~Feeds(q, c, x)'  BY <3>1, Gathered, OldFeeds
    <3>5. ASSUME NEW new, RegisteredOn(v, new)
          PROVE  \A q, c : Feeds(q, c, x)' => q = v
      <4>1. OneNew(v, new)  BY <3>1, <3>5, Gathered
      <4> QED  BY <3>1, <4>1 DEF OneNew, Feeds
    <3>6. \A i \in Lookups(x)' : stack'[i].of = v
      <4>1. \A i \in Lookups(x)' : i \in Lookups(x) \/ stack'[i] = Lookup(x, v)
        BY DEF OldLookups, Lookups
      <4> QED  BY <1>4, <3>1, <4>1
    <3> QED  BY <3>1, <3>3, <3>4, <3>5, <3>6 DEF Effects
  <2>2. CASE first[x] # None
    <3>1. first'[x] = first[x] /\ x \notin again /\ state[x] # "pending"
      BY <1>3, <2>2 DEF Remember
    <3>2. state'[x] = state[x] /\ Unregistered  BY <3>1 DEF Effects
    <3>3. /\ Adopts(x) /\ \A q, c : Feeds(q, c, x) => q = first[x]
          /\ \A i \in Lookups(x) : \/ stack[i].of = first[x]
                                   \/ stack[i].of = Object /\ value[first[x]] = Object
      BY <1>1, <3>1 DEF HeadsOf, Follows
    <3>4. Adopts(x)' /\ (value[first[x]] = Object => value'[first[x]] = Object)
      BY <3>1, <3>2, <3>3, StillAdopts
    <3>5. \A q, c : Feeds(q, c, x)' => Feeds(q, c, x)  BY <3>2, Gathered, OldFeeds
    <3>6. \A i \in Lookups(x)' : i \in Lookups(x) /\ stack'[i] = stack[i]
      BY <1>4, <3>1, OtherLookups
    <3> QED  BY <3>1, <3>3, <3>4, <3>5, <3>6
  <2> QED  BY <2>1, <2>2
<1>9. HeadsOf(x)'  BY <1>6, <1>7, <1>8 DEF HeadsOf
<1> QED  BY <1>2, <1>5, <1>9 DEF HeadInv

\* A promise comes to be: user code has its resolving functions, or a reaction
\* settles it.
LEMMA Created ==
  ASSUME IInv, Lasting, Whole' = Promise, HeadInv, UNCHANGED <<stack, first, again>>,
         NEW x \in Promise,
         state[x] = "unused", state' = [state EXCEPT ![x] = "pending"],
         \A y \in Promise : OldThens(y),
         \/ Unregistered /\ resolvers' = resolvers \cup {x}
         \/ /\ UNCHANGED resolvers
            /\ \E p \in Promise : \E new : new.next = x /\ RegisteredOn(p, new)
  PROVE  HeadInv'
<1>1. /\ first \in [Promise -> Resolution \cup {None}] /\ HeadsOf(x)
      /\ state \in [Promise -> {"unused", "pending", "fulfilled", "rejected"}]
  BY DEF HeadInv, IInv, PromiseType
<1>2. SameFrames /\ OldFunctions /\ OldLookups(User(None, None))
  BY DEF SameFrames, FramesOf, Runs, OldFunctions, OldLookups
<1>3. state'[x] = "pending" /\ \A y \in Promise \ {x} : state'[y] = state[y]  BY <1>1
<1>4. \/ NoneNew /\ resolvers' = resolvers \cup {x}
      \/ UNCHANGED resolvers /\ \E p \in Promise : \E new : new.next = x /\ OneNew(p, new)
  BY <1>2, Gathered
<1>5. \A y \in Promise : /\ Answers(y)' \subseteq Answers(y)
                         /\ Throwers(y)' \subseteq Throwers(y)
  BY <1>2, OldAnswers
<1>6. User(None, None).kind = "user"  BY DEF User
<1>7. \A y : \A i \in Lookups(y)' : i \in Lookups(y) /\ stack'[i] = stack[i]
  BY <1>2, <1>6, OtherLookups
<1>8. ASSUME NEW y \in Promise \ {x}  PROVE HeadsOf(y)'
  <2>1. \A q, c : Feeds(q, c, y)' => Feeds(q, c, y)
    BY <1>4 DEF NoneNew, OneNew, Feeds
  <2>2. y \in resolvers' => y \in resolvers  BY <1>4
  <2>3. Unclaimed(y)  BY <1>5, <1>7, <2>1 DEF Unclaimed
  <2> QED  BY <1>3, <1>5, <2>2, <2>3, Uninvolved
<1>9. first[x] = None /\ Throwers(x) = {} /\ x \notin resolvers /\ \A a : ~Claims(x, a)
  BY <1>1 DEF HeadsOf, Unresolved
<1>10. /\ Answers(x) = {} /\ Lookups(x) = {} /\ Thens(x) = {}
       /\ \A q, c : ~Feeds(q, c, x)
  BY <1>9 DEF Claims
<1>11. Answers(x)' = {} /\ Lookups(x)' = {} /\ Thens(x)' = {}
  BY <1>5, <1>7, <1>10 DEF OldThens
<1>12. Unresolved(x)'
  <2>1. \A a : Claims(x, a)' => \E q, c : Feeds(q, c, x)' /\ a = <<"reaction", q, c.id>>
    BY <1>11 DEF Claims
  <2>2. CASE NoneNew
    <3>1. \A q, c : ~Feeds(q, c, x)'  BY <1>10, <2>2 DEF NoneNew, Feeds
    <3> QED  BY <1>3, <2>1, <3>1 DEF Unresolved
  <2>3. ASSUME UNCHANGED resolvers, NEW p \in Promise, NEW new, new.next = x, OneNew(p, new)
        PROVE  Unresolved(x)'
    <3>1. \A q, c : Feeds(q, c, x)' => q = p /\ c = new
      BY <1>10, <2>3 DEF OneNew, Feeds
    <3>2. x \notin resolvers'  BY <1>9, <2>3
    <3>3. \A a : Claims(x, a)' => a = <<"reaction", p, new.id>>  BY <2>1, <3>1
    <3> QED  BY <1>3, <3>2, <3>3 DEF Unresolved
  <2> QED  BY <1>4, <2>2, <2>3
<1>13. HeadsOf(x)'
  <2>1. first'[x] \notin Promise  BY <1>9, PromiseAssumption
  <2> QED  BY <1>3, <1>12, <2>1 DEF HeadsOf, Follows
<1> QED  BY <1>1, <1>8, <1>13 DEF HeadInv

\* A promise whose resolving functions user code holds has no claims but theirs.
LEMMA Held ==
  ASSUME HeadInv, NEW p \in Promise, p \in resolvers
  PROVE  /\ state[p] # "unused"
         /\ first[p] = None => /\ state[p] = "pending" /\ \A q, c : ~Feeds(q, c, p)
                               /\ Lookups(p) = {}
<1>1. HeadsOf(p)  BY DEF HeadInv
<1>2. ASSUME first[p] = None
      PROVE  state[p] = "pending" /\ (\A q, c : ~Feeds(q, c, p)) /\ Lookups(p) = {}
  <2>1. state[p] = "pending" /\ \A a : ~Claims(p, a)
    BY <1>1, <1>2 DEF HeadsOf, Unresolved
  <2> QED  BY <2>1 DEF Claims
<1>3. state[p] # "unused"  BY <1>1, <1>2 DEF HeadsOf
<1> QED  BY <1>2, <1>3

\* New, Then, Reject, QueueCallback and steps that change nothing.
LEMMA OperationsHead ==
  ASSUME IInv, Lasting, Whole' = Promise, HeadInv,
         \/ \E p \in Promise : New(p)
         \/ \E p, next \in Promise, f, r \in BOOLEAN : Then(p, f, r, next)
         \/ \E p \in Promise, v \in Value : Reject(p, v)
         \/ QueueCallback
         \/ UNCHANGED vars
  PROVE  HeadInv'
<1>1. /\ PromiseType /\ queue \in Seq(Job)
      /\ \A p \in Promise : HeadsOf(p)
  BY DEF IInv, PromiseType, HeadInv
<1>2. stack' = stack
  BY DEF New, Then, Reject, QueueCallback, history, vars
<1>3. SameFrames /\ OldFunctions /\ \A f : OldLookups(f)
  BY <1>2 DEF SameFrames, FramesOf, Runs, OldFunctions, OldLookups
<1>4. CallbackJob \in Job /\ \A y : CallbackJob # ThenableJob(y)
  BY DEF CallbackJob, ThenableJob, Job
<1>5. ASSUME NEW p \in Promise, New(p)  PROVE HeadInv'
  <2>1. /\ state[p] = "unused" /\ state' = [state EXCEPT ![p] = "pending"]
        /\ UNCHANGED <<callbacks, queue, registered, first, again>>
        /\ resolvers' = resolvers \cup {p}
    BY <1>5 DEF New, history
  <2>2. Unregistered  BY <2>1 DEF Unregistered
  <2>3. \A y \in Promise : OldThens(y)  BY <1>1, <1>4, <2>1, OtherJob
  <2> QED  BY <1>2, <2>1, <2>2, <2>3, Created
<1>6. ASSUME NEW p \in Promise, NEW next \in Promise, NEW f \in BOOLEAN, NEW r \in BOOLEAN,
             Then(p, f, r, next)
      PROVE  HeadInv'
  <2>1. /\ state[next] = "unused" /\ state' = [state EXCEPT ![next] = "pending"]
        /\ UNCHANGED <<resolvers, first, again>> /\ Register(p, f, r, next)
    BY <1>6 DEF Then
  <2>2. /\ \E new : new.next = next /\ RegisteredOn(p, new)
        /\ \A y : OldThens(y)
    BY <1>1, <2>1, RegisterEffects
  <2> QED  BY <1>2, <2>1, <2>2, Created
<1>8. ASSUME NEW p \in Promise, NEW v \in Value, Reject(p, v)  PROVE HeadInv'
  <2>1. p \in resolvers /\ RejectInternal(p, v) /\ Remember(p, v) /\ UNCHANGED resolvers
    BY <1>8 DEF Reject
  <2>2. v \in Resolution /\ v \notin Promise  BY NotNone
  <2>3. Effects(p, v)  BY <1>1, <2>1, <2>2, RejectEffects
  <2>4. state[p] # "unused"  BY <2>1, Held
  <2> QED  BY <1>3, <2>1, <2>2, <2>3, <2>4, UserAsks
<1>9. CASE QueueCallback \/ UNCHANGED vars
  <2>1. /\ UNCHANGED <<state, first, again, resolvers, callbacks, registered>>
        /\ queue' = queue \/ queue' = Append(queue, CallbackJob)
    BY <1>9 DEF QueueCallback, history, promiseVars, vars
  <2>2. CallbackJob.job = "callback" /\ \A y : CallbackJob # SettleJob(y)
    BY DEF CallbackJob, SettleJob
  <2>4. \A y \in Promise : OldThens(y)  BY <1>1, <1>4, <2>1, OtherJob
  <2>5. Unregistered  BY <1>4, <2>1, <2>2 DEF Unregistered
  <2>6. NoneNew  BY <1>3, <2>5, Gathered
  <2> QED  BY <1>3, <2>1, <2>4, <2>6, NothingAsked
<1> QED  BY <1>5, <1>6, <1>8, <1>9

\* Await, what pumps do and exceptions that unwind the stack.
LEMMA PumpsHead ==
  ASSUME IInv, Lasting, Whole' = Promise, HistoryInv, HeadInv,
         \/ \E p \in Promise : Await(p)
         \/ EndDrain \/ EndPoll \/ Event \/ ThrowUncaught \/ ThrowThroughReactions
  PROVE  HeadInv'
<1>1. queue \in Seq(Job) /\ stack \in Seq(Frame)  BY DEF IInv, PromiseType
<1>2. SameFrames /\ OldFunctions  BY PumpsFile, UnwoundFile DEF QuietStack
<1>3. UNCHANGED <<state, first, again, resolvers, callbacks, registered, queue>>
  BY DEF Await, EndDrain, EndPoll, Event, ThrowUncaught, ThrowThroughReactions, Unwind,
         promiseVars, history
<1>4. NoneNew
  <2>1. Unregistered  BY <1>3 DEF Unregistered
  <2> QED  BY <1>2, <2>1, Gathered
<1>5. \A y \in Promise : OldThens(y)
  <2>1. CallbackJob \in Job /\ \A y : CallbackJob # ThenableJob(y)
    BY DEF CallbackJob, ThenableJob, Job
  <2> QED  BY <1>1, <1>3, <2>1, OtherJob
<1>6. OldLookups(User(None, None))
  <2>1. \A f : f.kind # "lookup" /\ OldLookups(f) => OldLookups(User(None, None))
    BY DEF OldLookups
  <2>2. User(None, None) \in Frame /\ User(None, None).kind = "user"  BY DEF User, Frame
  <2>3. ASSUME NEW p \in Promise, Await(p)  PROVE OldLookups(User(None, None))
    <3>1. stack' = stack \/ stack' = Append(stack, Pump(p, "drain"))
      BY <2>3 DEF Await, Push
    <3>2. Pump(p, "drain") \in Frame /\ Pump(p, "drain").kind = "pump"  BY DEF Pump, Frame
    <3> QED  BY <1>1, <2>1, <3>1, <3>2, LookupFrames
  <2>4. CASE EndDrain \/ EndPoll \/ Event
    <3>1. stack # <<>> /\ Top.kind = "pump"  BY <2>4 DEF EndDrain, EndPoll, Event, Pumps
    <3>2. Top \in [kind : {"pump"}, promise : Promise \cup {None}, at : {"drain", "poll"}]
      BY <1>1, <3>1, TopFrame, FrameKinds
    <3>3. ASSUME NEW a \in {"drain", "poll"}, stack' = Append(Below, [Top EXCEPT !.at = a])
          PROVE  OldLookups(User(None, None))
      <4> DEFINE f == [Top EXCEPT !.at = a]
      <4>1. f \in Frame /\ f.kind = "pump"  BY <3>2 DEF Frame
      <4>2. stack' = Append(Below, f)  BY <3>3
      <4> HIDE DEF f
      <4> QED  BY <1>1, <2>1, <3>1, <4>1, <4>2, LookupFrames
    <3>4. CASE stack' = Below  BY <1>1, <2>2, <3>1, <3>4, LookupFrames
    <3>5. CASE stack' = Append(stack, User(None, None))
      BY <1>1, <2>2, <3>5, LookupFrames
    <3> QED  BY <2>4, <3>3, <3>4, <3>5 DEF EndDrain, EndPoll, Event, Push, Replace
  <2>5. CASE ThrowUncaught \/ ThrowThroughReactions
    <3>1. \E m \in 0 .. Len(stack) : stack' = SubSeq(stack, 1, m)
      BY <1>1, <2>5, UnwindsTo DEF ThrowUncaught, ThrowThroughReactions
    <3> QED  BY <1>1, <2>2, <3>1, LookupFrames
  <2> QED  BY <2>3, <2>4, <2>5
<1> QED  BY <1>2, <1>3, <1>4, <1>5, <1>6, NothingAsked

\* A frame to be left, and the promise of its function.
LEMMA UserFrame ==
  ASSUME IInv, stack # <<>>, Top.kind = "user"
  PROVE  /\ Top \in [kind : {"user"}, returns : Promise \cup {None},
                     throws : Promise \cup {None}]
         /\ Len(stack) \in 1 .. Len(stack) /\ stack[Len(stack)] = Top
BY TopFrame, FrameKinds DEF IInv

\* Resolving and the end of a function.
LEMMA CallsHead ==
  ASSUME IInv, Lasting, Whole' = Promise, HistoryInv, HeadInv,
         \/ \E p \in Promise, v \in Resolution : Resolve(p, v)
         \/ (\E v \in Resolution : Return(v)) \/ \E v \in Value : Throw(v)
  PROVE  HeadInv'
<1>1. /\ PromiseType /\ queue \in Seq(Job) /\ stack \in Seq(Frame)
      /\ \A p \in Promise : HeadsOf(p)
  BY DEF IInv, PromiseType, HeadInv
<1>2. SameFrames /\ OldFunctions /\ stack # <<>> /\ UNCHANGED resolvers
  <2>1. stack # <<>> /\ UNCHANGED resolvers
    BY DEF Resolve, Return, Throw, Operate, UserRuns
  <2> QED  BY <2>1, CallsFile DEF QuietStack
<1>3. User(None, None) \in Frame /\ User(None, None).kind = "user"  BY DEF User, Frame
<1>4. ASSUME stack' = stack \/ stack' = Below  PROVE \A f : OldLookups(f)
  <2>1. OldLookups(User(None, None))  BY <1>1, <1>2, <1>3, <1>4, LookupFrames
  <2> QED  BY <1>3, <2>1 DEF OldLookups
<1>5. ASSUME NEW x \in Promise, NEW v \in Resolution, ResolveInternal(x, v, stack)
                                                      \/ ResolveInternal(x, v, Below)
      PROVE  /\ Effects(x, v) /\ OldLookups(Lookup(x, v))
             /\ state[x] = "pending" \/ OldLookups(User(None, None))
  <2>1. /\ Effects(x, v)
        /\ \/ stack' \in {stack, Below}
           \/ /\ stack' \in {Append(stack, Lookup(x, v)), Append(Below, Lookup(x, v))}
              /\ Lookup(x, v) \in Frame /\ state[x] = "pending"
    BY <1>1, <1>5, ResolveEffects
  <2> QED  BY <1>1, <1>2, <1>4, <2>1, LookupFrames
<1>6. ASSUME NEW p \in Promise, NEW v \in Resolution, Resolve(p, v)  PROVE HeadInv'
  <2>1. p \in resolvers /\ ResolveInternal(p, v, stack) /\ Remember(p, v)
    BY <1>6 DEF Resolve
  <2>2. /\ state[p] # "unused"
        /\ first[p] = None => /\ state[p] = "pending" /\ \A q, c : ~Feeds(q, c, p)
                              /\ Lookups(p) = {}
    BY <2>1, Held
  <2> QED  BY <1>2, <1>5, <2>1, <2>2, UserAsks
<1>7. ASSUME NEW v \in Resolution, Return(v)  PROVE HeadInv'
  <2>1. Top.kind = "user"  BY <1>7 DEF Return
  <2>2. CASE Top.returns = None
    <3>1. /\ UNCHANGED <<state, first, again, resolvers, callbacks, registered, queue>>
          /\ stack' = Below
      BY <1>7, <2>2 DEF Return, promiseVars
    <3>2. NoneNew
      <4>1. Unregistered  BY <3>1 DEF Unregistered
      <4> QED  BY <1>2, <4>1, Gathered
    <3>3. \A y \in Promise : OldThens(y)
      <4>1. CallbackJob \in Job /\ \A y : CallbackJob # ThenableJob(y)
        BY DEF CallbackJob, ThenableJob, Job
      <4> QED  BY <1>1, <3>1, <4>1, OtherJob
    <3> QED  BY <1>2, <1>4, <3>1, <3>2, <3>3, NothingAsked
  <2>3. CASE Top.returns # None
    <3>1. PICK x \in Promise : x = Top.returns  BY <1>2, <2>1, <2>3, UserFrame
    <3>2. ResolveInternal(x, v, Below) /\ Remember(x, v)
      BY <1>7, <2>3, <3>1 DEF Return
    <3>3. Len(stack) \in Answers(x)  BY <1>2, <2>1, <3>1, UserFrame DEF Answers
    <3>4. HeadsOf(x) /\ Claims(x, <<"answer", Len(stack), 0>>)
      BY <1>1, <3>3 DEF Claims
    <3>5. ASSUME first[x] = None
          PROVE  state[x] = "pending" /\ (\A q, c : ~Feeds(q, c, x)) /\ Lookups(x) = {}
      <4>1. /\ state[x] = "pending"
            /\ \A a : Claims(x, a) => a = <<"answer", Len(stack), 0>>
        BY <3>4, <3>5 DEF HeadsOf, Unresolved
      <4>2. \A q, c : Feeds(q, c, x) => Claims(x, <<"reaction", q, c.id>>)  BY DEF Claims
      <4>3. \A i \in Lookups(x) : Claims(x, <<"lookup", i, 0>>)  BY DEF Claims
      <4> QED  BY <4>1, <4>2, <4>3
    <3>6. state[x] # "unused"  BY <3>4, <3>5 DEF HeadsOf
    <3> QED  BY <1>2, <1>5, <3>2, <3>5, <3>6, UserAsks
  <2> QED  BY <2>2, <2>3
<1>8. ASSUME NEW v \in Value, Throw(v)  PROVE HeadInv'
  <2>1. Top.kind = "user" /\ Top.throws # None /\ stack' = Below  BY <1>8 DEF Throw
  <2>2. PICK x \in Promise : x = Top.throws  BY <1>2, <2>1, UserFrame
  <2>3. RejectInternal(x, v) /\ Remember(x, v)  BY <1>8, <2>2 DEF Throw
  <2>4. Throwers(x) # {}  BY <1>2, <2>1, <2>2, UserFrame DEF Throwers
  <2>5. state[x] # "unused"  BY <1>1, <2>4 DEF HeadsOf
  <2>6. v \in Resolution /\ v \notin Promise  BY NotNone
  <2>7. Effects(x, v)  BY <1>1, <2>3, <2>6, RejectEffects
  <2> QED  BY <1>2, <1>4, <2>1, <2>3, <2>5, <2>6, <2>7, UserAsks
<1> QED  BY <1>6, <1>7, <1>8

\* The end of a lookup hands its claim on, to a queued call or to a reaction, or
\* settles the promise.
LEMMA LookupHead ==
  ASSUME IInv, Lasting, Undamaged', Whole' = Promise, HistoryInv, HeadInv,
         EndLookup \/ ThrowToCaller \/ \E v \in Value : ThrowLookup(v)
  PROVE  HeadInv'
<1> DEFINE n == Len(stack)
<1> PICK x, o : x = Top.promise /\ o = Top.of  OBVIOUS
<1>1. /\ PromiseType /\ queue \in Seq(Job) /\ stack \in Seq(Frame)
      /\ first \in [Promise -> Resolution \cup {None}] /\ \A p \in Promise : HeadsOf(p)
  BY DEF IInv, PromiseType, HeadInv
<1>2. /\ stack # <<>> /\ Top.kind = "lookup" /\ stack' = Below
      /\ UNCHANGED <<resolvers, first, again>>
  BY DEF EndLookup, ThrowToCaller, ThrowLookup, LooksUp, history
<1>3. /\ n \in Nat /\ n > 0 /\ n \in 1 .. n /\ stack[n] = Top
      /\ x \in Promise /\ o \in Derived \cup {Object}
  <2>1. n \in Nat /\ n > 0 /\ n \in 1 .. n /\ stack[n] = Top /\ Top \in Frame
    BY <1>1, <1>2, TopFrame
  <2>2. Top \in [kind : {"lookup"}, promise : Promise, of : Derived \cup {Object}]
    BY <1>2, <2>1, FrameKinds
  <2> QED  BY <2>1, <2>2
<1>4. SameFrames /\ OldFunctions  BY LookupsFile DEF QuietStack
<1>5. /\ Len(stack') = n - 1 /\ \A i \in 1 .. n - 1 : stack'[i] = stack[i]
      /\ \A i \in 1 .. n - 1 : i # n
  <2> DEFINE k == n - 1
  <2>1. k \in 0 .. Len(stack) /\ stack' = SubSeq(stack, 1, k)  BY <1>2, <1>3 DEF Below
  <2>2. Len(stack') = k /\ \A i \in 1 .. k : stack'[i] = stack[i]
    <3> HIDE DEF k
    <3> QED  BY <1>1, <2>1, FramesCut
  <2> QED  BY <1>3, <2>2
<1>6. \A y : \A i \in Lookups(y)' : i \in Lookups(y) /\ stack'[i] = stack[i] /\ i # n
  BY <1>3, <1>5 DEF Lookups
<1>7. n \in Lookups(x) /\ Claims(x, <<"lookup", n, 0>>)
  <2>1. n \in Lookups(x)  BY <1>2, <1>3 DEF Lookups
  <2> QED  BY <2>1 DEF Claims
<1> HIDE DEF n
<1>0. state[x] # "unused"
  <2>1. ASSUME state[x] = "unused"  PROVE FALSE
    <3>1. first[x] = None /\ Unresolved(x)  BY <1>1, <1>3, <2>1 DEF HeadsOf
    <3> QED  BY <1>7, <2>1, <3>1 DEF Unresolved
  <2> QED  BY <2>1
<1>8. \/ /\ queue' = Append(queue, ThenableJob(x)) /\ UNCHANGED state /\ NoneNew
      \/ /\ o \in Promise /\ UNCHANGED state /\ \A y : Thens(y)' \subseteq Thens(y) /\ OldThens(y)
         /\ \E new : new.next = x /\ OneNew(o, new)
      \/ /\ \/ UNCHANGED state
            \/ /\ o = Object /\ state'[x] \in {"fulfilled", "rejected"}
               /\ \A y \in Promise \ {x} : state'[y] = state[y]
         /\ NoneNew /\ \A y \in Promise : Thens(y)' \subseteq Thens(y) /\ OldThens(y)
  <2>1. CASE queue' = Append(queue, ThenableJob(x)) /\ UNCHANGED <<promiseVars, registered>>
    <3>1. Unregistered  BY <1>3, <2>1, ThenableFiles
    <3> QED  BY <1>4, <2>1, <3>1, Gathered DEF promiseVars
  <2>2. CASE o \in Promise /\ Register(o, FALSE, FALSE, x) /\ UNCHANGED state
    <3>1. PICK new : new.next = x /\ RegisteredOn(o, new)
      BY <1>1, <1>3, <2>2, RegisterEffects
    <3>2. OneNew(o, new)  BY <1>4, <2>2, <3>1, Gathered
    <3> QED  BY <1>1, <1>3, <2>2, <3>1, <3>2, RegisterEffects
  <2>3. ASSUME NEW how \in {"fulfilled", "rejected"}, NEW w, o = Object,
               state[x] = "pending" /\ Settle(x, how, w)
        PROVE  /\ o = Object /\ state'[x] \in {"fulfilled", "rejected"}
               /\ \A y \in Promise \ {x} : state'[y] = state[y]
               /\ NoneNew /\ \A y \in Promise : Thens(y)' \subseteq Thens(y) /\ OldThens(y)
    <3>1. SettleJob(x) \in Job /\ \A y : SettleJob(x) # ThenableJob(y)
      <4>1. SettleJob(x).job = "settle" /\ \A y : ThenableJob(y).job = "thenable"
        BY DEF SettleJob, ThenableJob
      <4> QED  BY <1>3, <4>1 DEF SettleJob, Job
    <3>2. queue' = Append(queue, SettleJob(x)) /\ state' = [state EXCEPT ![x] = how]
      BY <2>3 DEF Settle
    <3>3. Unregistered  BY <1>3, <2>3, SettleFiles
    <3>4. state'[x] = how /\ \A y \in Promise \ {x} : state'[y] = state[y]
      BY <1>1, <1>3, <3>2 DEF PromiseType
    <3> QED  BY <1>1, <1>4, <2>3, <3>1, <3>2, <3>3, <3>4, OtherJob, Gathered
  <2>4. CASE UNCHANGED <<promiseVars, queue, registered>>
    <3>1. Unregistered /\ UNCHANGED <<state, queue>>  BY <2>4 DEF Unregistered, promiseVars
    <3>2. CallbackJob \in Job /\ \A y : CallbackJob # ThenableJob(y)
      BY DEF CallbackJob, ThenableJob, Job
    <3> QED  BY <1>1, <1>4, <3>1, <3>2, OtherJob, Gathered
  <2>5. CASE EndLookup
    <3>1. CASE /\ o = Object /\ Settle(x, "fulfilled", Object)
               /\ overwritten' = IF Settled(x) THEN overwritten \cup {x} ELSE overwritten
      <4>1. ~Settled(x)  BY <3>1 DEF Undamaged
      <4>2. state[x] = "pending"  BY <1>0, <1>1, <1>3, <4>1 DEF PromiseType, Settled
      <4> QED  BY <2>3, <3>1, <4>2
    <3> QED  BY <2>1, <2>2, <2>5, <3>1 DEF EndLookup
  <2>6. ASSUME NEW v \in Value, ThrowLookup(v)
        PROVE  \/ UNCHANGED <<promiseVars, queue, registered>>
               \/ o = Object /\ state[x] = "pending" /\ Settle(x, "rejected", v)
    BY <2>6 DEF ThrowLookup, RejectInternal
  <2>7. CASE ThrowToCaller  BY <2>4, <2>7 DEF ThrowToCaller, history
  <2> QED  BY <2>3, <2>4, <2>5, <2>6, <2>7
<1>9. ASSUME NEW y \in Promise \ {x}  PROVE HeadsOf(y)'
  <2>1. \A q, c : Feeds(q, c, y)' => Feeds(q, c, y)
    BY <1>8 DEF NoneNew, OneNew, Feeds
  <2>2. Answers(y)' \subseteq Answers(y) /\ Throwers(y)' \subseteq Throwers(y)
    BY <1>4, OldAnswers
  <2>3. OldThens(y)
    <3>1. CASE queue' = Append(queue, ThenableJob(x))
      <4>1. ThenableJob(x) \in Job /\ ThenableJob(x) # ThenableJob(y)
        BY <1>3 DEF ThenableJob, Job
      <4> QED  BY <1>1, <3>1, <4>1, OtherJob
    <3> QED  BY <1>8, <3>1
  <2>4. Unclaimed(y)  BY <1>6, <2>1, <2>2, <2>3 DEF Unclaimed
  <2>5. state'[y] = state[y]  BY <1>8
  <2> QED  BY <1>2, <2>2, <2>4, <2>5, Uninvolved
<1>10. \/ UNCHANGED state
       \/ o = Object /\ state'[x] \in {"fulfilled", "rejected"} /\ NoneNew
          /\ Thens(x)' \subseteq Thens(x)
  BY <1>3, <1>8
<1>11. ASSUME first[x] = None  PROVE Unresolved(x)'
  <2>1. /\ state[x] = "pending" /\ x \notin resolvers
        /\ \A a : Claims(x, a) => a = <<"lookup", n, 0>>
    BY <1>1, <1>3, <1>7, <1>11 DEF HeadsOf, Unresolved
  <2>2. /\ Answers(x) = {} /\ Thens(x) = {} /\ Lookups(x) \subseteq {n}
        /\ \A q, c : ~Feeds(q, c, x)
    <3>1. \A i \in Answers(x) : Claims(x, <<"answer", i, 0>>)  BY DEF Claims
    <3>2. \A i \in Thens(x) : Claims(x, <<"thenable", i, 0>>)  BY DEF Claims
    <3>3. \A i \in Lookups(x) : Claims(x, <<"lookup", i, 0>>)  BY DEF Claims
    <3>4. \A q, c : Feeds(q, c, x) => Claims(x, <<"reaction", q, c.id>>)  BY DEF Claims
    <3> QED  BY <2>1, <3>1, <3>2, <3>3, <3>4
  <2>3. Answers(x)' = {} /\ Lookups(x)' = {}
    <3>1. Answers(x)' \subseteq Answers(x)  BY <1>3, <1>4, OldAnswers
    <3> QED  BY <1>6, <2>2, <3>1
  <2>4. \A a : Claims(x, a)' => \/ \E i \in Thens(x)' : a = <<"thenable", i, 0>>
                                \/ \E q, c : Feeds(q, c, x)' /\ a = <<"reaction", q, c.id>>
    BY <2>3 DEF Claims
  <2>5. x \notin resolvers'  BY <1>2, <2>1
  <2>6. CASE queue' = Append(queue, ThenableJob(x)) /\ UNCHANGED state /\ NoneNew
    <3>1. \A q, c : ~Feeds(q, c, x)'  BY <2>2, <2>6 DEF NoneNew, Feeds
    <3>2. Thens(x)' \subseteq {Len(queue) + 1}
      <4>1. /\ Len(queue) \in Nat /\ Len(queue') = Len(queue) + 1
            /\ \A i \in 1 .. Len(queue) : queue'[i] = queue[i]
        BY <1>1, <2>6, AppendProperties
      <4>2. \A i \in 1 .. Len(queue') : i \in 1 .. Len(queue) \/ i = Len(queue) + 1
        BY <4>1
      <4>3. ThenableJob(x)' = queue'[Len(queue) + 1]
        BY <1>1, <2>6, AppendProperties
      <4>4. \A i \in 1 .. Len(queue) : queue[i] # queue'[Len(queue) + 1]
        <5>1. queue'[Len(queue) + 1] = ThenableJob(x)  BY <1>1, <2>6, AppendProperties
        <5> QED  BY <2>2, <5>1 DEF Thens
      <4> QED  BY <4>1, <4>2, <4>3, <4>4 DEF Thens
    <3>3. \A a : Claims(x, a)' => a = <<"thenable", Len(queue) + 1, 0>>
      BY <2>4, <3>1, <3>2
    <3> QED  BY <2>1, <2>5, <2>6, <3>3 DEF Unresolved
  <2>7. ASSUME UNCHANGED state, Thens(x)' \subseteq Thens(x), NEW new, new.next = x,
               OneNew(o, new)
        PROVE  Unresolved(x)'
    <3>1. \A q, c : Feeds(q, c, x)' => q = o /\ c = new
      BY <2>2, <2>7 DEF OneNew, Feeds
    <3>2. \A a : Claims(x, a)' => a = <<"reaction", o, new.id>>
      BY <2>2, <2>4, <2>7, <3>1
    <3> QED  BY <2>1, <2>5, <2>7, <3>2 DEF Unresolved
  <2>8. CASE NoneNew /\ Thens(x)' \subseteq Thens(x)
    <3>1. \A q, c : ~Feeds(q, c, x)'  BY <2>2, <2>8 DEF NoneNew, Feeds
    <3>2. \A a : ~Claims(x, a)'  BY <2>2, <2>4, <2>8, <3>1
    <3> QED  BY <2>5, <3>2 DEF Unresolved
  <2> QED  BY <1>3, <1>8, <2>6, <2>7, <2>8
<1>12. Follows(x)'
  <2> DEFINE q == first[x]
  <2> SUFFICES ASSUME q \in Promise \ {x}, x \notin again
               PROVE  /\ Adopts(x)' /\ \A r, c : Feeds(r, c, x)' => r = q
                      /\ \A i \in Lookups(x)' :
                            \/ stack'[i].of = q
                            \/ stack'[i].of = Object /\ value'[q] = Object
    BY <1>2 DEF Follows
  <2>1. /\ Adopts(x) /\ \A r, c : Feeds(r, c, x) => r = q
        /\ \A i \in Lookups(x) : stack[i].of = q \/ (stack[i].of = Object /\ value[q] = Object)
    BY <1>1, <1>3 DEF HeadsOf, Follows
  <2>2. /\ value[q] = Object => value'[q] = Object
        /\ UNCHANGED state => Adopts(x)'
    BY <1>2, <1>3, <2>1, StillAdopts
  <2>3. o = q \/ (o = Object /\ value[q] = Object)  BY <1>3, <1>7, <2>1
  <2>4. o = Object => value[q] = Object  BY <2>3, NotNone
  <2>5. Adopts(x)'
    <3>1. o = Object => Adopts(x)'  BY <1>2, <2>2, <2>4 DEF Adopts
    <3> QED  BY <1>10, <2>2, <3>1
  <2>6. \A r, c : Feeds(r, c, x)' => r = q
    <3>1. CASE NoneNew  BY <2>1, <3>1, OldFeeds
    <3>2. ASSUME o \in Promise, NEW new, OneNew(o, new)
          PROVE  \A r, c : Feeds(r, c, x)' => r = q
      <4>1. o = q  BY <2>3, <3>2, NotNone
      <4> HIDE DEF q
      <4> QED  BY <2>1, <3>2, <4>1 DEF OneNew, Feeds
    <3> QED  BY <1>8, <3>1, <3>2
  <2> QED  BY <1>6, <2>1, <2>2, <2>5, <2>6
<1>13. HeadsOf(x)'
  <2>1. state'[x] # "unused"  BY <1>0, <1>10
  <2> QED  BY <1>2, <1>11, <1>12, <2>1 DEF HeadsOf
<1> QED  BY <1>1, <1>2, <1>9, <1>13 DEF HeadInv

\* A job is begun. One that calls a thenable hands out the resolving functions of
\* a promise nothing else is to settle.
LEMMA JobHead ==
  ASSUME IInv, Lasting, Whole' = Promise, Whole = Promise, HistoryInv, HeadInv, RunJob
  PROVE  HeadInv'
<1> DEFINE n == Len(stack)
<1>1. /\ PromiseType /\ stack \in Seq(Frame) /\ \A p \in Promise : HeadsOf(p)
  BY DEF IInv, HeadInv
<1>2. UNCHANGED <<state, first, again>>  BY DEF RunJob, promiseVars, history
<1>3. NoneNew
  <2> SUFFICES ASSUME NEW q \in Promise, NEW s, NEW c, Keeps(q, s, c)'
               PROVE  \E t : Keeps(q, t, c)
    BY DEF NoneNew
  <2>1. PICK B : /\ Moved(q, B)
                 /\ \A t, cb : Keeps(q, t, cb) => \E u : Keeps(q, u, cb)'
    BY JobMoves
  <2> QED  BY <2>1 DEF Moved
<1>4. PICK j \in Job, f \in Frame :
           /\ stack' = Append(stack, f)
           /\ Len(queue) \in Nat /\ Len(queue) > 0 /\ queue[1] = j
           /\ Len(queue') = Len(queue) - 1
           /\ \A i \in 1 .. Len(queue) - 1 : queue'[i] = queue[i + 1]
           /\ \/ f.kind = "reactions" /\ j.job # "thenable"
              \/ j = ThenableJob(j.promise) /\ j.promise \in Promise
                 /\ f = User(None, j.promise)
              \/ j.job = "callback" /\ f = User(None, None)
           /\ resolvers' = resolvers \cup {p \in Promise : j = ThenableJob(p)}
  <2>1. \A p : SettleJob(p).job = "settle" /\ \A cb : ReactionJob(p, cb).job = "reaction"
    BY DEF SettleJob, ReactionJob
  <2> QED  BY <2>1, JobTaken
<1>5. /\ n \in Nat /\ Len(stack') = n + 1 /\ stack'[n + 1] = f
      /\ \A i \in 1 .. n : stack'[i] = stack[i]
  BY <1>1, <1>4, FramePushed
<1>6. \A y : ThenableJob(y).job = "thenable" /\ ThenableJob(y).promise = y  BY DEF ThenableJob
<1>7. \A y : \A i \in Thens(y)' : i \in Nat /\ i > 0 /\ i + 1 \in Thens(y)
  <2>1. \A y : ThenableJob(y)' = ThenableJob(y)  BY DEF ThenableJob
  <2>2. \A i \in 1 .. Len(queue') : /\ i \in 1 .. Len(queue) - 1 /\ i + 1 \in 1 .. Len(queue)
                                    /\ queue'[i] = queue[i + 1] /\ i \in Nat /\ i > 0
    BY <1>4
  <2> QED  BY <2>1, <2>2 DEF Thens
<1>8. \A y : OldThens(y)  BY <1>7 DEF OldThens
<1>9. f.kind # "lookup"  BY <1>4 DEF User
<1>10. OldLookups(User(None, None))
  <2>1. OldLookups(f)  BY <1>1, <1>4, LookupFrames
  <2> QED  BY <1>9, <2>1 DEF OldLookups
<1>11. ASSUME \A x \in Promise : j # ThenableJob(x)  PROVE HeadInv'
  <2>1. f.kind = "reactions" \/ f = User(None, None)  BY <1>4, <1>11
  <2>2. OldFunctions
    <3> SUFFICES ASSUME NEW i \in 1 .. n + 1, stack'[i].kind = "user"
                 PROVE  (i \in 1 .. n /\ stack'[i] = stack[i]) \/ stack'[i] = User(None, None)
      BY <1>5 DEF OldFunctions
    <3>1. CASE i = n + 1  BY <1>5, <2>1, <3>1
    <3>2. CASE i # n + 1
      <4>1. i \in 1 .. n  BY <1>5, <3>2
      <4> QED  BY <1>5, <4>1
    <3> QED  BY <3>1, <3>2
  <2>3. resolvers' = resolvers  BY <1>4, <1>11
  <2> QED  BY <1>2, <1>3, <1>8, <1>10, <2>2, <2>3, NothingAsked
<1>12. ASSUME NEW x \in Promise, j = ThenableJob(x)  PROVE HeadInv'
  <2>0. f = User(None, x)  BY <1>4, <1>6, <1>12
  <2>1. ASSUME NEW i \in 1 .. n + 1, stack'[i].kind = "user"
        PROVE  \/ i \in 1 .. n /\ stack'[i] = stack[i]
               \/ stack'[i].returns = None /\ stack'[i].throws = x
    <3>1. CASE i = n + 1  BY <1>5, <2>0, <3>1 DEF User
    <3>2. CASE i # n + 1
      <4>1. i \in 1 .. n  BY <1>5, <3>2
      <4> QED  BY <1>5, <4>1
    <3> QED  BY <3>1, <3>2
  <2>2. resolvers' \subseteq resolvers \cup {x}  BY <1>4, <1>6, <1>12
  <2>3. Claims(x, <<"thenable", 1, 0>>)
    <3>1. 1 \in Thens(x)  BY <1>4, <1>12 DEF Thens
    <3> QED  BY <3>1 DEF Claims
  <2>4. state[x] # "unused"  BY <1>1, <2>3 DEF HeadsOf, Unresolved
  <2>5. ASSUME NEW y \in Promise
        PROVE  /\ Unclaimed(y)
               /\ y # x => Throwers(y)' \subseteq Throwers(y)
    <3>1. Answers(y)' \subseteq Answers(y)
      <4>1. y # None  BY PromiseAssumption
      <4> QED  BY <1>5, <2>1, <4>1 DEF Answers
    <3>2. y # x => Throwers(y)' \subseteq Throwers(y)  BY <1>5, <2>1 DEF Throwers
    <3>3. \A q, c : Feeds(q, c, y)' => Feeds(q, c, y)  BY <1>3, OldFeeds
    <3>4. \A i \in Lookups(y)' : i \in Lookups(y) /\ stack'[i] = stack[i]
      <4>1. User(None, None).kind = "user"  BY DEF User
      <4> QED  BY <1>10, <4>1, OtherLookups
    <3> QED  BY <1>8, <3>1, <3>2, <3>3, <3>4 DEF Unclaimed
  <2>6. ASSUME NEW y \in Promise, y # x \/ first[x] # None  PROVE HeadsOf(y)'
    <3>1. Unclaimed(y) /\ (y # x => Throwers(y)' \subseteq Throwers(y))  BY <2>5
    <3>2. y # x => (y \in resolvers' => y \in resolvers)  BY <2>2
    <3> QED  BY <1>2, <2>4, <2>6, <3>1, <3>2, Uninvolved
  <2>7. ASSUME first[x] = None  PROVE HeadsOf(x)'
    <3>1. /\ state[x] = "pending"
          /\ \A a : Claims(x, a) => a = <<"thenable", 1, 0>>
      BY <1>1, <2>3, <2>7 DEF HeadsOf, Unresolved
    <3>2. /\ Answers(x) = {} /\ Lookups(x) = {} /\ \A q, c : ~Feeds(q, c, x)
          /\ \A i \in Thens(x) : i = 1
      <4>1. \A i \in Answers(x) : Claims(x, <<"answer", i, 0>>)  BY DEF Claims
      <4>2. \A i \in Thens(x) : Claims(x, <<"thenable", i, 0>>)  BY DEF Claims
      <4>3. \A i \in Lookups(x) : Claims(x, <<"lookup", i, 0>>)  BY DEF Claims
      <4>4. \A q, c : Feeds(q, c, x) => Claims(x, <<"reaction", q, c.id>>)  BY DEF Claims
      <4> QED  BY <3>1, <4>1, <4>2, <4>3, <4>4
    <3>3. Thens(x)' = {}
      <4>1. \A i \in Thens(x)' : i \in Nat /\ i > 0 /\ i + 1 = 1  BY <1>7, <3>2
      <4> QED  BY <4>1
    <3>4. Answers(x)' = {} /\ Lookups(x)' = {} /\ \A q, c : ~Feeds(q, c, x)'
      BY <2>5, <3>2 DEF Unclaimed
    <3>5. \A a : ~Claims(x, a)'  BY <3>3, <3>4 DEF Claims
    <3>6. Unresolved(x)'  BY <1>2, <3>1, <3>5 DEF Unresolved
    <3>7. first'[x] \notin Promise  BY <1>2, <2>7, PromiseAssumption
    <3> QED  BY <1>2, <3>1, <3>6, <3>7 DEF HeadsOf, Follows
  <2> QED  BY <1>1, <1>2, <2>6, <2>7 DEF HeadInv
<1> QED  BY <1>11, <1>12

\* An outcome is passed on, or a function or a lookup is called with it.
Passed(p, x, n) ==
  /\ \A y \in Promise \ {x} : state'[y] = state[y]
  /\ \A y \in Promise : OldThens(y)
  /\ \/ state'[x] = state[x]
     \/ /\ state[x] = "pending" /\ Len(stack') = n /\ Settled(p)
        /\ state'[x] = state[p] /\ value'[x] = value[p]

LEMMA PassedOn ==
  ASSUME IInv, RunReaction, NEW p, NEW cb, NEW n, NEW l, NEW rest, Takes(p, cb, n, l, rest)
  PROVE  Passed(p, cb.next, n)
<1> DEFINE x == cb.next
           r == [Top EXCEPT !.left = Tail(@)]
           b == Append(Below, r)
<1>1. /\ PromiseType /\ FrameInv /\ stack \in Seq(Frame)
      /\ stack # <<>> /\ Top.left # <<>> /\ Top.promise = p /\ p \in Promise
      /\ n \in Nat /\ n > 0 /\ n = Len(stack) /\ stack[n] = Top /\ Top.kind = "reactions"
      /\ x \in Promise /\ Top.left[1] = cb
  BY DEF IInv, RunReaction, Takes, Reaction
<1>2. Head(Top.left) = cb  BY <1>1 DEF Head
<1>3. Settled(p)
  <2>1. n \in 1 .. Len(stack)  BY <1>1
  <2> QED  BY <1>1, <2>1 DEF FrameInv
<1>4. value[p] \in Outcome /\ value[p] \notin Promise
  BY <1>1, <1>3, NotNone DEF PromiseType
<1>5. \/ UNCHANGED <<promiseVars, queue, registered>>
      \/ state[p] = "fulfilled" /\ ResolveInternal(x, value[p], b)
      \/ state[p] # "fulfilled" /\ RejectInternal(x, value[p]) /\ stack' = b
  BY <1>1, <1>2 DEF RunReaction, Replace
<1>6. stack' = b => Len(stack') = n
  <2>1. r \in Frame
    <3>1. Top \in Frame  BY <1>1, TopFrame
    <3>2. Top \in [kind : {"reactions"}, promise : Promise, left : Seq(Reaction),
                   settles : BOOLEAN]
      BY <1>1, <3>1, FrameKinds
    <3>3. Tail(Top.left) \in Seq(Reaction)  BY <1>1, <3>2
    <3> QED  BY <3>2, <3>3 DEF Frame
  <2> HIDE DEF r
  <2> QED  BY <1>1, <2>1, FrameExchanged
<1> HIDE DEF x, b
<1>7. CASE UNCHANGED <<promiseVars, queue, registered>>
  BY <1>1, <1>7, NoEffects DEF Effects, Passed, x
<1>8. CASE state[p] = "fulfilled" /\ ResolveInternal(x, value[p], b)
  <2>1. /\ Effects(x, value[p])
        /\ \/ state'[x] = state[x]
           \/ /\ state[x] = "pending" /\ state'[x] = "fulfilled" /\ value'[x] = value[p]
              /\ stack' = b
    BY <1>1, <1>4, <1>8, ResolveEffects
  <2> QED  BY <1>3, <1>6, <1>8, <2>1 DEF Effects, Passed, x
<1>9. CASE state[p] # "fulfilled" /\ RejectInternal(x, value[p]) /\ stack' = b
  <2>1. state[p] = "rejected"  BY <1>3, <1>9 DEF Settled
  <2>2. value[p] \notin Promise \ {x}  BY <1>4
  <2>3. /\ Effects(x, value[p])
        /\ \/ state'[x] = state[x]
           \/ state[x] = "pending" /\ state'[x] = "rejected" /\ value'[x] = value[p]
    BY <1>1, <1>9, <2>2, RejectEffects
  <2> QED  BY <1>3, <1>6, <1>9, <2>1, <2>3 DEF Effects, Passed, x
<1> QED  BY <1>5, <1>7, <1>8, <1>9

\* A reaction is run. It was the only thing to settle its promise; now the
\* function or the lookup is that it calls, if it calls one.
LEMMA ReactionHead ==
  ASSUME IInv, Lasting, Whole' = Promise, Whole = Promise, HistoryInv, HeadInv, RunReaction
  PROVE  HeadInv'
<1>1. PICK p, cb, n, l, rest : Takes(p, cb, n, l, rest)  BY ReactionTaken
<1> DEFINE x == cb.next
<1>2. /\ p \in Promise /\ x \in Promise /\ UNCHANGED <<resolvers, first, again>>
      /\ n \in Nat /\ n > 0 /\ n = Len(stack) /\ l \in Nat /\ l > 0
      /\ stack[n].kind = "reactions" /\ stack[n].promise = p /\ Top = stack[n]
      /\ l = Len(Top.left) /\ Top.left[1] = cb
      /\ \A i \in 1 .. n - 1 : stack'[i] = stack[i]
      /\ stack'[n].kind = "reactions"
      /\ \/ Len(stack') = n
         \/ Len(stack') = n + 1 /\ stack'[n + 1] = User(x, x)
         \/ Len(stack') = n + 1 /\ stack'[n + 1] = Lookup(x, Object) /\ value[p] = Object
      /\ ran' = [ran EXCEPT ![p] = Append(@, cb.id)] /\ cb.id \in Nat
  BY <1>1 DEF Takes, Reaction
<1> HIDE DEF x
<1>3. /\ PromiseType /\ ran \in [Promise -> Seq(Nat)]
      /\ first \in [Promise -> Resolution \cup {None}] /\ \A y \in Promise : HeadsOf(y)
      /\ state \in [Promise -> {"unused", "pending", "fulfilled", "rejected"}]
  BY DEF IInv, HistoryInv, HeadInv, PromiseType
<1>4. Passed(p, x, n)  BY <1>1, PassedOn DEF x
<1>5. ASSUME NEW q \in Promise, NEW s, NEW c, Keeps(q, s, c)'
      PROVE  \E t : Keeps(q, t, c)
  <2>1. CASE q # p  BY <1>1, <1>5, <2>1, ReactionKeeps
  <2>2. CASE q = p
    <3>1. Keeps(p, s, c) \/ \E k \in 1 .. l - 1 : c = Top.left[k + 1]
      BY <1>1, <1>5, <2>2, ReactionKeeps
    <3>2. ASSUME NEW k \in 1 .. l - 1, c = Top.left[k + 1]  PROVE \E t : Keeps(p, t, c)
      <4>1. k + 1 \in 1 .. l  BY <1>2
      <4>2. Keeps(p, <<"frame", n, k + 1>>, c)
        BY <1>2, <3>2, <4>1 DEF Keeps, FramesOf
      <4> QED  BY <4>2
    <3> QED  BY <2>2, <3>1, <3>2
  <2> QED  BY <2>1, <2>2
<1>6. ASSUME NEW y  PROVE \A q, c : Feeds(q, c, y)' => Feeds(q, c, y)
  BY <1>5 DEF Feeds
<1>7. Feeds(p, cb, x)
  <2>1. Keeps(p, <<"frame", n, 1>>, cb)
    <3>1. n \in FramesOf(p) /\ 1 \in 1 .. Len(stack[n].left)  BY <1>2 DEF FramesOf
    <3> QED  BY <1>2, <3>1 DEF Keeps
  <2> QED  BY <1>2, <2>1 DEF Feeds, x
<1>8. ASSUME NEW s, NEW c, Keeps(p, s, c)'  PROVE c.id # cb.id
  <2>0. PICK r : r = Len(ran[p])  OBVIOUS
  <2>1. r \in Nat /\ Len(ran'[p]) = r + 1 /\ ran'[p][r + 1] = cb.id
    BY <1>2, <1>3, <2>0, AppendProperties
  <2>2. At(p, <<"ran", r + 1, 0>>, cb.id)'
    <3>1. r + 1 \in 1 .. Len(ran'[p])  BY <2>1
    <3> QED  BY <2>1, <3>1 DEF At
  <2>3. At(p, s, c.id)'  BY <1>8 DEF At
  <2>4. s # <<"ran", r + 1, 0>>
    <3>1. s[1] \in {"frame", "queue", "promise"}  BY <1>8 DEF Keeps
    <3> QED  BY <3>1
  <2>5. PlacedOnce(p)'  BY <1>1, <1>2, ReactionMoves
  <2> QED  BY <2>2, <2>3, <2>4, <2>5 DEF PlacedOnce
<1>9. ASSUME NEW i \in 1 .. Len(stack'), stack'[i].kind \in {"user", "lookup"}
      PROVE  \/ i \in 1 .. Len(stack) /\ stack'[i] = stack[i]
             \/ /\ i = n + 1 /\ Len(stack') = n + 1
                /\ \/ stack'[i] = User(x, x)
                   \/ stack'[i] = Lookup(x, Object) /\ value[p] = Object
  <2>1. i \in 1 .. n - 1 \/ i = n \/ (i = n + 1 /\ Len(stack') = n + 1)  BY <1>2
  <2>2. CASE i \in 1 .. n - 1  BY <1>2, <2>2
  <2>3. CASE i = n  BY <1>2, <1>9, <2>3
  <2>4. CASE i = n + 1 /\ Len(stack') = n + 1  BY <1>2, <2>4
  <2> QED  BY <2>1, <2>2, <2>3, <2>4
<1>10. /\ User(x, x).kind = "user" /\ User(x, x).returns = x /\ User(x, x).throws = x
       /\ Lookup(x, Object).kind = "lookup" /\ Lookup(x, Object).promise = x
       /\ Lookup(x, Object).of = Object
  BY DEF User, Lookup
<1>11. ASSUME NEW y \in Promise \ {x}  PROVE HeadsOf(y)'
  <2>1. Answers(y)' \subseteq Answers(y) /\ Throwers(y)' \subseteq Throwers(y)
    BY <1>9, <1>10 DEF Answers, Throwers
  <2>2. \A i \in Lookups(y)' : i \in Lookups(y) /\ stack'[i] = stack[i]
    BY <1>9, <1>10 DEF Lookups
  <2>3. OldThens(y) /\ state'[y] = state[y]  BY <1>4 DEF Passed
  <2>4. Unclaimed(y)  BY <1>6, <2>1, <2>2, <2>3 DEF Unclaimed
  <2> QED  BY <1>2, <2>1, <2>3, <2>4, Uninvolved
<1>12. state[x] # "unused" /\ state'[x] # "unused"
  <2>1. Claims(x, <<"reaction", p, cb.id>>)  BY <1>7 DEF Claims
  <2>2. state[x] # "unused"  BY <1>2, <1>3, <2>1 DEF HeadsOf, Unresolved
  <2> QED  BY <1>4, <2>2 DEF Passed, Settled
<1>13. ASSUME first[x] = None  PROVE Unresolved(x)'
  <2>0. Claims(x, <<"reaction", p, cb.id>>)  BY <1>7 DEF Claims
  <2>1. /\ state[x] = "pending" /\ x \notin resolvers
        /\ \A a : Claims(x, a) => a = <<"reaction", p, cb.id>>
    BY <1>2, <1>3, <1>13, <2>0 DEF HeadsOf, Unresolved
  <2>2. /\ Answers(x) = {} /\ Lookups(x) = {} /\ Thens(x) = {}
        /\ \A q, c : Feeds(q, c, x) => q = p /\ c.id = cb.id
    <3>1. \A i \in Answers(x) : Claims(x, <<"answer", i, 0>>)  BY DEF Claims
    <3>2. \A i \in Thens(x) : Claims(x, <<"thenable", i, 0>>)  BY DEF Claims
    <3>3. \A i \in Lookups(x) : Claims(x, <<"lookup", i, 0>>)  BY DEF Claims
    <3>4. \A q, c : Feeds(q, c, x) => Claims(x, <<"reaction", q, c.id>>)  BY DEF Claims
    <3> QED  BY <2>1, <3>1, <3>2, <3>3, <3>4
  <2>3. \A q, c : ~Feeds(q, c, x)'
    <3> SUFFICES ASSUME NEW q, NEW c, Feeds(q, c, x)'  PROVE FALSE
      OBVIOUS
    <3>1. Feeds(q, c, x)  BY <1>6
    <3>2. q = p /\ c.id = cb.id  BY <2>2, <3>1
    <3>3. PICK s : Keeps(p, s, c)'  BY <3>2 DEF Feeds
    <3> QED  BY <1>8, <3>2, <3>3
  <2>4. \A i \in Answers(x)' :
            i = n + 1 /\ Len(stack') = n + 1 /\ stack'[n + 1].kind = "user"
    <3> SUFFICES ASSUME NEW i \in Answers(x)'
                 PROVE  i = n + 1 /\ Len(stack') = n + 1 /\ stack'[n + 1].kind = "user"
      OBVIOUS
    <3>1. i \in 1 .. Len(stack') /\ stack'[i].kind = "user" /\ stack'[i].returns = x
      BY DEF Answers
    <3>2. ~(i \in 1 .. Len(stack) /\ stack'[i] = stack[i])
      BY <2>2, <3>1 DEF Answers
    <3> QED  BY <1>9, <3>1, <3>2
  <2>5. \A i \in Lookups(x)' :
            i = n + 1 /\ Len(stack') = n + 1 /\ stack'[n + 1].kind = "lookup"
    <3> SUFFICES ASSUME NEW i \in Lookups(x)'
                 PROVE  i = n + 1 /\ Len(stack') = n + 1 /\ stack'[n + 1].kind = "lookup"
      OBVIOUS
    <3>1. i \in 1 .. Len(stack') /\ stack'[i].kind = "lookup" /\ stack'[i].promise = x
      BY DEF Lookups
    <3>2. ~(i \in 1 .. Len(stack) /\ stack'[i] = stack[i])
      BY <2>2, <3>1 DEF Lookups
    <3> QED  BY <1>9, <3>1, <3>2
  <2>6. Thens(x)' = {}  BY <1>2, <1>4, <2>2 DEF Passed, OldThens
  <2>7. PICK claim : claim = IF stack'[n + 1].kind = "user" THEN <<"answer", n + 1, 0>>
                                                           ELSE <<"lookup", n + 1, 0>>
    OBVIOUS
  <2>8. \A a : Claims(x, a)' => a = claim /\ Len(stack') = n + 1
    <3> SUFFICES ASSUME NEW a, Claims(x, a)'  PROVE a = claim /\ Len(stack') = n + 1
      OBVIOUS
    <3>1. \/ \E i \in Answers(x)' : a = <<"answer", i, 0>>
          \/ \E i \in Lookups(x)' : a = <<"lookup", i, 0>>
      BY <2>3, <2>6 DEF Claims
    <3>2. ASSUME NEW i \in Answers(x)', a = <<"answer", i, 0>>
          PROVE  a = claim /\ Len(stack') = n + 1
      <4>1. i = n + 1 /\ Len(stack') = n + 1 /\ stack'[n + 1].kind = "user"  BY <2>4
      <4> QED  BY <2>7, <3>2, <4>1
    <3>3. ASSUME NEW i \in Lookups(x)', a = <<"lookup", i, 0>>
          PROVE  a = claim /\ Len(stack') = n + 1
      <4>1. i = n + 1 /\ Len(stack') = n + 1 /\ stack'[n + 1].kind = "lookup"  BY <2>5
      <4> QED  BY <2>7, <3>3, <4>1
    <3> QED  BY <3>1, <3>2, <3>3
  <2>9. Len(stack') = n + 1 => state'[x] = "pending"
    <3>1. Len(stack') = n + 1 => state'[x] = state[x]  BY <1>2, <1>4 DEF Passed
    <3> QED  BY <2>1, <3>1
  <2>10. x \notin resolvers'  BY <1>2, <2>1
  <2> QED  BY <2>8, <2>9, <2>10 DEF Unresolved
<1>14. Follows(x)'
  <2> DEFINE q == first[x]
  <2> SUFFICES ASSUME q \in Promise \ {x}, x \notin again
               PROVE  /\ Adopts(x)' /\ \A r, c : Feeds(r, c, x)' => r = q
                      /\ \A i \in Lookups(x)' :
                            \/ stack'[i].of = q
                            \/ stack'[i].of = Object /\ value'[q] = Object
    BY <1>2 DEF Follows
  <2>1. /\ Adopts(x) /\ \A r, c : Feeds(r, c, x) => r = q
        /\ \A i \in Lookups(x) : stack[i].of = q \/ (stack[i].of = Object /\ value[q] = Object)
    BY <1>2, <1>3 DEF HeadsOf, Follows
  <2>2. p = q  BY <1>7, <2>1
  <2>3. /\ value[q] = Object => value'[q] = Object
        /\ state'[x] = state[x] => Adopts(x)'
    BY <1>2, <2>1, StillAdopts
  <2>4. Adopts(x)'
    <3>1. ASSUME Settled(p) /\ state'[x] = state[p] /\ value'[x] = value[p]
          PROVE  Adopts(x)'
      <4>1. state'[p] = state[p] /\ value'[p] = value[p]
        BY <1>2, <3>1 DEF Lasting, Stays
      <4> QED  BY <1>2, <2>2, <3>1, <4>1 DEF Adopts
    <3> QED  BY <1>4, <2>3, <3>1 DEF Passed
  <2>5. ASSUME NEW i \in Lookups(x)'
        PROVE  stack'[i].of = q \/ (stack'[i].of = Object /\ value'[q] = Object)
    <3>1. i \in 1 .. Len(stack') /\ stack'[i].kind = "lookup" /\ stack'[i].promise = x
      BY DEF Lookups
    <3>2. CASE i \in 1 .. Len(stack) /\ stack'[i] = stack[i]
      <4>1. i \in Lookups(x)  BY <3>1, <3>2 DEF Lookups
      <4> QED  BY <2>1, <2>3, <3>2, <4>1
    <3>3. CASE stack'[i] = Lookup(x, Object) /\ value[p] = Object
      BY <1>10, <2>2, <2>3, <3>3
    <3> QED  BY <1>9, <1>10, <3>1, <3>2, <3>3
  <2>6. \A r, c : Feeds(r, c, x)' => r = q  BY <1>6, <2>1
  <2> HIDE DEF q
  <2> QED  BY <2>4, <2>5, <2>6
<1>15. HeadsOf(x)'
  BY <1>2, <1>12, <1>13, <1>14 DEF HeadsOf
<1> QED  BY <1>2, <1>3, <1>11, <1>15 DEF HeadInv

\* At first nothing is promised.
LEMMA HeadStarted == Init => HeadInv
<1> SUFFICES ASSUME Init  PROVE HeadInv
  OBVIOUS
<1>1. /\ callbacks = [p \in Promise |-> <<>>] /\ queue = <<>> /\ resolvers = {}
      /\ state = [p \in Promise |-> "unused"] /\ first = [p \in Promise |-> None]
      /\ stack = <<Pump(None, "drain"), User(None, None)>>
  BY DEF Init
<1>2. /\ Len(stack) = 2 /\ stack[1].kind = "pump"
      /\ stack[2].kind = "user" /\ stack[2].returns = None /\ stack[2].throws = None
  BY <1>1 DEF Pump, User
<1>3. \A i \in 1 .. Len(stack) : i = 1 \/ i = 2  BY <1>2
<1>4. ASSUME NEW p \in Promise  PROVE HeadsOf(p)
  <2>1. p # None /\ first[p] = None /\ state[p] = "unused"  BY <1>1, PromiseAssumption
  <2>2. Answers(p) = {} /\ Throwers(p) = {}  BY <1>2, <1>3, <2>1 DEF Answers, Throwers
  <2>3. Lookups(p) = {} /\ Thens(p) = {}  BY <1>1, <1>2, <1>3 DEF Lookups, Thens
  <2>4. \A q, c : ~Feeds(q, c, p)
    <3> SUFFICES ASSUME NEW q \in Promise, NEW s, NEW c, Keeps(q, s, c)  PROVE FALSE
      BY DEF Feeds
    <3>1. FramesOf(q) = {}  BY <1>2, <1>3 DEF FramesOf
    <3> QED  BY <1>1, <3>1 DEF Keeps
  <2>5. \A a : ~Claims(p, a)  BY <2>2, <2>3, <2>4 DEF Claims
  <2>6. Unresolved(p)  BY <1>1, <2>5 DEF Unresolved
  <2>7. first[p] \notin Promise  BY <2>1, PromiseAssumption
  <2> QED  BY <2>1, <2>2, <2>6, <2>7 DEF HeadsOf, Follows
<1> QED  BY <1>1, <1>4 DEF HeadInv

\* The end of a job with reactions asks nothing.
LEMMA EndHead ==
  ASSUME IInv, Lasting, HistoryInv, HeadInv, EndReactions
  PROVE  HeadInv'
<1>1. NoneNew  BY EndFiles DEF NoneNew
<1>2. /\ stack \in Seq(Frame) /\ stack # <<>> /\ stack' = Below /\ queue \in Seq(Job)
      /\ UNCHANGED <<state, queue, resolvers, first, again>>
  BY DEF EndReactions, IInv, history, PromiseType
<1>3. OldFunctions
  <2> DEFINE n == Len(stack) - 1
  <2>1. n \in 0 .. Len(stack)  BY <1>2, TopFrame
  <2>2. stack' = SubSeq(stack, 1, n)  BY <1>2 DEF Below
  <2> HIDE DEF n
  <2>3. Len(stack) \in Nat /\ Len(stack') = n /\ \A i \in 1 .. n : stack'[i] = stack[i]
    BY <1>2, <2>1, <2>2, FramesCut
  <2> QED  BY <2>1, <2>3 DEF OldFunctions
<1>4. OldLookups(User(None, None))
  <2>1. User(None, None) \in Frame  BY DEF User, Frame
  <2> QED  BY <1>2, <2>1, LookupFrames
<1>5. \A p \in Promise : OldThens(p)
  <2>1. CallbackJob \in Job /\ \A y : CallbackJob # ThenableJob(y)
    BY DEF CallbackJob, ThenableJob, Job
  <2> QED  BY <1>2, <2>1, OtherJob
<1> QED  BY <1>1, <1>2, <1>3, <1>4, <1>5, NothingAsked

\* Every step that does no damage keeps HeadInv.
LEMMA HeadStep ==
  ASSUME IInv, HistoryInv, Undamaged => HeadInv, [Next]_vars, Undamaged'
  PROVE  HeadInv'
<1>0. /\ Whole' = Promise /\ Whole = Promise /\ Lasting /\ HeadInv
  BY Stepped, NothingForgotten, WithoutDamage
<1>1. CASE \/ \E p \in Promise : New(p)
           \/ \E p, next \in Promise, f, r \in BOOLEAN : Then(p, f, r, next)
           \/ \E p \in Promise, v \in Value : Reject(p, v)
           \/ QueueCallback
           \/ UNCHANGED vars
  BY <1>0, <1>1, OperationsHead
<1>2. CASE \/ \E p \in Promise : Await(p)
           \/ EndDrain \/ EndPoll \/ Event \/ ThrowUncaught \/ ThrowThroughReactions
  BY <1>0, <1>2, PumpsHead
<1>3. CASE \/ \E p \in Promise, v \in Resolution : Resolve(p, v)
           \/ (\E v \in Resolution : Return(v)) \/ \E v \in Value : Throw(v)
  BY <1>0, <1>3, CallsHead
<1>4. CASE EndLookup \/ ThrowToCaller \/ \E v \in Value : ThrowLookup(v)
  BY <1>0, <1>4, LookupHead
<1>5. CASE RunJob  BY <1>0, <1>5, JobHead
<1>6. CASE RunReaction  BY <1>0, <1>6, ReactionHead
<1>7. CASE EndReactions  BY <1>0, <1>7, EndHead
<1> QED  BY <1>1, <1>2, <1>3, <1>4, <1>5, <1>6, <1>7 DEF Next, UserCode, Runtime

\* As long as no exception has cut reactions off: a promise resolved with another
\* one, and not settled again by user code in the meantime, settles as that one
\* does, unless a promise was overwritten.
THEOREM Adopted == Spec => [](cut = {} => AdoptionKept)
<1>1. IInv /\ HistoryInv /\ (Undamaged => HeadInv) /\ [Next]_vars => (Undamaged => HeadInv)'
  BY HeadStep
<1>2. (Undamaged => HeadInv) => (cut = {} => AdoptionKept)
  <2> SUFFICES ASSUME HeadInv, NEW p \in Promise \ again  PROVE Adopts(p)
    BY DEF AdoptionKept, Undamaged
  <2>1. Follows(p)  BY DEF HeadInv, HeadsOf
  <2> QED  BY <2>1 DEF Follows, Adopts
<1> QED  BY Invariance, Placed, HeadStarted, <1>1, <1>2, PTL DEF Spec

------------------------------------------------------------------------------
(* How awaits end.                                                           *)

\* A pump on the stack waits for a promise that exists.
AwaitInv == \A i \in 1 .. Len(stack) : stack[i].kind = "pump" /\ stack[i].promise # None =>
                state[stack[i].promise] # "unused"

\* A pump was there before, or waits for a promise that was.
OldPumps == \A i \in 1 .. Len(stack') : stack'[i].kind = "pump" =>
    \/ stack'[i].promise = None
    \/ \E k \in 1 .. Len(stack) : stack[k].kind = "pump" /\ stack[k].promise = stack'[i].promise
    \/ state[stack'[i].promise] # "unused"

\* A frame is left, and if it is a pump it has nothing to wait for.
Leaves == /\ stack # <<>> /\ Len(stack') = Len(stack) - 1
          /\ Top.kind # "pump" \/ ~Waiting(Top)

\* How the stack changes: frames are added or exchanged, or one is left,
\* unless nobody catches an exception.
StackMoves == OldPumps /\ \/ ThrowUncaught \/ ThrowThroughReactions
                          \/ Leaves
                          \/ Len(stack) <= Len(stack')

LEMMA SomeCut ==
  ASSUME stack \in Seq(Frame), NEW n \in 0 .. Len(stack), stack' = SubSeq(stack, 1, n)
  PROVE  OldPumps /\ Len(stack') = n
<1>1. Len(stack) \in Nat /\ Len(stack') = n /\ \A i \in 1 .. n : stack'[i] = stack[i]
  BY FramesCut
<1> QED  BY <1>1 DEF OldPumps

LEMMA TopLeft ==
  ASSUME stack \in Seq(Frame), stack # <<>>, stack' = Below, Top.kind # "pump" \/ ~Waiting(Top)
  PROVE  StackMoves
<1>1. Len(stack) - 1 \in 0 .. Len(stack)  BY TopFrame
<1>2. OldPumps /\ Len(stack') = Len(stack) - 1  BY <1>1, SomeCut DEF Below
<1> QED  BY <1>2 DEF StackMoves, Leaves

LEMMA OneMore ==
  ASSUME stack \in Seq(Frame), NEW f \in Frame, stack' = Append(stack, f),
         f.kind = "pump" => state[f.promise] # "unused"
  PROVE  StackMoves
<1>1. /\ Len(stack) \in Nat /\ Len(stack') = Len(stack) + 1
      /\ \A i \in 1 .. Len(stack) : stack'[i] = stack[i]
      /\ stack'[Len(stack) + 1] = f
  BY FramePushed
<1>2. \A i \in 1 .. Len(stack') : i \in 1 .. Len(stack) \/ i = Len(stack) + 1  BY <1>1
<1>3. OldPumps  BY <1>1, <1>2 DEF OldPumps
<1> QED  BY <1>1, <1>3 DEF StackMoves

LEMMA TopTurns ==
  ASSUME stack \in Seq(Frame), stack # <<>>, Top.kind = "pump", NEW f \in Frame,
         stack' = Append(Below, f), f.promise = Top.promise
  PROVE  StackMoves
<1>1. /\ Len(stack) \in Nat /\ Len(stack) > 0 /\ Len(stack') = Len(stack)
      /\ \A i \in 1 .. Len(stack) - 1 : stack'[i] = stack[i]
      /\ stack'[Len(stack)] = f
  BY FrameExchanged
<1>2. \A i \in 1 .. Len(stack') : i \in 1 .. Len(stack) - 1 \/ i = Len(stack)  BY <1>1
<1>3. Len(stack) \in 1 .. Len(stack) /\ stack[Len(stack)] = Top  BY <1>1 DEF Top
<1>4. \A i \in 1 .. Len(stack) - 1 : i \in 1 .. Len(stack)  BY <1>1
<1>5. OldPumps  BY <1>1, <1>2, <1>3, <1>4 DEF OldPumps
<1> QED  BY <1>1, <1>5 DEF StackMoves

LEMMA TopGives ==
  ASSUME stack \in Seq(Frame), stack # <<>>, NEW f \in Frame, stack' = Append(Below, f),
         f.kind # "pump"
  PROVE  StackMoves
<1>1. /\ Len(stack) \in Nat /\ Len(stack) > 0 /\ Len(stack') = Len(stack)
      /\ \A i \in 1 .. Len(stack) - 1 : stack'[i] = stack[i]
      /\ stack'[Len(stack)] = f
  BY FrameExchanged
<1>2. \A i \in 1 .. Len(stack') : i \in 1 .. Len(stack) - 1 \/ i = Len(stack)  BY <1>1
<1>3. \A i \in 1 .. Len(stack) - 1 : i \in 1 .. Len(stack)  BY <1>1
<1>4. OldPumps  BY <1>1, <1>2, <1>3 DEF OldPumps
<1> QED  BY <1>1, <1>4 DEF StackMoves

\* Resolving leaves the stack it is called with, or pushes a lookup on it.
LEMMA ResolveMoves ==
  ASSUME IInv, stack # <<>>, NEW x \in Promise, NEW v,
         \/ ResolveInternal(x, v, stack)
         \/ Top.kind # "pump" /\ ResolveInternal(x, v, Below)
  PROVE  StackMoves
<1>1. PromiseType /\ stack \in Seq(Frame) /\ Len(stack) \in Nat  BY DEF IInv
<1>2. Lookup(x, v).kind = "lookup"  BY DEF Lookup
<1>3. \/ stack' = stack \/ (stack' = Below /\ Top.kind # "pump")
      \/ /\ stack' \in {Append(stack, Lookup(x, v)), Append(Below, Lookup(x, v))}
         /\ Lookup(x, v) \in Frame
  BY <1>1, ResolveEffects
<1>4. CASE stack' = stack  BY <1>1, <1>4 DEF StackMoves, OldPumps
<1> QED  BY <1>1, <1>2, <1>3, <1>4, TopLeft, OneMore, TopGives

\* All actions change the stack in one of these ways.
LEMMA StackMoved ==
  ASSUME IInv, [Next]_vars
  PROVE  StackMoves
<1>1. /\ PromiseType /\ stack \in Seq(Frame) /\ FrameInv /\ Len(stack) \in Nat
  BY DEF IInv
<1>2. ASSUME stack' = stack  PROVE StackMoves
  BY <1>1, <1>2 DEF StackMoves, OldPumps
<1>3. ASSUME \/ \E p \in Promise : New(p)
             \/ \E p, next \in Promise, f, r \in BOOLEAN : Then(p, f, r, next)
             \/ \E p \in Promise, v \in Value : Reject(p, v)
             \/ QueueCallback
             \/ UNCHANGED vars
      PROVE  StackMoves
  <2>1. stack' = stack  BY <1>3 DEF New, Then, Reject, QueueCallback, history, vars
  <2> QED  BY <1>2, <2>1
<1>4. ASSUME NEW p \in Promise, Await(p)  PROVE StackMoves
  <2>1. /\ state[p] # "unused"
        /\ stack' = stack \/ stack' = Append(stack, Pump(p, "drain"))
    BY <1>4 DEF Await, Push
  <2>2. Pump(p, "drain") \in Frame /\ Pump(p, "drain").promise = p  BY DEF Pump, Frame
  <2> QED  BY <1>1, <1>2, <2>1, <2>2, OneMore
<1>5. ASSUME \/ (\E v \in Value : Throw(v)) \/ EndReactions
             \/ EndLookup \/ ThrowToCaller \/ \E v \in Value : ThrowLookup(v)
      PROVE  StackMoves
  <2>1. stack # <<>> /\ stack' = Below /\ Top.kind # "pump"
    BY <1>5 DEF Throw, EndReactions, EndLookup, ThrowToCaller, ThrowLookup, LooksUp
  <2> QED  BY <1>1, <2>1, TopLeft
<1>6. CASE ThrowUncaught \/ ThrowThroughReactions
  <2>1. PICK m \in 0 .. Len(stack) : stack' = SubSeq(stack, 1, m)
    BY <1>1, <1>6, UnwindsTo DEF ThrowUncaught, ThrowThroughReactions
  <2> QED  BY <1>1, <1>6, <2>1, SomeCut DEF StackMoves
<1>7. CASE EndDrain \/ EndPoll
  <2>1. /\ stack # <<>> /\ Top.kind = "pump"
        /\ \/ \E a \in {"drain", "poll"} : stack' = Append(Below, [Top EXCEPT !.at = a])
           \/ stack' = Below /\ ~Waiting(Top)
    BY <1>7 DEF EndDrain, EndPoll, Pumps, Replace
  <2>2. Top \in [kind : {"pump"}, promise : Promise \cup {None}, at : {"drain", "poll"}]
    BY <1>1, <2>1, TopFrame, FrameKinds
  <2>3. ASSUME NEW a \in {"drain", "poll"}, stack' = Append(Below, [Top EXCEPT !.at = a])
        PROVE  StackMoves
    <3> DEFINE f == [Top EXCEPT !.at = a]
    <3>1. f \in Frame /\ f.promise = Top.promise  BY <2>2 DEF Frame
    <3>2. stack' = Append(Below, f)  BY <2>3
    <3> HIDE DEF f
    <3> QED  BY <1>1, <2>1, <3>1, <3>2, TopTurns
  <2> QED  BY <1>1, <2>1, <2>3, TopLeft
<1>8. CASE Event
  <2>1. User(None, None) \in Frame /\ User(None, None).kind = "user"  BY DEF User, Frame
  <2> QED  BY <1>1, <1>8, <2>1, OneMore DEF Event, Push
<1>9. CASE RunJob
  <2>1. PICK j \in Job, f \in Frame :
           /\ stack' = Append(stack, f)
           /\ f.kind = "reactions" \/ (\E x : f = User(None, x))
    BY <1>9, JobTaken
  <2>2. f.kind # "pump"  BY <2>1 DEF User
  <2> QED  BY <1>1, <2>1, <2>2, OneMore
<1>10. CASE RunReaction
  <2>1. PICK p, cb, n, l, rest : Takes(p, cb, n, l, rest)  BY <1>10, ReactionTaken
  <2>2. /\ n \in Nat /\ n = Len(stack) /\ stack'[n].kind = "reactions"
        /\ \A i \in 1 .. n - 1 : stack'[i] = stack[i]
        /\ \/ Len(stack') = n
           \/ Len(stack') = n + 1 /\ stack'[n + 1].kind \in {"user", "lookup"}
    BY <2>1 DEF Takes, User, Lookup
  <2>3. ASSUME NEW i \in 1 .. Len(stack'), stack'[i].kind = "pump"
        PROVE  i \in 1 .. Len(stack) /\ stack'[i] = stack[i]
    <3>1. i \in 1 .. n - 1 \/ i = n \/ (i = n + 1 /\ Len(stack') = n + 1)  BY <2>2
    <3> QED  BY <2>2, <2>3, <3>1
  <2>4. OldPumps  BY <2>3 DEF OldPumps
  <2> QED  BY <2>2, <2>4 DEF StackMoves
<1>11. ASSUME NEW p \in Promise, NEW v \in Resolution, Resolve(p, v)  PROVE StackMoves
  BY <1>11, ResolveMoves DEF Resolve, Operate, UserRuns
<1>12. ASSUME NEW v \in Resolution, Return(v)  PROVE StackMoves
  <2>1. stack # <<>> /\ Top.kind = "user"  BY <1>12 DEF Return
  <2>2. CASE Top.returns = None  BY <1>1, <1>12, <2>1, <2>2, TopLeft DEF Return
  <2>3. CASE Top.returns # None
    <3>1. Top.returns \in Promise  BY <2>1, <2>3, UserFrame
    <3> QED  BY <1>12, <2>1, <2>3, <3>1, ResolveMoves DEF Return
  <2> QED  BY <2>2, <2>3
<1> QED  BY <1>3, <1>4, <1>5, <1>6, <1>7, <1>8, <1>9, <1>10, <1>11, <1>12
         DEF Next, UserCode, Runtime

\* A promise that exists does not go away.
LEMMA StillThere ==
  ASSUME IInv, [Next]_vars, NEW q \in Promise, state[q] # "unused"
  PROVE  state'[q] # "unused"
<1>1. /\ PromiseType /\ stack \in Seq(Frame)
      /\ state \in [Promise -> {"unused", "pending", "fulfilled", "rejected"}]
  BY DEF IInv, PromiseType
<1>2. ASSUME NEW x \in Promise, NEW v, Effects(x, v)  PROVE state'[q] # "unused"
  BY <1>2 DEF Effects
<1>3. stack # <<>> /\ Top.kind = "user" =>
        Top.returns \in Promise \cup {None} /\ Top.throws \in Promise \cup {None}
  BY UserFrame
<1>4. ASSUME UNCHANGED state  PROVE state'[q] # "unused"
  BY <1>4
<1>5. ASSUME NEW p \in Promise, New(p)  PROVE state'[q] # "unused"
  BY <1>1, <1>5 DEF New
<1>6. ASSUME NEW p \in Promise, NEW next \in Promise, NEW f \in BOOLEAN, NEW r \in BOOLEAN,
             Then(p, f, r, next)
      PROVE  state'[q] # "unused"
  BY <1>1, <1>6 DEF Then
<1>7. ASSUME NEW p \in Promise, NEW v \in Resolution, Resolve(p, v)
      PROVE  state'[q] # "unused"
  BY <1>1, <1>2, <1>7, ResolveEffects DEF Resolve
<1>8. ASSUME NEW p \in Promise, NEW v \in Value, Reject(p, v)
      PROVE  state'[q] # "unused"
  BY <1>1, <1>2, <1>8, NotNone, RejectEffects DEF Reject
<1>9. ASSUME NEW v \in Resolution, Return(v)  PROVE state'[q] # "unused"
  <2>1. CASE Top.returns = None
    <3>1. UNCHANGED state  BY <1>9, <2>1 DEF Return, promiseVars
    <3> QED  BY <1>4, <3>1
  <2>2. CASE Top.returns # None
    <3>1. Top.returns \in Promise /\ ResolveInternal(Top.returns, v, Below)
      BY <1>3, <1>9, <2>2 DEF Return
    <3> QED  BY <1>1, <1>2, <3>1, ResolveEffects
  <2> QED  BY <2>1, <2>2
<1>10. ASSUME NEW v \in Value, Throw(v)  PROVE state'[q] # "unused"
  <2>1. Top.throws \in Promise /\ RejectInternal(Top.throws, v)
    BY <1>3, <1>10 DEF Throw
  <2> QED  BY <1>1, <1>2, <2>1, NotNone, RejectEffects
<1>11. CASE RunReaction
  <2>1. PICK p, cb, n, l, rest : Takes(p, cb, n, l, rest)  BY <1>11, ReactionTaken
  <2>2. Passed(p, cb.next, n)  BY <1>11, <2>1, PassedOn
  <2>3. cb.next \in Promise  BY <2>1 DEF Takes, Reaction
  <2> QED  BY <2>2, <2>3 DEF Passed, Settled
<1>12. CASE \/ \E p \in Promise : Await(p)
            \/ QueueCallback \/ ThrowUncaught \/ ThrowToCaller \/ ThrowThroughReactions
            \/ RunJob \/ EndReactions \/ EndDrain \/ EndPoll \/ Event \/ UNCHANGED vars
  <2>1. UNCHANGED state
    BY <1>12 DEF Await, QueueCallback, ThrowUncaught, ThrowToCaller, ThrowThroughReactions,
                 Unwind, RunJob, EndReactions, EndDrain, EndPoll, Event, vars, promiseVars
  <2> QED  BY <1>4, <2>1
<1>13. CASE EndLookup \/ \E v \in Value : ThrowLookup(v)
  <2>1. PICK x : x = Top.promise  OBVIOUS
  <2>2. \/ UNCHANGED state
        \/ \E how \in {"fulfilled", "rejected"} : state' = [state EXCEPT ![x] = how]
    BY <1>13, <2>1 DEF EndLookup, ThrowLookup, Settle, RejectInternal, promiseVars
  <2> QED  BY <1>1, <1>4, <2>2
<1> QED  BY <1>5, <1>6, <1>7, <1>8, <1>9, <1>10, <1>11, <1>12, <1>13
         DEF Next, UserCode, Runtime

\* Every step keeps AwaitInv.
LEMMA AwaitStep ==
  ASSUME IInv, AwaitInv, [Next]_vars
  PROVE  AwaitInv'
<1>1. OldPumps  BY StackMoved DEF StackMoves
<1>2. stack \in Seq(Frame) /\ stack' \in Seq(Frame)  BY Stepped DEF IInv
<1> SUFFICES ASSUME NEW i \in 1 .. Len(stack'), stack'[i].kind = "pump",
                    stack'[i].promise # None
             PROVE  state'[stack'[i].promise] # "unused"
  BY DEF AwaitInv
<1>3. stack'[i].promise \in Promise
  <2>1. stack'[i] \in Frame  BY <1>2, ElementOfSeq
  <2>2. stack'[i] \in [kind : {"pump"}, promise : Promise \cup {None}, at : {"drain", "poll"}]
    BY <2>1, FrameKinds
  <2> QED  BY <2>2
<1>4. state[stack'[i].promise] # "unused"  BY <1>1 DEF OldPumps, AwaitInv
<1>5. PICK q \in Promise : q = stack'[i].promise  BY <1>3
<1> QED  BY <1>4, <1>5, StillThere

\* An await is left when its promise is settled, and not before, unless an
\* exception that nobody catches unwinds it: the two ways there are to break
\* AwaitUntilSettled.
THEOREM LeftWhenSettled ==
  Spec => [][\/ ThrowUncaught \/ ThrowThroughReactions
             \/ \A i \in Awaits : Len(stack') < i /\ stack' # <<>> =>
                                      Settled(stack[i].promise)]_vars
<1>1. Init => AwaitInv
  <2> SUFFICES ASSUME Init  PROVE AwaitInv
    OBVIOUS
  <2>1. stack = <<Pump(None, "drain"), User(None, None)>>  BY DEF Init
  <2>2. Len(stack) = 2 /\ stack[1].promise = None /\ stack[2].kind = "user"
    BY <2>1 DEF Pump, User
  <2>3. \A i \in 1 .. Len(stack) : i = 1 \/ i = 2  BY <2>2
  <2> QED  BY <2>2, <2>3 DEF AwaitInv
<1>2. IInv /\ AwaitInv /\ [Next]_vars => AwaitInv'  BY AwaitStep
<1>3. IInv /\ AwaitInv /\ [Next]_vars =>
        [\/ ThrowUncaught \/ ThrowThroughReactions
         \/ \A i \in Awaits : Len(stack') < i /\ stack' # <<>> =>
                                  Settled(stack[i].promise)]_vars
  <2> SUFFICES ASSUME IInv, AwaitInv, [Next]_vars, ~ThrowUncaught,
                      ~ThrowThroughReactions, NEW i \in Awaits, Len(stack') < i
               PROVE  Settled(stack[i].promise)
    OBVIOUS
  <2>1. /\ stack \in Seq(Frame) /\ Len(stack) \in Nat /\ stack' \in Seq(Frame)
        /\ state \in [Promise -> {"unused", "pending", "fulfilled", "rejected"}]
    BY Stepped DEF IInv, PromiseType
  <2>2. i \in 1 .. Len(stack) /\ stack[i].kind = "pump"  BY DEF Awaits
  <2>3. Leaves  BY <2>1, <2>2, StackMoved DEF StackMoves
  <2>4. i = Len(stack) /\ stack[i] = Top  BY <2>1, <2>2, <2>3 DEF Leaves, Top
  <2>5. Top.promise # None /\ state[Top.promise] # "pending"
    BY <2>2, <2>3, <2>4 DEF Leaves, Waiting
  <2>6. state[Top.promise] # "unused"  BY <2>2, <2>4, <2>5 DEF AwaitInv
  <2>7. Top.promise \in Promise
    <3>1. Top \in [kind : {"pump"}, promise : Promise \cup {None}, at : {"drain", "poll"}]
      BY <2>1, <2>2, <2>4, ElementOfSeq, FrameKinds
    <3> QED  BY <2>5, <3>1
  <2> QED  BY <2>1, <2>4, <2>5, <2>6, <2>7 DEF Settled
<1> QED  BY Invariance, <1>1, <1>2, <1>3, PTL DEF Spec
============================================================================

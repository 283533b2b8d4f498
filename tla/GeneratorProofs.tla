--------------------------- MODULE GeneratorProofs ---------------------------
(***************************************************************************)
(* Proofs about module Generator, for every number of requests and every   *)
(* depth of try statements: its type invariant, its five invariants and    *)
(* the action property.                                                    *)
(*   IInv adds to them who is being served.  The answers of an async       *)
(* generator, the request that runs and the queue are one sequence of      *)
(* numbers without a gap: that is what puts each answer into its place,    *)
(* and leaves nothing in the queue when the drain has come to its end.     *)
(***************************************************************************)
EXTENDS Generator, SequenceTheorems, TLAPS

(***************************************************************************)
(* The stack of exception handlers while the body runs, in n try           *)
(* statements.                                                             *)
(***************************************************************************)
Frame == {"caller", "barrier", "try"}
Stack(n) == <<"caller">> \o (Barrier \o Tries(n))

\* What the stack holds: the caller's handler, the barrier of an async
\* generator, the try statements.
LEMMA StackShape ==
  ASSUME NEW n \in Nat
  PROVE  /\ Stack(n) \in Seq(Frame)
         /\ Len(Barrier) \in 0..1
         /\ kind = "async" <=> Len(Barrier) = 1
         /\ Len(Stack(n)) = 1 + Len(Barrier) + n
         /\ \A i \in 1..Len(Stack(n)) :
              Stack(n)[i] = IF i = 1 THEN "caller"
                            ELSE IF i <= 1 + Len(Barrier) THEN "barrier" ELSE "try"
<1>1. Barrier \in Seq(Frame) /\ Len(Barrier) \in 0..1
      /\ (kind = "async" <=> Len(Barrier) = 1)
      /\ \A i \in 1..Len(Barrier) : Barrier[i] = "barrier"
  <2>1. CASE kind = "async"
    <3>1. Barrier = <<"barrier">>  BY <2>1 DEF Barrier
    <3> QED  BY <2>1, <3>1 DEF Frame
  <2>2. CASE kind # "async"
    <3>1. Barrier = <<>>  BY <2>2 DEF Barrier
    <3> QED  BY <2>2, <3>1 DEF Frame
  <2> QED  BY <2>1, <2>2
<1>2. Tries(n) \in Seq(Frame) /\ Len(Tries(n)) = n
      /\ \A i \in 1..n : Tries(n)[i] = "try"
  BY DEF Tries, Frame
<1>3. <<"caller">> \in Seq(Frame) /\ Len(<<"caller">>) = 1 /\ <<"caller">>[1] = "caller"
  BY DEF Frame
<1>4. /\ Barrier \o Tries(n) \in Seq(Frame)
      /\ Len(Barrier \o Tries(n)) = Len(Barrier) + n
      /\ \A i \in 1..Len(Barrier) + n :
           (Barrier \o Tries(n))[i] = IF i <= Len(Barrier) THEN "barrier" ELSE "try"
  <2>1. /\ Barrier \o Tries(n) \in Seq(Frame)
        /\ Len(Barrier \o Tries(n)) = Len(Barrier) + Len(Tries(n))
        /\ \A i \in 1..Len(Barrier) + Len(Tries(n)) :
             (Barrier \o Tries(n))[i] = IF i <= Len(Barrier) THEN Barrier[i]
                                        ELSE Tries(n)[i - Len(Barrier)]
    BY <1>1, <1>2, ConcatProperties
  <2> QED  BY <1>1, <1>2, <2>1
<1>5. /\ Stack(n) \in Seq(Frame)
      /\ Len(Stack(n)) = 1 + Len(Barrier \o Tries(n))
      /\ \A i \in 1..1 + Len(Barrier \o Tries(n)) :
           Stack(n)[i] = IF i <= 1 THEN <<"caller">>[i] ELSE (Barrier \o Tries(n))[i - 1]
  <2> DEFINE u == Barrier \o Tries(n)
             c == <<"caller">>
  <2>1. u \in Seq(Frame) /\ c \in Seq(Frame) /\ Len(c) = 1  BY <1>3, <1>4
  <2> HIDE DEF u, c
  <2>2. /\ c \o u \in Seq(Frame) /\ Len(c \o u) = Len(c) + Len(u)
        /\ \A i \in 1..Len(c) + Len(u) : (c \o u)[i] = IF i <= Len(c) THEN c[i] ELSE u[i - Len(c)]
    BY <2>1, ConcatProperties
  <2>3. Stack(n) = c \o u  BY DEF Stack, c, u
  <2> QED  BY <2>1, <2>2, <2>3 DEF c, u
<1>6. Len(Barrier) \in Nat  BY <1>1
<1>7. Len(Stack(n)) = 1 + Len(Barrier) + n  BY <1>4, <1>5, <1>6
<1>8. ASSUME NEW i \in 1..Len(Stack(n))
      PROVE  Stack(n)[i] = IF i = 1 THEN "caller"
                           ELSE IF i <= 1 + Len(Barrier) THEN "barrier" ELSE "try"
  <2>1. CASE i = 1  BY <1>3, <1>4, <1>5, <1>6, <2>1
  <2>2. CASE i # 1
    <3>1. i - 1 \in 1..Len(Barrier) + n /\ i \in 1..1 + Len(Barrier \o Tries(n)) /\ ~(i <= 1)
      BY <1>4, <1>6, <1>7, <2>2
    <3>2. Stack(n)[i] = (Barrier \o Tries(n))[i - 1]  BY <1>5, <3>1
    <3> DEFINE b == Len(Barrier)
               j == i - 1
    <3>3. /\ b \in Nat /\ j \in 1..b + n /\ ~(i = 1)
          /\ j <= b <=> i <= 1 + b
      BY <1>6, <2>2, <3>1
    <3>4. (Barrier \o Tries(n))[j] = IF j <= b THEN "barrier" ELSE "try"
      BY <1>4, <3>1
    <3> HIDE DEF b, j
    <3>5. (Barrier \o Tries(n))[j] = IF i <= 1 + b THEN "barrier" ELSE "try"
      BY ONLY <3>3, <3>4
    <3> QED  BY ONLY <3>2, <3>3, <3>5 DEF b, j
  <2> QED  BY <2>1, <2>2
<1> QED  BY <1>1, <1>5, <1>7, <1>8

\* Nothing else is a sequence of this shape.
LEMMA SameStack ==
  ASSUME NEW n \in Nat, NEW s \in Seq(Frame),
         Len(s) = 1 + Len(Barrier) + n,
         \A i \in 1..Len(s) : s[i] = IF i = 1 THEN "caller"
                                    ELSE IF i <= 1 + Len(Barrier) THEN "barrier" ELSE "try"
  PROVE  s = Stack(n)
<1> DEFINE t == Stack(n)
<1>1. t \in Seq(Frame) /\ Len(t) = Len(s)  BY StackShape
<1>2. \A i \in 1..Len(s) : s[i] = t[i]  BY StackShape
<1> HIDE DEF t
<1>3. s = t  BY <1>1, <1>2, SeqEqual
<1> QED  BY <1>3 DEF t

\* try pushes one handler.
LEMMA StackPush ==
  ASSUME NEW n \in Nat
  PROVE  Append(Stack(n), "try") = Stack(n + 1)
<1> DEFINE s == Append(Stack(n), "try")  m == n + 1
<1>1. /\ Stack(n) \in Seq(Frame)
      /\ Len(Stack(n)) = 1 + Len(Barrier) + n
      /\ Len(Barrier) \in 0..1
  BY StackShape
<1>2. "try" \in Frame  BY DEF Frame
<1>3. /\ s \in Seq(Frame) /\ Len(s) = Len(Stack(n)) + 1
      /\ \A i \in 1..Len(Stack(n)) : s[i] = Stack(n)[i]
      /\ s[Len(Stack(n)) + 1] = "try"
  BY <1>1, <1>2, AppendProperties
<1>4. m \in Nat /\ Len(s) = 1 + Len(Barrier) + m  BY <1>1, <1>3
<1> HIDE DEF s
<1>5. ASSUME NEW i \in 1..Len(s)
      PROVE  s[i] = IF i = 1 THEN "caller"
                    ELSE IF i <= 1 + Len(Barrier) THEN "barrier" ELSE "try"
  <2>1. CASE i \in 1..Len(Stack(n))  BY <1>3, <2>1, StackShape
  <2>2. CASE i \notin 1..Len(Stack(n))
    <3>1. i = Len(Stack(n)) + 1  BY <1>1, <1>3, <2>2
    <3> QED  BY <1>1, <1>3, <3>1
  <2> QED  BY <2>1, <2>2
<1> HIDE DEF m
<1>6. s = Stack(m)  BY <1>3, <1>4, <1>5, SameStack
<1> QED  BY <1>6 DEF s, m

\* One pop, by the end of a try or by a throw, takes the innermost try.
LEMMA StackPop ==
  ASSUME NEW n \in Nat, n > 0
  PROVE  /\ Last(Stack(n)) = "try"
         /\ Front(Stack(n)) = Stack(n - 1)
         /\ SubSeq(Stack(n), 1, Len(Stack(n)) - 1) = Stack(n - 1)
<1> DEFINE k == Len(Stack(n)) - 1  s == SubSeq(Stack(n), 1, k)  m == n - 1
<1>1. /\ Stack(n) \in Seq(Frame)
      /\ Len(Stack(n)) = 1 + Len(Barrier) + n
      /\ Len(Barrier) \in 0..1
      /\ \A i \in 1..Len(Stack(n)) :
           Stack(n)[i] = IF i = 1 THEN "caller"
                         ELSE IF i <= 1 + Len(Barrier) THEN "barrier" ELSE "try"
  BY StackShape
<1>2. Last(Stack(n)) = "try"  BY <1>1 DEF Last
<1>3. k \in Int /\ k >= 1 /\ \A i \in 1..k : Stack(n)[i] \in Frame
  BY <1>1, ElementOfSeq
<1>4. s \in Seq(Frame) /\ Len(s) = k /\ \A i \in 1..k : s[i] = Stack(n)[1 + i - 1]
  <2> HIDE DEF k
  <2>1. s \in Seq(Frame) /\ Len(s) = (IF 1 <= k THEN k - 1 + 1 ELSE 0)
        /\ \A i \in 1..k - 1 + 1 : s[i] = Stack(n)[1 + i - 1]
    BY <1>3, SubSeqProperties
  <2> QED  BY <1>3, <2>1
<1>5. m \in Nat /\ Len(s) = 1 + Len(Barrier) + m  BY <1>1, <1>4
<1> HIDE DEF s
<1>6. \A i \in 1..Len(s) : s[i] = IF i = 1 THEN "caller"
                    ELSE IF i <= 1 + Len(Barrier) THEN "barrier" ELSE "try"
  BY <1>1, <1>3, <1>4
<1> HIDE DEF m
<1>7. s = Stack(m)  BY <1>4, <1>5, <1>6, SameStack
<1> QED  BY <1>2, <1>7 DEF s, m, Front

\* What a suspension or a return pops leaves the caller's handler.
LEMMA StackLeft ==
  ASSUME NEW n \in Nat
  PROVE  SubSeq(Stack(n), 1, Len(Stack(n)) - (n + Len(Barrier))) = <<"caller">>
<1> DEFINE s == Stack(n)  b == Len(Barrier)
<1>1. /\ s \in Seq(Frame) /\ b \in 0..1 /\ Len(s) = 1 + b + n
      /\ \A i \in 1..Len(s) : s[i] = IF i = 1 THEN "caller"
                                     ELSE IF i <= 1 + b THEN "barrier" ELSE "try"
  BY StackShape
<1> HIDE DEF s, b
<1>2. Len(s) - (n + b) = 1 /\ 1 \in 1..Len(s)  BY <1>1
<1>3. s[1] = "caller"  BY <1>1, <1>2
<1>4. SubSeq(s, 1, 1) = <<s[1]>>
  <2>1. /\ SubSeq(s, 1, 1) \in Seq(Frame) /\ Len(SubSeq(s, 1, 1)) = 1
        /\ SubSeq(s, 1, 1)[1] = s[1]
    BY <1>1, <1>2, ElementOfSeq, SubSeqProperties
  <2> DEFINE u == SubSeq(s, 1, 1)  v == <<s[1]>>
  <2>2. v \in Seq(Frame) /\ Len(v) = 1 /\ v[1] = s[1]  BY <1>1, <1>2, ElementOfSeq
  <2>3. u \in Seq(Frame) /\ Len(u) = Len(v) /\ \A i \in 1..Len(u) : u[i] = v[i]
    BY <2>1, <2>2
  <2> HIDE DEF u, v
  <2>4. u = v  BY <2>2, <2>3, SeqEqual
  <2> QED  BY <2>4 DEF u, v
<1>5. SubSeq(s, 1, Len(s) - (n + b)) = <<"caller">>  BY <1>2, <1>3, <1>4
<1> QED  BY <1>5 DEF s, b

\* With no try left a throw meets the barrier, or the caller's handler.
LEMMA StackBottom ==
  /\ Last(Stack(0)) = IF kind = "async" THEN "barrier" ELSE "caller"
  /\ kind = "async" => Front(Stack(0)) = <<"caller">>
  /\ kind # "async" => Stack(0) = <<"caller">>
<1> DEFINE s == Stack(0)  b == Len(Barrier)
<1>1. /\ s \in Seq(Frame) /\ b \in 0..1 /\ (kind = "async" <=> b = 1) /\ Len(s) = 1 + b
      /\ \A i \in 1..Len(s) : s[i] = IF i = 1 THEN "caller"
                                     ELSE IF i <= 1 + b THEN "barrier" ELSE "try"
  BY StackShape
<1>2. SubSeq(s, 1, Len(s) - (0 + b)) = <<"caller">>  BY StackLeft
<1> HIDE DEF s, b
<1>3. CASE kind = "async"
  <2>1. b = 1  BY <1>1, <1>3
  <2>2. Len(s) = 2 /\ Len(s) - (0 + b) = Len(s) - 1  BY <1>1, <2>1
  <2>3. s[2] = "barrier"  BY <1>1, <2>1, <2>2
  <2>4. Last(s) = "barrier" /\ Front(s) = <<"caller">>
    BY <1>2, <2>2, <2>3 DEF Last, Front
  <2> QED  BY <1>3, <2>4 DEF s
<1>4. CASE kind # "async"
  <2>1. b = 0  BY <1>1, <1>4
  <2>2. Len(s) = 1 /\ Len(s) - (0 + b) = Len(s)  BY <1>1, <2>1
  <2>3. s[1] = "caller"  BY <1>1, <2>1, <2>2
  <2>4. Last(s) = "caller"  BY <2>2, <2>3 DEF Last
  <2>5. SubSeq(s, 1, Len(s)) = s  BY <1>1, SubSeqFull
  <2> QED  BY <1>2, <1>4, <2>2, <2>4, <2>5 DEF s
<1> QED  BY <1>3, <1>4

-----------------------------------------------------------------------------
(* The inductive invariant.                                                *)

Results == {"value", "done", "thrown"}
Points  == {"start", "yield", "star"}
AnswerTo(n) == [req : 1..n, point : Points, result : Results]

Busy == IF Running THEN 1 ELSE 0

\* Who is being served: an async generator is executing until its queue is
\* drained, a sync one counts as completed while its body runs.
ServiceInv ==
  /\ kind = "sync" => /\ ~executing /\ pc # "returned"
                      /\ Running => done
  /\ kind = "async" => /\ executing <=> pc # "idle"
                       /\ Running => ~done
  /\ ~executing => queue = <<>> /\ at = 0
  /\ Running <=> current # 0

\* Requests are answered, running or waiting in the queue, in this order.
ArrivalInv == kind = "async" =>
  /\ \A i \in 1..Len(queue) : queue[i] = Len(requests) - Len(queue) + i
  /\ Len(answers) + Busy + (Len(queue) - at) = Len(requests)
  /\ Running => current = Len(answers) + 1

\* Requests to a sync generator are answered at once, but the one it runs for.
SyncInv == kind = "sync" =>
  /\ Len(answers) + Busy = Len(requests)
  /\ \A i \in 1..Len(answers) : answers[i].req # current

\* An answer that ends an async generator marks it as completed.
EndInv == kind = "async" =>
  \A i \in 1..Len(answers) : answers[i].result # "value" => done

AnswerInv == AnswersExact /\ NoValueAfterEnd /\ EndInv

IInv == TypeOK /\ HandlersBalanced /\ ServiceInv /\ ArrivalInv /\ SyncInv /\ AnswerInv

-----------------------------------------------------------------------------
(* Answers.                                                                *)

\* An answer is appended, the older ones stay.
LEMMA Logged ==
  ASSUME NEW N \in Nat, answers \in Seq(AnswerTo(N)), NEW r \in 1..N,
         NEW x \in Results, point \in Points, Answer(r, x)
  PROVE  /\ answers' \in Seq(AnswerTo(N))
         /\ Len(answers') = Len(answers) + 1
         /\ \A i \in 1..Len(answers) : answers'[i] = answers[i]
         /\ answers'[Len(answers) + 1].req = r
         /\ answers'[Len(answers) + 1].result = x
<1> DEFINE a == [req |-> r, point |-> point, result |-> x]  Ans == AnswerTo(N)
<1>1. a \in Ans /\ a.req = r /\ a.result = x  BY DEF AnswerTo
<1>2. answers' = Append(answers, a)  BY DEF Answer
<1> HIDE DEF a, Ans
<1>3. /\ Append(answers, a) \in Seq(Ans)
      /\ Len(Append(answers, a)) = Len(answers) + 1
      /\ \A i \in 1..Len(answers) : Append(answers, a)[i] = answers[i]
      /\ Append(answers, a)[Len(answers) + 1] = a
  <2>1. answers \in Seq(Ans)  BY DEF Ans
  <2> QED  BY <1>1, <2>1, AppendProperties
<1> QED  BY <1>1, <1>2, <1>3 DEF Ans

\* Answers remain answers to requests when there are more of these.
LEMMA MoreRequests ==
  ASSUME NEW N \in Nat, NEW M \in Nat, N <= M, answers \in Seq(AnswerTo(N))
  PROVE  answers \in Seq(AnswerTo(M))
<1>1. AnswerTo(N) \subseteq AnswerTo(M)  BY DEF AnswerTo
<1> DEFINE A == AnswerTo(N)  B == AnswerTo(M)
<1> HIDE DEF A, B
<1>2. A \subseteq B  BY <1>1 DEF A, B
<1>3. answers \in Seq(A) => answers \in Seq(B)  BY <1>2
<1> QED  BY <1>3 DEF A, B

\* The types, in the form the steps below use.
LEMMA TypeFacts ==
  ASSUME TypeOK
  PROVE  /\ requests \in Seq(Modes) /\ Len(requests) \in Nat
         /\ queue \in Seq(1..Len(requests)) /\ Len(queue) \in Nat
         /\ at \in Nat /\ at <= Len(queue)
         /\ answers \in Seq(AnswerTo(Len(requests))) /\ Len(answers) \in Nat
         /\ \A i \in 1..Len(answers) : answers[i].req \in 1..Len(requests)
         /\ kind \in {"sync", "async"} /\ scopes \in Nat /\ point \in Points
<1>1. requests \in Seq(Modes) /\ DOMAIN requests = 1..Len(requests) /\ Len(requests) \in Nat
  BY DEF TypeOK
<1>2. queue \in Seq(1..Len(requests)) /\ Len(queue) \in Nat  BY <1>1 DEF TypeOK
<1>3. at \in Nat /\ at <= Len(queue)  BY <1>2 DEF TypeOK
<1> DEFINE Ans == AnswerTo(Len(requests))
<1>4. answers \in Seq(Ans)  BY <1>1 DEF TypeOK, AnswerTo, Points, Results
<1>5. \A a \in Ans : a.req \in 1..Len(requests)  BY DEF AnswerTo
<1> HIDE DEF Ans
<1>6. Len(answers) \in Nat /\ \A i \in 1..Len(answers) : answers[i] \in Ans
  BY <1>4
<1>7. kind \in {"sync", "async"} /\ scopes \in Nat /\ point \in Points
  BY GeneratorAssumption DEF TypeOK, Points
<1>8. answers \in Seq(AnswerTo(Len(requests)))  BY <1>4 DEF Ans
<1> QED  BY <1>1, <1>2, <1>3, <1>5, <1>6, <1>7, <1>8

\* The next answer in line, or the first to a request of a sync generator,
\* keeps AnswerInv when none that is a value comes after the end.
LEMMA Appended ==
  ASSUME NEW N \in Nat, answers \in Seq(AnswerTo(N)), kind \in {"sync", "async"},
         NEW r \in 1..N, NEW x \in Results, point \in Points, Answer(r, x),
         AnswerInv, UNCHANGED kind,
         kind = "async" => /\ r = Len(answers) + 1
                           /\ done => done' /\ x # "value"
                           /\ x # "value" => done',
         kind = "sync" => \A i \in 1..Len(answers) : answers[i].req # r
  PROVE  AnswerInv'
<1> DEFINE n == Len(answers)
<1>1. /\ n \in Nat /\ Len(answers') = n + 1
      /\ \A i \in 1..n : answers'[i] = answers[i]
      /\ answers'[n + 1].req = r /\ answers'[n + 1].result = x
      /\ DOMAIN answers = 1..n /\ DOMAIN answers' = 1..n + 1
  <2>1. /\ answers' \in Seq(AnswerTo(N))
        /\ Len(answers') = Len(answers) + 1
        /\ \A i \in 1..Len(answers) : answers'[i] = answers[i]
        /\ answers'[Len(answers) + 1].req = r
        /\ answers'[Len(answers) + 1].result = x
    BY Logged
  <2> QED  BY <2>1
<1> HIDE DEF n
<1>2. kind = "async" => \A i \in 1..n + 1 : answers'[i].req = i
  BY <1>1 DEF AnswerInv, AnswersExact, n
<1>3. \A i, j \in 1..n + 1 : answers'[i].req = answers'[j].req => i = j
  <2>1. CASE kind = "async"  BY <1>2, <2>1
  <2>2. CASE kind = "sync"
    <3>1. \A i, j \in 1..n : answers[i].req = answers[j].req => i = j
      BY <1>1 DEF AnswerInv, AnswersExact, IsInjective
    <3>2. \A i \in 1..n : answers[i].req # r  BY <2>2 DEF n
    <3> QED  BY <1>1, <3>1, <3>2
  <2> QED  BY <2>1, <2>2
<1>4. AnswersExact'  BY <1>1, <1>2, <1>3 DEF AnswersExact, IsInjective
<1>5. EndInv'
  <2> SUFFICES ASSUME kind = "async", NEW i \in 1..n + 1, answers'[i].result # "value"
               PROVE  done'
    BY <1>1 DEF EndInv
  <2> QED  BY <1>1 DEF AnswerInv, EndInv, n
<1>6. NoValueAfterEnd'
  <2> SUFFICES ASSUME kind = "async", NEW i \in 1..n + 1, NEW j \in 1..n + 1,
                      i < j, answers'[i].result # "value"
               PROVE  answers'[j].result # "value"
    BY <1>1 DEF NoValueAfterEnd
  <2>1. i \in 1..n /\ answers[i].result # "value"  BY <1>1
  <2>2. CASE j \in 1..n  BY <1>1, <2>1, <2>2 DEF AnswerInv, NoValueAfterEnd
  <2>3. CASE j = n + 1
    <3>1. done  BY <2>1 DEF AnswerInv, EndInv, n
    <3> QED  BY <1>1, <2>3, <3>1
  <2> QED  BY <1>1, <2>2, <2>3
<1> QED  BY <1>4, <1>5, <1>6 DEF AnswerInv

\* What IInv says beside the types and the handlers.
Orderly == ServiceInv /\ ArrivalInv /\ SyncInv /\ AnswerInv

\* The body comes back and has answered the request it ran for.
LEMMA Served ==
  ASSUME IInv, Running, NEW x \in Results, AnswerCurrent(x), UNCHANGED <<kind, service>>,
         kind = "async" /\ x # "value" => done'
  PROVE  /\ answers' \in Seq([req : DOMAIN requests', point : {"start", "yield", "star"},
                              result : {"value", "done", "thrown"}])
         /\ current' = 0 /\ ~Running' /\ pc' \in {"idle", "returned"}
         /\ Orderly'
<1> DEFINE n == Len(answers)  N == Len(requests)
<1>1. TypeOK /\ ServiceInv /\ ArrivalInv /\ SyncInv /\ AnswerInv  BY DEF IInv
<1>2. /\ requests \in Seq(Modes) /\ N \in Nat
      /\ queue \in Seq(1..N) /\ Len(queue) \in Nat
      /\ at \in Nat /\ at <= Len(queue)
      /\ answers \in Seq(AnswerTo(N)) /\ n \in Nat
      /\ kind \in {"sync", "async"} /\ point \in Points
  BY <1>1, TypeFacts
<1>3. current \in 1..N  BY <1>1, <1>2 DEF ServiceInv, TypeOK
<1>4. Answer(current, x) /\ current' = 0
      /\ pc' = IF kind = "async" THEN "returned" ELSE "idle"
  BY DEF AnswerCurrent
<1>5. /\ answers' \in Seq(AnswerTo(N)) /\ Len(answers') = n + 1
      /\ \A i \in 1..n : answers'[i] = answers[i]
      /\ answers'[n + 1].req = current
  BY <1>2, <1>3, <1>4, Logged
<1>6. UNCHANGED <<kind, executing, queue, at, requests>>  BY DEF service
<1>7. Busy = 1 /\ ~Running' /\ pc' \in {"idle", "returned"}
  BY <1>4 DEF Busy, Running
<1>8. Busy' = 0  BY <1>7 DEF Busy
<1> HIDE DEF n, N
<1>9. AnswerInv'
  <2>1. kind = "async" => current = n + 1 /\ ~done
    BY <1>1 DEF ArrivalInv, ServiceInv, n
  <2>2. kind = "sync" => \A i \in 1..n : answers[i].req # current
    BY <1>1 DEF SyncInv, n
  <2> QED  BY <1>1, <1>2, <1>3, <1>4, <1>6, <2>1, <2>2, Appended DEF n
<1>10. ServiceInv'
  <2>1. CASE kind = "async"  BY <1>1, <1>4, <1>6, <1>7, <2>1 DEF ServiceInv, Running
  <2>2. CASE kind = "sync"  BY <1>1, <1>4, <1>6, <1>7, <2>2 DEF ServiceInv, Running
  <2> QED  BY <1>2, <2>1, <2>2
<1>11. ArrivalInv'
  BY <1>1, <1>2, <1>5, <1>6, <1>7, <1>8 DEF ArrivalInv, n, N
<1>12. SyncInv'
  <2> SUFFICES ASSUME kind = "sync"
               PROVE  /\ Len(answers') + Busy' = Len(requests')
                      /\ \A i \in 1..Len(answers') : answers'[i].req # current'
    BY <1>6 DEF SyncInv
  <2>1. Len(answers') + Busy' = Len(requests')
    BY <1>1, <1>2, <1>5, <1>6, <1>7, <1>8 DEF SyncInv, n, N
  <2>2. \A i \in 1..n : answers[i].req \in 1..N  BY <1>1, TypeFacts DEF n, N
  <2>3. n \in Nat /\ N \in Nat /\ current' = 0  BY <1>2, <1>4
  <2>4. \A i \in 1..n + 1 : answers'[i].req \in 1..N  BY <1>3, <1>5, <2>2, <2>3
  <2>5. \A i \in 1..Len(answers') : answers'[i].req # current'  BY <1>5, <2>3, <2>4
  <2> QED  BY <2>1, <2>5
<1>13. DOMAIN requests' = 1..N  BY <1>2, <1>6 DEF N
<1> QED  BY <1>4, <1>5, <1>7, <1>9, <1>10, <1>11, <1>12, <1>13
         DEF Orderly, AnswerTo, Points, Results

\* The body goes on: the service does not change.
LEMMA GoesOn ==
  ASSUME IInv, Running, Running', UNCHANGED <<kind, done, service, current, answers>>
  PROVE  Orderly'
<1>1. UNCHANGED <<kind, done, executing, queue, at, requests, current, answers>>
  BY DEF service
<1>2. ServiceInv /\ ArrivalInv /\ SyncInv /\ AnswerInv  BY DEF IInv
<1>3. Busy = 1 /\ Busy' = 1  BY DEF Busy
<1>4. pc # "idle" /\ pc' # "idle" /\ pc' # "returned"  BY DEF Running
<1>5. ServiceInv'  BY <1>1, <1>2, <1>4 DEF ServiceInv
<1>6. ArrivalInv'  BY <1>1, <1>2, <1>3 DEF ArrivalInv
<1>7. SyncInv'  BY <1>1, <1>2, <1>3 DEF SyncInv
<1>8. AnswerInv'
  BY <1>1, <1>2 DEF AnswerInv, AnswersExact, NoValueAfterEnd, EndInv
<1> QED  BY <1>5, <1>6, <1>7, <1>8 DEF Orderly

-----------------------------------------------------------------------------
(* Driving a request.                                                      *)

\* An async generator takes up request r, the one after the last answered;
\* the queue holds those that follow.
Serving(r) ==
  /\ kind = "async" /\ UNCHANGED kind /\ ~Running
  /\ r = Len(answers) + 1
  /\ executing' = TRUE
  /\ requests' \in Seq(Modes) /\ Len(requests) <= Len(requests')
  /\ queue' \in Seq(1..Len(requests')) /\ at' \in 0..Len(queue')
  /\ r + (Len(queue') - at') = Len(requests')
  /\ \A i \in 1..Len(queue') : queue'[i] = Len(requests') - Len(queue') + i

\* The types in a step that takes up r.
LEMMA ServingFacts ==
  ASSUME IInv, NEW r, Serving(r)
  PROVE  /\ Len(requests') \in Nat /\ Len(queue') \in Nat /\ at' \in Nat
         /\ Len(answers) \in Nat /\ point \in Points /\ current = 0
         /\ r \in 1..Len(requests') /\ DOMAIN requests' = 1..Len(requests')
         /\ answers \in Seq(AnswerTo(Len(requests')))
<1>1. TypeOK /\ ServiceInv  BY DEF IInv
<1>2. /\ Len(requests) \in Nat /\ answers \in Seq(AnswerTo(Len(requests)))
      /\ Len(answers) \in Nat /\ point \in Points
  BY <1>1, TypeFacts
<1>3. Len(requests') \in Nat /\ DOMAIN requests' = 1..Len(requests') /\ Len(queue') \in Nat
  BY DEF Serving
<1>4. at' \in Nat /\ r \in 1..Len(requests')  BY <1>2, <1>3 DEF Serving
<1>5. current = 0  BY <1>1 DEF ServiceInv, Serving
<1>6. Len(requests) <= Len(requests')  BY DEF Serving
<1>7. answers \in Seq(AnswerTo(Len(requests')))  BY <1>2, <1>3, <1>6, MoreRequests
<1> QED  BY <1>2, <1>3, <1>4, <1>5, <1>7

\* r is answered without the body, and with that the generator completed.
LEMMA AnsweredAtOnce ==
  ASSUME IInv, NEW r, Serving(r), NEW x \in Results, x # "value", Answer(r, x),
         done', pc' = "returned", UNCHANGED current
  PROVE  answers' \in Seq(AnswerTo(Len(requests'))) /\ Orderly'
<1> DEFINE n == Len(answers)  M == Len(requests')
<1>1. ServiceInv /\ ArrivalInv /\ SyncInv /\ AnswerInv  BY DEF IInv
<1>2. /\ M \in Nat /\ Len(queue') \in Nat /\ at' \in Nat /\ n \in Nat
      /\ point \in Points /\ current = 0 /\ r \in 1..M /\ answers \in Seq(AnswerTo(M))
  BY ServingFacts
<1>3. kind = "async" /\ UNCHANGED kind /\ r = n + 1  BY DEF Serving
<1>4. answers' \in Seq(AnswerTo(M)) /\ Len(answers') = n + 1
  BY <1>2, Logged
<1> HIDE DEF n, M
<1>5. AnswerInv'  BY <1>1, <1>2, <1>3, Appended DEF n
<1>6. ~Running' /\ Busy' = 0  BY DEF Running, Busy
<1>7. ServiceInv'  BY <1>2, <1>3, <1>6 DEF ServiceInv, Serving
<1>8. ArrivalInv'  BY <1>2, <1>3, <1>4, <1>6 DEF ArrivalInv, Serving, M
<1>9. SyncInv'  BY <1>3 DEF SyncInv
<1> QED  BY <1>4, <1>5, <1>7, <1>8, <1>9 DEF Orderly, M

\* The body runs for r.
LEMMA Resumed ==
  ASSUME IInv, NEW r, Serving(r), Running', ~done, ~done', current' = r, UNCHANGED answers
  PROVE  answers' \in Seq(AnswerTo(Len(requests'))) /\ Orderly'
<1> DEFINE n == Len(answers)  M == Len(requests')
<1>1. ServiceInv /\ ArrivalInv /\ SyncInv /\ AnswerInv  BY DEF IInv
<1>2. /\ M \in Nat /\ Len(queue') \in Nat /\ at' \in Nat /\ n \in Nat
      /\ r \in 1..M /\ answers \in Seq(AnswerTo(M))
  BY ServingFacts
<1>3. kind = "async" /\ UNCHANGED kind /\ r = n + 1  BY DEF Serving
<1>4. answers' \in Seq(AnswerTo(M)) /\ Len(answers') = n  BY <1>2
<1> HIDE DEF n, M
<1>5. AnswerInv'
  BY <1>1 DEF AnswerInv, AnswersExact, NoValueAfterEnd, EndInv, Serving
<1>6. Busy' = 1 /\ pc' # "idle"  BY DEF Running, Busy
<1>7. ServiceInv'  BY <1>2, <1>3, <1>6 DEF ServiceInv, Serving
<1>8. ArrivalInv'  BY <1>2, <1>3, <1>4, <1>6 DEF ArrivalInv, Serving, M
<1>9. SyncInv'  BY <1>3 DEF SyncInv
<1> QED  BY <1>4, <1>5, <1>7, <1>8, <1>9 DEF Orderly, M

\* At rest only the caller's handler is there, and resuming arms the rest.
LEMMA RestStack ==
  ASSUME TypeOK, HandlersBalanced, ~Running
  PROVE  handlers = <<"caller">> /\ Armed = Stack(scopes)
<1>1. handlers = <<"caller">> \o <<>>  BY DEF HandlersBalanced
<1> DEFINE c == <<"caller">>
<1>2. c \in Seq(Frame)  BY DEF Frame
<1>3. <<"caller">> \o <<>> = <<"caller">>
  <2> HIDE DEF c
  <2>1. c \o <<>> = c  BY <1>2, ConcatEmptySeq
  <2> QED  BY <2>1 DEF c
<1>4. handlers = <<"caller">>  BY <1>1, <1>3
<1>5. Barrier \in Seq(Frame)
  <2>1. CASE kind = "async"  BY <2>1 DEF Barrier, Frame
  <2>2. CASE kind # "async"  BY <2>2 DEF Barrier, Frame
  <2> QED  BY <2>1, <2>2
<1>6. scopes \in Nat  BY TypeFacts
<1> DEFINE t == Tries(scopes)
<1>7. t \in Seq(Frame)  BY <1>6 DEF Tries, Frame
<1>8. (c \o Barrier) \o t = c \o (Barrier \o t)
  <2> HIDE DEF c, t
  <2> QED  BY <1>2, <1>5, <1>7, ConcatAssociative
<1> QED  BY <1>4, <1>8 DEF Armed, Stack

\* While the body runs the stack is the one described above.
LEMMA RunningStack ==
  ASSUME HandlersBalanced, Running
  PROVE  handlers = Stack(scopes)
BY DEF HandlersBalanced, Stack

\* The two ways to keep HandlersBalanced: the stack of a running body ...
LEMMA StackKept ==
  ASSUME NEW n \in Nat, UNCHANGED kind, Running', scopes' = n, handlers' = Stack(n)
  PROVE  handlers' \in Seq(Frame) /\ HandlersBalanced'
<1>1. Barrier' = Barrier  BY DEF Barrier
<1>2. HandlersBalanced'  BY <1>1 DEF HandlersBalanced, Stack, Tries
<1>3. Stack(n) \in Seq(Frame)  BY StackShape
<1> QED  BY <1>2, <1>3

\* ... and none of it when the body does not run.
LEMMA StackGone ==
  ASSUME ~Running', handlers' = <<"caller">>
  PROVE  handlers' \in Seq(Frame) /\ HandlersBalanced'
<1> DEFINE c == <<"caller">>
<1>1. c \in Seq(Frame)  BY DEF Frame
<1>2. c \o <<>> = c
  <2> HIDE DEF c
  <2> QED  BY <1>1, ConcatEmptySeq
<1> QED  BY <1>1, <1>2 DEF HandlersBalanced

\* agen_drive_request keeps the invariant and resumes no completed generator.
LEMMA Driven ==
  ASSUME IInv, NEW r, Serving(r), NEW m \in Modes, Drive(r, m)
  PROVE  IInv' /\ (done => done' /\ ~Running')
<1> DEFINE M == Len(requests')
<1>1. TypeOK /\ HandlersBalanced /\ ServiceInv  BY DEF IInv
<1>2. /\ M \in Nat /\ point \in Points /\ current = 0 /\ r \in 1..M
      /\ DOMAIN requests' = 1..M /\ answers \in Seq(AnswerTo(M))
  BY ServingFacts
<1>3. kind = "async" /\ UNCHANGED kind /\ ~Running  BY DEF Serving
<1>4. handlers = <<"caller">> /\ Armed = Stack(scopes)  BY <1>1, <1>3, RestStack
<1>5. scopes \in Nat /\ scopes \in 0..MaxTry  BY <1>1, GeneratorAssumption DEF TypeOK
<1> DEFINE Goal == /\ pc' \in {"idle", "body", "delegate", "returned"}
                   /\ scopes' \in 0..MaxTry
                   /\ handlers' \in Seq(Frame) /\ HandlersBalanced'
                   /\ done' \in BOOLEAN /\ asked' \in Modes
                   /\ UNCHANGED <<point, delegate>>
                   /\ current' \in 0..M
                   /\ answers' \in Seq(AnswerTo(M))
                   /\ Orderly'
                   /\ done => done' /\ ~Running'
<1>6. SUFFICES Goal
  <2> HIDE DEF M
  <2>1. ASSUME Goal  PROVE TypeOK'
    BY <1>1, <1>2, <1>3, <2>1 DEF TypeOK, Serving, AnswerTo, Points, Results, Frame, M
  <2> QED  BY <2>1 DEF IInv, Orderly
<1>7. done \in BOOLEAN /\ asked \in Modes  BY <1>1 DEF TypeOK
<1>8. CASE done
  <2>1. /\ Answer(r, IF m = "throw" THEN "thrown" ELSE "done")
        /\ UNCHANGED <<point, scopes, handlers, delegate, asked, current, done>>
        /\ pc' = "returned"
    BY <1>8 DEF Drive, AnswerStale
  <2>2. answers' \in Seq(AnswerTo(M)) /\ Orderly'
    <3>1. CASE m = "throw"  BY <1>8, <2>1, <3>1, AnsweredAtOnce DEF Results
    <3>2. CASE m # "throw"  BY <1>8, <2>1, <3>2, AnsweredAtOnce DEF Results
    <3> QED  BY <3>1, <3>2
  <2>3. ~Running'  BY <2>1 DEF Running
  <2>4. handlers' \in Seq(Frame) /\ HandlersBalanced'  BY <1>4, <2>1, <2>3, StackGone
  <2> QED  BY <1>2, <1>5, <1>7, <2>1, <2>2, <2>3, <2>4
<1>9. CASE ~done /\ (point = "star" \/ m = "next")
  <2>1. ResumeBody(r, m) /\ UNCHANGED done  BY <1>9 DEF Drive
  <2>2. /\ current' = r /\ handlers' = Armed
        /\ pc' \in {"body", "delegate"} /\ asked' \in {asked, m}
        /\ UNCHANGED <<point, scopes, delegate, answers, done>>
    BY <2>1 DEF ResumeBody
  <2>3. Running'  BY <2>2 DEF Running
  <2>4. answers' \in Seq(AnswerTo(M)) /\ Orderly'  BY <1>9, <2>2, <2>3, Resumed
  <2>5. handlers' \in Seq(Frame) /\ HandlersBalanced'
    BY <1>3, <1>4, <1>5, <2>2, <2>3, StackKept
  <2> QED  BY <1>2, <1>5, <1>7, <1>9, <2>2, <2>4, <2>5
<1>10. CASE ~done /\ point # "star" /\ m = "throw"
  <2>1. ResumeByThrow(r)  BY <1>10 DEF Drive
  <2>2. handlers' = Front(Armed) /\ UNCHANGED <<point, delegate, asked>>
    BY <2>1 DEF ResumeByThrow
  <2>3. CASE scopes > 0
    <3>1. pc' = "body" /\ scopes' = scopes - 1 /\ current' = r /\ UNCHANGED <<done, answers>>
      BY <2>1, <2>3 DEF ResumeByThrow
    <3>2. Running'  BY <3>1 DEF Running
    <3>3. answers' \in Seq(AnswerTo(M)) /\ Orderly'  BY <1>10, <3>1, <3>2, Resumed
    <3>4. handlers' = Stack(scopes - 1)  BY <1>4, <1>5, <2>2, <2>3, StackPop
    <3>5. scopes - 1 \in Nat  BY <1>5, <2>3
    <3>6. handlers' \in Seq(Frame) /\ HandlersBalanced'
      BY <1>3, <3>1, <3>2, <3>4, <3>5, StackKept
    <3> QED  BY <1>2, <1>5, <1>7, <1>10, <2>2, <2>3, <3>1, <3>3, <3>6, GeneratorAssumption
  <2>4. CASE ~(scopes > 0)
    <3>1. pc' = "returned" /\ done' = TRUE /\ Answer(r, "thrown") /\ UNCHANGED <<scopes, current>>
      BY <2>1, <2>4 DEF ResumeByThrow
    <3>2. ~Running'  BY <3>1 DEF Running
    <3>3. answers' \in Seq(AnswerTo(M)) /\ Orderly'  BY <3>1, AnsweredAtOnce DEF Results
    <3>4. scopes = 0  BY <1>5, <2>4
    <3>5. handlers' = <<"caller">>  BY <1>3, <1>4, <2>2, <3>4, StackBottom
    <3>6. handlers' \in Seq(Frame) /\ HandlersBalanced'  BY <3>2, <3>5, StackGone
    <3> QED  BY <1>2, <1>5, <1>7, <2>2, <3>1, <3>2, <3>3, <3>6
  <2> QED  BY <2>3, <2>4
<1>11. CASE ~done /\ point # "star" /\ m = "return"
  <2>1. /\ pc' = "returned" /\ scopes' = 0 /\ done' = TRUE /\ Answer(r, "done")
        /\ UNCHANGED <<point, handlers, delegate, asked, current>>
    BY <1>11 DEF Drive, ResumeByReturn
  <2>2. ~Running'  BY <2>1 DEF Running
  <2>3. answers' \in Seq(AnswerTo(M)) /\ Orderly'  BY <2>1, AnsweredAtOnce DEF Results
  <2>4. handlers' \in Seq(Frame) /\ HandlersBalanced'  BY <1>4, <2>1, <2>2, StackGone
  <2> QED  BY <1>2, <1>7, <2>1, <2>2, <2>3, <2>4, GeneratorAssumption
<1> QED  BY <1>8, <1>9, <1>10, <1>11 DEF Modes

-----------------------------------------------------------------------------
(* The actions.                                                            *)

\* A throw, to whatever handler is on top.
LEMMA Thrown ==
  ASSUME IInv, Running, Throw, delegate' \in BOOLEAN
  PROVE  IInv'
<1>1. TypeOK /\ HandlersBalanced /\ ServiceInv  BY DEF IInv
<1>2. scopes \in Nat /\ scopes \in 0..MaxTry /\ kind \in {"sync", "async"} /\ kind \in Kinds
  BY <1>1, GeneratorAssumption DEF TypeOK
<1>3. handlers = Stack(scopes)  BY <1>1, RunningStack
<1>4. UNCHANGED <<kind, point, asked, executing, queue, at, requests>>
  BY DEF Throw, service
<1>5. /\ kind' \in Kinds /\ point' \in {"start", "yield", "star"} /\ asked' \in Modes
      /\ executing' \in BOOLEAN /\ requests' \in Seq(Modes)
      /\ queue' \in Seq(DOMAIN requests') /\ at' \in 0..Len(queue')
  BY <1>1, <1>4 DEF TypeOK
<1>6. CASE scopes > 0
  <2>1. Last(handlers) = "try" /\ Front(handlers) = Stack(scopes - 1)
    BY <1>2, <1>3, <1>6, StackPop
  <2>2. /\ pc' = "body" /\ scopes' = scopes - 1 /\ UNCHANGED <<done, current, answers>>
        /\ handlers' = Stack(scopes - 1)
    BY <2>1 DEF Throw, Caught
  <2>3. Running'  BY <2>2 DEF Running
  <2>4. scopes - 1 \in Nat  BY <1>2, <1>6
  <2>5. handlers' \in Seq(Frame) /\ HandlersBalanced'
    BY <1>4, <2>2, <2>3, <2>4, StackKept
  <2>6. UNCHANGED service  BY <1>4 DEF service
  <2>7. Orderly'  BY <1>4, <2>2, <2>3, <2>6, GoesOn
  <2>8. /\ done' \in BOOLEAN /\ current' \in 0..Len(requests') /\ scopes' \in 0..MaxTry
        /\ answers' \in Seq([req : DOMAIN requests', point : {"start", "yield", "star"},
                             result : {"value", "done", "thrown"}])
    BY <1>1, <1>4, <1>2, <1>6, <2>2, GeneratorAssumption DEF TypeOK
  <2>9. TypeOK'  BY <1>5, <2>2, <2>5, <2>8 DEF TypeOK, Frame
  <2> QED  BY <2>5, <2>7, <2>9 DEF IInv, Orderly
<1>7. CASE ~(scopes > 0)
  <2>1. scopes = 0  BY <1>2, <1>7
  <2>2. /\ Last(handlers) # "try"
        /\ <<"caller">> = IF Last(handlers) = "caller" THEN handlers ELSE Front(handlers)
    <3>1. CASE kind = "async"  BY <1>3, <2>1, <3>1, StackBottom
    <3>2. CASE kind # "async"  BY <1>3, <2>1, <3>2, StackBottom
    <3> QED  BY <3>1, <3>2
  <2>3. scopes' = 0 /\ done' = TRUE /\ AnswerCurrent("thrown") /\ handlers' = <<"caller">>
    BY <2>2 DEF Throw, Uncaught
  <2>4. UNCHANGED <<kind, service>>  BY <1>4 DEF service
  <2>5. /\ answers' \in Seq([req : DOMAIN requests', point : {"start", "yield", "star"},
                             result : {"value", "done", "thrown"}])
        /\ current' = 0 /\ ~Running' /\ pc' \in {"idle", "returned"}
        /\ Orderly'
    BY <2>3, <2>4, Served DEF Results
  <2>6. handlers' \in Seq(Frame) /\ HandlersBalanced'  BY <2>3, <2>5, StackGone
  <2>7. Len(requests') \in Nat  BY <1>5
  <2>8. TypeOK'  BY <1>5, <2>3, <2>5, <2>6, <2>7, GeneratorAssumption DEF TypeOK, Frame
  <2> QED  BY <2>5, <2>6, <2>8 DEF IInv, Orderly
<1> QED  BY <1>6, <1>7

\* The body returns from its function: it yields, or it ends.
LEMMA Left ==
  ASSUME IInv, Running, NEW x \in Results, AnswerCurrent(x), UNCHANGED <<kind, asked, service>>,
         handlers' = Leave(scopes), kind = "async" /\ x # "value" => done',
         point' \in Points, scopes' \in 0..MaxTry, done' \in BOOLEAN, delegate' \in BOOLEAN
  PROVE  IInv'
<1>1. TypeOK /\ HandlersBalanced  BY DEF IInv
<1>2. scopes \in Nat  BY <1>1, TypeFacts
<1>3. handlers = Stack(scopes)  BY <1>1, RunningStack
<1>4. handlers' = <<"caller">>  BY <1>2, <1>3, StackLeft DEF Leave, Popped
<1>5. /\ answers' \in Seq([req : DOMAIN requests', point : {"start", "yield", "star"},
                           result : {"value", "done", "thrown"}])
      /\ current' = 0 /\ ~Running' /\ pc' \in {"idle", "returned"}
      /\ Orderly'
  BY Served
<1>6. handlers' \in Seq(Frame) /\ HandlersBalanced'  BY <1>4, <1>5, StackGone
<1>7. /\ kind' \in Kinds /\ asked' \in Modes /\ executing' \in BOOLEAN
      /\ requests' \in Seq(Modes) /\ Len(requests') \in Nat
      /\ queue' \in Seq(DOMAIN requests') /\ at' \in 0..Len(queue')
  BY <1>1 DEF TypeOK, service
<1>8. TypeOK'  BY <1>5, <1>6, <1>7 DEF TypeOK, Frame, Points
<1> QED  BY <1>5, <1>6, <1>8 DEF IInv, Orderly

\* A step inside the body that moves between try statements and delegates.
LEMMA InBody ==
  ASSUME IInv, Running, Running', UNCHANGED <<kind, point, done, service, current, answers>>,
         NEW n \in Nat, n <= MaxTry, scopes' = n, handlers' = Stack(n),
         pc' \in {"body", "delegate"}, delegate' \in BOOLEAN, asked' \in Modes
  PROVE  IInv'
<1>1. TypeOK  BY DEF IInv
<1>2. Orderly'  BY GoesOn
<1>3. handlers' \in Seq(Frame) /\ HandlersBalanced'  BY StackKept
<1>4. UNCHANGED <<kind, point, done, executing, queue, at, requests, current, answers>>
  BY DEF service
<1>5. TypeOK'  BY <1>1, <1>3, <1>4, GeneratorAssumption DEF TypeOK, Frame
<1> QED  BY <1>2, <1>3, <1>5 DEF IInv, Orderly

\* A request: queued, driven, resumed or answered at once.
LEMMA Requested ==
  ASSUME IInv, NEW m \in Modes, Request(m)
  PROVE  IInv' /\ (~Running /\ done => done' /\ ~Running')
<1> DEFINE N == Len(requests)  M == Len(requests')  r == M
<1>1. TypeOK /\ HandlersBalanced /\ ServiceInv /\ ArrivalInv /\ SyncInv /\ AnswerInv
  BY DEF IInv
<1>2. /\ requests \in Seq(Modes) /\ N \in Nat /\ queue \in Seq(1..N) /\ Len(queue) \in Nat
      /\ at \in Nat /\ at <= Len(queue)
      /\ answers \in Seq(AnswerTo(N)) /\ Len(answers) \in Nat
      /\ \A i \in 1..Len(answers) : answers[i].req \in 1..N
      /\ kind \in {"sync", "async"} /\ scopes \in Nat /\ point \in Points
  BY <1>1, TypeFacts
<1>3. UNCHANGED kind /\ requests' = Append(requests, m) /\ pc # "returned"  BY DEF Request
<1>4. /\ requests' \in Seq(Modes) /\ M = N + 1 /\ M \in Nat
      /\ DOMAIN requests' = 1..M /\ r \in 1..M
  BY <1>2, <1>3
<1>5. answers \in Seq(AnswerTo(M))
  <2>1. N <= M  BY <1>2, <1>4
  <2> QED  BY <1>2, <1>4, <2>1, MoreRequests
<1>6. /\ kind \in Kinds /\ pc \in {"idle", "body", "delegate", "returned"}
      /\ scopes \in 0..MaxTry /\ handlers \in Seq(Frame)
      /\ done \in BOOLEAN /\ delegate \in BOOLEAN /\ executing \in BOOLEAN
      /\ asked \in Modes /\ current \in 0..N
  BY <1>1 DEF TypeOK, Frame
<1> HIDE DEF N, M
<1>7. CASE kind = "async" /\ executing
  <2>1. /\ queue' = Append(queue, r)
        /\ UNCHANGED <<pc, point, scopes, handlers, done, delegate, asked,
                       executing, at, current, answers>>
    BY <1>7 DEF Request, Enqueue, M
  <2>2. /\ queue' \in Seq(1..M) /\ Len(queue') = Len(queue) + 1
        /\ \A i \in 1..Len(queue) : queue'[i] = queue[i]
        /\ queue'[Len(queue) + 1] = r
    <3> DEFINE S == 1..M
    <3>1. queue \in Seq(S) /\ r \in S
      <4>1. \A i \in 1..Len(queue) : queue[i] \in 1..N  BY <1>2, ElementOfSeq
      <4>2. \A i \in 1..Len(queue) : queue[i] \in S  BY <1>2, <1>4, <4>1
      <4> QED  BY <1>2, <1>4, <4>2
    <3> HIDE DEF S
    <3>2. /\ Append(queue, r) \in Seq(S) /\ Len(Append(queue, r)) = Len(queue) + 1
          /\ \A i \in 1..Len(queue) : Append(queue, r)[i] = queue[i]
          /\ Append(queue, r)[Len(queue) + 1] = r
      BY <3>1, AppendProperties
    <3> QED  BY <2>1, <3>2 DEF S
  <2>3. TypeOK'
    <3>1. at' \in 0..Len(queue') /\ current' \in 0..M  BY <1>2, <1>4, <1>6, <2>1, <2>2
    <3>2. answers' \in Seq([req : 1..M, point : {"start", "yield", "star"},
                            result : {"value", "done", "thrown"}])
      BY <1>5, <2>1 DEF AnswerTo, Points, Results
    <3> QED  BY <1>2, <1>3, <1>4, <1>6, <2>1, <2>2, <3>1, <3>2 DEF TypeOK, Frame, M, Points
  <2>4. Barrier' = Barrier /\ Running' = Running /\ Busy' = Busy
    BY <1>3, <2>1 DEF Barrier, Running, Busy
  <2>5. HandlersBalanced'  BY <1>1, <2>1, <2>4 DEF HandlersBalanced, Tries
  <2>6. ServiceInv'  BY <1>1, <1>3, <1>7, <2>1, <2>4 DEF ServiceInv
  <2>7. ArrivalInv'
    <3>1. \A i \in 1..Len(queue') : queue'[i] = M - Len(queue') + i
      <4>1. \A i \in 1..Len(queue) : queue[i] = N - Len(queue) + i
        BY <1>1, <1>7 DEF ArrivalInv, N
      <4>2. N \in Nat /\ Len(queue) \in Nat /\ r = M /\ M = N + 1 /\ M \in Nat
        BY <1>2, <1>4
      <4>3. ASSUME NEW i \in 1..Len(queue) + 1  PROVE queue'[i] = M - (Len(queue) + 1) + i
        <5>1. CASE i \in 1..Len(queue)  BY <2>2, <4>1, <4>2, <5>1
        <5>2. CASE i = Len(queue) + 1  BY <2>2, <4>2, <5>2
        <5> QED  BY <4>2, <5>1, <5>2
      <4> QED  BY <2>2, <4>3
    <3>2. Len(answers) + Busy + (Len(queue) - at) = N  BY <1>1, <1>7 DEF ArrivalInv, N
    <3>3. Busy \in Nat  BY DEF Busy
    <3>4. Len(answers') + Busy' + (Len(queue') - at') = M
      <4>1. /\ N \in Nat /\ M = N + 1 /\ Len(queue) \in Nat /\ at \in Nat
            /\ Len(answers) \in Nat /\ answers' = answers /\ at' = at
            /\ Len(queue') = Len(queue) + 1 /\ Busy' = Busy
        BY <1>2, <1>4, <2>1, <2>2, <2>4
      <4> QED  BY <3>2, <3>3, <4>1
    <3>5. Running => current = Len(answers) + 1  BY <1>1, <1>7 DEF ArrivalInv
    <3> QED  BY <2>1, <2>4, <3>1, <3>4, <3>5 DEF ArrivalInv, M
  <2>8. SyncInv'  BY <1>3, <1>7 DEF SyncInv
  <2>9. AnswerInv'
    BY <1>1, <1>3, <2>1 DEF AnswerInv, AnswersExact, NoValueAfterEnd, EndInv
  <2>10. ~Running /\ done => done' /\ ~Running'  BY <2>1, <2>4
  <2> QED  BY <2>3, <2>5, <2>6, <2>7, <2>8, <2>9, <2>10 DEF IInv
<1>8. CASE kind = "async" /\ ~executing
  <2>1. executing' = TRUE /\ Drive(r, m) /\ UNCHANGED <<queue, at>>
    BY <1>8 DEF Request, Enqueue, M
  <2>2. pc = "idle" /\ ~Running /\ Busy = 0 /\ queue = <<>> /\ at = 0
    BY <1>1, <1>8 DEF ServiceInv, Running, Busy
  <2>3. r = Len(answers) + 1
    <3>1. Len(answers) + Busy + (Len(queue) - at) = N  BY <1>1, <1>8 DEF ArrivalInv, N
    <3> QED  BY <1>2, <1>4, <2>2, <3>1
  <2>4. Serving(r)
    BY <1>2, <1>3, <1>4, <1>8, <2>1, <2>2, <2>3 DEF Serving, M, N
  <2> QED  BY <2>1, <2>4, Driven
<1>9. CASE kind = "sync" /\ Resumes(m)
  <2>1. /\ done' = TRUE /\ ResumeBody(r, m) /\ UNCHANGED <<executing, queue, at>> /\ ~done
    BY <1>9 DEF Request, SyncResume, Resumes, M
  <2>2. /\ current' = r /\ handlers' = Armed
        /\ pc' \in {"body", "delegate"} /\ asked' \in Modes
        /\ UNCHANGED <<point, scopes, delegate, answers>>
    BY <1>6, <2>1 DEF ResumeBody
  <2>3. ~Running /\ Running' /\ Busy = 0 /\ Busy' = 1 /\ current = 0
    BY <1>1, <1>9, <2>1, <2>2 DEF ServiceInv, Running, Busy
  <2>4. handlers' = Stack(scopes)  BY <1>1, <2>2, <2>3, RestStack
  <2>5. handlers' \in Seq(Frame) /\ HandlersBalanced'
    BY <1>2, <1>3, <2>2, <2>3, <2>4, StackKept
  <2>6. queue = <<>> /\ at = 0 /\ ~executing  BY <1>1, <1>9 DEF ServiceInv
  <2>7. TypeOK'
    <3>1. queue' \in Seq(1..M) /\ at' \in 0..Len(queue') /\ current' \in 0..M
      BY <1>4, <2>1, <2>2, <2>6
    <3>2. answers' \in Seq([req : 1..M, point : {"start", "yield", "star"},
                            result : {"value", "done", "thrown"}])
      BY <1>5, <2>2 DEF AnswerTo, Points, Results
    <3> QED  BY <1>2, <1>3, <1>4, <1>6, <2>1, <2>2, <2>5, <3>1, <3>2 DEF TypeOK, Frame, M, Points
  <2>8. ServiceInv'
    BY <1>3, <1>4, <1>9, <2>1, <2>2, <2>3, <2>6 DEF ServiceInv, Running
  <2>9. ArrivalInv'  BY <1>3, <1>9 DEF ArrivalInv
  <2>10. SyncInv'
    <3>1. Len(answers) + Busy = N  BY <1>1, <1>9 DEF SyncInv, N
    <3>2. Len(answers') + Busy' = M  BY <1>2, <1>4, <2>2, <2>3, <3>1
    <3>3. \A i \in 1..Len(answers) : answers[i].req # r  BY <1>2, <1>4
    <3> QED  BY <2>2, <3>2, <3>3 DEF SyncInv, M
  <2>11. AnswerInv'
    BY <1>1, <1>3, <1>9, <2>2 DEF AnswerInv, AnswersExact, NoValueAfterEnd, EndInv
  <2> QED  BY <2>1, <2>5, <2>7, <2>8, <2>9, <2>10, <2>11 DEF IInv
<1>10. CASE kind = "sync" /\ ~Resumes(m)
  <2>1. /\ done' = TRUE /\ AnswerStale(r, m) /\ UNCHANGED <<pc, executing, queue, at>>
    BY <1>10 DEF Request, SyncAnswer, M
  <2> DEFINE x == IF m = "throw" THEN "thrown" ELSE "done"
  <2>2. Answer(r, x) /\ UNCHANGED <<point, scopes, handlers, delegate, asked, current>>
    BY <2>1 DEF AnswerStale
  <2>3. x \in Results  BY DEF Results
  <2> HIDE DEF x
  <2>4. /\ answers' \in Seq(AnswerTo(M)) /\ Len(answers') = Len(answers) + 1
        /\ \A i \in 1..Len(answers) : answers'[i] = answers[i]
        /\ answers'[Len(answers) + 1].req = r
    BY <1>2, <1>4, <1>5, <2>2, <2>3, Logged
  <2>5. \A i \in 1..Len(answers) : answers[i].req # r  BY <1>2, <1>4
  <2>6. AnswerInv'
    BY <1>1, <1>2, <1>3, <1>4, <1>5, <1>10, <2>2, <2>3, <2>5, Appended
  <2>7. Barrier' = Barrier /\ Running' = Running /\ Busy' = Busy /\ Busy \in Nat
    BY <1>3, <2>1 DEF Barrier, Running, Busy
  <2>8. HandlersBalanced'  BY <1>1, <2>2, <2>7 DEF HandlersBalanced, Tries
  <2>9. queue = <<>> /\ at = 0 /\ ~executing  BY <1>1, <1>10 DEF ServiceInv
  <2>10. TypeOK'
    <3>1. queue' \in Seq(1..M) /\ at' \in 0..Len(queue') /\ current' \in 0..M
      BY <1>2, <1>4, <1>6, <2>1, <2>2, <2>9
    <3>2. answers' \in Seq([req : 1..M, point : {"start", "yield", "star"},
                            result : {"value", "done", "thrown"}])
      BY <2>4 DEF AnswerTo, Points, Results
    <3> QED  BY <1>2, <1>3, <1>4, <1>6, <2>1, <2>2, <3>1, <3>2 DEF TypeOK, Frame, M, Points
  <2>11. ServiceInv'  BY <1>1, <1>3, <1>10, <2>1, <2>2, <2>7, <2>9 DEF ServiceInv
  <2>12. ArrivalInv'  BY <1>3, <1>10 DEF ArrivalInv
  <2>13. SyncInv'
    <3>1. Len(answers) + Busy = N /\ \A i \in 1..Len(answers) : answers[i].req # current
      BY <1>1, <1>10 DEF SyncInv, N
    <3>2. Len(answers') + Busy' = M  BY <1>2, <1>4, <2>4, <2>7, <3>1
    <3>3. r # current'  BY <1>4, <1>6, <1>2, <2>2
    <3>4. \A i \in 1..Len(answers') : answers'[i].req # current'
      BY <1>2, <2>2, <2>4, <3>1, <3>3
    <3> QED  BY <3>2, <3>4 DEF SyncInv, M
  <2>14. ~Running /\ done => done' /\ ~Running'  BY <2>1, <2>7
  <2> QED  BY <2>6, <2>8, <2>10, <2>11, <2>12, <2>13, <2>14 DEF IInv
<1> QED  BY <1>2, <1>7, <1>8, <1>9, <1>10

\* The drain takes the next request from the queue.
LEMMA Drained ==
  ASSUME IInv, DrainNext
  PROVE  IInv' /\ (~Running /\ done => done' /\ ~Running')
<1> DEFINE N == Len(requests)  r == queue[at + 1]
<1>1. TypeOK /\ ServiceInv /\ ArrivalInv  BY DEF IInv
<1>2. /\ requests \in Seq(Modes) /\ N \in Nat /\ queue \in Seq(1..N) /\ Len(queue) \in Nat
      /\ at \in Nat /\ at <= Len(queue) /\ Len(answers) \in Nat
      /\ kind \in {"sync", "async"}
  BY <1>1, TypeFacts
<1>3. /\ pc = "returned" /\ at < Len(queue) /\ at' = at + 1
      /\ Drive(r, requests[r]) /\ UNCHANGED <<kind, executing, queue, requests>>
  BY DEF DrainNext
<1>4. kind = "async" /\ executing = TRUE /\ ~Running /\ Busy = 0
  BY <1>1, <1>2, <1>3 DEF ServiceInv, Running, Busy, TypeOK
<1>5. /\ \A i \in 1..Len(queue) : queue[i] = N - Len(queue) + i
      /\ Len(answers) + (Len(queue) - at) = N
  <2>1. Len(answers) + Busy + (Len(queue) - at) = N  BY <1>1, <1>4 DEF ArrivalInv
  <2>2. Len(answers) + (Len(queue) - at) = N  BY <1>2, <1>4, <2>1
  <2> QED  BY <1>1, <1>4, <2>2 DEF ArrivalInv
<1>6. at + 1 \in 1..Len(queue)  BY <1>2, <1>3
<1>7. r = Len(answers) + 1 /\ r \in 1..N  BY <1>2, <1>5, <1>6
<1> HIDE DEF r
<1>8. requests[r] \in Modes  BY <1>2, <1>7
<1>9. r + (Len(queue) - at') = N
  <2>1. at' = at + 1 /\ at \in Nat /\ Len(queue) \in Nat /\ Len(answers) \in Nat /\ N \in Nat
    BY <1>2, <1>3
  <2> HIDE DEF N
  <2> QED  BY <1>5, <1>7, <2>1
<1>10. at' \in 0..Len(queue)  BY <1>2, <1>3
<1>11. Serving(r)
  BY <1>2, <1>3, <1>4, <1>5, <1>7, <1>9, <1>10 DEF Serving
<1> QED  BY <1>3, <1>8, <1>11, Driven

\* The drain ends with nothing left.
LEMMA DrainEnded ==
  ASSUME IInv, EndDrain
  PROVE  IInv' /\ (~Running /\ done => done' /\ ~Running')
<1> DEFINE N == Len(requests)
<1>1. TypeOK /\ HandlersBalanced /\ ServiceInv /\ ArrivalInv /\ SyncInv /\ AnswerInv
  BY DEF IInv
<1>2. /\ requests \in Seq(Modes) /\ N \in Nat /\ DOMAIN requests = 1..N
      /\ Len(queue) \in Nat /\ at \in Nat /\ at <= Len(queue) /\ Len(answers) \in Nat
      /\ kind \in {"sync", "async"}
  BY <1>1, TypeFacts
<1>3. /\ pc = "returned" /\ at >= Len(queue)
      /\ pc' = "idle" /\ executing' = FALSE /\ queue' = <<>> /\ at' = 0
      /\ UNCHANGED <<kind, point, scopes, handlers, done, delegate, asked, current, requests,
                     answers>>
  BY DEF EndDrain
<1>4. kind = "async" /\ ~Running /\ Busy = 0 /\ ~Running' /\ Busy' = 0
  BY <1>1, <1>2, <1>3 DEF ServiceInv, Running, Busy
<1>5. TypeOK'
  <2>1. queue' \in Seq(DOMAIN requests') /\ at' \in 0..Len(queue')  BY <1>3
  <2> QED  BY <1>1, <1>3, <2>1 DEF TypeOK
<1>6. HandlersBalanced'  BY <1>1, <1>3, <1>4 DEF HandlersBalanced
<1>7. ServiceInv'  BY <1>1, <1>3, <1>4 DEF ServiceInv
<1>8. ArrivalInv'
  <2>1. Len(answers) + Busy + (Len(queue) - at) = N  BY <1>1, <1>4 DEF ArrivalInv
  <2>2. Len(answers) = N  BY <1>2, <1>3, <1>4, <2>1
  <2>3. Len(queue') = 0  BY <1>3
  <2> QED  BY <1>2, <1>3, <1>4, <2>2, <2>3 DEF ArrivalInv
<1>9. SyncInv'  BY <1>3, <1>4 DEF SyncInv
<1>10. AnswerInv'
  BY <1>1, <1>3 DEF AnswerInv, AnswersExact, NoValueAfterEnd, EndInv
<1> QED  BY <1>3, <1>4, <1>5, <1>6, <1>7, <1>8, <1>9, <1>10 DEF IInv

\* The steps of the body and its delegate, which happen while it runs.
LEMMA Ran ==
  ASSUME IInv,
         \/ EnterTry \/ LeaveTry \/ BodyThrows \/ Yield \/ BodyReturns
         \/ DelegateTo \/ DelegateYields \/ DelegateDone \/ DelegateReturned
         \/ DelegateThrows \/ DelegateHasNoThrow
  PROVE  IInv' /\ Running
<1>1. TypeOK /\ HandlersBalanced  BY DEF IInv
<1>2. /\ scopes \in Nat /\ scopes \in 0..MaxTry /\ done \in BOOLEAN /\ delegate \in BOOLEAN
      /\ asked \in Modes /\ point \in Points /\ 0 \in 0..MaxTry
  BY <1>1, GeneratorAssumption DEF TypeOK, Points
<1>3. Running
  BY DEF EnterTry, LeaveTry, BodyThrows, Yield, BodyReturns, DelegateTo, DelegateYields,
         DelegateDone, DelegateReturned, DelegateThrows, DelegateHasNoThrow, Running
<1>4. handlers = Stack(scopes)  BY <1>1, <1>3, RunningStack
<1>5. CASE EnterTry
  <2>1. handlers' = Stack(scopes + 1)  BY <1>2, <1>4, <1>5, StackPush DEF EnterTry
  <2>2. scopes + 1 \in Nat /\ scopes + 1 <= MaxTry
    BY <1>2, <1>5, GeneratorAssumption DEF EnterTry
  <2>3. /\ scopes' = scopes + 1 /\ pc' = "body" /\ Running'
        /\ UNCHANGED <<kind, point, done, delegate, asked, service, current, answers>>
    BY <1>5 DEF EnterTry, Running
  <2> QED  BY <1>2, <1>3, <2>1, <2>2, <2>3, InBody
<1>6. CASE LeaveTry
  <2>1. scopes > 0 /\ handlers' = SubSeq(handlers, 1, Len(handlers) - 1)
    BY <1>6 DEF LeaveTry, Popped
  <2>2. handlers' = Stack(scopes - 1)  BY <1>2, <1>4, <2>1, StackPop
  <2>3. scopes - 1 \in Nat /\ scopes - 1 <= MaxTry
    BY <1>2, <2>1, GeneratorAssumption
  <2>4. /\ scopes' = scopes - 1 /\ pc' = "body" /\ Running'
        /\ UNCHANGED <<kind, point, done, delegate, asked, service, current, answers>>
    BY <1>6 DEF LeaveTry, Running
  <2> QED  BY <1>2, <1>3, <2>2, <2>3, <2>4, InBody
<1>7. CASE BodyThrows
  BY <1>2, <1>3, <1>7, Thrown DEF BodyThrows
<1>8. CASE DelegateThrows
  BY <1>2, <1>3, <1>8, Thrown DEF DelegateThrows
<1>9. CASE DelegateHasNoThrow
  <2>1. Throw /\ delegate' \in BOOLEAN  BY <1>2, <1>9 DEF DelegateHasNoThrow
  <2> QED  BY <1>3, <2>1, Thrown
<1>10. CASE Yield \/ DelegateYields
  <2>1. PICK p \in Points : SuspendAt(p) /\ UNCHANGED delegate
    BY <1>10 DEF Yield, DelegateYields, Points
  <2>2. /\ AnswerCurrent("value") /\ UNCHANGED <<kind, scopes, asked, service>>
        /\ handlers' = Leave(scopes) /\ point' \in Points /\ done' \in BOOLEAN
    BY <2>1 DEF SuspendAt
  <2> QED  BY <1>2, <1>3, <2>1, <2>2, Left DEF Results
<1>11. CASE BodyReturns \/ DelegateReturned
  <2>1. /\ AnswerCurrent("done") /\ UNCHANGED <<kind, point, asked, service>>
        /\ handlers' = Leave(scopes) /\ scopes' = 0 /\ done' = TRUE /\ delegate' \in BOOLEAN
    BY <1>2, <1>11 DEF BodyReturns, DelegateReturned
  <2> QED  BY <1>2, <1>3, <2>1, Left DEF Results
<1>12. CASE DelegateTo \/ DelegateDone
  <2>1. /\ pc' \in {"body", "delegate"} /\ Running' /\ scopes' = scopes
        /\ handlers' = Stack(scopes) /\ delegate' \in BOOLEAN /\ asked' \in Modes
        /\ UNCHANGED <<kind, point, done, service, current, answers>>
    BY <1>2, <1>4, <1>12 DEF DelegateTo, DelegateDone, Running, Modes
  <2>2. scopes <= MaxTry  BY <1>2, GeneratorAssumption
  <2> QED  BY <1>2, <1>3, <2>1, <2>2, InBody
<1> QED  BY <1>3, <1>5, <1>6, <1>7, <1>8, <1>9, <1>10, <1>11, <1>12

\* The initial states.
LEMMA Started == Init => IInv
<1> SUFFICES ASSUME Init  PROVE IInv
  OBVIOUS
<1>1. /\ kind \in Kinds /\ kind \in {"sync", "async"} /\ pc = "idle" /\ point = "start"
      /\ scopes = 0 /\ handlers = <<"caller">> /\ done = FALSE /\ delegate = FALSE
      /\ asked = "next" /\ executing = FALSE /\ queue = <<>> /\ at = 0 /\ current = 0
      /\ requests = <<>> /\ answers = <<>>
  BY GeneratorAssumption DEF Init
<1>2. ~Running /\ Busy = 0  BY <1>1 DEF Running, Busy
<1>3. TypeOK
  <2>1. handlers \in Seq({"caller", "barrier", "try"})  BY <1>1
  <2>2. scopes \in 0..MaxTry  BY <1>1, GeneratorAssumption
  <2>3. requests \in Seq(Modes) /\ Len(requests) = 0 /\ queue \in Seq(DOMAIN requests)
    BY <1>1
  <2>4. at \in 0..Len(queue) /\ current \in 0..Len(requests)  BY <1>1
  <2>5. answers \in Seq([req : DOMAIN requests, point : {"start", "yield", "star"},
                        result : {"value", "done", "thrown"}])
    <3> DEFINE S == [req : DOMAIN requests, point : {"start", "yield", "star"},
                     result : {"value", "done", "thrown"}]
    <3> HIDE DEF S
    <3>1. answers \in Seq(S)  BY <1>1
    <3> QED  BY <3>1 DEF S
  <2>6. {done, delegate, executing} \subseteq BOOLEAN /\ asked \in Modes  BY <1>1 DEF Modes
  <2>7. pc \in {"idle", "body", "delegate", "returned"} /\ point \in {"start", "yield", "star"}
    BY <1>1
  <2> QED  BY <1>1, <2>1, <2>2, <2>3, <2>4, <2>5, <2>6, <2>7 DEF TypeOK
<1>4. HandlersBalanced
  <2> DEFINE c == <<"caller">>
  <2>1. c \in Seq(Frame)  BY DEF Frame
  <2>2. c \o <<>> = c
    <3> HIDE DEF c
    <3> QED  BY <2>1, ConcatEmptySeq
  <2> QED  BY <1>1, <1>2, <2>2 DEF HandlersBalanced
<1>5. ServiceInv  BY <1>1, <1>2 DEF ServiceInv
<1>6. ArrivalInv  BY <1>1, <1>2 DEF ArrivalInv
<1>7. SyncInv  BY <1>1, <1>2 DEF SyncInv
<1>8. AnswerInv
  BY <1>1 DEF AnswerInv, AnswersExact, NoValueAfterEnd, EndInv, IsInjective
<1> QED  BY <1>3, <1>4, <1>5, <1>6, <1>7, <1>8 DEF IInv

\* Every step keeps the invariant and leaves a completed generator alone.
LEMMA Stepped ==
  ASSUME IInv, [Next]_vars
  PROVE  IInv' /\ (~Running /\ done => done' /\ ~Running')
<1>1. CASE \E m \in Modes : Request(m)  BY <1>1, Requested
<1>2. CASE DrainNext  BY <1>2, Drained
<1>3. CASE EndDrain  BY <1>3, DrainEnded
<1>4. CASE \/ EnterTry \/ LeaveTry \/ BodyThrows \/ Yield \/ BodyReturns
           \/ DelegateTo \/ DelegateYields \/ DelegateDone \/ DelegateReturned
           \/ DelegateThrows \/ DelegateHasNoThrow
  BY <1>4, Ran
<1>5. CASE UNCHANGED vars
  BY <1>5 DEF vars, service, IInv, TypeOK, HandlersBalanced, ServiceInv, ArrivalInv, SyncInv,
     AnswerInv, AnswersExact, NoValueAfterEnd, EndInv, Running, Busy, Barrier, Tries
<1> QED  BY <1>1, <1>2, <1>3, <1>4, <1>5 DEF Next

-----------------------------------------------------------------------------
(* The theorems.                                                           *)

\* IInv, the inductive invariant: in every reachable state the requests
\* answered, run for and queued follow one another without a gap.
THEOREM Invariance == Spec => []IInv
<1>1. IInv /\ [Next]_vars => IInv'  BY Stepped
<1> QED  BY Started, <1>1, PTL DEF Spec

\* Every variable has its type, for every number of requests and try statements.
THEOREM Typed == Spec => []TypeOK
<1>1. IInv => TypeOK  BY DEF IInv
<1> QED  BY Invariance, <1>1, PTL

\* Every way in and out of the body leaves the exception handlers balanced.
THEOREM Balanced == Spec => []HandlersBalanced
<1>1. IInv => HandlersBalanced  BY DEF IInv
<1> QED  BY Invariance, <1>1, PTL

\* Each request is answered at most once; those of an async generator in order.
THEOREM Exact == Spec => []AnswersExact
<1>1. IInv => AnswersExact  BY DEF IInv, AnswerInv
<1> QED  BY Invariance, <1>1, PTL

\* At rest all requests are answered and none is left in the queue.
THEOREM NoneForgotten == Spec => []NothingForgotten
<1>1. IInv => NothingForgotten
  <2> SUFFICES ASSUME IInv, pc = "idle"
               PROVE  Len(answers) = Len(requests) /\ queue = <<>> /\ ~executing
    BY DEF NothingForgotten
  <2>1. TypeOK /\ ServiceInv /\ ArrivalInv /\ SyncInv  BY DEF IInv
  <2>2. kind \in {"sync", "async"} /\ Len(answers) \in Nat /\ Len(requests) \in Nat
    BY <2>1, TypeFacts
  <2>3. Busy = 0  BY DEF Busy, Running
  <2>4. ~executing /\ queue = <<>> /\ at = 0  BY <2>1, <2>2 DEF ServiceInv
  <2>5. CASE kind = "async"
    <3>1. Len(answers) + Busy + (Len(queue) - at) = Len(requests)
      BY <2>1, <2>5 DEF ArrivalInv
    <3> QED  BY <2>2, <2>3, <2>4, <3>1
  <2>6. CASE kind = "sync"  BY <2>1, <2>2, <2>3, <2>4, <2>6 DEF SyncInv
  <2> QED  BY <2>2, <2>5, <2>6
<1> QED  BY Invariance, <1>1, PTL

\* When the body is not running no promise is left pending by it.
THEOREM Settled == Spec => []SettledOnReturn
<1>1. IInv => SettledOnReturn  BY DEF IInv, ServiceInv, SettledOnReturn
<1> QED  BY Invariance, <1>1, PTL

\* After the answer that ends an async generator no value comes from it.
THEOREM Ended == Spec => []NoValueAfterEnd
<1>1. IInv => NoValueAfterEnd  BY DEF IInv, AnswerInv
<1> QED  BY Invariance, <1>1, PTL

\* A completed generator is never resumed and never comes to life again.
THEOREM Completed == Spec => CompletedForGood
<1>1. IInv /\ [Next]_vars => [~Running /\ done => done' /\ ~Running']_vars
  BY Stepped
<1> QED  BY Invariance, <1>1, PTL DEF Spec, CompletedForGood
=============================================================================

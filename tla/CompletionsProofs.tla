--------------------------- MODULE CompletionsProofs ---------------------------
(***************************************************************************)
(* Module Statements implements module Completions, for every depth of     *)
(* nesting and every set of values, when all jumps are Tidy: what a jump,  *)
(* a finally block or an exception does in the lowered code is a step of a *)
(* completion that leaves the constructs around it, or several of them.    *)
(***************************************************************************)
EXTENDS StatementsProofs

------------------------------------------------------------------------------
(* The constructs as the language sees them, and the steps of Completions    *)
(* written out.                                                              *)

Held(f)    == IF f.exc THEN Throw
              ELSE [how |-> f.disc.how, to |-> f.disc.to, val |-> f.val]
Seen(f)    == [kind |-> f.kind, part |-> f.part, pending |-> Held(f)]
SeenAll(n) == [i \in 1 .. Len(n) |-> Seen(n[i])]

View == [kind : Kinds, part : {"body", "catch", "finally"},
         pending : [how : {"normal", "throw", "return", "break", "continue"}, to : Nat,
                    val : Value \cup {Undefined}]]

Nest   == [i \in 1 .. Here |->
             [kind |-> nest[i].kind, part |-> nest[i].part,
              pending |-> IF nest[i].exc THEN Throw
                          ELSE [how |-> nest[i].disc.how, to |-> nest[i].disc.to,
                                val |-> nest[i].val]]]
Flight == CASE going.do \in {"throw", "throwClose"} -> Throw
            [] going.do = "closeBlock" -> going.c
            [] OTHER -> Normal

Stops(f, i, c) ==
    \/ c.how \in {"break", "continue"} /\ c.to = i
    \/ c.how = "throw" /\ f.kind \in Tries /\ f.part = "body"
    \/ c.how # "throw" /\ HasFinally(f.kind) /\ f.part \in {"body", "catch"}

Landed(n, c) ==
    LET k == Len(n)
    IN  CASE c.how = "break" /\ c.to = k -> SubSeq(n, 1, k - 1)
          [] c.how = "continue" /\ c.to = k -> n
          [] c.how = "throw" /\ n[k].kind # "tryFinally" ->
                [n EXCEPT ![k].part = "catch"]
          [] OTHER -> [n EXCEPT ![k].part = "finally", ![k].pending = c]

\* The three ways in which a completion leaves constructs until k are left: it
\* is still on its way, is stopped by the k-th, or leaves the function.
Flies(n, c, k) == Nest' = SubSeq(n, 1, k) /\ Flight' = c /\ outcome' = outcome
Lands(n, c, k) == /\ k > 0 /\ Stops(n[k], k, c)
                  /\ Nest' = Landed(SubSeq(n, 1, k), c)
                  /\ Flight' = Normal /\ outcome' = outcome
Exits(n, c, k) == /\ k = 0 /\ c.how \in {"return", "throw"}
                  /\ Nest' = <<>> /\ Flight' = Normal /\ outcome' = c
Leave(n, c) ==
    \E k \in 0 .. Len(n) :
        /\ \A i \in k + 1 .. Len(n) : ~Stops(n[i], i, c)
        /\ Flies(n, c, k) \/ Lands(n, c, k) \/ Exits(n, c, k)

Last   == Nest[Len(Nest)]
Before == SubSeq(Nest, 1, Len(Nest) - 1)
Calm   == Flight = Normal /\ outcome = Normal
Same   == Flight' = Flight /\ outcome' = outcome

\* Leave is that of the language.
LEMMA LeaveUnfolds ==
  ASSUME NEW n, NEW c, Leave(n, c)
  PROVE  Language!Leave(n, c)
<1>1. /\ Language!Normal = Normal /\ Language!Throw = Throw
      /\ \A f, i : Language!Stops(f, i, c) <=> Stops(f, i, c)
  BY DEF Language!Normal, Normal, Language!Throw, Throw, Language!Stops, Stops,
         Language!Tries, Tries, Language!HasFinally, HasFinally
<1>2. \A m : Language!Landed(m, c) = Landed(m, c)
  BY DEF Language!Landed, Landed
<1>3. PICK k \in 0 .. Len(n) :
         /\ \A i \in k + 1 .. Len(n) : ~Stops(n[i], i, c)
         /\ Flies(n, c, k) \/ Lands(n, c, k) \/ Exits(n, c, k)
  BY Zenon DEF Leave
<1>4. CASE Flies(n, c, k)
  BY <1>1, <1>3, <1>4, Zenon DEF Language!Leave, Flies, Nest, Flight
<1>5. CASE Lands(n, c, k)
  BY <1>1, <1>2, <1>3, <1>5, Zenon DEF Language!Leave, Lands, Nest, Flight
<1>6. CASE Exits(n, c, k)
  BY <1>1, <1>3, <1>6, Zenon DEF Language!Leave, Exits, Nest, Flight
<1> QED  BY <1>3, <1>4, <1>5, <1>6

\* The first state and the steps of the language, in the terms of this module.
LEMMA FirstUnfolds ==
  ASSUME Nest = <<>>, Calm
  PROVE  Language!Init
<1>1. Language!Normal = Normal  BY DEF Language!Normal, Normal
<1> QED  BY <1>1, Zenon DEF Calm, Language!Init, Nest, Flight

\* What changes none of the three is a step the language does not see.
LEMMA StutterUnfolds ==
  ASSUME Nest' = Nest, Same
  PROVE  [Language!Next]_(Language!vars)
BY Zenon DEF Same, Language!vars, Nest, Flight

\* Entering a construct.
LEMMA OpenUnfolds ==
  ASSUME NEW kind \in Kinds, Calm, Len(Nest) < MaxNest, Same,
         Nest' = Append(Nest, [kind |-> kind, part |-> "body", pending |-> Normal])
  PROVE  Language!Next
<1>1. Language!Normal = Normal /\ Language!Kinds = Kinds
  BY DEF Language!Normal, Normal, Language!Kinds, Kinds, Language!Loops, Loops,
         Language!Tries, Tries
<1>2. Language!Open(kind)
  BY <1>1, Zenon DEF Calm, Same, Language!Open, Language!Runs, Language!Construct, Nest, Flight
<1> QED  BY <1>1, <1>2, Zenon DEF Language!Next

\* The end of a block: on to the finally block, out, or on with what was held.
LEMMA EndUnfolds ==
  ASSUME Calm, Nest # <<>>, NEW c, c = Last.pending,
         \/ /\ HasFinally(Last.kind) /\ Last.part # "finally" /\ Same
            /\ Nest' = Append(Before, [Last EXCEPT !.part = "finally"])
         \/ /\ ~(HasFinally(Last.kind) /\ Last.part # "finally") /\ Same
            /\ c = Normal /\ Nest' = Before
         \/ /\ ~(HasFinally(Last.kind) /\ Last.part # "finally")
            /\ c # Normal /\ Leave(Before, c)
  PROVE  Language!Next
<1>1. /\ Language!Normal = Normal /\ Language!Top = Last /\ Language!Below = Before
      /\ \A kind : Language!HasFinally(kind) <=> HasFinally(kind)
  BY Zenon DEF Language!Normal, Normal, Language!HasFinally, HasFinally, Language!Top, Last,
         Language!Below, Before, Nest
<1>2. Language!Runs  BY <1>1, Zenon DEF Calm, Language!Runs, Flight
<1>3. CASE /\ HasFinally(Last.kind) /\ Last.part # "finally" /\ Same
           /\ Nest' = Append(Before, [Last EXCEPT !.part = "finally"])
  <2> HIDE DEF Last, Before
  <2>1. Language!End
    BY <1>1, <1>2, <1>3, Zenon DEF Same, Language!End, Nest, Flight
  <2> QED  BY <2>1, Zenon DEF Language!Next
<1>4. CASE /\ ~(HasFinally(Last.kind) /\ Last.part # "finally") /\ Same
           /\ c = Normal /\ Nest' = Before
  <2>1. Language!End
    BY <1>1, <1>2, <1>4, Zenon DEF Same, Language!End, Nest, Flight
  <2> QED  BY <2>1, Zenon DEF Language!Next
<1>5. CASE /\ ~(HasFinally(Last.kind) /\ Last.part # "finally")
           /\ c # Normal /\ Leave(Before, c)
  <2>1. Language!Leave(Before, c)  BY <1>5, LeaveUnfolds
  <2>2. Language!Leave(Language!Below, Language!Top.pending)
    BY <1>1, <2>1 DEF Language!Leave
  <2>3. Language!End
    BY <1>1, <1>2, <1>5, <2>2, Zenon DEF Language!End, Nest
  <2> QED  BY <2>3, Zenon DEF Language!Next
<1> QED  BY <1>3, <1>4, <1>5

\* A statement that completes abruptly.
LEMMA CompleteUnfolds ==
  ASSUME Calm, NEW c, Leave(Nest, c),
         \/ c = Throw
         \/ \E v \in Value : c = Return(v)
         \/ \E how \in {"break", "continue"} : \E k \in 1 .. Len(Nest) :
               Takes(Nest[k].kind, how) /\ c = Jump(how, k)
  PROVE  Language!Next
<1>1. Language!Normal = Normal /\ Language!Throw = Throw /\ Language!Loops = Loops
      /\ \A v : Language!Return(v) = Return(v)
      /\ \A how, k : Language!Jump(how, k) = Jump(how, k)
  BY DEF Language!Normal, Normal, Language!Throw, Throw, Language!Loops, Loops,
         Language!Return, Return, Language!Jump, Jump
<1>2. Language!Runs  BY <1>1, Zenon DEF Calm, Language!Runs, Flight
<1>3. Language!Leave(Nest, c)  BY LeaveUnfolds
<1>4. c \in Language!Abrupt
  <2>1. CASE c = Throw  BY <1>1, <2>1, Zenon DEF Language!Abrupt
  <2>2. CASE \E v \in Value : c = Return(v)  BY <1>1, <2>2, Zenon DEF Language!Abrupt
  <2>3. ASSUME NEW how \in {"break", "continue"}, NEW k \in 1 .. Len(Nest),
               Takes(Nest[k].kind, how), c = Jump(how, k)
        PROVE  c \in Language!Abrupt
    <3>1. k \in Language!Targets(how)
      BY <1>1, <2>3, Zenon DEF Takes, Language!Targets, Nest
    <3> QED  BY <1>1, <2>3, <3>1, Zenon DEF Language!Abrupt
  <2> QED  BY <2>1, <2>2, <2>3
<1>5. Language!Complete
  BY <1>2, <1>3, <1>4, Zenon DEF Language!Complete, Nest
<1> QED  BY <1>5, Zenon DEF Language!Next

\* A completion on its way.
LEMMA UnwindUnfolds ==
  ASSUME NEW c, c = Flight, c # Normal, Leave(Nest, c)
  PROVE  Language!Next
<1>1. Language!Normal = Normal  BY DEF Language!Normal, Normal
<1>2. Language!Leave(Nest, Flight)
  <2>1. Language!Leave(Nest, c)  BY LeaveUnfolds
  <2> HIDE DEF Nest, Flight
  <2> QED  BY <2>1 DEF Language!Leave
<1>3. Language!Unwind  BY <1>1, <1>2, Zenon DEF Language!Unwind, Nest, Flight
<1> QED  BY <1>3, Zenon DEF Language!Next

\* An exception takes the place of a break.
LEMMA CloseFailsUnfolds ==
  ASSUME Flight.how = "break", Len(Nest) = Flight.to, Last.kind = "forof",
         Nest' = Before, Flight' = Throw, outcome' = outcome
  PROVE  Language!Next
<1>1. /\ Language!Throw = Throw /\ Language!Top = Last /\ Language!Below = Before
  BY Zenon DEF Language!Throw, Throw, Language!Top, Last, Language!Below, Before, Nest
<1>2. Language!CloseFails
  BY <1>1, Zenon DEF Language!CloseFails, Nest, Flight
<1> QED  BY <1>2, Zenon DEF Language!Next

------------------------------------------------------------------------------
(* Sequences of constructs.                                                  *)

\* Types of what is seen of a construct, ...
LEMMA SeenFrame ==
  ASSUME NEW f \in Frame
  PROVE  /\ Seen(f) \in View /\ Seen(f).kind = f.kind /\ Seen(f).part = f.part
         /\ Seen(f).pending = Held(f)
<1>1. Held(f) \in [how : {"normal", "throw", "return", "break", "continue"}, to : Nat,
                   val : Value \cup {Undefined}]
  BY DEF Held, Throw, Frame
<1> QED  BY <1>1 DEF Seen, View, Frame

\* ... and of a sequence of them.
LEMMA SeenSeq ==
  ASSUME NEW n \in Seq(Frame)
  PROVE  /\ SeenAll(n) \in Seq(View) /\ Len(SeenAll(n)) = Len(n)
         /\ \A i \in 1 .. Len(n) : SeenAll(n)[i] = Seen(n[i])
<1>1. \A i \in 1 .. Len(n) : Seen(n[i]) \in View
  <2> TAKE i \in 1 .. Len(n)
  <2>1. n[i] \in Frame  BY ElementOfSeq
  <2> QED  BY <2>1, SeenFrame
<1> HIDE DEF View, Frame, Seen
<1> QED  BY <1>1, SeqDef DEF SeenAll

\* Both states are seen the same way.
LEMMA NestSeen ==
  /\ Nest = SeenAll(nest) /\ Nest' = SeenAll(nest')
BY DEF Nest, SeenAll, Seen, Held, Here, Throw

\* Leaving constructs and ...
LEMMA SeenCut ==
  ASSUME NEW n \in Seq(Frame), NEW k \in 0 .. Len(n)
  PROVE  SeenAll(SubSeq(n, 1, k)) = SubSeq(SeenAll(n), 1, k)
<1> DEFINE p == SubSeq(n, 1, k)
           q == SeenAll(n)
           r == SubSeq(q, 1, k)
<1>1. p \in Seq(Frame) /\ Len(p) = k /\ \A i \in 1 .. k : p[i] = n[i]  BY Prefix
<1>2. q \in Seq(View) /\ Len(q) = Len(n) /\ \A i \in 1 .. Len(n) : q[i] = Seen(n[i])
  BY SeenSeq
<1>3. r \in Seq(View) /\ Len(r) = k /\ \A i \in 1 .. k : r[i] = q[i]
  <2>1. k \in 0 .. Len(q)  BY <1>2
  <2> HIDE DEF q
  <2> QED  BY <1>2, <2>1, Prefix
<1> HIDE DEF p, q, r
<1>4. /\ SeenAll(p) \in Seq(View) /\ Len(SeenAll(p)) = k
      /\ \A i \in 1 .. k : SeenAll(p)[i] = Seen(p[i])
  BY <1>1, SeenSeq
<1>5. \A i \in 1 .. k : SeenAll(p)[i] = r[i]  BY <1>1, <1>2, <1>3, <1>4
<1>6. SeenAll(p) = r  BY <1>3, <1>4, <1>5, SeqEqual
<1> QED  BY <1>6 DEF p, q, r

\* ... entering them looks the same from the language.
LEMMA SeenAppend ==
  ASSUME NEW n \in Seq(Frame), NEW f \in Frame
  PROVE  SeenAll(Append(n, f)) = Append(SeenAll(n), Seen(f))
<1> DEFINE p == Append(n, f)
           q == SeenAll(n)
           g == Seen(f)
           r == Append(q, g)
<1>1. /\ p \in Seq(Frame) /\ Len(p) = Len(n) + 1 /\ p[Len(n) + 1] = f
      /\ \A i \in 1 .. Len(n) : p[i] = n[i]
  BY AppendProperties
<1>2. q \in Seq(View) /\ Len(q) = Len(n) /\ \A i \in 1 .. Len(n) : q[i] = Seen(n[i])
  BY SeenSeq
<1>3. g \in View /\ Len(n) \in Nat  BY SeenFrame
<1> HIDE DEF q, g
<1>4. /\ r \in Seq(View) /\ Len(r) = Len(n) + 1 /\ r[Len(n) + 1] = g
      /\ \A i \in 1 .. Len(n) : r[i] = q[i]
  BY <1>2, <1>3, AppendProperties
<1> HIDE DEF p, r
<1>5. /\ SeenAll(p) \in Seq(View) /\ Len(SeenAll(p)) = Len(n) + 1
      /\ \A i \in 1 .. Len(n) + 1 : SeenAll(p)[i] = Seen(p[i])
  BY <1>1, SeenSeq
<1>6. \A i \in 1 .. Len(n) + 1 : SeenAll(p)[i] = r[i]
  <2> TAKE i \in 1 .. Len(n) + 1
  <2>1. CASE i \in 1 .. Len(n)  BY <1>1, <1>2, <1>4, <1>5, <2>1
  <2>2. CASE i = Len(n) + 1  BY <1>1, <1>4, <1>5, <2>2 DEF g
  <2> QED  BY <1>3, <2>1, <2>2
<1>7. SeenAll(p) = r  BY <1>4, <1>5, <1>6, SeqEqual
<1> QED  BY <1>7 DEF p, q, r, g

\* A construct that has stopped a completion.
Caught(f)    == [f EXCEPT !.part = "catch"]
Entered(f, c) == [f EXCEPT !.part = "finally", !.pending = c]

\* What Landed makes of the last construct, without updates of a sequence.
LEMMA LandedIn ==
  ASSUME NEW n \in Seq(View), NEW k \in 1 .. Len(n), NEW c, NEW f \in View
  PROVE  LET m == SubSeq(n, 1, k)
         IN  /\ (c.how = "break" /\ c.to = k) => Landed(m, c) = SubSeq(n, 1, k - 1)
             /\ (c.how = "continue" /\ c.to = k) => Landed(m, c) = m
             /\ (c.how = "throw" /\ n[k].kind # "tryFinally" /\ f = Caught(n[k])) =>
                   Landed(m, c) = Append(SubSeq(n, 1, k - 1), f)
             /\ (/\ ~(c.how \in {"break", "continue"} /\ c.to = k)
                 /\ ~(c.how = "throw" /\ n[k].kind # "tryFinally")
                 /\ f = Entered(n[k], c)) =>
                   Landed(m, c) = Append(SubSeq(n, 1, k - 1), f)
<1> PICK t : t = n[k]  OBVIOUS
<1> PICK m : m = SubSeq(n, 1, k)  OBVIOUS
<1>1. /\ m \in Seq(View) /\ Len(m) = k /\ m[k] = t /\ k # 0
      /\ \A j \in 1 .. k : m[j] = n[j]
      /\ SubSeq(m, 1, k - 1) = SubSeq(n, 1, k - 1)
  <2>1. k \in 0 .. Len(n) /\ k \in 1 .. k /\ k - 1 \in 0 .. k  OBVIOUS
  <2> QED  BY <2>1, Prefix
<1>2. k \in DOMAIN m /\ m = [i \in 1 .. k |-> m[i]] /\ t \in View
  BY <1>1, LenProperties, ElementOfSeq
<1>3. PICK b : b = [m EXCEPT ![k] = f]  OBVIOUS
<1>4. b = Append(SubSeq(n, 1, k - 1), f)
  <2>1. k \in 1 .. Len(m)  BY <1>1
  <2>2. /\ b \in Seq(View) /\ Len(b) = Len(m)
        /\ \A j \in 1 .. Len(m) : b[j] = IF j = k THEN f ELSE m[j]
    <3>1. m \in Seq(View) /\ f \in View  BY <1>1
    <3> QED  BY ONLY <1>3, <2>1, <3>1, ExceptSeq
  <2>3. Len(b) = k /\ b[k] = f /\ \A j \in 1 .. k - 1 : b[j] = n[j]
    BY <1>1, <2>1, <2>2
  <2> QED  BY <2>2, <2>3, ReplaceLast
<1>5. ASSUME c.how = "throw", t.kind # "tryFinally", f = Caught(t)
      PROVE  Landed(m, c) = b
  <2>1. Landed(m, c) = [m EXCEPT ![k].part = "catch"]  BY <1>1, <1>5 DEF Landed
  <2>2. f = [t EXCEPT !.part = "catch"]  BY <1>5 DEF Caught
  <2>3. Landed(m, c) = [m EXCEPT ![k] = f]  BY <1>1, <1>2, <2>1, <2>2
  <2> QED  BY <1>3, <2>3
<1>6. ASSUME ~(c.how \in {"break", "continue"} /\ c.to = k),
             ~(c.how = "throw" /\ t.kind # "tryFinally"), f = Entered(t, c)
      PROVE  Landed(m, c) = b
  <2>1. Landed(m, c) = [m EXCEPT ![k].part = "finally", ![k].pending = c]
    BY <1>1, <1>6 DEF Landed
  <2>2. f = [t EXCEPT !.part = "finally", !.pending = c]  BY <1>6 DEF Entered
  <2>3. Landed(m, c) = [m EXCEPT ![k] = f]  BY <1>1, <1>2, <2>1, <2>2
  <2> QED  BY <1>3, <2>3
<1>7. (c.how = "break" /\ c.to = k) => Landed(m, c) = SubSeq(n, 1, k - 1)
  BY <1>1 DEF Landed
<1>8. (c.how = "continue" /\ c.to = k) => Landed(m, c) = m
  BY <1>1 DEF Landed
<1> QED  BY <1>4, <1>5, <1>6, <1>7, <1>8

LEMMA LandedAtTarget ==
  ASSUME NEW n \in Seq(View), NEW k \in 1 .. Len(n), NEW c, c.to = k
  PROVE  /\ (c.how = "break") => Landed(SubSeq(n, 1, k), c) = SubSeq(n, 1, k - 1)
         /\ (c.how = "continue") => Landed(SubSeq(n, 1, k), c) = SubSeq(n, 1, k)
<1>1. n[k] \in View  BY ElementOfSeq
<1>2. (c.how = "break" /\ c.to = k) => Landed(SubSeq(n, 1, k), c) = SubSeq(n, 1, k - 1)
  BY ONLY <1>1, n \in Seq(View), k \in 1 .. Len(n), LandedIn
<1>3. (c.how = "continue" /\ c.to = k) => Landed(SubSeq(n, 1, k), c) = SubSeq(n, 1, k)
  BY ONLY <1>1, n \in Seq(View), k \in 1 .. Len(n), LandedIn
<1> QED  BY <1>2, <1>3

LEMMA LandedInFinally ==
  ASSUME NEW n \in Seq(View), NEW k \in 1 .. Len(n), NEW c, NEW f \in View,
         ~(c.how \in {"break", "continue"} /\ c.to = k),
         ~(c.how = "throw" /\ n[k].kind # "tryFinally"), f = Entered(n[k], c)
  PROVE  Landed(SubSeq(n, 1, k), c) = Append(SubSeq(n, 1, k - 1), f)
BY LandedIn

LEMMA LandedInCatch ==
  ASSUME NEW n \in Seq(View), NEW k \in 1 .. Len(n), NEW c, NEW f \in View,
         c.how = "throw", n[k].kind # "tryFinally", f = Caught(n[k])
  PROVE  Landed(SubSeq(n, 1, k), c) = Append(SubSeq(n, 1, k - 1), f)
BY LandedIn

------------------------------------------------------------------------------
(* The constructs of a state and of the next.                                *)

\* The constructs around the statement as they are and as they are seen.
LEMMA NestFacts ==
  ASSUME IInv
  PROVE  /\ Nest \in Seq(View) /\ Len(Nest) = Here /\ Here \in Nat
         /\ \A i \in 1 .. Here : /\ Nest[i] \in View /\ nest[i] \in Frame
                                 /\ Nest[i] = Seen(nest[i])
                                 /\ Nest[i].kind = nest[i].kind
                                 /\ Nest[i].part = nest[i].part
                                 /\ Nest[i].pending = Held(nest[i])
<1>1. nest \in Seq(Frame) /\ Here \in Nat /\ Len(nest) = Here  BY Sizes DEF Here
<1>2. /\ Nest \in Seq(View) /\ Len(Nest) = Here
      /\ \A i \in 1 .. Here : Nest[i] = Seen(nest[i])
  BY <1>1, NestSeen, SeenSeq
<1>3. \A i \in 1 .. Here : nest[i] \in Frame  BY <1>1, ElementOfSeq
<1>4. \A i \in 1 .. Here : /\ Seen(nest[i]) \in View
                           /\ Seen(nest[i]).kind = nest[i].kind
                           /\ Seen(nest[i]).part = nest[i].part
                           /\ Seen(nest[i]).pending = Held(nest[i])
  BY <1>3, SeenFrame
<1> QED  BY <1>1, <1>2, <1>3, <1>4

\* Control has left all but the first k constructs.
LEMMA NestCut ==
  ASSUME IInv, NEW k \in 0 .. Here, nest' = SubSeq(nest, 1, k)
  PROVE  Nest' = SubSeq(Nest, 1, k) /\ Len(SubSeq(Nest, 1, k)) = k
<1>1. nest \in Seq(Frame) /\ Len(nest) = Here  BY Sizes DEF Here
<1>2. SeenAll(SubSeq(nest, 1, k)) = SubSeq(SeenAll(nest), 1, k)  BY <1>1, SeenCut
<1>3. Nest \in Seq(View) /\ k \in 0 .. Len(Nest)  BY NestFacts
<1>4. Len(SubSeq(Nest, 1, k)) = k  BY <1>3, Prefix
<1> QED  BY <1>2, <1>4, NestSeen

\* The same, and the k-th has become f.
LEMMA NestPut ==
  ASSUME IInv, NEW k \in 1 .. Here + 1, NEW f \in Frame,
         nest' = Append(SubSeq(nest, 1, k - 1), f)
  PROVE  Nest' = Append(SubSeq(Nest, 1, k - 1), Seen(f))
<1> PICK j : j = k - 1  OBVIOUS
<1>1. nest \in Seq(Frame) /\ j \in 0 .. Len(nest)  BY Sizes DEF Here
<1> PICK p : p = SubSeq(nest, 1, j)  OBVIOUS
<1>2. p \in Seq(Frame) /\ SeenAll(p) = SubSeq(SeenAll(nest), 1, j)
  BY <1>1, SeenCut, Prefix
<1>3. SeenAll(Append(p, f)) = Append(SeenAll(p), Seen(f))  BY <1>2, SeenAppend
<1> QED  BY <1>2, <1>3, NestSeen

\* What is on its way, by what the emitted code does.
LEMMA FlightIs ==
  /\ going.do \in {"run", "next", "close"} => Flight = Normal
  /\ going = Run => Flight = Normal
  /\ going.do \in {"throw", "throwClose"} => Flight = Throw
  /\ going.do = "closeBlock" => Flight = going.c
  /\ (going' = Run \/ going' = Doing("next")) => Flight' = Normal
  /\ going'.do \in {"run", "next", "close"} => Flight' = Normal
  /\ (going' = Throwing \/ going' = Doing("throwClose")) => Flight' = Throw
  /\ \A c : going' = AtClose(c) => Flight' = c
BY DEF Flight, Run, Throwing, Doing, AtClose

------------------------------------------------------------------------------
(* Leaving.                                                                  *)

\* A completion of the m innermost constructs that are left comes to g, a try
\* statement with a finally block.
LEMMA LeaveToFinally ==
  ASSUME IInv, NEW m \in 0 .. Here, NEW c, Targeted(c), NEW g \in 1 .. m, c.to < g,
         HasFinally(nest[g].kind), nest[g].part # "finally",
         \A i \in g + 1 .. m : ~(HasFinally(nest[i].kind) /\ nest[i].part # "finally"),
         NEW pops, NEW scopes, EnterFinally(g, pops, scopes, c)
  PROVE  Leave(SubSeq(Nest, 1, m), c)
<1>1. /\ Nest \in Seq(View) /\ Len(Nest) = Here /\ Here \in Nat /\ g \in 1 .. Here
      /\ \A i \in 1 .. Here : /\ Nest[i] \in View /\ nest[i] \in Frame
                              /\ Nest[i] = Seen(nest[i])
                              /\ Nest[i].kind = nest[i].kind
                              /\ Nest[i].part = nest[i].part
                              /\ Nest[i].pending = Held(nest[i])
  BY NestFacts
<1>2. PICK n : n = SubSeq(Nest, 1, m)  OBVIOUS
<1>3. /\ n \in Seq(View) /\ Len(n) = m /\ \A i \in 1 .. m : n[i] = Nest[i]
      /\ \A j \in 0 .. m : SubSeq(n, 1, j) = SubSeq(Nest, 1, j)
  BY <1>1, <1>2, Prefix
<1>4. /\ c.to \in 0 .. Here /\ c.how \in {"return", "break", "continue"}
      /\ c.how = "return" => c = Return(c.val) /\ c.val \in Value
      /\ c.how # "return" => c = Jump(c.how, c.to) /\ c.val = Undefined
  BY TargetedTo
<1>5. \A i \in g + 1 .. m : ~Stops(n[i], i, c)
  <2> TAKE i \in g + 1 .. m
  <2>1. i \in 1 .. Here /\ i \in 1 .. m /\ c.to # i  BY <1>1, <1>4
  <2>2. n[i].kind = nest[i].kind /\ n[i].part = nest[i].part  BY <1>1, <1>3, <2>1
  <2> QED  BY <1>4, <2>1, <2>2 DEF Stops
<1>6. Stops(n[g], g, c)
  <2>1. n[g].kind = nest[g].kind /\ n[g].part = nest[g].part  BY <1>1, <1>3
  <2>2. nest[g].part \in {"body", "catch"}  BY <1>1 DEF Frame
  <2> QED  BY <1>4, <2>1, <2>2 DEF Stops
<1> PICK t : t = nest[g]  OBVIOUS
<1> DEFINE f == [t EXCEPT !.part = "finally", !.disc = [how |-> c.how, to |-> c.to],
                          !.val = IF c.how = "return" THEN c.val ELSE @]
<1>7. nest' = Append(SubSeq(nest, 1, g - 1), f) /\ going' = Run /\ outcome' = outcome
  BY DEF EnterFinally, Outer
<1>8. t \in Frame /\ ~t.exc /\ t.part # "finally" /\ (c.how # "return" => t.val = Undefined)
  <2>1. Fits(t, SubSeq(nest, 1, g - 1))
    BY <1>1 DEF IInv, NestInv, WellFormed, Here
  <2> QED  BY <1>1, <2>1 DEF Fits
<1>9. f \in Frame /\ Seen(f) = Entered(Seen(t), c)
  <2>1. f \in Frame
    <3>1. /\ c.how \in {"normal", "return", "break", "continue"} /\ c.to \in Nat
          /\ c.how = "return" => c.val \in Value
      BY <1>4
    <3>2. t \in Frame  BY <1>8
    <3> QED  BY ONLY <3>1, <3>2 DEF Frame
  <2>2. c = [how |-> c.how, to |-> c.to, val |-> c.val]  BY <1>4 DEF Return, Jump
  <2>3. Held(f) = c  BY <1>4, <1>8, <2>2 DEF Held, Frame
  <2>4. Seen(f) = [kind |-> t.kind, part |-> "finally", pending |-> c]
    BY <1>8, <2>3 DEF Seen, Frame
  <2>5. Entered(Seen(t), c) = [kind |-> t.kind, part |-> "finally", pending |-> c]
    <3>1. PICK s : s = Seen(t)  OBVIOUS
    <3>2. s \in View /\ s.kind = t.kind  BY <1>8, <3>1, SeenFrame
    <3> PICK e : e = Entered(s, c)  OBVIOUS
    <3>3. e \in [kind : {s.kind}, part : {"finally"}, pending : {c}]
      BY <3>2 DEF Entered, View
    <3>4. e = [kind |-> s.kind, part |-> "finally", pending |-> c]  BY <3>3
    <3> QED  BY <3>1, <3>2, <3>4
  <2> QED  BY <2>1, <2>4, <2>5
<1> HIDE DEF f
<1>10. Nest' = Landed(SubSeq(n, 1, g), c)
  <2> PICK e : e = Seen(f)  OBVIOUS
  <2>1. e \in View /\ e = Entered(n[g], c)  BY <1>1, <1>3, <1>9, SeenFrame
  <2>2. Nest' = Append(SubSeq(Nest, 1, g - 1), e)  BY <1>1, <1>7, <1>9, NestPut
  <2>3. SubSeq(Nest, 1, g - 1) = SubSeq(n, 1, g - 1)
    <3>1. g - 1 \in 0 .. m  OBVIOUS
    <3> QED  BY <1>3, <3>1
  <2>4. /\ ~(c.how \in {"break", "continue"} /\ c.to = g) /\ c.how # "throw"
        /\ g \in 1 .. Len(n)
    BY <1>3, <1>4
  <2>5. Landed(SubSeq(n, 1, g), c) = Append(SubSeq(n, 1, g - 1), e)
    <3>1. ~(c.how \in {"break", "continue"} /\ c.to = g)
          /\ ~(c.how = "throw" /\ n[g].kind # "tryFinally")
      BY <2>4
    <3> QED  BY ONLY <1>3, <2>1, <2>4, <3>1, LandedInFinally
  <2> QED  BY <2>2, <2>3, <2>5
<1>11. Flight' = Normal  BY <1>7, FlightIs
<1>12. Lands(n, c, g)  BY <1>6, <1>7, <1>10, <1>11 DEF Lands
<1>13. g \in 0 .. Len(n) /\ \A i \in g + 1 .. Len(n) : ~Stops(n[i], i, c)  BY <1>3, <1>5
<1>14. Leave(n, c)  BY <1>12, <1>13, Zenon DEF Leave
<1> QED  BY <1>2, <1>14

\* No finally block stands between the m innermost constructs that are left and
\* the target.
LEMMA LeaveToTarget ==
  ASSUME IInv, NEW m \in 0 .. Here, NEW c, Targeted(c), c.to <= m,
         \A i \in c.to + 1 .. m : ~(HasFinally(nest[i].kind) /\ nest[i].part # "finally"),
         Arrive(c)
  PROVE  Leave(SubSeq(Nest, 1, m), c)
<1>1. /\ Nest \in Seq(View) /\ Len(Nest) = Here /\ Here \in Nat
      /\ \A i \in 1 .. Here : Nest[i].kind = nest[i].kind /\ Nest[i].part = nest[i].part
  BY NestFacts
<1>2. PICK n : n = SubSeq(Nest, 1, m)  OBVIOUS
<1>3. /\ n \in Seq(View) /\ Len(n) = m /\ \A i \in 1 .. m : n[i] = Nest[i]
      /\ \A j \in 0 .. m : SubSeq(n, 1, j) = SubSeq(Nest, 1, j)
  BY <1>1, <1>2, Prefix
<1> PICK k : k = c.to  OBVIOUS
<1>4. /\ k \in 0 .. m /\ c.how \in {"return", "break", "continue"}
      /\ c.how = "return" => k = 0
      /\ c.how # "return" => k \in 1 .. m /\ Takes(nest[k].kind, c.how)
  BY TargetedTo
<1>5. \A i \in k + 1 .. m : ~Stops(n[i], i, c)
  <2> TAKE i \in k + 1 .. m
  <2>1. i \in 1 .. Here /\ i \in 1 .. m /\ c.to # i  BY <1>1, <1>4
  <2>2. n[i].kind = nest[i].kind /\ n[i].part = nest[i].part  BY <1>1, <1>3, <2>1
  <2> QED  BY <1>4, <2>1, <2>2 DEF Stops
<1>6. CASE c.how = "return"
  <2>1. nest' = <<>> /\ going' = Run /\ outcome' = c  BY <1>6 DEF Arrive
  <2>2. Nest' = <<>>  BY <2>1 DEF Nest, Here
  <2>3. Flight' = Normal  BY <2>1, FlightIs
  <2>4. Exits(n, c, k)  BY <1>4, <1>6, <2>1, <2>2, <2>3 DEF Exits
  <2>5. k \in 0 .. Len(n) /\ \A i \in k + 1 .. Len(n) : ~Stops(n[i], i, c)
    BY <1>3, <1>4, <1>5
  <2> QED  BY <1>2, <2>4, <2>5 DEF Leave
<1>7. CASE c.how # "return"
  <2>1. /\ k \in 1 .. m /\ c.how \in {"break", "continue"} /\ k \in 0 .. Here
        /\ k - 1 \in 0 .. Here /\ k - 1 \in 0 .. m /\ outcome' = outcome
        /\ k \in 1 .. Len(n) /\ k \in 0 .. Len(n)
        /\ \A i \in k + 1 .. Len(n) : ~Stops(n[i], i, c)
    BY <1>1, <1>3, <1>4, <1>5, <1>7 DEF Arrive
  <2>2. Stops(n[k], k, c)  BY <2>1 DEF Stops
  <2>3. /\ (c.how = "break") => Landed(SubSeq(n, 1, k), c) = SubSeq(n, 1, k - 1)
        /\ (c.how = "continue") => Landed(SubSeq(n, 1, k), c) = SubSeq(n, 1, k)
    <3>1. c.to = k  OBVIOUS
    <3>2. n \in Seq(View) /\ k \in 1 .. Len(n)  BY ONLY <1>3, <2>1
    <3> QED  BY ONLY <3>1, <3>2, LandedAtTarget
  <2>4. CASE c.how = "break" /\ nest[k].kind # "forof"
    <3>1. nest' = SubSeq(nest, 1, k - 1) /\ going' = Run
      BY <1>7, <2>4 DEF Arrive, Outer
    <3>2. Nest' = SubSeq(n, 1, k - 1)
      <4> DEFINE j == k - 1
      <4>1. j \in 0 .. Here /\ nest' = SubSeq(nest, 1, j) /\ j \in 0 .. m  BY <2>1, <3>1
      <4> HIDE DEF j
      <4>2. Nest' = SubSeq(n, 1, j)  BY <1>3, <4>1, NestCut
      <4> QED  BY <4>2 DEF j
    <3>3. Flight' = Normal  BY <3>1, FlightIs
    <3>4. Lands(n, c, k)  BY <2>1, <2>2, <2>3, <2>4, <3>2, <3>3 DEF Lands
    <3> QED  BY <1>2, <2>1, <3>4 DEF Leave
  <2>5. CASE ~(c.how = "break" /\ nest[k].kind # "forof")
    <3>1. /\ nest' = SubSeq(nest, 1, k)
          /\ going' = IF nest[k].kind # "forof" THEN Run
                      ELSE IF c.how = "break" THEN AtClose(c) ELSE Doing("next")
      BY <1>7, <2>5 DEF Arrive
    <3>2. Nest' = SubSeq(n, 1, k)  BY <1>3, <1>4, <2>1, <3>1, NestCut
    <3>3. CASE c.how = "break"
      <4>1. Flight' = c  BY <2>5, <3>1, <3>3, FlightIs
      <4>2. Flies(n, c, k)  BY <2>1, <3>2, <4>1 DEF Flies
      <4> QED  BY <1>2, <2>1, <4>2 DEF Leave
    <3>4. CASE c.how = "continue"
      <4>1. Flight' = Normal  BY <3>1, <3>4, FlightIs
      <4>2. Lands(n, c, k)  BY <2>1, <2>2, <2>3, <3>2, <3>4, <4>1 DEF Lands
      <4> QED  BY <1>2, <2>1, <4>2 DEF Leave
    <3> QED  BY <2>1, <3>3, <3>4
  <2> QED  BY <2>4, <2>5
<1> QED  BY <1>6, <1>7

------------------------------------------------------------------------------
(* The steps.                                                                *)

\* The innermost construct.
LEMMA LastFacts ==
  ASSUME IInv, Here > 0
  PROVE  /\ Nest # <<>> /\ Here \in Nat \ {0} /\ Top \in Frame
         /\ Last = Seen(Top) /\ Last.kind = Top.kind /\ Last.part = Top.part
         /\ Last.pending = Held(Top)
         /\ Here - 1 \in 0 .. Here /\ Before = SubSeq(Nest, 1, Here - 1)
         /\ (Top.disc.how = "normal" /\ ~Top.exc) => Held(Top) = Normal
         /\ Top.exc => Held(Top) = Throw
         /\ Top.disc.how # "normal" => ~Top.exc
         /\ Top.part # "finally" => Top.disc.how = "normal" /\ ~Top.exc
<1>1. /\ Nest \in Seq(View) /\ Len(Nest) = Here /\ Here \in Nat /\ Here \in 1 .. Here
      /\ Nest[Here] = Seen(nest[Here]) /\ nest[Here] \in Frame
      /\ Nest[Here].kind = nest[Here].kind /\ Nest[Here].part = nest[Here].part
      /\ Nest[Here].pending = Held(nest[Here])
  BY NestFacts
<1>2. Fits(Top, Outer(Here)) /\ Top = nest[Here]  BY TopFacts
<1>3. Nest # <<>>  BY <1>1, EmptySeq
<1>4. Last = Nest[Here] /\ Before = SubSeq(Nest, 1, Here - 1)  BY <1>1 DEF Last, Before
<1>5. (Top.disc.how = "normal" /\ ~Top.exc) => Held(Top) = Normal
  BY <1>2 DEF Held, Normal, Fits, Frame
<1>6. /\ Top.exc => Held(Top) = Throw
      /\ Top.disc.how # "normal" => ~Top.exc
      /\ Top.part # "finally" => Top.disc.how = "normal" /\ ~Top.exc
  BY <1>2 DEF Held, Fits, Frame
<1> QED  BY <1>1, <1>2, <1>3, <1>4, <1>5, <1>6

\* The innermost construct is left.
LEMMA Ends ==
  ASSUME IInv, Here > 0, Calm, nest' = Outer(Here), Same,
         Top.disc.how = "normal", ~Top.exc, HasFinally(Top.kind) => Top.part = "finally"
  PROVE  Language!Next
<1>1. Nest' = Before  BY LastFacts, NestCut DEF Outer
<1>2. Last.pending = Normal /\ Nest # <<>>  BY LastFacts
<1>3. ~(HasFinally(Last.kind) /\ Last.part # "finally")  BY LastFacts
<1> PICK c : c = Last.pending  OBVIOUS
<1> QED  BY <1>1, <1>2, <1>3, EndUnfolds

\* Entering a construct is Open.
LEMMA OpenImplements ==
  ASSUME IInv, NEW kind \in Kinds, Open(kind)
  PROVE  Language!Next
<1> PICK f : f = Construct(kind)  OBVIOUS
<1>1. /\ going = Run /\ outcome = Normal /\ Here < MaxNest /\ nest' = Append(nest, f)
      /\ going' \in {Run, Doing("next")} /\ outcome' = outcome
  BY DEF Open, Runs
<1>2. nest \in Seq(Frame) /\ Len(Nest) = Here  BY Sizes, NestFacts
<1>3. f \in Frame /\ Seen(f) = [kind |-> kind, part |-> "body", pending |-> Normal]
  BY DEF Construct, Frame, Seen, Held, Normal
<1>4. Nest' = Append(Nest, Seen(f))  BY <1>1, <1>2, <1>3, SeenAppend, NestSeen
<1>5. Calm /\ Same  BY <1>1, FlightIs DEF Calm, Same
<1> QED  BY <1>1, <1>2, <1>3, <1>4, <1>5, OpenUnfolds

\* The end of a loop, switch or with statement is End, ...
LEMMA EndBlockImplements ==
  ASSUME IInv, EndBlock
  PROVE  Language!Next
<1>1. /\ going = Run /\ outcome = Normal /\ nest # <<>> /\ nest' = Outer(Here)
      /\ Top.kind \in {"loop", "switch", "with"} /\ going' = going /\ outcome' = outcome
  BY DEF EndBlock, Runs
<1>2. Here > 0  BY <1>1, Sizes, EmptySeq DEF Here
<1>3. Calm /\ Same  BY <1>1, FlightIs DEF Calm, Same
<1>4. ~HasFinally(Top.kind) /\ Top.part # "finally"
  BY <1>1, <1>2, TopFacts DEF HasFinally, Fits
<1> QED  BY <1>1, <1>2, <1>3, <1>4, LastFacts, Ends

\* ... so is that of a for-of loop, ...
LEMMA ExhaustedImplements ==
  ASSUME IInv, Exhausted
  PROVE  Language!Next
<1>1. /\ going.do = "next" /\ nest' = Outer(Here) /\ going' = Run /\ outcome' = outcome
  BY DEF Exhausted
<1>2. Here > 0 /\ Top.kind = "forof" /\ outcome = Normal  BY <1>1, Between
<1>3. Calm /\ Same  BY <1>1, <1>2, FlightIs DEF Calm, Same
<1>4. ~HasFinally(Top.kind) /\ Top.part # "finally"
  BY <1>2, TopFacts DEF HasFinally, Fits
<1> QED  BY <1>1, <1>2, <1>3, <1>4, LastFacts, Ends

\* ... and that of a try or catch block.
LEMMA EndTryOrCatchImplements ==
  ASSUME IInv, EndTryOrCatch
  PROVE  Language!Next
<1>1. /\ going = Run /\ outcome = Normal /\ nest # <<>> /\ going' = going
      /\ Top.part # "finally" /\ outcome' = outcome
      /\ nest' = IF HasFinally(Top.kind)
                 THEN Append(Outer(Here), [Top EXCEPT !.part = "finally"])
                 ELSE Outer(Here)
  BY DEF EndTryOrCatch, Runs
<1>2. Here > 0  BY <1>1, Sizes, EmptySeq DEF Here
<1>3. Calm /\ Same  BY <1>1, FlightIs DEF Calm, Same
<1>4. CASE ~HasFinally(Top.kind)
  BY <1>1, <1>2, <1>3, <1>4, LastFacts, Ends
<1>5. CASE HasFinally(Top.kind)
  <2> PICK t : t = Top  OBVIOUS
  <2> PICK f : f = [t EXCEPT !.part = "finally"]  OBVIOUS
  <2>1. t \in Frame /\ Here \in 1 .. Here + 1 /\ Last = Seen(t)  BY <1>2, LastFacts
  <2>2. f \in Frame /\ f.kind = t.kind /\ f.part = "finally" /\ Held(f) = Held(t)
    BY <2>1 DEF Frame, Held
  <2>3. Seen(f) = [Last EXCEPT !.part = "finally"]
    <3> PICK s : s = Last  OBVIOUS
    <3>1. s \in View /\ s.kind = t.kind /\ s.pending = Held(t)  BY <2>1, SeenFrame
    <3> PICK e : e = [s EXCEPT !.part = "finally"]  OBVIOUS
    <3>2. e \in [kind : {t.kind}, part : {"finally"}, pending : {Held(t)}]
      BY <3>1 DEF View
    <3>3. e = [kind |-> t.kind, part |-> "finally", pending |-> Held(t)]  BY <3>2
    <3>4. Seen(f) = [kind |-> t.kind, part |-> "finally", pending |-> Held(t)]
      BY <2>2 DEF Seen
    <3> QED  BY <3>3, <3>4
  <2>4. nest' = Append(SubSeq(nest, 1, Here - 1), f)  BY <1>1, <1>5 DEF Outer
  <2>5. Nest' = Append(Before, Seen(f))  BY <1>2, <2>1, <2>2, <2>4, NestPut, LastFacts
  <2>6. HasFinally(Last.kind) /\ Last.part # "finally" /\ Nest # <<>>
    BY <1>1, <1>2, <1>5, LastFacts
  <2> PICK c : c = Last.pending  OBVIOUS
  <2> QED  BY <1>3, <2>3, <2>5, <2>6, EndUnfolds
<1> QED  BY <1>4, <1>5

\* Rounds of a for-of loop, and jumps that close iterators first, do nothing
\* the language sees.
LEMMA Unseen ==
  ASSUME IInv, \/ EndRound \/ Another \/ \E c \in Abrupt : Complete(c)
  PROVE  Nest' = Nest /\ Same
<1>1. nest' = nest /\ outcome' = outcome
  BY DEF EndRound, Another, Complete
<1>2. Nest' = Nest  BY <1>1, NestSeen
<1>3. Flight = Normal
  <2>1. going = Run \/ going.do = "next"  BY DEF EndRound, Another, Complete, Runs
  <2> QED  BY <2>1, FlightIs
<1>4. Flight' = Normal
  <2>1. going' = Run \/ going' = Doing("next") \/ going'.do = "close"
    BY DEF EndRound, Another, Complete, Closing
  <2> QED  BY <2>1, FlightIs
<1> QED  BY <1>1, <1>2, <1>3, <1>4 DEF Same

\* An exception flies past the constructs outside of the first k.
LEMMA FliesOff ==
  ASSUME IInv, NEW k \in 0 .. Here, nest' = SubSeq(nest, 1, k), Flight' = Throw,
         outcome' = outcome, \A i \in k + 1 .. Here : ~Armed(nest[i])
  PROVE  Leave(Nest, Throw)
<1>1. Nest' = SubSeq(Nest, 1, k)  BY NestCut
<1>2. \A i \in k + 1 .. Here : ~Stops(Nest[i], i, Throw)
  <2> TAKE i \in k + 1 .. Here
  <2>1. Nest[i].kind = nest[i].kind /\ Nest[i].part = nest[i].part  BY NestFacts
  <2> QED  BY <2>1 DEF Stops, Throw, Armed
<1>3. Len(Nest) = Here  BY NestFacts
<1> QED  BY <1>1, <1>2, <1>3 DEF Leave, Flies

\* An exception of a statement completes it, ...
LEMMA StatementThrowsImplements ==
  ASSUME IInv, StatementThrows
  PROVE  Language!Next
<1>1. going = Run /\ outcome = Normal /\ going' = Throwing /\ nest' = nest /\ outcome' = outcome
  BY DEF StatementThrows, Runs
<1>2. Calm /\ Flight' = Throw  BY <1>1, FlightIs DEF Calm
<1>3. Here \in 0 .. Here /\ nest \in Seq(Frame)  BY Sizes
<1>4. Nest' = Nest  BY <1>1, NestSeen
<1>5. Leave(Nest, Throw)
  <2>1. Len(Nest) = Here /\ Nest \in Seq(View)  BY NestFacts
  <2>2. SubSeq(Nest, 1, Here) = Nest  BY <2>1, SubSeqFull
  <2> QED  BY <1>1, <1>2, <1>3, <1>4, <2>1, <2>2 DEF Leave, Flies
<1> QED  BY <1>2, <1>5, CompleteUnfolds

\* ... so do those of next(), from outside of the loop's handler, ...
LEMMA NextThrowsImplements ==
  ASSUME IInv, NextThrows
  PROVE  Language!Next
<1>1. going.do = "next" /\ nest' = Outer(Here) /\ going' = Throwing /\ outcome' = outcome
  BY DEF NextThrows
<1>2. Here > 0 /\ Top.kind = "forof" /\ outcome = Normal  BY <1>1, Between
<1>3. Calm /\ Flight' = Throw  BY <1>1, <1>2, FlightIs DEF Calm
<1>4. /\ Here \in Nat \ {0} /\ Here - 1 \in 0 .. Here
      /\ nest' = SubSeq(nest, 1, Here - 1)
  BY <1>1, <1>2, TopFacts
<1>5. Leave(Nest, Throw)
  <2>1. Nest' = SubSeq(Nest, 1, Here - 1)  BY <1>4, NestCut
  <2>2. ~Stops(Nest[Here], Here, Throw)
    <3>1. Nest[Here].kind = "forof"  BY <1>2, <1>4, NestFacts DEF Top
    <3> QED  BY <3>1 DEF Stops, Throw, Tries
  <2>3. \A i \in (Here - 1) + 1 .. Len(Nest) : ~Stops(Nest[i], i, Throw)
    <3>1. Len(Nest) = Here  BY NestFacts
    <3> QED  BY <1>4, <2>2, <3>1
  <2>4. Here - 1 \in 0 .. Len(Nest)  BY <1>4, NestFacts
  <2> QED  BY <1>1, <1>3, <2>1, <2>3, <2>4 DEF Leave, Flies
<1> QED  BY <1>3, <1>5, CompleteUnfolds

\* ... and of a close on the way of a jump; a close that succeeds is not seen.
LEMMA CloseOneImplements ==
  ASSUME IInv, CloseOne
  PROVE  [Language!Next]_(Language!vars)
<1> PICK i : i = Max(going.left)  OBVIOUS
<1>1. /\ going.do = "close" /\ outcome' = outcome
      /\ going' \in {[going EXCEPT !.left = @ \ {i}], Throwing}
  BY DEF CloseOne
<1>2. nest' \in Seq(Frame) /\ Len(nest') = Here
      /\ \A j \in 1 .. Here :
            /\ nest'[j].kind = nest[j].kind /\ nest'[j].part = nest[j].part
            /\ nest'[j].disc = nest[j].disc /\ nest'[j].val = nest[j].val
            /\ nest'[j].exc = nest[j].exc
  BY OneCloses
<1>3. Nest' = Nest
  <2>1. \A j \in 1 .. Here : Seen(nest'[j]) = Seen(nest[j])  BY <1>2 DEF Seen, Held
  <2>2. /\ Nest \in Seq(View) /\ Len(Nest) = Here
        /\ \A j \in 1 .. Here : Nest[j] = Seen(nest[j])
    BY NestFacts
  <2>3. /\ Nest' \in Seq(View) /\ Len(Nest') = Here
        /\ \A j \in 1 .. Here : Nest'[j] = Seen(nest'[j])
    BY <1>2, NestSeen, SeenSeq
  <2>4. \A j \in 1 .. Here : Nest'[j] = Nest[j]  BY <2>1, <2>2, <2>3
  <2> QED  BY <2>2, <2>3, <2>4, SeqEqual
<1>4. Calm
  <2>1. outcome = Normal  BY <1>1, ClosingFacts
  <2> QED  BY <1>1, <2>1, FlightIs DEF Calm
<1>5. CASE going' = Throwing
  <2>1. Flight' = Throw  BY <1>5, FlightIs
  <2>2. Len(Nest) = Here /\ Here \in Nat /\ Nest \in Seq(View)  BY NestFacts
  <2>3. SubSeq(Nest, 1, Here) = Nest  BY <2>2, SubSeqFull
  <2>4. Leave(Nest, Throw)
    BY <1>1, <1>3, <2>1, <2>2, <2>3 DEF Leave, Flies
  <2>5. Language!Next  BY <1>4, <2>4, CompleteUnfolds
  <2> QED  BY <2>5
<1>6. CASE going' = [going EXCEPT !.left = @ \ {i}]
  <2>1. going'.do = "close"
    <3>1. going = [do |-> "close", c |-> going.c, left |-> going.left]
      BY <1>1, ClosingFacts DEF Closing
    <3> QED  BY <1>6, <3>1
  <2>2. Same  BY <1>1, <1>4, <2>1, FlightIs DEF Same, Calm
  <2> QED  BY <1>3, <2>2, StutterUnfolds
<1> QED  BY <1>1, <1>5, <1>6

\* A jump completes when it departs: to a finally block, or to its target.
LEMMA DepartImplements ==
  ASSUME IInv, Depart
  PROVE  Language!Next
<1> PICK c : c = going.c  OBVIOUS
<1>1. /\ outcome = Normal /\ c \in Abrupt /\ Targeted(c) /\ going.do = "close"
      /\ IF Crossed(c) # {} THEN Route(c) ELSE Direct(c)
  BY ClosingFacts DEF Depart
<1>2. /\ Here \in 0 .. Here /\ Here \in Nat /\ c.to \in 0 .. Here
      /\ Len(Nest) = Here /\ SubSeq(Nest, 1, Here) = Nest
  <2>1. Len(Nest) = Here /\ Here \in Nat /\ Nest \in Seq(View)  BY NestFacts
  <2>2. SubSeq(Nest, 1, Here) = Nest  BY <2>1, SubSeqFull
  <2>3. c.to \in 0 .. Here  BY <1>1, TargetedTo
  <2> QED  BY <2>1, <2>2, <2>3
<1>3. Leave(SubSeq(Nest, 1, Here), c)
  <2>1. CASE Crossed(c) # {}
    <3> PICK g : g = Max(Finallys(Here))  OBVIOUS
    <3>1. /\ g \in 1 .. Here /\ HasFinally(nest[g].kind) /\ nest[g].part # "finally"
          /\ \A f \in Finallys(Here) : f <= g
      BY <2>1, InnermostFinally DEF Crossed
    <3>2. c.to < g
      <4>1. PICK f \in Finallys(Here) : f > c.to  BY <2>1 DEF Crossed
      <4>2. f \in 1 .. Here  BY DEF Finallys
      <4> QED  BY <1>2, <3>1, <4>1, <4>2
    <3> PICK pops : pops = TryDepth(Here) - TryDepth(g - 1)  OBVIOUS
    <3> PICK scopes : scopes = WithDepth(Here) - WithDepth(g - 1)  OBVIOUS
    <3>3. EnterFinally(g, pops, scopes, c)  BY <1>1, <2>1 DEF Route
    <3>4. \A i \in g + 1 .. Here : ~(HasFinally(nest[i].kind) /\ nest[i].part # "finally")
      <4> TAKE i \in g + 1 .. Here
      <4>1. i \in 1 .. Here /\ ~(i <= g)  BY <1>2, <3>1
      <4>2. i \notin Finallys(Here)  BY <3>1, <4>1
      <4> QED  BY <4>1, <4>2 DEF Finallys
    <3> QED  BY <1>1, <1>2, <3>1, <3>2, <3>3, <3>4, LeaveToFinally
  <2>2. CASE Crossed(c) = {}
    <3>1. Arrive(c)  BY <1>1, <2>2 DEF Direct
    <3>2. \A i \in c.to + 1 .. Here : ~(HasFinally(nest[i].kind) /\ nest[i].part # "finally")
      BY <1>2, <2>2 DEF Crossed, Finallys
    <3> QED  BY <1>1, <1>2, <3>1, <3>2, LeaveToTarget
  <2> QED  BY <2>1, <2>2
<1>4. Leave(Nest, c)  BY <1>2, <1>3
<1>5. Calm  BY <1>1, FlightIs DEF Calm
<1>6. \/ \E v \in Value : c = Return(v)
      \/ \E how \in {"break", "continue"} : \E k \in 1 .. Len(Nest) :
            Takes(Nest[k].kind, how) /\ c = Jump(how, k)
  <2>1. \A k \in 1 .. Here : Nest[k].kind = nest[k].kind  BY NestFacts
  <2> QED  BY <1>1, <1>2, <2>1 DEF Targeted
<1> QED  BY <1>4, <1>5, <1>6, CompleteUnfolds

\* The end of a finally block ends it and sends on what was held.
LEMMA DispatchImplements ==
  ASSUME IInv, Dispatch
  PROVE  Language!Next
<1>1. going = Run /\ outcome = Normal /\ nest # <<>> /\ Top.part = "finally"
  BY DEF Dispatch, Runs
<1>2. Here > 0  BY <1>1, Sizes, EmptySeq DEF Here
<1>3. Calm  BY <1>1, FlightIs DEF Calm
<1>4. /\ Nest # <<>> /\ Here \in Nat \ {0} /\ Top \in Frame /\ Here - 1 \in 0 .. Here
      /\ Last.pending = Held(Top) /\ Last.part = "finally"
      /\ Before = SubSeq(Nest, 1, Here - 1)
      /\ Top.exc => Held(Top) = Throw
      /\ Top.disc.how # "normal" => ~Top.exc
  BY <1>1, <1>2, LastFacts
<1> PICK c : c = [how |-> Top.disc.how, to |-> Top.disc.to,
                  val |-> IF Top.disc.how = "return" THEN Top.val ELSE Undefined]
  OBVIOUS
<1> PICK g : g = Innermost(ReRaise(Here, c))  OBVIOUS
<1>5. CASE c.how = "normal"
  <2>1. /\ nest' = Outer(Here) /\ going' = (IF Top.exc THEN Throwing ELSE Run)
        /\ outcome' = outcome /\ Top.disc.how = "normal"
    BY <1>5 DEF Dispatch
  <2>2. CASE ~Top.exc
    <3>1. Same  BY <1>1, <1>3, <2>1, <2>2, FlightIs DEF Same, Calm
    <3> QED  BY <1>1, <1>2, <1>3, <2>1, <2>2, <3>1, Ends
  <2>3. CASE Top.exc
    <3>1. Nest' = Before  BY <1>4, <2>1, NestCut DEF Outer
    <3>2. Flight' = Throw  BY <2>1, <2>3, FlightIs
    <3>3. Leave(Before, Throw)
      <4>1. /\ Nest \in Seq(View) /\ Len(Nest) = Here  BY NestFacts
      <4>2. Before \in Seq(View) /\ Len(Before) = Here - 1  BY <1>4, <4>1, Prefix
      <4>3. SubSeq(Before, 1, Here - 1) = Before  BY <4>2, SubSeqFull
      <4> QED  BY <1>4, <2>1, <3>1, <3>2, <4>2, <4>3 DEF Leave, Flies
    <3>4. Last.pending = Throw /\ Throw # Normal  BY <1>4, <2>3 DEF Throw, Normal
    <3> PICK t : t = Throw  OBVIOUS
    <3> QED  BY <1>3, <1>4, <3>3, <3>4, EndUnfolds
  <2> QED  BY <2>2, <2>3
<1>6. CASE c.how # "normal"
  <2>1. Targeted(c) /\ c.to < Here  BY <1>2, <1>6, PendingTargeted
  <2>2. c.to \in 0 .. Here - 1  BY <1>4, <2>1, TargetedTo
  <2>3. Held(Top) = c /\ c # Normal
    <3>1. Fits(Top, Outer(Here))  BY <1>2, TopFacts
    <3> QED  BY <1>4, <1>6, <3>1 DEF Held, Fits, Normal, Frame
  <2>4. /\ ReRaise(Here, c) \cup {0} \in SUBSET (0 .. Here)
        /\ g \in ReRaise(Here, c) \cup {0}
        /\ \A f \in ReRaise(Here, c) : f <= g
    <3>1. ReRaise(Here, c) \cup {0} \in SUBSET (0 .. Here)
      BY <1>4 DEF ReRaise, Finallys
    <3> QED  BY <1>4, <3>1, MaxOf DEF Innermost
  <2>5. \A i \in 1 .. Here - 1 :
           i > c.to /\ HasFinally(nest[i].kind) /\ nest[i].part # "finally" =>
              i \in ReRaise(Here, c)
    BY DEF ReRaise, Finallys
  <2>6. Leave(SubSeq(Nest, 1, Here - 1), c)
    <3>1. CASE g # 0
      <4>1. /\ g \in 1 .. Here - 1 /\ HasFinally(nest[g].kind)
            /\ nest[g].part # "finally" /\ c.to < g
        BY <1>4, <2>2, <2>4, <3>1 DEF ReRaise, Finallys
      <4> PICK pops : pops = TryDepth(Here - 1) - TryDepth(g - 1)  OBVIOUS
      <4> PICK scopes : scopes = WithDepth(Here - 1) - WithDepth(g - 1)  OBVIOUS
      <4>2. EnterFinally(g, pops, scopes, c)  BY <1>6, <3>1 DEF Dispatch
      <4>3. \A i \in g + 1 .. Here - 1 :
               ~(HasFinally(nest[i].kind) /\ nest[i].part # "finally")
        <5> TAKE i \in g + 1 .. Here - 1
        <5>1. i \in 1 .. Here - 1 /\ i > g /\ i > c.to  BY <1>4, <2>2, <4>1
        <5>2. i \notin ReRaise(Here, c)  BY <1>4, <2>4, <4>1, <5>1
        <5> QED  BY <2>5, <5>1, <5>2
      <4> DEFINE m == Here - 1
      <4>4. m \in 0 .. Here /\ g \in 1 .. m
            /\ \A i \in g + 1 .. m : ~(HasFinally(nest[i].kind) /\ nest[i].part # "finally")
        BY <1>4, <4>1, <4>3
      <4> HIDE DEF m
      <4>5. Leave(SubSeq(Nest, 1, m), c)
        BY <2>1, <4>1, <4>2, <4>4, LeaveToFinally
      <4> QED  BY <4>5 DEF m
    <3>2. CASE g = 0
      <4>1. Arrive(c)  BY <1>6, <3>2 DEF Dispatch
      <4>2. \A i \in c.to + 1 .. Here - 1 :
               ~(HasFinally(nest[i].kind) /\ nest[i].part # "finally")
        <5> TAKE i \in c.to + 1 .. Here - 1
        <5>1. i \in 1 .. Here - 1 /\ i > c.to /\ ~(i <= 0)  BY <1>4, <2>2
        <5>2. i \notin ReRaise(Here, c)  BY <2>4, <3>2, <5>1
        <5> QED  BY <2>5, <5>1, <5>2
      <4> DEFINE m == Here - 1
      <4>3. m \in 0 .. Here /\ c.to <= m
            /\ \A i \in c.to + 1 .. m :
                  ~(HasFinally(nest[i].kind) /\ nest[i].part # "finally")
        BY <1>4, <2>2, <4>2
      <4> HIDE DEF m
      <4>4. Leave(SubSeq(Nest, 1, m), c)  BY <2>1, <4>1, <4>3, LeaveToTarget
      <4> QED  BY <4>4 DEF m
    <3> QED  BY <3>1, <3>2
  <2>7. Leave(Before, c) /\ c = Last.pending  BY <1>4, <2>3, <2>6
  <2> QED  BY <1>3, <1>4, <2>3, <2>7, EndUnfolds
<1> QED  BY <1>5, <1>6

\* The break of a for-of loop lands when its iterator is closed, or fails.
LEMMA CloseBlockImplements ==
  ASSUME IInv, CloseBlock
  PROVE  Language!Next
<1> PICK c : c = Jump("break", Here)  OBVIOUS
<1>1. /\ going.do = "closeBlock" /\ nest' = Outer(Here) /\ going' \in {Run, Throwing}
      /\ outcome' = outcome
  BY DEF CloseBlock
<1>2. Here > 0 /\ Top.kind = "forof" /\ going = AtClose(c)  BY <1>1, Between
<1>3. Flight = c /\ c.how = "break" /\ c.to = Here /\ c # Normal
  BY <1>1, <1>2, FlightIs DEF AtClose, Jump, Normal
<1>4. /\ Here \in Nat \ {0} /\ Here - 1 \in 0 .. Here /\ Last.kind = "forof"
      /\ Before = SubSeq(Nest, 1, Here - 1)
  BY <1>2, LastFacts
<1>5. Nest' = Before  BY <1>1, <1>4, NestCut DEF Outer
<1>6. Len(Nest) = Here /\ Nest \in Seq(View)  BY NestFacts
<1>7. CASE going' = Throwing
  <2>1. Flight' = Throw  BY <1>7, FlightIs
  <2> QED  BY <1>1, <1>3, <1>4, <1>5, <1>6, <2>1, CloseFailsUnfolds
<1>8. CASE going' = Run
  <2>1. Flight' = Normal  BY <1>8, FlightIs
  <2>2. Here \in 1 .. Len(Nest) /\ Nest[Here] \in View
    <3>1. Here \in 1 .. Len(Nest)  BY <1>4, <1>6
    <3> QED  BY <1>6, <3>1, ElementOfSeq
  <2>3. Landed(SubSeq(Nest, 1, Here), c) = SubSeq(Nest, 1, Here - 1)
    <3> PICK n : n = Nest  OBVIOUS
    <3> PICK h : h = Here  OBVIOUS
    <3>1. n \in Seq(View) /\ h \in 1 .. Len(n) /\ n[h] \in View /\ c.how = "break" /\ c.to = h
      BY <1>3, <1>6, <2>2
    <3>2. Landed(SubSeq(n, 1, h), c) = SubSeq(n, 1, h - 1)  BY <3>1, LandedIn
    <3> QED  BY <3>2
  <2>4. Stops(Nest[Here], Here, c)  BY <1>3 DEF Stops
  <2>5. Lands(Nest, c, Here)  BY <1>1, <1>4, <1>5, <2>1, <2>3, <2>4 DEF Lands
  <2>6. Leave(Nest, c)
    <3>1. Here \in 0 .. Len(Nest) /\ \A i \in Here + 1 .. Len(Nest) : ~Stops(Nest[i], i, c)
      BY <1>4, <1>6
    <3> QED  BY <2>5, <3>1 DEF Leave
  <2> QED  BY <1>3, <2>6, UnwindUnfolds
<1> QED  BY <1>1, <1>7, <1>8

\* The exception goes on when the iterator is closed.
LEMMA ThrowCloseImplements ==
  ASSUME IInv, ThrowClose
  PROVE  Language!Next
<1>1. /\ going.do = "throwClose" /\ nest' = Outer(Here) /\ going' = Throwing
      /\ outcome' = outcome
  BY DEF ThrowClose
<1>2. Here > 0 /\ Top.kind = "forof"  BY <1>1, Between
<1> PICK c : c = Throw  OBVIOUS
<1>3. Flight = c /\ Flight' = c /\ c # Normal
  BY <1>1, FlightIs DEF Throw, Normal
<1>4. /\ Here \in Nat \ {0} /\ Here - 1 \in 0 .. Here /\ Last.kind = "forof"
      /\ Before = SubSeq(Nest, 1, Here - 1)
  BY <1>2, LastFacts
<1>5. Nest' = SubSeq(Nest, 1, Here - 1)  BY <1>1, <1>4, NestCut DEF Outer
<1>6. Len(Nest) = Here  BY NestFacts
<1>7. \A i \in (Here - 1) + 1 .. Len(Nest) : ~Stops(Nest[i], i, c)
  <2>1. ~Stops(Nest[Here], Here, c)  BY <1>4, <1>6 DEF Stops, Last, Throw, Tries
  <2> QED  BY <1>4, <1>6, <2>1
<1>8. Leave(Nest, c)
  <2>1. Here - 1 \in 0 .. Len(Nest)  BY <1>4, <1>6
  <2> QED  BY <1>1, <1>3, <1>5, <1>7, <2>1 DEF Leave, Flies
<1> QED  BY <1>3, <1>8, UnwindUnfolds

\* ts_throw unwinds: nothing that would stop the exception is passed, since what
\* stops it is armed and the innermost armed construct has the top handler.
LEMMA CatchImplements ==
  ASSUME IInv, Catch
  PROVE  Language!Next
<1> PICK h : h = handlers[Len(handlers)]  OBVIOUS
<1> PICK k : k = h.at  OBVIOUS
<1> PICK c : c = Throw  OBVIOUS
<1>1. going.do = "throw"  BY DEF Catch
<1>2. outcome = Normal /\ Level = Here
  BY <1>1, Running DEF IInv, GoingInv, Run, Doing, AtClose, Closing
<1>3. Flight = c /\ c # Normal /\ c.how = "throw"  BY <1>1, FlightIs DEF Throw, Normal
<1>4. /\ Nest \in Seq(View) /\ Len(Nest) = Here /\ Here \in Nat /\ nest \in Seq(Frame)
      /\ \A i \in 1 .. Here : /\ Nest[i] \in View /\ nest[i] \in Frame
                              /\ Nest[i] = Seen(nest[i])
                              /\ Nest[i].kind = nest[i].kind
                              /\ Nest[i].part = nest[i].part
                              /\ Nest[i].pending = Held(nest[i])
  BY NestFacts, Sizes
<1>5. /\ k \in 0 .. Here /\ (k # 0 => Armed(nest[k]))
      /\ \A i \in k + 1 .. Here : ~Armed(nest[i])
  <2>1. Balanced(nest, handlers, Here)  BY <1>2, Pushed
  <2> HIDE DEF Here
  <2>2. \/ k = 0 /\ Tried(nest, Here) = 0
        \/ k \in 1 .. Here /\ Armed(nest[k]) /\ \A i \in k + 1 .. Here : ~Armed(nest[i])
    BY <1>4, <2>1, TopHandler
  <2>3. CASE k = 0 /\ Tried(nest, Here) = 0
    <3>1. \A i \in 1 .. Here : ~Armed(nest[i])
      <4> SUFFICES ASSUME NEW i \in 1 .. Here, Armed(nest[i]) PROVE FALSE
        OBVIOUS
      <4>1. i - 1 \in Nat /\ i \in Nat /\ i <= Here  BY <1>4
      <4>2. Tried(nest, i) <= Tried(nest, Here)  BY <1>4, <4>1, TriedGrows
      <4>3. Tried(nest, i) = Tried(nest, i - 1) + 1 /\ Tried(nest, i - 1) \in Nat
        <5> DEFINE j == i - 1
        <5>1. j \in Nat /\ j + 1 = i  BY <4>1
        <5> HIDE DEF j
        <5>2. Tried(nest, j + 1) = Tried(nest, j) + 1 /\ Tried(nest, j) \in Nat
          BY <5>1, DepthStep
        <5> QED  BY <5>1, <5>2 DEF j
      <4> QED  BY <2>3, <4>2, <4>3
    <3> QED  BY <1>4, <2>3, <3>1
  <2> QED  BY <1>4, <2>2, <2>3
<1>6. \A i \in k + 1 .. Here : ~Stops(Nest[i], i, c)
  <2> TAKE i \in k + 1 .. Here
  <2>1. i \in 1 .. Here  BY <1>4, <1>5
  <2> QED  BY <1>3, <1>4, <1>5, <2>1 DEF Stops, Armed
<1>7. CASE k = 0
  <2>1. nest' = <<>> /\ going' = Run /\ outcome' = c  BY <1>7 DEF Catch
  <2>2. Nest' = <<>>  BY <2>1 DEF Nest, Here
  <2>3. Flight' = Normal  BY <2>1, FlightIs
  <2>4. Exits(Nest, c, k)  BY <1>3, <1>7, <2>1, <2>2, <2>3 DEF Exits
  <2>5. Leave(Nest, c)  BY <1>4, <1>5, <1>6, <2>4 DEF Leave
  <2> QED  BY <1>3, <2>5, UnwindUnfolds
<1>8. CASE k # 0 /\ nest[k].kind = "forof"
  <2>1. nest' = SubSeq(nest, 1, k) /\ going' = Doing("throwClose") /\ outcome' = outcome
    BY <1>8 DEF Catch
  <2>2. Nest' = SubSeq(Nest, 1, k)  BY <1>5, <2>1, NestCut
  <2>3. Flight' = c  BY <2>1, FlightIs
  <2>4. Flies(Nest, c, k)  BY <2>1, <2>2, <2>3 DEF Flies
  <2>5. Leave(Nest, c)  BY <1>4, <1>5, <1>6, <2>4 DEF Leave
  <2> QED  BY <1>3, <2>5, UnwindUnfolds
<1>9. CASE k # 0 /\ nest[k].kind # "forof"
  <2> PICK t : t = nest[k]  OBVIOUS
  <2> PICK f : f = Holding(t)  OBVIOUS
  <2>1. /\ k \in 1 .. Here /\ k \in 1 .. Len(nest) /\ k \in 1 .. Here + 1 /\ t \in Frame
        /\ t.kind \in Tries /\ t.part = "body"
    BY <1>4, <1>5, <1>9 DEF Armed, Here
  <2>2. /\ f \in Frame /\ f.kind = t.kind /\ f.disc = t.disc /\ f.val = t.val
        /\ f.part = (IF t.kind = "tryFinally" THEN "finally" ELSE "catch")
        /\ f.exc = (IF t.kind = "tryFinally" THEN TRUE ELSE t.exc)
    BY <2>1, HoldingFrame
  <2>3. nest' = Append(SubSeq(nest, 1, k - 1), f) /\ going' = Run /\ outcome' = outcome
    BY <1>4, <1>9, <2>1, <2>2, CatchInTry DEF Outer
  <2> PICK e : e = Seen(f)  BY ONLY TRUE
  <2>4. Nest' = Append(SubSeq(Nest, 1, k - 1), e)  BY <2>1, <2>2, <2>3, NestPut
  <2>5. e = [kind |-> t.kind, part |-> f.part, pending |-> Held(f)] /\ e \in View
    BY <2>2, SeenFrame DEF Seen
  <2> PICK s : s = Nest[k]  OBVIOUS
  <2>6. s \in View /\ s.kind = t.kind /\ s.pending = Held(t)  BY <1>4, <2>1
  <2>7. Landed(SubSeq(Nest, 1, k), c) = Append(SubSeq(Nest, 1, k - 1), e)
    <3> PICK n : n = Nest  OBVIOUS
    <3>1. n \in Seq(View) /\ k \in 1 .. Len(n) /\ s = n[k]  BY <1>4, <2>1
    <3>2. CASE t.kind = "tryFinally"
      <4>1. f.part = "finally" /\ Held(f) = c  BY <2>2, <3>2 DEF Held
      <4> PICK x : x = Entered(s, c)  OBVIOUS
      <4>2. x \in [kind : {t.kind}, part : {"finally"}, pending : {c}]
        BY <2>6 DEF Entered, View
      <4>3. x = [kind |-> t.kind, part |-> "finally", pending |-> c]  BY <4>2
      <4>4. e = Entered(n[k], c) /\ e \in View  BY <2>5, <3>1, <4>1, <4>3
      <4>5. ~(c.how \in {"break", "continue"} /\ c.to = k)
            /\ ~(c.how = "throw" /\ n[k].kind # "tryFinally")
        BY <1>3, <2>6, <3>1, <3>2
      <4>6. Landed(SubSeq(n, 1, k), c) = Append(SubSeq(n, 1, k - 1), e)
        BY ONLY <3>1, <4>4, <4>5, LandedInFinally
      <4> QED  BY <4>6
    <3>3. CASE t.kind # "tryFinally"
      <4>1. f.part = "catch" /\ Held(f) = Held(t)  BY <2>2, <3>3 DEF Held
      <4> PICK x : x = Caught(s)  OBVIOUS
      <4>2. x \in [kind : {t.kind}, part : {"catch"}, pending : {Held(t)}]
        BY <2>6 DEF Caught, View
      <4>3. x = [kind |-> t.kind, part |-> "catch", pending |-> Held(t)]  BY <4>2
      <4>4. e = Caught(n[k]) /\ e \in View  BY <2>5, <3>1, <4>1, <4>3
      <4>5. c.how = "throw" /\ n[k].kind # "tryFinally"
        BY <1>3, <2>6, <3>1, <3>3
      <4>6. Landed(SubSeq(n, 1, k), c) = Append(SubSeq(n, 1, k - 1), e)
        BY ONLY <3>1, <4>4, <4>5, LandedInCatch
      <4> QED  BY <4>6
    <3> QED  BY <3>2, <3>3
  <2>8. Flight' = Normal  BY <2>3, FlightIs
  <2>9. Stops(Nest[k], k, c)  BY <1>3, <1>4, <2>1 DEF Stops
  <2>10. Lands(Nest, c, k)
    <3>1. k > 0  BY ONLY <2>1
    <3>2. Nest' = Landed(SubSeq(Nest, 1, k), c)  BY ONLY <2>4, <2>7
    <3>3. outcome' = outcome  BY ONLY <2>3
    <3> QED  BY ONLY <2>8, <2>9, <3>1, <3>2, <3>3, Zenon DEF Lands
  <2>11. Leave(Nest, c)  BY <1>4, <1>5, <1>6, <2>10 DEF Leave
  <2> QED  BY <1>3, <2>11, UnwindUnfolds
<1> QED  BY <1>5, <1>7, <1>8, <1>9

------------------------------------------------------------------------------
(* The theorem.                                                              *)

\* A function starts as the language has it.
LEMMA InitImplements == Init => Language!Init
<1> SUFFICES ASSUME Init PROVE Language!Init
  OBVIOUS
<1>1. nest = <<>> /\ going = Run /\ outcome = Normal  BY DEF Init
<1>2. Nest = <<>>  BY <1>1 DEF Nest, Here
<1>3. Calm  BY <1>1, FlightIs DEF Calm
<1> QED  BY <1>2, <1>3, FirstUnfolds

\* Every step is one of the language, or not seen.
LEMMA StepImplements == IInv /\ [Next]_vars => [Language!Next]_(Language!vars)
<1> SUFFICES ASSUME IInv, [Next]_vars PROVE [Language!Next]_(Language!vars)
  OBVIOUS
<1>1. CASE UNCHANGED vars
  <2>1. Nest' = Nest  BY <1>1, NestSeen DEF vars
  <2>2. Same  BY <1>1 DEF vars, Same, Flight
  <2> QED  BY <2>1, <2>2, StutterUnfolds
<1>2. CASE Next
  <2>1. CASE \E kind \in Kinds : Open(kind)  BY <2>1, OpenImplements
  <2>2. CASE EndBlock  BY <2>2, EndBlockImplements
  <2>3. CASE EndTryOrCatch  BY <2>3, EndTryOrCatchImplements
  <2>4. CASE EndRound \/ Another \/ \E c \in Abrupt : Complete(c)
    BY <2>4, Unseen, StutterUnfolds
  <2>5. CASE Dispatch  BY <2>5, DispatchImplements
  <2>6. CASE Exhausted  BY <2>6, ExhaustedImplements
  <2>7. CASE NextThrows  BY <2>7, NextThrowsImplements
  <2>8. CASE CloseOne  BY <2>8, CloseOneImplements
  <2>9. CASE Depart  BY <2>9, DepartImplements
  <2>10. CASE CloseBlock  BY <2>10, CloseBlockImplements
  <2>11. CASE StatementThrows  BY <2>11, StatementThrowsImplements
  <2>12. CASE Catch  BY <2>12, CatchImplements
  <2>13. CASE ThrowClose  BY <2>13, ThrowCloseImplements
  <2> QED
    BY <1>2, <2>1, <2>2, <2>3, <2>4, <2>5, <2>6, <2>7, <2>8, <2>9, <2>10, <2>11, <2>12, <2>13
    DEF Next
<1> QED  BY <1>1, <1>2

\* The lowered code (routeAbruptThroughFinally, emitFinallyDispatch, the direct
\* branches, the landing of ts_throw) takes each completion where the language
\* has it go: through the finally blocks on its way, with its value, to its
\* target, its catch clause or the caller.
THEOREM LoweringImplements == ~AllJumps => (Spec => ImplementsLanguage)
<1> SUFFICES ASSUME ~AllJumps PROVE Spec => ImplementsLanguage
  OBVIOUS
<1>1. IInv /\ [Next]_vars => [Language!Next]_(Language!vars)  BY StepImplements
<1> QED  BY Invariance, InitImplements, <1>1, PTL DEF Spec, ImplementsLanguage, Language!Spec
=============================================================================

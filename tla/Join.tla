-------------------------------- MODULE Join --------------------------------
(***************************************************************************)
(* What a promise combinator promises, without counters or flags: members  *)
(* are gathered while the iteration is open, each is answered once, and    *)
(* the outcome is decided once and for good.  It is "joined" in the very   *)
(* step in which the gathering is over and the last member has answered,   *)
(* and "short" as soon as one member (or an abrupt completion) decides it  *)
(* alone: a rejection for all, a fulfilment for any, anything for race.    *)
(***************************************************************************)
CONSTANT Elem
VARIABLES open, members, answered, outcome

jvars == <<open, members, answered, outcome>>

Undecided(o) == IF outcome = "pending" THEN o ELSE outcome

Init ==
  /\ open = TRUE
  /\ members = {}
  /\ answered = {}
  /\ outcome = "pending"

Gather(S) ==
  /\ open
  /\ members' = members \cup S
  /\ UNCHANGED <<open, answered, outcome>>

Answer(e) ==
  /\ e \in members \ answered
  /\ answered' = answered \cup {e}
  /\ outcome' = IF ~open /\ answered' = members THEN Undecided("joined") ELSE outcome
  /\ UNCHANGED <<open, members>>

Decide ==
  /\ outcome' = Undecided("short")
  /\ UNCHANGED <<open, members, answered>>

\* S are members that come with the end of the gathering.
Close(S) ==
  /\ open
  /\ open' = FALSE
  /\ members' = members \cup S
  /\ outcome' = IF answered = members' THEN Undecided("joined") ELSE outcome
  /\ UNCHANGED answered

\* The gathering fails: nothing can be joined any more.
Abort ==
  /\ open
  /\ open' = FALSE
  /\ outcome' = Undecided("short")
  /\ UNCHANGED <<members, answered>>

Next ==
  \/ \E e \in Elem : Answer(e)
  \/ \E S \in SUBSET Elem : Gather(S) \/ Close(S)
  \/ Decide
  \/ Abort

Spec == Init /\ [][Next]_jvars
=============================================================================

--------------------------- MODULE HashTableProofs ---------------------------
(* Proofs about module HashTable, for any set of keys, any hash function and *)
(* any initial capacity from eight on: its counters are exact, an empty slot *)
(* always remains, every key is found where it is, and what the table shows  *)
(* is the list of its keys in the order of insertion.                        *)
(* When a minor collection moves keys, the first two hold still, and every   *)
(* key that has not moved is found.  The forEach of Map visits live entries  *)
(* when its callback neither rehashes nor deletes what is still to visit.    *)
(*                                                                           *)
(* What the argument rests on: the probe sequence of a key covers all slots  *)
(* (ProbeCovers), and the slots it passes on the way to the key are never    *)
(* empty (Reached).  rehash and the list of the keys are recursive           *)
(* functions; what they yield is proved by the least number principle,       *)
(* applied to the set of numbers for which the claim is false (Inductive,    *)
(* Recursion).                                                               *)
EXTENDS MapForEach, FiniteSetTheorems, SequenceTheorems, TLAPS

------------------------------------------------------------------------------
(* Numbers.                                                                  *)

\* A set of numbers that is not empty has a least one.
LEMMA LeastNumber ==
  ASSUME NEW T, T \subseteq Nat, T # {}
  PROVE  \E m \in T : \A n \in T : m <= n
<1>1. \E x \in T : \A y \in T : ~(<<y, x>> \in OpToRel(<, Nat))
  BY NatLessThanWellFounded, WFMin, Zenon
<1>2. ASSUME NEW x \in T, NEW y \in T, ~(<<y, x>> \in OpToRel(<, Nat))
      PROVE  x <= y
  <2>1. x \in Nat /\ y \in Nat  OBVIOUS
  <2> QED  BY <1>2, <2>1 DEF OpToRel
<1> QED  BY <1>1, <1>2

\* A set of numbers that has 0, and with a number the next one up to n, has
\* all of them: induction for a set.
LEMMA Inductive ==
  ASSUME NEW n \in Nat, NEW T, 0 \in T,
         \A i \in 1 .. n : i - 1 \in T => i \in T
  PROVE  0 .. n \subseteq T
<1> SUFFICES ASSUME ~(0 .. n \subseteq T) PROVE FALSE  OBVIOUS
<1> DEFINE Bad == {i \in 0 .. n : i \notin T}
<1>1. Bad \subseteq Nat /\ Bad # {}  OBVIOUS
<1>2. PICK m \in Bad : \A i \in Bad : m <= i
  <2> HIDE DEF Bad
  <2> QED  BY <1>1, LeastNumber
<1>3. m \in 0 .. n /\ m \notin T  OBVIOUS
<1>4. m # 0  BY <1>3
<1>5. m - 1 \in 0 .. n /\ m - 1 \notin Bad  BY <1>2, <1>3, <1>4
<1> QED  BY <1>3, <1>4, <1>5

\* f is defined by recursion over 0 .. n: it starts with s, and F leads on.
Iterates(f, n, s, F) == f[0] = s /\ \A i \in 1 .. n : f[i] = F[i][f[i - 1]]

\* Such a function exists.
LEMMA Recursion ==
  ASSUME NEW n \in Nat, NEW S, NEW s \in S, NEW F \in [1 .. n -> [S -> S]]
  PROVE  \E f \in [0 .. n -> S] : Iterates(f, n, s, F)
<1> DEFINE Upto(m, f) == f[0] = s /\ \A i \in 1 .. m : f[i] = F[i][f[i - 1]]
           T == {m \in 0 .. n : \E f \in [0 .. m -> S] : Upto(m, f)}
<1>1. 0 \in T
  <2> DEFINE f == [i \in 0 .. 0 |-> s]
  <2>1. f \in [0 .. 0 -> S] /\ f[0] = s  OBVIOUS
  <2> HIDE DEF f
  <2>2. Upto(0, f)  BY <2>1
  <2> HIDE DEF Upto
  <2>3. \E g \in [0 .. 0 -> S] : Upto(0, g)  BY <2>1, <2>2
  <2> QED  BY <2>3
<1>2. ASSUME NEW m \in 1 .. n, m - 1 \in T PROVE m \in T
  <2>1. PICK f \in [0 .. m - 1 -> S] : Upto(m - 1, f)  BY <1>2
  <2> DEFINE g == [i \in 0 .. m |-> IF i = m THEN F[m][f[m - 1]] ELSE f[i]]
  <2>2. F[m] \in [S -> S] /\ f[m - 1] \in S /\ F[m][f[m - 1]] \in S  OBVIOUS
  <2>3. g \in [0 .. m -> S]  BY <2>2
  <2>4. g[0] = s  BY <2>1
  <2>5. ASSUME NEW i \in 1 .. m PROVE g[i] = F[i][g[i - 1]]
    <3>1. g[i - 1] = f[i - 1]  OBVIOUS
    <3>2. i # m => g[i] = f[i] /\ f[i] = F[i][f[i - 1]]  BY <2>1
    <3>3. i = m => g[i] = F[m][f[m - 1]]  OBVIOUS
    <3> QED  BY <3>1, <3>2, <3>3
  <2> HIDE DEF g
  <2>6. Upto(m, g)  BY <2>4, <2>5
  <2> HIDE DEF Upto
  <2>7. \E h \in [0 .. m -> S] : Upto(m, h)  BY <2>3, <2>6
  <2> QED  BY <2>7
<1>3. 0 .. n \subseteq T
  <2> HIDE DEF T
  <2>1. \A i \in 1 .. n : i - 1 \in T => i \in T  BY <1>2
  <2> QED  BY <1>1, <2>1, Inductive
<1>4. n \in T
  <2> HIDE DEF T
  <2> QED  BY <1>3
<1>5. PICK f \in [0 .. n -> S] : Upto(n, f)  BY <1>4
<1>6. Iterates(f, n, s, F)  BY <1>5 DEF Iterates
<1> QED  BY <1>6

\* c * d for a positive d.
LEMMA Multiple ==
  ASSUME NEW c \in Nat, c > 0, NEW d \in Int, d >= 1
  PROVE  c * d >= c
OBVIOUS

\* Quotient and remainder are unique.
LEMMA Division ==
  ASSUME NEW c \in Nat, c > 0, NEW q \in Int, NEW r \in 0 .. c - 1, NEW x \in Int,
         x = c * q + r
  PROVE  x % c = r /\ x \div c = q
<1>1. /\ x = c * (x \div c) + (x % c)
      /\ x % c \in 0 .. c - 1 /\ x \div c \in Int
  OBVIOUS
<1>2. c * (x \div c - q) = r - (x % c)  BY <1>1
<1>3. ~(x \div c - q >= 1)
  <2>1. SUFFICES ASSUME x \div c - q >= 1 PROVE FALSE  OBVIOUS
  <2>2. c * (x \div c - q) >= c  BY <2>1, <1>1, Multiple
  <2> QED  BY <2>2, <1>1, <1>2
<1>4. ~(q - x \div c >= 1)
  <2>1. SUFFICES ASSUME q - x \div c >= 1 PROVE FALSE  OBVIOUS
  <2>2. c * (q - x \div c) >= c  BY <2>1, <1>1, Multiple
  <2>3. c * (q - x \div c) = (x % c) - r  BY <1>1
  <2> QED  BY <2>2, <2>3, <1>1
<1> QED  BY <1>1, <1>3, <1>4

------------------------------------------------------------------------------
(* Probing.                                                                  *)

\* A probe sequence starts somewhere and wraps around.
LEMMA ProbeWraps ==
  ASSUME NEW h \in Nat, NEW c \in Nat, c > 0
  PROVE  \E home \in 0 .. c - 1 :
            /\ \A j \in 0 .. c - 1 :
                  Probe(h, j, c) = IF home + j < c THEN home + j ELSE home + j - c
            /\ Probe(h, c, c) = home
<1> DEFINE H == h \div 128
           home == H % c
           q == H \div c
<1>1. H \in Nat  OBVIOUS
<1>2. H = c * q + home /\ home \in 0 .. c - 1 /\ q \in Int
  <2> HIDE DEF H
  <2> QED  BY <1>1
<1> HIDE DEF H, home, q
<1>3. ASSUME NEW j \in 0 .. c, home + j < c PROVE (H + j) % c = home + j
  <2>1. H + j = c * q + (home + j) /\ home + j \in 0 .. c - 1 /\ H + j \in Int
    BY <1>1, <1>2, <1>3
  <2> QED  BY <2>1, <1>2, Division
<1>4. ASSUME NEW j \in 0 .. c, home + j >= c PROVE (H + j) % c = home + j - c
  <2>1. /\ H + j = c * (q + 1) + (home + j - c)
        /\ home + j - c \in 0 .. c - 1 /\ H + j \in Int /\ q + 1 \in Int
    BY <1>1, <1>2, <1>4
  <2> DEFINE r == home + j - c
             x == H + j
             p == q + 1
  <2> HIDE DEF r, x, p
  <2>2. x = c * p + r /\ r \in 0 .. c - 1 /\ x \in Int /\ p \in Int  BY <2>1 DEF r, x, p
  <2>3. x % c = r  BY <2>2, Division
  <2> QED  BY <2>3 DEF r, x
<1>5. \A j : Probe(h, j, c) = (H + j) % c  BY DEF Probe, H
<1>6. ASSUME NEW j \in 0 .. c - 1
      PROVE  Probe(h, j, c) = IF home + j < c THEN home + j ELSE home + j - c
  <2>1. j \in 0 .. c /\ home + j \in Int  BY <1>2
  <2>2. CASE home + j < c  BY <2>1, <2>2, <1>3, <1>5
  <2>3. CASE home + j >= c  BY <2>1, <2>3, <1>4, <1>5
  <2> QED  BY <2>1, <2>2, <2>3
<1>7. Probe(h, c, c) = home  BY <1>2, <1>4, <1>5
<1> QED  BY <1>2, <1>6, <1>7

\* What is probed is a slot.
LEMMA ProbeType ==
  ASSUME NEW h \in Nat, NEW c \in Nat, c > 0, NEW j \in 0 .. c
  PROVE  Probe(h, j, c) \in 0 .. c - 1
<1>1. PICK home \in 0 .. c - 1 :
        /\ \A i \in 0 .. c - 1 :
              Probe(h, i, c) = IF home + i < c THEN home + i ELSE home + i - c
        /\ Probe(h, c, c) = home
  BY ProbeWraps
<1>2. CASE j \in 0 .. c - 1  BY <1>1, <1>2
<1>3. CASE j = c  BY <1>1, <1>3
<1> QED  BY <1>2, <1>3

\* Every slot is probed.
LEMMA ProbeCovers ==
  ASSUME NEW h \in Nat, NEW c \in Nat, c > 0, NEW i \in 0 .. c - 1
  PROVE  \E j \in 0 .. c - 1 : Probe(h, j, c) = i
<1>1. PICK home \in 0 .. c - 1 : \A j \in 0 .. c - 1 :
                  Probe(h, j, c) = IF home + j < c THEN home + j ELSE home + j - c
  BY ProbeWraps
<1>2. CASE i >= home
  <2> DEFINE j == i - home
  <2>1. j \in 0 .. c - 1 /\ home + j = i  BY <1>2
  <2> HIDE DEF j
  <2>2. Probe(h, j, c) = i  BY <2>1, <1>1
  <2> QED  BY <2>1, <2>2
<1>3. CASE i < home
  <2> DEFINE j == i - home + c
  <2>1. j \in 0 .. c - 1 /\ home + j = i + c  BY <1>3
  <2> HIDE DEF j
  <2>2. Probe(h, j, c) = i  BY <2>1, <1>1
  <2> QED  BY <2>1, <2>2
<1> QED  BY <1>2, <1>3

------------------------------------------------------------------------------
(* Tables.                                                                   *)

LiveIn(t, c)    == {i \in 0 .. c - 1 : t[i].ctrl \notin {EMPTY, DELETED}}
DeletedIn(t, c) == {i \in 0 .. c - 1 : t[i].ctrl = DELETED}

\* A slot has a key exactly when it is live.
Table(t, c) ==
    /\ t \in [0 .. c - 1 -> Slot]
    /\ \A i \in 0 .. c - 1 : t[i].key # None <=> i \in LiveIn(t, c)

\* The keys whose objects no collection has moved: they hash as they did when
\* they were inserted.
Kept == {k \in Key : hash[k] = Hash[k]}

\* The control byte of a live slot is that of its key.
Coded(t, c) == \A i \in LiveIn(t, c) :
    t[i].key \in Kept => t[i].ctrl = h2_from_hash(hash[t[i].key])

\* On the way to a key there is no empty slot.
Reached(t, c) == \A i \in LiveIn(t, c) : t[i].key \in Kept =>
    \E j \in 0 .. c - 1 :
        /\ Probe(hash[t[i].key], j, c) = i
        /\ \A m \in 0 .. j - 1 : t[Probe(hash[t[i].key], m, c)].ctrl # EMPTY

\* No number is there twice, and no key that has not moved.
Distinct(t, c) == \A i, j \in LiveIn(t, c) :
    (t[i].key = t[j].key /\ t[i].key \in Kept) \/ t[i].seq = t[j].seq => i = j

Sound(t, c) == Table(t, c) /\ Coded(t, c) /\ Reached(t, c) /\ Distinct(t, c)

\* The key with number n is k.
EntryIn(t, c, n, k) == \E i \in LiveIn(t, c) : t[i].seq = n /\ t[i].key = k

\* The byte of a key marks a live slot.
LEMMA Byte ==
  ASSUME NEW h \in Nat
  PROVE  h2_from_hash(h) \in 1 .. 126
BY DEF h2_from_hash, EMPTY, DELETED

\* A live slot has a key.
LEMMA LiveKey ==
  ASSUME NEW c, NEW t, Table(t, c), NEW i \in LiveIn(t, c)
  PROVE  /\ i \in 0 .. c - 1 /\ t[i] \in Slot
         /\ t[i].key \in Key /\ t[i].seq \in Nat
BY DEF Table, LiveIn, Slot

\* Least is the first number of a set that has one.
LEMMA LeastIn ==
  ASSUME NEW c \in Nat, NEW T \in SUBSET (0 .. c - 1), T # {}
  PROVE  /\ Least(c, T) \in T /\ Least(c, T) \in 0 .. c - 1
         /\ \A i \in 0 .. Least(c, T) - 1 : i \notin T
<1>1. PICK m \in T : \A n \in T : m <= n
  <2>1. T \subseteq Nat  OBVIOUS
  <2> QED  BY <2>1, LeastNumber
<1> DEFINE x == CHOOSE j \in T : \A i \in T : j <= i
<1>2. x \in T /\ \A i \in T : x <= i  BY ONLY <1>1
<1>3. Least(c, T) = x  BY DEF Least
<1> HIDE DEF x
<1>4. x \in Nat /\ x \in 0 .. c - 1 /\ \A i \in 0 .. x - 1 : ~(x <= i)  BY <1>2
<1> QED  BY <1>2, <1>3, <1>4

\* insert_entry takes the first slot of the probe sequence that is not live.
LEMMA FreeSlotFound ==
  ASSUME hash \in [Key -> Nat], NEW c \in Nat, c > 0, NEW t, Table(t, c), NEW k \in Key,
         NEW e \in (0 .. c - 1) \ LiveIn(t, c)
  PROVE  \E j \in 0 .. c - 1 :
            /\ FreeSlot(t, c, k) = Probe(hash[k], j, c)
            /\ FreeSlot(t, c, k) \in (0 .. c - 1) \ LiveIn(t, c)
            /\ \A m \in 0 .. j - 1 : Probe(hash[k], m, c) \in LiveIn(t, c)
<1> DEFINE h == hash[k]
           T == {j \in 0 .. c - 1 : t[Probe(h, j, c)].ctrl \in {EMPTY, DELETED}}
<1>1. h \in Nat  OBVIOUS
<1> HIDE DEF h
<1>2. \A j \in 0 .. c - 1 : Probe(h, j, c) \in 0 .. c - 1
  <2>1. \A j \in 0 .. c - 1 : j \in 0 .. c  OBVIOUS
  <2> QED  BY <1>1, <2>1, ProbeType
<1>3. PICK je \in 0 .. c - 1 : Probe(h, je, c) = e  BY <1>1, ProbeCovers
<1>4. je \in T  BY <1>3 DEF LiveIn
<1> DEFINE m == Least(c, T)
<1>5. m \in 0 .. c - 1 /\ m \in T /\ \A i \in 0 .. m - 1 : i \notin T
  <2>1. T \in SUBSET (0 .. c - 1) /\ T # {}  BY <1>4
  <2> HIDE DEF T
  <2> QED  BY <2>1, LeastIn
<1>6. FreeSlot(t, c, k) = Probe(h, m, c)  BY DEF FreeSlot, h
<1> HIDE DEF m
<1>7. Probe(h, m, c) \in (0 .. c - 1) \ LiveIn(t, c)  BY <1>2, <1>5 DEF LiveIn
<1>8. \A i \in 0 .. m - 1 : Probe(h, i, c) \in LiveIn(t, c)  BY <1>2, <1>5 DEF LiveIn
<1> QED  BY <1>5, <1>6, <1>7, <1>8 DEF h

\* The number n is not there, nor the key k if it has not moved.
NewTo(t, c, k, n) == /\ \A i \in LiveIn(t, c) : t[i].seq # n
                     /\ k \in Kept => \A i \in LiveIn(t, c) : t[i].key # k

\* Where it puts the key: nothing else changes, and the table stays sound.
Filled(t, c, k, n) ==
    LET f == FreeSlot(t, c, k)
        p == Placed(t, c, k, n)
    IN  /\ f \in (0 .. c - 1) \ LiveIn(t, c)
        /\ Sound(p, c)
        /\ LiveIn(p, c) = LiveIn(t, c) \cup {f}
        /\ DeletedIn(p, c) = DeletedIn(t, c) \ {f}
        /\ p[f].key = k /\ p[f].seq = n
        /\ \A i \in LiveIn(t, c) : p[i] = t[i]

LEMMA Places ==
  ASSUME hash \in [Key -> Nat], NEW c \in Nat, c > 0, NEW t, Sound(t, c), NEW k \in Key,
         NEW n \in Nat, NEW e \in (0 .. c - 1) \ LiveIn(t, c),
         NewTo(t, c, k, n), None \notin Key
  PROVE  Filled(t, c, k, n)
<1> DEFINE f == FreeSlot(t, c, k)
           h == hash[k]
           entry == [ctrl |-> h2_from_hash(h), key |-> k, seq |-> n]
           p == Placed(t, c, k, n)
<1>1. /\ Table(t, c) /\ Coded(t, c) /\ Reached(t, c) /\ Distinct(t, c)
      /\ t \in [0 .. c - 1 -> Slot]
  BY DEF Sound, Table
<1>2. PICK j \in 0 .. c - 1 :
            /\ f = Probe(h, j, c)
            /\ f \in (0 .. c - 1) \ LiveIn(t, c)
            /\ \A m \in 0 .. j - 1 : Probe(h, m, c) \in LiveIn(t, c)
  BY <1>1, FreeSlotFound
<1>3. h \in Nat /\ h2_from_hash(h) \in 1 .. 126  BY Byte
<1>4. entry \in Slot  BY <1>3 DEF Slot
<1>5. p = [t EXCEPT ![f] = entry]  BY DEF Placed
<1> HIDE DEF f, entry, p
<1>6. p \in [0 .. c - 1 -> Slot] /\ p[f] = entry
      /\ \A i \in 0 .. c - 1 : i # f => p[i] = t[i]
  BY <1>1, <1>2, <1>4, <1>5
<1>7. /\ entry.ctrl = h2_from_hash(h) /\ entry.key = k /\ entry.seq = n
      /\ entry.ctrl \notin {EMPTY, DELETED}
  <2>1. entry.ctrl = h2_from_hash(h) /\ entry.key = k /\ entry.seq = n  BY DEF entry
  <2> QED  BY <1>3, <2>1 DEF EMPTY, DELETED
<1>8. LiveIn(p, c) = LiveIn(t, c) \cup {f}
  <2>1. ASSUME NEW i \in 0 .. c - 1
        PROVE  i \in LiveIn(p, c) <=> i \in LiveIn(t, c) \cup {f}
    BY <1>2, <1>6, <1>7 DEF LiveIn
  <2>2. LiveIn(p, c) \subseteq 0 .. c - 1 /\ LiveIn(t, c) \cup {f} \subseteq 0 .. c - 1
    BY <1>2 DEF LiveIn
  <2> QED  BY <2>1, <2>2
<1>9. DeletedIn(p, c) = DeletedIn(t, c) \ {f}
  <2>1. ASSUME NEW i \in 0 .. c - 1
        PROVE  i \in DeletedIn(p, c) <=> i \in DeletedIn(t, c) \ {f}
    BY <1>2, <1>6, <1>7 DEF DeletedIn
  <2>2. DeletedIn(p, c) \subseteq 0 .. c - 1 /\ DeletedIn(t, c) \ {f} \subseteq 0 .. c - 1
    BY <1>2 DEF DeletedIn
  <2> QED  BY <2>1, <2>2
<1>10. \A i \in LiveIn(t, c) : p[i] = t[i]
  BY <1>2, <1>6 DEF LiveIn
<1>11. Table(p, c)
  <2>1. ASSUME NEW i \in 0 .. c - 1 PROVE p[i].key # None <=> i \in LiveIn(p, c)
    <3>1. CASE i = f  BY <1>6, <1>7, <1>8, <3>1
    <3>2. CASE i # f  BY <1>1, <1>6, <1>8, <3>2 DEF Table
    <3> QED  BY <3>1, <3>2
  <2> QED  BY <1>6, <2>1 DEF Table
<1>12. Coded(p, c)
  BY <1>1, <1>6, <1>7, <1>8, <1>10 DEF Coded, h
<1>13. Distinct(p, c)
  BY <1>1, <1>6, <1>7, <1>8, <1>10 DEF Distinct, NewTo
<1>14. \A i \in 0 .. c - 1 : t[i].ctrl # EMPTY => p[i].ctrl # EMPTY
  BY <1>6, <1>7
<1>15. Reached(p, c)
  <2>1. ASSUME NEW i \in LiveIn(t, c), p[i].key \in Kept
        PROVE  \E jj \in 0 .. c - 1 :
                  /\ Probe(hash[p[i].key], jj, c) = i
                  /\ \A m \in 0 .. jj - 1 : p[Probe(hash[p[i].key], m, c)].ctrl # EMPTY
    <3>1. p[i] = t[i] /\ t[i].key \in Key /\ hash[t[i].key] \in Nat  BY <1>1, <1>10, LiveKey
    <3>2. PICK jj \in 0 .. c - 1 :
                  /\ Probe(hash[t[i].key], jj, c) = i
                  /\ \A m \in 0 .. jj - 1 : t[Probe(hash[t[i].key], m, c)].ctrl # EMPTY
      BY <1>1, <2>1, <3>1 DEF Reached
    <3>3. \A m \in 0 .. jj - 1 : Probe(hash[t[i].key], m, c) \in 0 .. c - 1
      <4>1. \A m \in 0 .. jj - 1 : m \in 0 .. c  OBVIOUS
      <4> QED  BY <3>1, <4>1, ProbeType
    <3> QED  BY <1>14, <3>1, <3>2, <3>3
  <2>2. \A m \in 0 .. j - 1 : p[Probe(h, m, c)].ctrl # EMPTY
    BY <1>2, <1>14 DEF LiveIn
  <2>3. Probe(hash[p[f].key], j, c) = f
        /\ \A m \in 0 .. j - 1 : p[Probe(hash[p[f].key], m, c)].ctrl # EMPTY
    BY <1>2, <1>6, <1>7, <2>2 DEF h
  <2> QED  BY <1>8, <2>1, <2>3 DEF Reached
<1>16. Sound(p, c)  BY <1>11, <1>12, <1>13, <1>15 DEF Sound
<1>17. p[f].key = k /\ p[f].seq = n  BY <1>6, <1>7
<1>18. f \in (0 .. c - 1) \ LiveIn(t, c)  BY <1>2
<1> HIDE DEF f, p
<1>19. /\ f \in (0 .. c - 1) \ LiveIn(t, c)
       /\ Sound(p, c)
       /\ LiveIn(p, c) = LiveIn(t, c) \cup {f}
       /\ DeletedIn(p, c) = DeletedIn(t, c) \ {f}
       /\ p[f].key = k /\ p[f].seq = n
       /\ \A i \in LiveIn(t, c) : p[i] = t[i]
  BY <1>8, <1>9, <1>10, <1>16, <1>17, <1>18
<1> QED  BY <1>19 DEF f, p, Filled

\* Whatever is put, a table of slots stays one.
LEMMA PlacesSlot ==
  ASSUME hash \in [Key -> Nat], NEW c \in Nat, c > 0, NEW t \in [0 .. c - 1 -> Slot],
         NEW k \in Key, NEW n \in Nat
  PROVE  Placed(t, c, k, n) \in [0 .. c - 1 -> Slot]
<1>1. h2_from_hash(hash[k]) \in 0 .. 127
  <2>1. h2_from_hash(hash[k]) \in 1 .. 126  BY Byte
  <2> QED  BY <2>1
<1>2. [ctrl |-> h2_from_hash(hash[k]), key |-> k, seq |-> n] \in Slot  BY <1>1 DEF Slot
<1> QED  BY <1>2 DEF Placed

\* find_slot finds a key that has not moved where it is.
LEMMA Finds ==
  ASSUME hash \in [Key -> Nat], capacity \in Nat, capacity > 0, Sound(slots, capacity),
         NEW i \in LiveIn(slots, capacity), NEW k \in Kept, slots[i].key = k
  PROVE  find_slot(k) = i
<1> DEFINE c == capacity
           at(j) == Probe(hash[k], j, c)
           T == {j \in 0 .. c - 1 : slots[at(j)].ctrl = EMPTY \/ Matches(at(j), k)}
           m == Least(c, T)
<1>1. /\ Table(slots, c) /\ Coded(slots, c) /\ Reached(slots, c) /\ Distinct(slots, c)
  BY DEF Sound
<1>2. i \in 0 .. c - 1 /\ k \in Key /\ hash[k] \in Nat /\ slots[i].ctrl \notin {EMPTY, DELETED}
  BY <1>1, LiveKey DEF LiveIn
<1>3. PICK ji \in 0 .. c - 1 : at(ji) = i /\ \A x \in 0 .. ji - 1 : slots[at(x)].ctrl # EMPTY
  BY <1>1 DEF Reached
<1>4. Matches(i, k)  BY <1>1 DEF Matches, Coded
<1>5. ji \in T  BY <1>3, <1>4
<1>6. m \in 0 .. c - 1 /\ m \in T /\ \A x \in 0 .. m - 1 : x \notin T
  <2>1. T \in SUBSET (0 .. c - 1) /\ T # {}  BY <1>5
  <2> HIDE DEF T
  <2> QED  BY <2>1, LeastIn
<1>7. find_slot(k) = IF m < c /\ Matches(at(m), k) THEN at(m) ELSE None
  BY DEF find_slot
<1> HIDE DEF m
<1>8. at(m) = i
  <2>1. m <= ji
    <3> HIDE DEF T
    <3>1. SUFFICES ASSUME ~(m <= ji) PROVE FALSE  OBVIOUS
    <3>2. ji \in 0 .. m - 1  BY <1>6, <3>1
    <3> QED  BY <1>5, <1>6, <3>2
  <2>2. slots[at(m)].ctrl # EMPTY
    <3>1. CASE m = ji  BY <1>2, <1>3, <3>1
    <3>2. CASE m # ji
      <4>1. m \in 0 .. ji - 1  BY <1>6, <2>1, <3>2
      <4> QED  BY <4>1, <1>3
    <3> QED  BY <3>1, <3>2
  <2>3. Matches(at(m), k)  BY <1>6, <2>2
  <2>4. at(m) \in 0 .. c - 1
    <3>1. m \in 0 .. c  BY <1>6
    <3> QED  BY <3>1, <1>2, ProbeType
  <2>5. at(m) \in LiveIn(slots, c)
    <3>1. slots[at(m)].ctrl = h2_from_hash(hash[k])  BY <2>3 DEF Matches
    <3>2. h2_from_hash(hash[k]) \in 1 .. 126  BY <1>2, Byte
    <3> HIDE DEF at
    <3> QED  BY <2>4, <3>1, <3>2 DEF LiveIn, EMPTY, DELETED
  <2>6. slots[at(m)].key = slots[i].key  BY <2>3 DEF Matches
  <2> QED  BY <2>5, <2>6, <1>1 DEF Distinct
<1> QED  BY <1>4, <1>6, <1>7, <1>8

\* And it finds nothing else.
LEMMA FindsOnly ==
  ASSUME hash \in [Key -> Nat], capacity \in Nat, capacity > 0, Sound(slots, capacity),
         NEW k \in Key, find_slot(k) # None
  PROVE  find_slot(k) \in LiveIn(slots, capacity) /\ slots[find_slot(k)].key = k
<1> DEFINE c == capacity
           at(j) == Probe(hash[k], j, c)
           T == {x \in 0 .. c - 1 : slots[at(x)].ctrl = EMPTY \/ Matches(at(x), k)}
           j == Least(c, T)
<1>1. find_slot(k) = IF j < c /\ Matches(at(j), k) THEN at(j) ELSE None
  BY DEF find_slot
<1>2. j < c /\ Matches(at(j), k) /\ find_slot(k) = at(j)  BY <1>1
<1>3. j \in 0 .. c - 1
  <2>1. T \in SUBSET (0 .. c - 1)  OBVIOUS
  <2>2. T = {} => j = c  BY DEF Least
  <2> HIDE DEF T
  <2> QED  BY <1>2, <2>1, <2>2, LeastIn
<1> HIDE DEF j
<1>4. at(j) \in 0 .. c - 1
  <2>1. j \in 0 .. c /\ hash[k] \in Nat  BY <1>3
  <2> QED  BY <2>1, ProbeType
<1>5. slots[at(j)].ctrl = h2_from_hash(hash[k]) /\ slots[at(j)].key = k  BY <1>2 DEF Matches
<1>6. h2_from_hash(hash[k]) \in 1 .. 126  BY Byte
<1> HIDE DEF at
<1>7. at(j) \in LiveIn(slots, c)  BY <1>4, <1>5, <1>6 DEF LiveIn, EMPTY, DELETED
<1> QED  BY <1>2, <1>5, <1>7

------------------------------------------------------------------------------
(* Rehashing.                                                                *)

\* The sets of live and deleted slots of the table, which are finite.
LEMMA SlotSets ==
  ASSUME capacity \in Nat, Table(slots, capacity)
  PROVE  /\ DOMAIN slots = 0 .. capacity - 1
         /\ Live = LiveIn(slots, capacity) /\ Deleted = DeletedIn(slots, capacity)
BY DEF Table, Live, Deleted, LiveIn, DeletedIn

LEMMA SlotsFinite ==
  ASSUME NEW c \in Nat, NEW t
  PROVE  /\ IsFiniteSet(LiveIn(t, c)) /\ IsFiniteSet(DeletedIn(t, c))
         /\ IsFiniteSet(0 .. c - 1) /\ Cardinality(0 .. c - 1) = c
         /\ Cardinality(LiveIn(t, c)) \in Nat /\ Cardinality(DeletedIn(t, c)) \in Nat
<1>1. IsFiniteSet(0 .. c - 1) /\ Cardinality(0 .. c - 1) = c
  <2>1. 0 \in Int /\ c - 1 \in Int  OBVIOUS
  <2>2. IsFiniteSet(0 .. c - 1) /\
        Cardinality(0 .. c - 1) = IF 0 > c - 1 THEN 0 ELSE (c - 1) - 0 + 1
    BY <2>1, FS_Interval
  <2> QED  BY <2>2
<1>2. LiveIn(t, c) \in SUBSET (0 .. c - 1) /\ DeletedIn(t, c) \in SUBSET (0 .. c - 1)
  BY DEF LiveIn, DeletedIn
<1>3. IsFiniteSet(LiveIn(t, c)) /\ IsFiniteSet(DeletedIn(t, c))  BY <1>1, <1>2, FS_Subset
<1> QED  BY <1>1, <1>3, FS_CardinalityType

\* A table with fewer live slots than slots has one that is not.
LEMMA RoomLeft ==
  ASSUME NEW c \in Nat, NEW t, Cardinality(LiveIn(t, c)) < c
  PROVE  \E e \in (0 .. c - 1) \ LiveIn(t, c) : TRUE
<1>1. /\ Cardinality(0 .. c - 1) = c /\ Cardinality(LiveIn(t, c)) \in Nat
      /\ LiveIn(t, c) \subseteq 0 .. c - 1
  BY SlotsFinite DEF LiveIn
<1>2. LiveIn(t, c) # 0 .. c - 1  BY <1>1
<1> QED  BY <1>1, <1>2

\* The empty table.
LEMMA EmptySound ==
  ASSUME NEW c \in Nat
  PROVE  /\ Sound(EmptyTable(c), c)
         /\ LiveIn(EmptyTable(c), c) = {} /\ DeletedIn(EmptyTable(c), c) = {}
<1>1. Fresh \in Slot /\ Fresh.ctrl = EMPTY /\ Fresh.key = None  BY DEF Fresh, Slot, EMPTY
<1>2. /\ EmptyTable(c) \in [0 .. c - 1 -> Slot]
      /\ \A i \in 0 .. c - 1 : EmptyTable(c)[i] = Fresh
  BY <1>1 DEF EmptyTable
<1>3. LiveIn(EmptyTable(c), c) = {}  BY <1>1, <1>2 DEF LiveIn
<1>4. DeletedIn(EmptyTable(c), c) = {}  BY <1>1, <1>2 DEF DeletedIn, EMPTY, DELETED
<1> QED  BY <1>1, <1>2, <1>3, <1>4 DEF Sound, Table, Coded, Reached, Distinct

\* rehash moves the old slots one by one.
LEMMA RehashSteps ==
  ASSUME hash \in [Key -> Nat], capacity \in Nat, Table(slots, capacity), NEW c \in Nat, c > 0
  PROVE  \E moved \in [0 .. capacity -> [0 .. c - 1 -> Slot]] :
            /\ moved[0] = EmptyTable(c)
            /\ \A i \in 1 .. capacity :
                  moved[i] = IF i - 1 \in Live
                             THEN Placed(moved[i - 1], c, slots[i - 1].key, slots[i - 1].seq)
                             ELSE moved[i - 1]
            /\ Rehashed(c) = moved[capacity]
<1> DEFINE S == [0 .. c - 1 -> Slot]
           Put(i, t) == IF i - 1 \in Live
                        THEN Placed(t, c, slots[i - 1].key, slots[i - 1].seq)
                        ELSE t
           F == [i \in 1 .. capacity |-> [t \in S |-> Put(i, t)]]
           Step(m) == [i \in 0 .. capacity |-> IF i = 0 THEN EmptyTable(c) ELSE Put(i, m[i - 1])]
<1>1. ASSUME NEW i \in 1 .. capacity, NEW t \in S PROVE Put(i, t) \in S
  <2>1. CASE i - 1 \in Live
    <3>1. slots[i - 1].key \in Key /\ slots[i - 1].seq \in Nat  BY <2>1, SlotSets, LiveKey
    <3> QED  BY <2>1, <3>1, PlacesSlot
  <2>2. CASE i - 1 \notin Live  BY <2>2
  <2> QED  BY <2>1, <2>2
<1>2. EmptyTable(c) \in S  BY EmptySound DEF Sound, Table
<1> HIDE DEF S, Put
<1>3. F \in [1 .. capacity -> [S -> S]]  BY <1>1
<1>4. PICK f \in [0 .. capacity -> S] :
          f[0] = EmptyTable(c) /\ \A i \in 1 .. capacity : f[i] = F[i][f[i - 1]]
  <2> DEFINE s == EmptyTable(c)
             n == capacity
  <2> HIDE DEF F, s, n
  <2>1. n \in Nat /\ s \in S /\ F \in [1 .. n -> [S -> S]]  BY <1>2, <1>3 DEF s, n
  <2>2. \E f \in [0 .. n -> S] : Iterates(f, n, s, F)  BY <2>1, Recursion
  <2> QED  BY <2>2 DEF Iterates, s, n
<1>5. \A i \in 1 .. capacity : f[i] = Put(i, f[i - 1])
  <2>1. ASSUME NEW i \in 1 .. capacity PROVE f[i] = Put(i, f[i - 1])
    <3>1. f[i - 1] \in S  OBVIOUS
    <3> QED  BY <1>4, <3>1
  <2> QED  BY <2>1
<1>6. f = Step(f)
  <2>1. ASSUME NEW i \in 0 .. capacity PROVE f[i] = Step(f)[i]
    <3>1. CASE i = 0  BY <1>4, <3>1
    <3>2. CASE i # 0  BY <1>5, <3>2
    <3> QED  BY <3>1, <3>2
  <2> QED  BY <2>1
<1> DEFINE moved == CHOOSE m : m = Step(m)
<1>7. moved = Step(moved)  BY <1>6
<1>8. Rehashed(c) = moved[capacity]  BY DEF Rehashed, Put
<1> HIDE DEF moved
<1>9. moved[0] = EmptyTable(c)  BY <1>7
<1>10. \A i \in 1 .. capacity : moved[i] = Put(i, moved[i - 1])  BY <1>7
<1>11. \A i \in 0 .. capacity : moved[i] \in S
  <2> DEFINE T == {i \in 0 .. capacity : moved[i] \in S}
  <2>1. 0 \in T  BY <1>2, <1>9
  <2>2. \A i \in 1 .. capacity : i - 1 \in T => i \in T  BY <1>1, <1>10
  <2>3. 0 .. capacity \subseteq T
    <3> HIDE DEF T
    <3> QED  BY <2>1, <2>2, Inductive
  <2> QED  BY <2>3
<1>12. moved \in [0 .. capacity -> S]
  <2>1. moved = [i \in 0 .. capacity |-> moved[i]]  BY <1>7
  <2> QED  BY <1>11, <2>1
<1> QED  BY <1>8, <1>9, <1>10, <1>12 DEF S, Put

\* And so the new table has the entries of the old one, and no tombstones.
LEMMA Rehashes ==
  ASSUME hash \in [Key -> Nat], capacity \in Nat, Sound(slots, capacity), NEW c \in Nat,
         Cardinality(Live) < c, None \notin Key
  PROVE  LET t == Rehashed(c)
         IN  /\ Sound(t, c) /\ DeletedIn(t, c) = {}
             /\ Cardinality(LiveIn(t, c)) = Cardinality(Live)
             /\ \A i \in LiveIn(t, c) : \E o \in Live :
                    t[i].key = slots[o].key /\ t[i].seq = slots[o].seq
             /\ \A o \in Live : \E i \in LiveIn(t, c) :
                    t[i].key = slots[o].key /\ t[i].seq = slots[o].seq
<1>1. Table(slots, capacity) /\ Distinct(slots, capacity)  BY DEF Sound
<1>2. /\ Live = LiveIn(slots, capacity) /\ Live \subseteq 0 .. capacity - 1
      /\ IsFiniteSet(Live) /\ Cardinality(Live) \in Nat
  BY <1>1, SlotSets, SlotsFinite DEF LiveIn
<1>3. c > 0  BY <1>2
<1>4. PICK moved \in [0 .. capacity -> [0 .. c - 1 -> Slot]] :
            /\ moved[0] = EmptyTable(c)
            /\ \A i \in 1 .. capacity :
                  moved[i] = IF i - 1 \in Live
                             THEN Placed(moved[i - 1], c, slots[i - 1].key, slots[i - 1].seq)
                             ELSE moved[i - 1]
            /\ Rehashed(c) = moved[capacity]
  BY <1>1, <1>3, RehashSteps
<1> DEFINE Before(n) == {o \in Live : o < n}
           Same(t, i, o) == t[i].key = slots[o].key /\ t[i].seq = slots[o].seq
           Moved(t, n) ==
              /\ Sound(t, c) /\ DeletedIn(t, c) = {}
              /\ Cardinality(LiveIn(t, c)) = Cardinality(Before(n))
              /\ \A i \in LiveIn(t, c) : \E o \in Before(n) : Same(t, i, o)
              /\ \A o \in Before(n) : \E i \in LiveIn(t, c) : Same(t, i, o)
           T == {n \in 0 .. capacity : Moved(moved[n], n)}
<1>5. 0 \in T
  <2>1. Before(0) = {}  BY <1>2
  <2>2. /\ Sound(moved[0], c) /\ LiveIn(moved[0], c) = {} /\ DeletedIn(moved[0], c) = {}
    BY <1>4, EmptySound
  <2>3. Moved(moved[0], 0)  BY <2>1, <2>2
  <2> HIDE DEF Moved
  <2> QED  BY <2>3
<1>6. ASSUME NEW n \in 1 .. capacity, n - 1 \in T PROVE n \in T
  <2> DEFINE t == moved[n - 1]
             o == n - 1
             k == slots[n - 1].key
             q == slots[n - 1].seq
  <2>1. Moved(t, n - 1)  BY <1>6
  <2>2. CASE o \notin Live
    <3>1. Before(n) = Before(n - 1)  BY <1>2, <2>2
    <3>2. moved[n] = t  BY <1>4, <2>2
    <3>3. Moved(moved[n], n)
      <4> HIDE DEF Before, Same
      <4> QED  BY <2>1, <3>1, <3>2
    <3> HIDE DEF Moved
    <3> QED  BY <3>3
  <2>3. CASE o \in Live
    <3> DEFINE f == FreeSlot(t, c, k)
               p == Placed(t, c, k, q)
    <3>1. Before(n) = Before(n - 1) \cup {o} /\ o \notin Before(n - 1)  BY <1>2, <2>3
    <3>2. moved[n] = p  BY <1>4, <2>3
    <3>3. k \in Key /\ q \in Nat  BY <1>1, <1>2, <2>3, LiveKey
    <3>4. /\ IsFiniteSet(Before(n - 1)) /\ IsFiniteSet(LiveIn(t, c))
          /\ Cardinality(Before(n - 1)) <= Cardinality(Live)
          /\ Cardinality(Before(n - 1)) \in Nat
      <4>1. Before(n - 1) \in SUBSET Live  OBVIOUS
      <4> HIDE DEF Before
      <4> QED  BY <1>2, <4>1, FS_Subset, FS_CardinalityType, SlotsFinite
    <3>5. PICK e \in (0 .. c - 1) \ LiveIn(t, c) : TRUE
      <4>1. Cardinality(LiveIn(t, c)) < c
        <5> HIDE DEF Before
        <5> QED  BY <2>1, <3>4, <1>2
      <4> QED  BY <4>1, RoomLeft
    <3>6. NewTo(t, c, k, q)
      <4>1. \A i \in LiveIn(t, c) : \E x \in Before(n - 1) : Same(t, i, x)  BY <2>1
      <4>2. \A x \in Before(n - 1) : slots[x].seq # q /\ (k \in Kept => slots[x].key # k)
        BY <1>1, <1>2, <2>3, <3>1 DEF Distinct
      <4> QED  BY <4>1, <4>2 DEF NewTo
    <3>7. /\ f \in (0 .. c - 1) \ LiveIn(t, c)
          /\ Sound(p, c)
          /\ LiveIn(p, c) = LiveIn(t, c) \cup {f}
          /\ DeletedIn(p, c) = DeletedIn(t, c) \ {f}
          /\ p[f].key = k /\ p[f].seq = q
          /\ \A i \in LiveIn(t, c) : p[i] = t[i]
      <4>1. Sound(t, c)  BY <2>1
      <4> HIDE DEF t, k, q
      <4>2. Filled(t, c, k, q)  BY <1>3, <3>3, <3>5, <3>6, <4>1, Places
      <4> QED  BY <4>2 DEF Filled
    <3> HIDE DEF f, p, t
    <3>8. Cardinality(LiveIn(p, c)) = Cardinality(Before(n))
      <4>1. Cardinality(LiveIn(p, c)) = Cardinality(LiveIn(t, c)) + 1
        BY <3>4, <3>7, FS_AddElement
      <4>2. Cardinality(Before(n)) = Cardinality(Before(n - 1)) + 1
        <5> HIDE DEF Before
        <5> QED  BY <3>1, <3>4, FS_AddElement
      <4>3. Cardinality(LiveIn(t, c)) = Cardinality(Before(n - 1))  BY <2>1
      <4> QED  BY <4>1, <4>2, <4>3
    <3>9. ASSUME NEW i \in LiveIn(p, c) PROVE \E x \in Before(n) : Same(p, i, x)
      <4>1. CASE i = f
        <5>1. Same(p, f, o)  BY <3>7
        <5> QED  BY <3>1, <4>1, <5>1
      <4>2. CASE i \in LiveIn(t, c)
        <5>1. \E x \in Before(n - 1) : Same(t, i, x)  BY <2>1, <4>2
        <5> QED  BY <3>1, <3>7, <4>2, <5>1
      <4> QED  BY <3>7, <4>1, <4>2
    <3>10. ASSUME NEW x \in Before(n) PROVE \E i \in LiveIn(p, c) : Same(p, i, x)
      <4>1. CASE x = o
        <5>1. Same(p, f, o)  BY <3>7
        <5> QED  BY <3>7, <4>1, <5>1
      <4>2. CASE x \in Before(n - 1)
        <5>1. \E i \in LiveIn(t, c) : Same(t, i, x)  BY <2>1, <4>2
        <5> QED  BY <3>7, <4>2, <5>1
      <4> QED  BY <3>1, <4>1, <4>2
    <3>11. DeletedIn(p, c) = {}
      <4>1. DeletedIn(t, c) = {}  BY <2>1
      <4> QED  BY <3>7, <4>1
    <3>12. Moved(moved[n], n)
      <4> HIDE DEF Before, Same
      <4> QED  BY <3>2, <3>7, <3>8, <3>9, <3>10, <3>11
    <3> HIDE DEF Moved
    <3> QED  BY <3>12
  <2> QED  BY <2>2, <2>3
<1>7. capacity \in T
  <2> HIDE DEF T
  <2>1. \A n \in 1 .. capacity : n - 1 \in T => n \in T  BY <1>6
  <2>2. 0 .. capacity \subseteq T  BY <1>5, <2>1, Inductive
  <2> QED  BY <2>2
<1>8. Moved(Rehashed(c), capacity)  BY <1>4, <1>7
<1>9. Before(capacity) = Live  BY <1>2
<1> QED  BY <1>8, <1>9

------------------------------------------------------------------------------
(* The inductive invariant.                                                  *)

\* Insertion numbers are below the counter, and so is the forEach.
NumberInv == /\ insert_seq \in 0 .. MaxSeq
             /\ cursor \in 0 .. insert_seq \cup {None}
             /\ \A i \in LiveIn(slots, capacity) : slots[i].seq < insert_seq

\* The counters are exact, and the load is never above the threshold.
LoadInv == /\ size = Cardinality(LiveIn(slots, capacity))
           /\ tombstones = Cardinality(DeletedIn(slots, capacity))
           /\ size + tombstones <= GrowThresh

IInv == /\ hash \in [Key -> Nat]
        /\ capacity \in Nat /\ capacity >= 8
        /\ Sound(slots, capacity)
        /\ NumberInv /\ LoadInv

\* What holds of the new slots holds in the next state.
LEMMA SoundNext ==
  ASSUME hash' = hash, Sound(slots', capacity')
  PROVE  Sound(slots, capacity)'
<1> PICK t, c : t = slots' /\ c = capacity'  OBVIOUS
<1>1. /\ Table(t, c) /\ Coded(t, c) /\ Reached(t, c) /\ Distinct(t, c)  BY DEF Sound
<1>2. Kept' = Kept /\ LiveIn(slots, capacity)' = LiveIn(t, c)  BY DEF Kept, LiveIn
<1>3. Table(slots, capacity)'  BY <1>1, <1>2 DEF Table
<1>4. Coded(slots, capacity)'  BY <1>1, <1>2 DEF Coded
<1>5. Reached(slots, capacity)'  BY <1>1, <1>2 DEF Reached
<1>6. Distinct(slots, capacity)'  BY <1>1, <1>2 DEF Distinct
<1> QED  BY <1>3, <1>4, <1>5, <1>6 DEF Sound

LEMMA Started == Init => IInv
<1> SUFFICES ASSUME Init PROVE IInv  OBVIOUS
<1>1. /\ hash \in [Key -> Nat] /\ capacity = Capacity /\ slots = EmptyTable(capacity)
      /\ size = 0 /\ tombstones = 0 /\ insert_seq = 0 /\ cursor = None
      /\ capacity \in Nat /\ capacity >= 8 /\ MaxSeq \in Nat
  BY TableAssumption DEF Init
<1>2. /\ Sound(slots, capacity)
      /\ LiveIn(slots, capacity) = {} /\ DeletedIn(slots, capacity) = {}
  BY <1>1, EmptySound
<1>3. NumberInv  BY <1>1, <1>2 DEF NumberInv
<1>4. LoadInv  BY <1>1, <1>2, FS_EmptySet DEF LoadInv, GrowThresh
<1> QED  BY <1>1, <1>2, <1>3, <1>4 DEF IInv

\* insert_entry, into the table as it is or a rehashed one, with room in it.
LEMMA Inserts ==
  ASSUME IInv, NEW k \in Key, insert_seq < MaxSeq, UNCHANGED <<hash, cursor>>,
         NEW c \in Nat, c >= 8, NEW t, NEW tombs,
         Sound(t, c), \A i \in LiveIn(t, c) : t[i].seq < insert_seq,
         k \in Kept => \A i \in LiveIn(t, c) : t[i].key # k,
         size = Cardinality(LiveIn(t, c)), tombs = Cardinality(DeletedIn(t, c)),
         size + tombs < c - c \div 8,
         Insert(t, c, tombs, k)
  PROVE  /\ IInv'
         /\ \A n, x : EntryIn(slots', capacity', n, x)
                       <=> EntryIn(t, c, n, x) \/ (n = insert_seq /\ x = k)
<1> DEFINE f == FreeSlot(t, c, k)
           p == Placed(t, c, k, insert_seq)
<1>1. /\ hash \in [Key -> Nat] /\ NumberInv /\ insert_seq \in Nat /\ MaxSeq \in Nat
      /\ None \notin Key
  BY TableAssumption DEF IInv, NumberInv
<1>2. /\ capacity' = c /\ slots' = p /\ size' = size + 1 /\ insert_seq' = insert_seq + 1
      /\ tombstones' = IF t[f].ctrl = DELETED THEN tombs - 1 ELSE tombs
      /\ hash' = hash /\ cursor' = cursor
  BY DEF Insert
<1>3. /\ IsFiniteSet(LiveIn(t, c)) /\ IsFiniteSet(DeletedIn(t, c))
      /\ size \in Nat /\ tombs \in Nat
  BY SlotsFinite
<1>4. PICK e \in (0 .. c - 1) \ LiveIn(t, c) : TRUE
  <2>1. Cardinality(LiveIn(t, c)) < c  BY <1>3
  <2> QED  BY <2>1, RoomLeft
<1>5. NewTo(t, c, k, insert_seq)
  <2>1. \A i \in LiveIn(t, c) : t[i].seq \in Nat  BY LiveKey DEF Sound
  <2> QED  BY <1>1, <2>1 DEF NewTo
<1>6. /\ f \in (0 .. c - 1) \ LiveIn(t, c)
      /\ Sound(p, c)
      /\ LiveIn(p, c) = LiveIn(t, c) \cup {f}
      /\ DeletedIn(p, c) = DeletedIn(t, c) \ {f}
      /\ p[f].key = k /\ p[f].seq = insert_seq
      /\ \A i \in LiveIn(t, c) : p[i] = t[i]
  <2>1. Filled(t, c, k, insert_seq)  BY <1>1, <1>4, <1>5, Places
  <2> QED  BY <2>1 DEF Filled
<1> HIDE DEF f, p
<1>7. Sound(slots, capacity)'  BY <1>2, <1>6, SoundNext
<1>8. LiveIn(slots, capacity)' = LiveIn(p, c) /\ DeletedIn(slots, capacity)' = DeletedIn(p, c)
  BY <1>2 DEF LiveIn, DeletedIn
<1>9. size' = Cardinality(LiveIn(p, c))
  BY <1>2, <1>3, <1>6, FS_AddElement
<1>10. tombstones' = Cardinality(DeletedIn(p, c)) /\ tombstones' <= tombs
       /\ tombstones' \in Nat
  <2>1. f \in DeletedIn(t, c) <=> t[f].ctrl = DELETED  BY <1>6 DEF DeletedIn
  <2>2. Cardinality(DeletedIn(p, c)) = IF f \in DeletedIn(t, c) THEN tombs - 1 ELSE tombs
    BY <1>3, <1>6, FS_RemoveElement
  <2>3. Cardinality(DeletedIn(p, c)) \in Nat  BY SlotsFinite
  <2> QED  BY <1>2, <1>3, <2>1, <2>2, <2>3
<1>11. LoadInv'
  <2>1. (size + tombstones <= GrowThresh)'  BY <1>2, <1>3, <1>10 DEF GrowThresh
  <2> QED  BY <1>8, <1>9, <1>10, <2>1 DEF LoadInv
<1>12. NumberInv'
  <2>1. \A i \in LiveIn(p, c) : p[i].seq < insert_seq + 1
    <3>1. \A i \in LiveIn(t, c) : t[i].seq \in Nat  BY LiveKey DEF Sound
    <3> QED  BY <1>1, <1>6, <3>1
  <2>2. (\A i \in LiveIn(slots, capacity) : slots[i].seq < insert_seq)'
    BY <1>2, <1>8, <2>1
  <2>3. insert_seq' \in 0 .. MaxSeq /\ cursor' \in 0 .. insert_seq' \cup {None}
    BY <1>1, <1>2 DEF NumberInv
  <2> QED  BY <2>2, <2>3 DEF NumberInv
<1>13. IInv'  BY <1>1, <1>2, <1>7, <1>11, <1>12 DEF IInv
<1>14. \A n, x : EntryIn(p, c, n, x) <=> EntryIn(t, c, n, x) \/ (n = insert_seq /\ x = k)
  BY <1>6 DEF EntryIn
<1> QED  BY <1>2, <1>13, <1>14

\* Writing a key that is not there.
LEMMA SetStep ==
  ASSUME IInv, NEW k \in Key, Set(k)
  PROVE  /\ IInv'
         /\ \A n, x : EntryIn(slots', capacity', n, x)
                       <=> EntryIn(slots, capacity, n, x) \/ (n = insert_seq /\ x = k)
         /\ k \in Kept => \A n : ~EntryIn(slots, capacity, n, k)
<1>1. /\ hash \in [Key -> Nat] /\ capacity \in Nat /\ capacity >= 8 /\ Sound(slots, capacity)
      /\ NumberInv /\ LoadInv /\ insert_seq \in Nat /\ None \notin Key
  BY TableAssumption DEF IInv, NumberInv
<1>2. /\ find_slot(k) = None /\ insert_seq < MaxSeq /\ UNCHANGED <<hash, cursor>>
      /\ Full => Insert(Rehashed(NewCapacity), NewCapacity, 0, k)
      /\ ~Full => Insert(slots, capacity, tombstones, k)
  BY DEF Set
<1>3. /\ \A i \in LiveIn(slots, capacity) : slots[i].seq < insert_seq
      /\ k \in Kept => \A i \in LiveIn(slots, capacity) : slots[i].key # k
  <2>1. capacity > 0 /\ \A i \in LiveIn(slots, capacity) : i \in Nat  BY <1>1 DEF LiveIn
  <2>2. None \notin Nat  BY TableAssumption
  <2> QED  BY <1>1, <1>2, <2>1, <2>2, Finds DEF NumberInv
<1>4. /\ Live = LiveIn(slots, capacity)
      /\ size \in Nat /\ tombstones \in Nat
      /\ size = Cardinality(LiveIn(slots, capacity))
      /\ tombstones = Cardinality(DeletedIn(slots, capacity))
      /\ size + tombstones <= capacity - capacity \div 8
  BY <1>1, SlotSets, SlotsFinite DEF LoadInv, GrowThresh, Sound
<1> DEFINE Inserted == \A n, x : EntryIn(slots', capacity', n, x)
                          <=> EntryIn(slots, capacity, n, x) \/ (n = insert_seq /\ x = k)
<1>5. ASSUME ~Full PROVE IInv' /\ Inserted
  <2>1. size + tombstones < capacity - capacity \div 8
    BY <1>1, <1>4, <1>5 DEF Full, GrowThresh
  <2> QED  BY <1>1, <1>2, <1>3, <1>4, <1>5, <2>1, Inserts
<1>6. ASSUME Full PROVE IInv' /\ Inserted
  <2> DEFINE c == NewCapacity
             t == Rehashed(NewCapacity)
  <2>1. c \in Nat /\ c >= 8 /\ size < c - c \div 8
    BY <1>1, <1>4 DEF NewCapacity
  <2>2. Cardinality(Live) < c  BY <1>1, <1>4, <2>1
  <2> HIDE DEF c
  <2>3. /\ Sound(t, c) /\ DeletedIn(t, c) = {}
        /\ Cardinality(LiveIn(t, c)) = Cardinality(Live)
        /\ \A i \in LiveIn(t, c) : \E o \in Live :
              t[i].key = slots[o].key /\ t[i].seq = slots[o].seq
        /\ \A o \in Live : \E i \in LiveIn(t, c) :
              t[i].key = slots[o].key /\ t[i].seq = slots[o].seq
    BY <1>1, <2>1, <2>2, Rehashes DEF c
  <2> HIDE DEF t
  <2>4. /\ \A i \in LiveIn(t, c) : t[i].seq < insert_seq
        /\ k \in Kept => \A i \in LiveIn(t, c) : t[i].key # k
    BY <1>3, <1>4, <2>3
  <2>5. 0 = Cardinality(DeletedIn(t, c))  BY <2>3, FS_EmptySet
  <2>6. size = Cardinality(LiveIn(t, c)) /\ size + 0 < c - c \div 8  BY <1>4, <2>1, <2>3
  <2>7. Insert(t, c, 0, k)  BY <1>2, <1>6 DEF t, c
  <2>8. IInv' /\ \A n, x : EntryIn(slots', capacity', n, x)
                            <=> EntryIn(t, c, n, x) \/ (n = insert_seq /\ x = k)
    BY <1>1, <1>2, <2>1, <2>3, <2>4, <2>5, <2>6, <2>7, Inserts
  <2>9. \A n, x : EntryIn(t, c, n, x) <=> EntryIn(slots, capacity, n, x)
    BY <1>4, <2>3 DEF EntryIn
  <2> QED  BY <2>8, <2>9
<1>7. k \in Kept => \A n : ~EntryIn(slots, capacity, n, k)  BY <1>3 DEF EntryIn
<1> QED  BY <1>5, <1>6, <1>7

\* A deleted entry leaves a tombstone: the probes that passed it still do.
LEMMA DeleteStep ==
  ASSUME IInv, NEW k \in Key, Delete(k)
  PROVE  /\ IInv'
         /\ \E q : /\ EntryIn(slots, capacity, q, k)
                   /\ \A n, x : EntryIn(slots', capacity', n, x)
                                 <=> EntryIn(slots, capacity, n, x) /\ n # q
<1> DEFINE i == find_slot(k)
           c == capacity
           p == [slots EXCEPT ![i] = Tomb]
<1>1. /\ hash \in [Key -> Nat] /\ c \in Nat /\ c >= 8 /\ Sound(slots, c)
      /\ NumberInv /\ LoadInv /\ None \notin Key
  BY TableAssumption DEF IInv
<1>2. /\ slots' = p /\ size' = size - 1 /\ tombstones' = tombstones + 1
      /\ i # None
      /\ UNCHANGED <<hash, capacity, insert_seq, cursor>>
  BY DEF Delete
<1>3. i \in LiveIn(slots, c) /\ slots[i].key = k
  <2>1. c > 0  BY <1>1
  <2> QED  BY <1>1, <1>2, <2>1, FindsOnly
<1>4. /\ Table(slots, c) /\ Coded(slots, c) /\ Reached(slots, c) /\ Distinct(slots, c)
      /\ slots \in [0 .. c - 1 -> Slot] /\ i \in 0 .. c - 1
  BY <1>1, <1>3 DEF Sound, Table, LiveIn
<1>5. Tomb \in Slot /\ Tomb.ctrl = DELETED /\ Tomb.key = None  BY DEF Tomb, Slot, DELETED
<1> HIDE DEF i, c
<1>6. /\ p \in [0 .. c - 1 -> Slot] /\ p[i] = Tomb
      /\ \A x \in 0 .. c - 1 : x # i => p[x] = slots[x]
  BY <1>4, <1>5
<1> HIDE DEF p
<1>7. LiveIn(p, c) = LiveIn(slots, c) \ {i}
  BY <1>4, <1>5, <1>6 DEF LiveIn
<1>8. DeletedIn(p, c) = DeletedIn(slots, c) \cup {i} /\ i \notin DeletedIn(slots, c)
  <2>1. i \notin DeletedIn(slots, c)  BY <1>3 DEF LiveIn, DeletedIn
  <2>2. ASSUME NEW x \in 0 .. c - 1
        PROVE  x \in DeletedIn(p, c) <=> x \in DeletedIn(slots, c) \cup {i}
    BY <1>5, <1>6, <2>1 DEF DeletedIn
  <2>3. DeletedIn(p, c) \subseteq 0 .. c - 1 /\ DeletedIn(slots, c) \subseteq 0 .. c - 1
    BY DEF DeletedIn
  <2> QED  BY <1>4, <2>1, <2>2, <2>3
<1>9. \A x \in LiveIn(p, c) : x \in LiveIn(slots, c) /\ p[x] = slots[x]
  BY <1>6, <1>7 DEF LiveIn
<1>10. \A x \in 0 .. c - 1 : slots[x].ctrl # EMPTY => p[x].ctrl # EMPTY
  BY <1>5, <1>6 DEF EMPTY, DELETED
<1>11. Sound(p, c)
  <2>1. Table(p, c)
    <3>1. ASSUME NEW x \in 0 .. c - 1 PROVE p[x].key # None <=> x \in LiveIn(p, c)
      BY <1>4, <1>5, <1>6, <1>7 DEF Table
    <3> QED  BY <1>6, <3>1 DEF Table
  <2>2. Coded(p, c)  BY <1>4, <1>9 DEF Coded
  <2>3. Distinct(p, c)  BY <1>4, <1>9 DEF Distinct
  <2>4. Reached(p, c)
    <3>1. ASSUME NEW x \in LiveIn(p, c), p[x].key \in Kept
          PROVE  \E j \in 0 .. c - 1 :
                    /\ Probe(hash[p[x].key], j, c) = x
                    /\ \A m \in 0 .. j - 1 : p[Probe(hash[p[x].key], m, c)].ctrl # EMPTY
      <4>1. p[x] = slots[x] /\ x \in LiveIn(slots, c) /\ hash[slots[x].key] \in Nat
        BY <1>1, <1>4, <1>9, LiveKey
      <4>2. PICK j \in 0 .. c - 1 :
                    /\ Probe(hash[slots[x].key], j, c) = x
                    /\ \A m \in 0 .. j - 1 :
                          slots[Probe(hash[slots[x].key], m, c)].ctrl # EMPTY
        BY <1>4, <3>1, <4>1 DEF Reached
      <4>3. \A m \in 0 .. j - 1 : Probe(hash[slots[x].key], m, c) \in 0 .. c - 1
        <5>1. c > 0 /\ \A m \in 0 .. j - 1 : m \in 0 .. c  BY <1>1
        <5> QED  BY <1>1, <4>1, <5>1, ProbeType
      <4> QED  BY <1>10, <4>1, <4>2, <4>3
    <3> QED  BY <3>1 DEF Reached
  <2> QED  BY <2>1, <2>2, <2>3, <2>4 DEF Sound
<1>12. Sound(slots, capacity)'  BY <1>2, <1>11, SoundNext DEF c
<1>13. LiveIn(slots, capacity)' = LiveIn(p, c) /\ DeletedIn(slots, capacity)' = DeletedIn(p, c)
  BY <1>2 DEF LiveIn, DeletedIn, c
<1>14. LoadInv'
  <2>1. /\ IsFiniteSet(LiveIn(slots, c)) /\ IsFiniteSet(DeletedIn(slots, c))
        /\ size \in Nat /\ tombstones \in Nat
    BY <1>1, SlotsFinite DEF LoadInv, c
  <2>2. size' = Cardinality(LiveIn(p, c))
    BY <1>1, <1>2, <1>3, <1>7, <2>1, FS_RemoveElement DEF LoadInv, c
  <2>3. tombstones' = Cardinality(DeletedIn(p, c))
    BY <1>1, <1>2, <1>8, <2>1, FS_AddElement DEF LoadInv, c
  <2>4. (size + tombstones <= GrowThresh)'
    BY <1>1, <1>2, <2>1 DEF LoadInv, GrowThresh
  <2> QED  BY <1>13, <2>2, <2>3, <2>4 DEF LoadInv
<1>15. NumberInv'
  <2>1. \A x \in LiveIn(p, c) : p[x].seq < insert_seq  BY <1>1, <1>9 DEF NumberInv, c
  <2> QED  BY <1>1, <1>2, <1>13, <2>1 DEF NumberInv
<1>16. IInv'  BY <1>1, <1>2, <1>12, <1>14, <1>15 DEF IInv, c
<1>17. EntryIn(slots, c, slots[i].seq, k)  BY <1>3 DEF EntryIn
<1>18. ASSUME NEW n, NEW x
       PROVE  EntryIn(p, c, n, x) <=> EntryIn(slots, c, n, x) /\ n # slots[i].seq
  BY <1>3, <1>4, <1>7, <1>9 DEF EntryIn, Distinct
<1> QED  BY <1>2, <1>16, <1>17, <1>18 DEF c

LEMMA ClearStep ==
  ASSUME IInv, Clear
  PROVE  IInv' /\ \A n, x : ~EntryIn(slots', capacity', n, x)
<1> DEFINE p == EmptyTable(capacity)
<1>1. /\ hash \in [Key -> Nat] /\ capacity \in Nat /\ capacity >= 8 /\ NumberInv  BY DEF IInv
<1>2. /\ slots' = p /\ size' = 0 /\ tombstones' = 0
      /\ UNCHANGED <<hash, capacity, insert_seq, cursor>>
  BY DEF Clear
<1>3. Sound(p, capacity) /\ LiveIn(p, capacity) = {} /\ DeletedIn(p, capacity) = {}
  BY <1>1, EmptySound
<1> HIDE DEF p
<1>4. LiveIn(slots, capacity)' = {} /\ DeletedIn(slots, capacity)' = {}
  BY <1>2, <1>3 DEF LiveIn, DeletedIn
<1>5. Sound(slots, capacity)'  BY <1>2, <1>3, SoundNext
<1>6. LoadInv'  BY <1>1, <1>2, <1>4, FS_EmptySet DEF LoadInv, GrowThresh
<1>7. NumberInv'  BY <1>1, <1>2, <1>4 DEF NumberInv
<1>8. IInv'  BY <1>1, <1>2, <1>5, <1>6, <1>7 DEF IInv
<1> QED  BY <1>2, <1>3, <1>8 DEF EntryIn

\* A step that leaves the table and the hashes alone.
LEMMA TableStays ==
  ASSUME IInv, UNCHANGED <<hash, tableVars>>, cursor' \in 0 .. insert_seq \cup {None}
  PROVE  IInv'
<1>1. /\ hash' = hash /\ capacity' = capacity /\ slots' = slots /\ size' = size
      /\ tombstones' = tombstones /\ insert_seq' = insert_seq
  BY DEF tableVars
<1>2. Sound(slots, capacity)'  BY <1>1, SoundNext DEF IInv
<1>3. LiveIn(slots, capacity)' = LiveIn(slots, capacity)
      /\ DeletedIn(slots, capacity)' = DeletedIn(slots, capacity)
  BY <1>1 DEF LiveIn, DeletedIn
<1>4. LoadInv'  BY <1>1, <1>3 DEF IInv, LoadInv, GrowThresh
<1>5. NumberInv'  BY <1>1, <1>3 DEF IInv, NumberInv
<1> QED  BY <1>1, <1>2, <1>4, <1>5 DEF IInv

LEMMA VisitStep ==
  ASSUME IInv, NEW n, VisitFrom(n)
  PROVE  IInv'
<1>1. capacity \in Nat /\ Table(slots, capacity) /\ NumberInv /\ insert_seq \in Nat
  BY DEF IInv, Sound, NumberInv
<1>2. PICK i \in Live : cursor' = slots[i].seq + 1  BY DEF VisitFrom, Ahead
<1>3. i \in LiveIn(slots, capacity) /\ slots[i].seq \in Nat  BY <1>1, <1>2, SlotSets, LiveKey
<1>4. cursor' \in 0 .. insert_seq  BY <1>1, <1>2, <1>3 DEF NumberInv
<1> QED  BY <1>4, TableStays DEF VisitFrom

LEMMA Stepped == IInv /\ [Next]_vars => IInv'
<1> SUFFICES ASSUME IInv, [Next]_vars PROVE IInv'  OBVIOUS
<1>1. ASSUME NEW k \in Key, Set(k) PROVE IInv'  BY <1>1, SetStep
<1>2. ASSUME NEW k \in Key, Delete(k) PROVE IInv'  BY <1>2, DeleteStep
<1>3. CASE Clear  BY <1>3, ClearStep
<1>4. CASE StartForEach  BY <1>4, VisitStep DEF StartForEach
<1>5. CASE NextLive  BY <1>5, VisitStep DEF NextLive
<1>6. CASE EndForEach  BY <1>6, TableStays DEF EndForEach
<1>7. CASE UNCHANGED vars
  <2>1. UNCHANGED <<hash, tableVars>> /\ cursor' = cursor  BY <1>7 DEF vars, tableVars
  <2> QED  BY <2>1, TableStays DEF IInv, NumberInv
<1> QED  BY <1>1, <1>2, <1>3, <1>4, <1>5, <1>6, <1>7 DEF Next, Mutate

\* The object of a key moves: one key less hashes as it did, the table is the same.
LEMMA Relocated ==
  ASSUME IInv, NEW k \in Movable, Relocate(k)
  PROVE  IInv'
<1>1. /\ hash \in [Key -> Nat] /\ NewHash[k] \in Nat /\ k \in Key
      /\ hash' = [hash EXCEPT ![k] = NewHash[k]]
      /\ capacity' = capacity /\ slots' = slots /\ size' = size
      /\ tombstones' = tombstones /\ insert_seq' = insert_seq /\ cursor' = cursor
  BY TableAssumption DEF IInv, Relocate, tableVars
<1>2. hash' \in [Key -> Nat]  BY <1>1
<1>3. \A x \in Kept' : x \in Kept /\ hash'[x] = hash[x]
  <2>1. ASSUME NEW x \in Key, hash'[x] = Hash[x] PROVE hash[x] = Hash[x]
    <3>1. CASE x = k  BY <3>1 DEF Relocate
    <3>2. CASE x # k  BY <1>1, <2>1, <3>2
    <3> QED  BY <3>1, <3>2
  <2> QED  BY <2>1 DEF Kept
<1>4. LiveIn(slots, capacity)' = LiveIn(slots, capacity)
      /\ DeletedIn(slots, capacity)' = DeletedIn(slots, capacity)
  BY <1>1 DEF LiveIn, DeletedIn
<1>5. /\ Table(slots, capacity) /\ Coded(slots, capacity)
      /\ Reached(slots, capacity) /\ Distinct(slots, capacity)
  BY DEF IInv, Sound
<1>6. Table(slots, capacity)'  BY <1>1, <1>4, <1>5 DEF Table
<1>7. Coded(slots, capacity)'  BY <1>1, <1>3, <1>4, <1>5 DEF Coded
<1>8. Reached(slots, capacity)'  BY <1>1, <1>3, <1>4, <1>5 DEF Reached
<1>9. Distinct(slots, capacity)'  BY <1>1, <1>3, <1>4, <1>5 DEF Distinct
<1>10. NumberInv' /\ LoadInv'  BY <1>1, <1>4 DEF IInv, NumberInv, LoadInv, GrowThresh
<1> QED  BY <1>1, <1>2, <1>6, <1>7, <1>8, <1>9, <1>10 DEF IInv, Sound

------------------------------------------------------------------------------
(* Theorems, of the table alone and of the table whose keys a minor          *)
(* collection may move.                                                      *)

\* The inductive invariant holds in every reachable state.
THEOREM Invariance == Spec => []IInv
BY Started, Stepped, PTL DEF Spec

\* It holds, too, when objects that are keys move.
THEOREM MovingInvariance == MovingSpec => []IInv
<1>1. IInv /\ [Next \/ \E k \in Movable : Relocate(k)]_vars => IInv'
  BY Stepped, Relocated
<1> QED  BY <1>1, Started, PTL DEF MovingSpec

\* Otherwise no hash changes: every key is kept.
LEMMA AllKept == Spec => [](Kept = Key)
<1>1. Init => Kept = Key  BY DEF Init, Kept
<1>2. Kept = Key /\ [Next]_vars => (Kept = Key)'
  BY DEF Kept, Next, Mutate, Set, Delete, Clear, StartForEach, NextLive, VisitFrom,
         EndForEach, vars
<1> QED  BY <1>1, <1>2, PTL DEF Spec

LEMMA HasType == IInv => TypeOK
<1> SUFFICES ASSUME IInv PROVE TypeOK  OBVIOUS
<1>1. /\ capacity \in Nat /\ Table(slots, capacity) /\ NumberInv /\ LoadInv
      /\ slots \in [0 .. capacity - 1 -> Slot] /\ MaxSeq \in Nat
  BY TableAssumption DEF IInv, Sound, Table
<1>2. size \in Nat /\ tombstones \in Nat  BY <1>1, SlotsFinite DEF LoadInv
<1>3. insert_seq \in 0 .. MaxSeq /\ cursor \in 0 .. MaxSeq \cup {None}
  BY <1>1 DEF NumberInv
<1>4. \A i \in DOMAIN slots : slots[i].key # None <=> i \in Live
  BY <1>1, SlotSets DEF Table
<1> QED  BY <1>1, <1>2, <1>3, <1>4 DEF TypeOK

\* Every variable has its type, and a slot has a key exactly when it is live.
THEOREM TypeCorrect == Spec => []TypeOK
BY HasType, Invariance, PTL

LEMMA Counted == IInv => CountersExact
BY SlotSets DEF IInv, Sound, LoadInv, CountersExact

\* size_ and tombstones_ count the live and the deleted slots, through every
\* history of inserts, deletes, reused tombstones, rehashes and clears.
THEOREM CountersAgree == Spec => []CountersExact
BY Counted, Invariance, PTL

\* They do also when a key is no longer found after its object has moved, and is
\* then inserted again.
THEOREM MovedCountersAgree == MovingSpec => []CountersExact
BY Counted, MovingInvariance, PTL

\* The load is below the capacity.
LEMMA RoomForProbes == IInv => EmptySlotRemains
<1> SUFFICES ASSUME IInv PROVE EmptySlotRemains  OBVIOUS
<1> DEFINE L == LiveIn(slots, capacity)
           D == DeletedIn(slots, capacity)
<1>1. capacity \in Nat /\ capacity >= 8 /\ Table(slots, capacity) /\ LoadInv
  BY DEF IInv, Sound
<1>2. /\ IsFiniteSet(L) /\ IsFiniteSet(D) /\ Cardinality(0 .. capacity - 1) = capacity
      /\ size = Cardinality(L) /\ tombstones = Cardinality(D)
      /\ size \in Nat /\ tombstones \in Nat
  BY <1>1, SlotsFinite DEF LoadInv
<1>3. L \cap D = {} /\ L \cup D \subseteq 0 .. capacity - 1
  BY DEF LiveIn, DeletedIn
<1> HIDE DEF L, D
<1>4. Cardinality(L \cup D) = size + tombstones
  <2>1. Cardinality(L \cup D) = Cardinality(L) + Cardinality(D) - Cardinality(L \cap D)
    BY <1>2, FS_Union
  <2>2. Cardinality(L \cap D) = 0  BY <1>3, FS_EmptySet
  <2> QED  BY <1>2, <2>1, <2>2
<1>5. size + tombstones < capacity  BY <1>1, <1>2 DEF LoadInv, GrowThresh
<1>6. L \cup D # 0 .. capacity - 1
  <2> DEFINE A == 0 .. capacity - 1
             U == L \cup D
  <2>1. Cardinality(A) = capacity /\ Cardinality(U) < capacity  BY <1>1, <1>2, <1>4, <1>5
  <2> HIDE DEF A, U
  <2>2. U # A  BY <1>1, <2>1
  <2> QED  BY <2>2 DEF A, U
<1>7. PICK i \in 0 .. capacity - 1 : i \notin L \cup D  BY <1>3, <1>6
<1>8. i \in Unused
  BY <1>1, <1>7, SlotSets DEF Unused, L, D, LiveIn, DeletedIn
<1> QED  BY <1>8 DEF EmptySlotRemains

\* The probe for an absent key, and the loop of insert_entry, end: the load never
\* reaches the capacity.
THEOREM ProbesEnd == Spec => []EmptySlotRemains
BY RoomForProbes, Invariance, PTL

\* They end also when keys move, whatever the table then misses or holds twice.
THEOREM MovedProbesEnd == MovingSpec => []EmptySlotRemains
BY RoomForProbes, MovingInvariance, PTL

\* What a collection cannot take from the table: a key that has not moved itself
\* is found where it is.
KeptFound == \A i \in Live : slots[i].key \in Kept => find_slot(slots[i].key) = i

LEMMA KeptIsFound == IInv => KeptFound
<1> SUFFICES ASSUME IInv, NEW i \in Live, slots[i].key \in Kept
             PROVE  find_slot(slots[i].key) = i
  BY DEF KeptFound
<1>1. hash \in [Key -> Nat] /\ capacity \in Nat /\ capacity > 0 /\ Sound(slots, capacity)
  BY DEF IInv
<1>2. i \in LiveIn(slots, capacity)  BY <1>1, SlotSets DEF Sound
<1> QED  BY <1>1, <1>2, Finds

\* The loss is confined to the keys that moved: every other one is found, and
\* found where it is, among entries that are lost or there twice.
THEOREM OthersAreFound == MovingSpec => []KeptFound
BY KeptIsFound, MovingInvariance, PTL

\* Every key in the table is found, and found where it is, however the hashes
\* collide and whatever was deleted, rehashed or cleared before.
THEOREM KeysAreFound == Spec => []LookupExact
<1>1. IInv /\ Kept = Key => LookupExact
  <2> SUFFICES ASSUME IInv, Kept = Key, NEW i \in Live PROVE find_slot(slots[i].key) = i
    BY DEF LookupExact
  <2>1. slots[i].key \in Key
    <3>1. i \in LiveIn(slots, capacity) /\ Table(slots, capacity)
      BY SlotSets DEF IInv, Sound
    <3> QED  BY <3>1, LiveKey
  <2> QED  BY <2>1, KeptIsFound DEF KeptFound
<1> QED  BY <1>1, Invariance, AllKept, PTL

\* While no object that is a key moves, what is in the table stays found: what
\* loses members is the minor collection, which is not a step of Spec.
THEOREM MembersStay == Spec => []MembershipSurvives
<1>1. IInv /\ LookupExact => MembershipSurvives
  <2> SUFFICES ASSUME IInv, LookupExact, NEW i \in Live PROVE find_slot(slots[i].key) # None
    BY DEF MembershipSurvives
  <2>1. i \in 0 .. capacity - 1 /\ capacity \in Nat  BY DEF IInv, Sound, Table, Live
  <2>2. i # None  BY <2>1, TableAssumption
  <2> QED  BY <2>2 DEF LookupExact
<1> QED  BY <1>1, Invariance, KeysAreFound, PTL

------------------------------------------------------------------------------
(* The keys in the order of their numbers.                                   *)

\* RemoveAt of the abstract specification.
Without(s, i) == SubSeq(s, 1, i - 1) \o SubSeq(s, i + 1, Len(s))

\* The key with number n is k, in the table as it is.
Entry(n, k) == EntryIn(slots, capacity, n, k)

\* How KeysBelow grows.
Listed ==
    /\ KeysBelow \in [0 .. MaxSeq -> Seq(Key)]
    /\ KeysBelow[0] = <<>>
    /\ \A n \in 0 .. MaxSeq - 1 :
          /\ (\A k \in Key : ~Entry(n, k)) => KeysBelow[n + 1] = KeysBelow[n]
          /\ \A k \in Key : Entry(n, k) => KeysBelow[n + 1] = Append(KeysBelow[n], k)

\* What a sequence is without one of its elements.
LEMMA WithoutIs ==
  ASSUME NEW S, NEW s \in Seq(S), NEW i \in 1 .. Len(s)
  PROVE  /\ Without(s, i) \in Seq(S) /\ Len(Without(s, i)) = Len(s) - 1
         /\ \A j \in 1 .. Len(s) - 1 : Without(s, i)[j] = IF j < i THEN s[j] ELSE s[j + 1]
<1> DEFINE a == SubSeq(s, 1, i - 1)
           b == SubSeq(s, i + 1, Len(s))
<1>1. Len(s) \in Nat /\ \A j \in 1 .. Len(s) : s[j] \in S  BY LenProperties, ElementOfSeq
<1>2. a \in Seq(S) /\ Len(a) = i - 1 /\ \A j \in 1 .. i - 1 : a[j] = s[j]
  <2>1. /\ a \in Seq(S) /\ Len(a) = (IF 1 <= i - 1 THEN i - 1 - 1 + 1 ELSE 0)
        /\ \A j \in 1 .. i - 1 - 1 + 1 : a[j] = s[1 + j - 1]
    <3>1. 1 \in Int /\ i - 1 \in Int /\ \A j \in 1 .. i - 1 : s[j] \in S  BY <1>1
    <3> HIDE DEF a
    <3> QED  BY <3>1, SubSeqProperties DEF a
  <2> HIDE DEF a
  <2> QED  BY <1>1, <2>1
<1>3. b \in Seq(S) /\ Len(b) = Len(s) - i /\ \A j \in 1 .. Len(s) - i : b[j] = s[i + j]
  <2>1. /\ b \in Seq(S)
        /\ Len(b) = (IF i + 1 <= Len(s) THEN Len(s) - (i + 1) + 1 ELSE 0)
        /\ \A j \in 1 .. Len(s) - (i + 1) + 1 : b[j] = s[i + 1 + j - 1]
    <3>1. i + 1 \in Int /\ Len(s) \in Int /\ \A j \in i + 1 .. Len(s) : s[j] \in S  BY <1>1
    <3> HIDE DEF b
    <3> QED  BY <3>1, SubSeqProperties DEF b
  <2> HIDE DEF b
  <2> QED  BY <1>1, <2>1
<1> HIDE DEF a, b
<1>4. /\ a \o b \in Seq(S) /\ Len(a \o b) = Len(a) + Len(b)
      /\ \A j \in 1 .. Len(a) + Len(b) :
            (a \o b)[j] = IF j <= Len(a) THEN a[j] ELSE b[j - Len(a)]
  BY <1>2, <1>3, ConcatProperties
<1>5. ASSUME NEW j \in 1 .. Len(s) - 1
      PROVE  (a \o b)[j] = IF j < i THEN s[j] ELSE s[j + 1]
  <2>1. (a \o b)[j] = IF j <= i - 1 THEN a[j] ELSE b[j - (i - 1)]
    <3>1. j \in 1 .. Len(a) + Len(b)  BY <1>1, <1>2, <1>3
    <3> QED  BY <1>2, <1>4, <3>1
  <2>2. CASE j < i
    <3>1. j <= i - 1 /\ j \in 1 .. i - 1  BY <2>2
    <3> QED  BY <1>2, <2>1, <2>2, <3>1
  <2>3. CASE ~(j < i)
    <3>1. ~(j <= i - 1) /\ j - (i - 1) \in 1 .. Len(s) - i /\ i + (j - (i - 1)) = j + 1
      BY <1>1, <2>3
    <3>2. b[j - (i - 1)] = s[i + (j - (i - 1))]  BY <1>3, <3>1
    <3> QED  BY <2>1, <2>3, <3>1, <3>2
  <2> QED  BY <2>2, <2>3
<1>6. Without(s, i) = a \o b  BY DEF Without, a, b
<1>7. Len(a) + Len(b) = Len(s) - 1  BY <1>1, <1>2, <1>3
<1> QED  BY <1>4, <1>5, <1>6, <1>7

\* The last element is taken away again.
LEMMA WithoutLast ==
  ASSUME NEW S, NEW s \in Seq(S), NEW e \in S
  PROVE  Without(Append(s, e), Len(s) + 1) = s
<1> DEFINE a == Append(s, e)
           w == Without(a, Len(s) + 1)
<1>1. /\ a \in Seq(S) /\ Len(a) = Len(s) + 1 /\ Len(s) \in Nat
      /\ \A i \in 1 .. Len(s) : a[i] = s[i]
  BY AppendProperties, LenProperties
<1> HIDE DEF a
<1>2. /\ w \in Seq(S) /\ Len(w) = Len(a) - 1
      /\ \A j \in 1 .. Len(a) - 1 : w[j] = IF j < Len(s) + 1 THEN a[j] ELSE a[j + 1]
  <2>1. Len(s) + 1 \in 1 .. Len(a)  BY <1>1
  <2> QED  BY <1>1, <2>1, WithoutIs
<1> HIDE DEF w
<1>3. Len(w) = Len(s) /\ \A j \in 1 .. Len(w) : w[j] = s[j]  BY <1>1, <1>2
<1>4. w = s  BY <1>2, <1>3, SeqEqual
<1> QED  BY <1>4 DEF w, a

\* Any other element is taken away before or after one is appended.
LEMMA WithoutEarlier ==
  ASSUME NEW S, NEW s \in Seq(S), NEW e \in S, NEW i \in 1 .. Len(s)
  PROVE  Without(Append(s, e), i) = Append(Without(s, i), e)
<1> DEFINE a == Append(s, e)
           u == Without(s, i)
           l == Without(a, i)
           r == Append(u, e)
<1>1. /\ a \in Seq(S) /\ Len(a) = Len(s) + 1 /\ Len(s) \in Nat
      /\ \A j \in 1 .. Len(s) : a[j] = s[j]
      /\ a[Len(s) + 1] = e
  BY AppendProperties, LenProperties
<1> HIDE DEF a
<1>2. /\ u \in Seq(S) /\ Len(u) = Len(s) - 1
      /\ \A j \in 1 .. Len(s) - 1 : u[j] = IF j < i THEN s[j] ELSE s[j + 1]
  BY WithoutIs
<1> HIDE DEF u
<1>3. /\ l \in Seq(S) /\ Len(l) = Len(a) - 1
      /\ \A j \in 1 .. Len(a) - 1 : l[j] = IF j < i THEN a[j] ELSE a[j + 1]
  <2>1. i \in 1 .. Len(a)  BY <1>1
  <2> QED  BY <1>1, <2>1, WithoutIs
<1>4. /\ r \in Seq(S) /\ Len(r) = Len(u) + 1
      /\ \A j \in 1 .. Len(u) : r[j] = u[j]
      /\ r[Len(u) + 1] = e
  BY <1>2, AppendProperties
<1> HIDE DEF l, r
<1>5. Len(l) = Len(s) /\ Len(r) = Len(s)  BY <1>1, <1>2, <1>3, <1>4
<1>6. ASSUME NEW j \in 1 .. Len(l) PROVE l[j] = r[j]
  <2>1. CASE j = Len(s)
    <3>1. l[j] = a[j + 1]  BY <1>1, <1>3, <1>5, <2>1
    <3>2. r[j] = e  BY <1>1, <1>2, <1>4, <2>1
    <3> QED  BY <1>1, <2>1, <3>1, <3>2
  <2>2. CASE j < Len(s)
    <3>1. j \in 1 .. Len(s) - 1 /\ j + 1 \in 1 .. Len(s) /\ j \in 1 .. Len(s)
      BY <1>1, <1>5, <2>2
    <3>2. r[j] = u[j]  BY <1>2, <1>4, <3>1
    <3>3. l[j] = IF j < i THEN s[j] ELSE s[j + 1]  BY <1>1, <1>3, <3>1
    <3> QED  BY <1>2, <3>1, <3>2, <3>3
  <2> QED  BY <1>1, <1>5, <2>1, <2>2
<1>7. l = r  BY <1>3, <1>4, <1>5, <1>6, SeqEqual
<1> QED  BY <1>7 DEF l, r, a, u

\* A number has at most one key; numbers are below the counter.
LEMMA EntryOnce ==
  ASSUME IInv, NEW n, NEW k, Entry(n, k)
  PROVE  /\ k \in Key /\ n \in Nat /\ n < insert_seq /\ n \in 0 .. MaxSeq - 1
         /\ \A kk : Entry(n, kk) => kk = k
<1>1. /\ Live = LiveIn(slots, capacity) /\ Table(slots, capacity) /\ Distinct(slots, capacity)
      /\ NumberInv /\ MaxSeq \in Nat
  BY SlotSets, TableAssumption DEF IInv, Sound
<1>2. PICK i \in Live : slots[i].seq = n /\ slots[i].key = k  BY <1>1 DEF Entry, EntryIn
<1>3. k \in Key /\ n \in Nat  BY <1>1, <1>2, LiveKey
<1>4. n < insert_seq /\ insert_seq \in 0 .. MaxSeq  BY <1>1, <1>2 DEF NumberInv
<1>5. \A kk : Entry(n, kk) => kk = k  BY <1>1, <1>2 DEF Entry, EntryIn, Distinct
<1> QED  BY <1>1, <1>3, <1>4, <1>5

\* KeysBelow is what its recursive definition says.
LEMMA ListGrows == IInv => Listed
<1> SUFFICES ASSUME IInv PROVE Listed  OBVIOUS
<1> DEFINE S == Seq(Key)
           N == MaxSeq
           Add(n, s) == IF Numbered(n - 1) = {} THEN s
                        ELSE Append(s, slots[CHOOSE i \in Numbered(n - 1) : TRUE].key)
           F == [n \in 1 .. N |-> [s \in S |-> Add(n, s)]]
           Step(f) == [n \in 0 .. N |-> IF n = 0 THEN <<>> ELSE Add(n, f[n - 1])]
<1>1. N \in Nat /\ <<>> \in S /\ Live = LiveIn(slots, capacity)
  BY TableAssumption, EmptySeq, SlotSets DEF IInv, Sound
<1>2. ASSUME NEW n \in 1 .. N, NEW s \in S
      PROVE  /\ Add(n, s) \in S
             /\ (\A k \in Key : ~Entry(n - 1, k)) => Add(n, s) = s
             /\ \A k \in Key : Entry(n - 1, k) => Add(n, s) = Append(s, k)
  <2>1. ASSUME NEW i \in Numbered(n - 1)
        PROVE  slots[i].key \in Key /\ Entry(n - 1, slots[i].key)
    <3>1. i \in Live /\ slots[i].seq = n - 1  BY <2>1 DEF Numbered
    <3>2. Entry(n - 1, slots[i].key)  BY <1>1, <3>1 DEF Entry, EntryIn
    <3> QED  BY <3>2, EntryOnce
  <2>2. CASE Numbered(n - 1) = {}
    <3>1. \A k : ~Entry(n - 1, k)  BY <1>1, <2>2 DEF Entry, EntryIn, Numbered
    <3> QED  BY <2>2, <3>1
  <2>3. CASE Numbered(n - 1) # {}
    <3> DEFINE i == CHOOSE i \in Numbered(n - 1) : TRUE
    <3>1. i \in Numbered(n - 1)  BY <2>3
    <3>2. slots[i].key \in Key /\ Entry(n - 1, slots[i].key)  BY <2>1, <3>1
    <3>3. Add(n, s) = Append(s, slots[i].key)  BY <2>3
    <3> HIDE DEF i, Add
    <3>4. \A k : Entry(n - 1, k) => k = slots[i].key  BY <3>2, EntryOnce
    <3>5. Append(s, slots[i].key) \in S  BY <3>2, AppendProperties
    <3> QED  BY <3>2, <3>3, <3>4, <3>5
  <2> QED  BY <2>2, <2>3
<1> HIDE DEF S, Add
<1>3. F \in [1 .. N -> [S -> S]]  BY <1>2
<1>4. PICK f \in [0 .. N -> S] : Iterates(f, N, <<>>, F)
  <2> DEFINE e == <<>>
  <2> HIDE DEF F, e, N
  <2>1. \E f \in [0 .. N -> S] : Iterates(f, N, e, F)  BY <1>1, <1>3, Recursion DEF e
  <2> QED  BY <2>1 DEF e
<1>5. f = Step(f)
  <2>1. ASSUME NEW n \in 1 .. N PROVE f[n] = Add(n, f[n - 1])
    <3>1. f[n - 1] \in S /\ f[n] = F[n][f[n - 1]]  BY <1>1, <1>4 DEF Iterates
    <3> QED  BY <3>1
  <2>2. ASSUME NEW n \in 0 .. N PROVE f[n] = Step(f)[n]
    <3>1. CASE n = 0  BY <1>4, <3>1 DEF Iterates
    <3>2. CASE n # 0  BY <2>1, <3>2
    <3> QED  BY <3>1, <3>2
  <2> QED  BY <2>2
<1>6. KeysBelow = CHOOSE g : g = Step(g)  BY DEF KeysBelow, Add
<1>7. KeysBelow = Step(KeysBelow)  BY <1>5, <1>6
<1>8. KeysBelow[0] = <<>> /\ \A n \in 1 .. N : KeysBelow[n] = Add(n, KeysBelow[n - 1])
  BY <1>1, <1>7
<1>9. \A n \in 0 .. N : KeysBelow[n] \in S
  <2> DEFINE T == {n \in 0 .. N : KeysBelow[n] \in S}
  <2>1. 0 \in T  BY <1>1, <1>8
  <2>2. \A n \in 1 .. N : n - 1 \in T => n \in T  BY <1>2, <1>8
  <2>3. 0 .. N \subseteq T
    <3> HIDE DEF T
    <3> QED  BY <1>1, <2>1, <2>2, Inductive
  <2> QED  BY <2>3
<1>10. KeysBelow \in [0 .. N -> S]
  <2>1. KeysBelow = [n \in 0 .. N |-> KeysBelow[n]]  BY <1>7
  <2> QED  BY <1>9, <2>1
<1>11. ASSUME NEW n \in 0 .. N - 1
       PROVE  /\ (\A k \in Key : ~Entry(n, k)) => KeysBelow[n + 1] = KeysBelow[n]
              /\ \A k \in Key : Entry(n, k) => KeysBelow[n + 1] = Append(KeysBelow[n], k)
  <2>1. n + 1 \in 1 .. N /\ (n + 1) - 1 = n /\ KeysBelow[n] \in S  BY <1>1, <1>9
  <2>2. KeysBelow[n + 1] = Add(n + 1, KeysBelow[n])  BY <1>8, <2>1
  <2> QED  BY <1>2, <2>1, <2>2
<1> QED  BY <1>8, <1>10, <1>11 DEF Listed, S

\* Between two numbers without a key in between nothing is added.
LEMMA NothingBetween ==
  ASSUME Listed, MaxSeq \in Nat, NEW a \in 0 .. MaxSeq, NEW b \in 0 .. MaxSeq, a <= b,
         \A n \in a .. b - 1 : \A k \in Key : ~Entry(n, k)
  PROVE  KeysBelow[b] = KeysBelow[a]
<1> DEFINE T == {m \in 0 .. b - a : KeysBelow[a + m] = KeysBelow[a]}
<1>1. 0 \in T  OBVIOUS
<1>2. ASSUME NEW m \in 1 .. b - a, m - 1 \in T PROVE m \in T
  <2>1. a + (m - 1) \in a .. b - 1 /\ a + (m - 1) \in 0 .. MaxSeq - 1
        /\ a + (m - 1) + 1 = a + m
    OBVIOUS
  <2>2. KeysBelow[a + m] = KeysBelow[a + (m - 1)]  BY <2>1 DEF Listed
  <2> QED  BY <1>2, <2>2
<1>3. b - a \in T
  <2> HIDE DEF T
  <2>1. b - a \in Nat /\ \A m \in 1 .. b - a : m - 1 \in T => m \in T  BY <1>2
  <2>2. 0 .. b - a \subseteq T  BY <1>1, <2>1, Inductive
  <2> QED  BY <2>1, <2>2
<1> QED  BY <1>3

\* The keys below n are keys with a number below n.
LEMMA ListedKeys ==
  ASSUME IInv, Listed, NEW n \in 0 .. MaxSeq, NEW j \in 1 .. Len(KeysBelow[n])
  PROVE  \E m \in 0 .. n - 1 : Entry(m, KeysBelow[n][j])
<1> DEFINE Good(x) == \A i \in 1 .. Len(KeysBelow[x]) :
                          \E m \in 0 .. x - 1 : Entry(m, KeysBelow[x][i])
           T == {x \in 0 .. MaxSeq : Good(x)}
<1>1. MaxSeq \in Nat  BY TableAssumption
<1>2. 0 \in T
  <2>1. 1 .. Len(KeysBelow[0]) = {}  BY EmptySeq DEF Listed
  <2> QED  BY <1>1, <2>1
<1>3. ASSUME NEW x \in 1 .. MaxSeq, x - 1 \in T PROVE x \in T
  <2> DEFINE s == KeysBelow[x - 1]
  <2>1. s \in Seq(Key) /\ x - 1 \in 0 .. MaxSeq - 1 /\ (x - 1) + 1 = x
    <3>1. x - 1 \in 0 .. MaxSeq - 1 /\ x - 1 \in 0 .. MaxSeq /\ (x - 1) + 1 = x  BY <1>1
    <3> QED  BY <3>1 DEF Listed
  <2>2. Good(x - 1)  BY <1>3
  <2>3. CASE \A k \in Key : ~Entry(x - 1, k)
    <3>1. KeysBelow[x] = s  BY <2>1, <2>3 DEF Listed
    <3>2. \A m \in 0 .. (x - 1) - 1 : m \in 0 .. x - 1  BY <2>1
    <3>3. Good(x)  BY <2>2, <3>1, <3>2
    <3> HIDE DEF Good
    <3> QED  BY <3>3
  <2>4. CASE \E k \in Key : Entry(x - 1, k)
    <3>1. PICK k \in Key : Entry(x - 1, k)  BY <2>4
    <3>2. KeysBelow[x] = Append(s, k)  BY <2>1, <3>1 DEF Listed
    <3>3. /\ Len(KeysBelow[x]) = Len(s) + 1 /\ Len(s) \in Nat
          /\ \A i \in 1 .. Len(s) : KeysBelow[x][i] = s[i]
          /\ KeysBelow[x][Len(s) + 1] = k
      BY <2>1, <3>2, AppendProperties, LenProperties
    <3>4. ASSUME NEW i \in 1 .. Len(KeysBelow[x])
          PROVE  \E m \in 0 .. x - 1 : Entry(m, KeysBelow[x][i])
      <4>1. CASE i = Len(s) + 1
        <5>1. x - 1 \in 0 .. x - 1  BY <2>1
        <5> QED  BY <3>1, <3>3, <4>1, <5>1
      <4>2. CASE i # Len(s) + 1
        <5>1. i \in 1 .. Len(s) /\ KeysBelow[x][i] = s[i]
          <6> HIDE DEF s
          <6> QED  BY ONLY <3>3, <4>2, i \in 1 .. Len(KeysBelow[x])
        <5>2. PICK m \in 0 .. (x - 1) - 1 : Entry(m, s[i])  BY <2>2, <5>1
        <5>3. m \in 0 .. x - 1  BY <2>1
        <5> QED  BY <5>1, <5>2, <5>3
      <4> QED  BY <4>1, <4>2
    <3>5. Good(x)  BY <3>4
    <3> HIDE DEF Good
    <3> QED  BY <3>5
  <2> QED  BY <2>3, <2>4
<1>4. n \in T
  <2> HIDE DEF T
  <2>1. \A x \in 1 .. MaxSeq : x - 1 \in T => x \in T  BY <1>3
  <2>2. 0 .. MaxSeq \subseteq T  BY <1>1, <1>2, <2>1, Inductive
  <2> QED  BY <2>2
<1> QED  BY <1>4

\* Where the keys below m have not changed, neither has their list.
LEMMA SameBelow ==
  ASSUME IInv, IInv', Listed, Listed', NEW m \in 0 .. MaxSeq,
         \A n \in 0 .. m - 1 : \A k : Entry(n, k)' <=> Entry(n, k)
  PROVE  \A n \in 0 .. m : KeysBelow'[n] = KeysBelow[n]
<1> DEFINE T == {n \in 0 .. m : KeysBelow'[n] = KeysBelow[n]}
<1>1. MaxSeq \in Nat  BY TableAssumption
<1>2. 0 \in T  BY DEF Listed
<1>3. ASSUME NEW n \in 1 .. m, n - 1 \in T PROVE n \in T
  <2>1. n - 1 \in 0 .. m - 1 /\ n - 1 \in 0 .. MaxSeq - 1 /\ (n - 1) + 1 = n  BY <1>1
  <2>2. /\ (\A k \in Key : ~Entry(n - 1, k)) => KeysBelow[n] = KeysBelow[n - 1]
        /\ \A k \in Key : Entry(n - 1, k) => KeysBelow[n] = Append(KeysBelow[n - 1], k)
    BY <2>1 DEF Listed
  <2>3. /\ (\A k \in Key : ~Entry(n - 1, k)') => KeysBelow'[n] = KeysBelow'[n - 1]
        /\ \A k \in Key : Entry(n - 1, k)' => KeysBelow'[n] = Append(KeysBelow'[n - 1], k)
    BY <2>1 DEF Listed
  <2>4. KeysBelow'[n - 1] = KeysBelow[n - 1]  BY <1>3
  <2>5. \A k : Entry(n - 1, k)' <=> Entry(n - 1, k)  BY ONLY <2>1, m \in 0 .. MaxSeq,
          \A x \in 0 .. m - 1 : \A k : Entry(x, k)' <=> Entry(x, k)
  <2>6. KeysBelow'[n] = KeysBelow[n]
    <3>1. CASE \A k \in Key : ~Entry(n - 1, k)
      BY ONLY <2>2, <2>3, <2>4, <2>5, <3>1
    <3>2. CASE \E k \in Key : Entry(n - 1, k)
      <4>1. PICK k \in Key : Entry(n - 1, k)  BY <3>2
      <4>2. KeysBelow[n] = Append(KeysBelow[n - 1], k)  BY ONLY <2>2, <4>1
      <4>3. Entry(n - 1, k)'  BY ONLY <2>5, <4>1
      <4>4. KeysBelow'[n] = Append(KeysBelow'[n - 1], k)  BY ONLY <2>3, <4>1, <4>3
      <4> QED  BY ONLY <2>4, <4>2, <4>4
    <3> QED  BY ONLY <3>1, <3>2
  <2> QED  BY <2>6
<1>4. 0 .. m \subseteq T
  <2> HIDE DEF T
  <2>1. \A n \in 1 .. m : n - 1 \in T => n \in T  BY <1>3
  <2> QED  BY <1>1, <1>2, <2>1, Inductive
<1> QED  BY <1>4

\* Lists get longer.
LEMMA Longer ==
  ASSUME Listed, MaxSeq \in Nat, NEW a \in 0 .. MaxSeq, NEW b \in 0 .. MaxSeq, a <= b
  PROVE  Len(KeysBelow[a]) <= Len(KeysBelow[b])
<1> DEFINE T == {m \in 0 .. b - a : Len(KeysBelow[a]) <= Len(KeysBelow[a + m])}
<1>1. ASSUME NEW n \in 0 .. MaxSeq PROVE KeysBelow[n] \in Seq(Key) /\ Len(KeysBelow[n]) \in Nat
  <2>1. KeysBelow[n] \in Seq(Key)  BY DEF Listed
  <2> QED  BY <2>1, LenProperties
<1>2. 0 \in T  BY <1>1
<1>3. ASSUME NEW m \in 1 .. b - a, m - 1 \in T PROVE m \in T
  <2> DEFINE n == a + (m - 1)
  <2>1. n \in 0 .. MaxSeq - 1 /\ n + 1 = a + m /\ n + 1 \in 0 .. MaxSeq /\ n \in 0 .. MaxSeq
    OBVIOUS
  <2>2. Len(KeysBelow[a]) <= Len(KeysBelow[n])  BY <1>3
  <2> HIDE DEF n
  <2>3. Len(KeysBelow[n + 1]) \in {Len(KeysBelow[n]), Len(KeysBelow[n]) + 1}
    <3>1. CASE \A k \in Key : ~Entry(n, k)  BY <2>1, <3>1 DEF Listed
    <3>2. CASE \E k \in Key : Entry(n, k)
      <4>1. PICK k \in Key : KeysBelow[n + 1] = Append(KeysBelow[n], k)
        BY <2>1, <3>2 DEF Listed
      <4> QED  BY <1>1, <2>1, <4>1, AppendProperties
    <3> QED  BY <3>1, <3>2
  <2>4. Len(KeysBelow[a]) <= Len(KeysBelow[n + 1])  BY <1>1, <2>1, <2>2, <2>3
  <2> QED  BY <2>1, <2>4
<1>4. b - a \in T
  <2> HIDE DEF T
  <2>1. b - a \in Nat /\ \A m \in 1 .. b - a : m - 1 \in T => m \in T  BY <1>3
  <2>2. 0 .. b - a \subseteq T  BY <1>2, <2>1, Inductive
  <2> QED  BY <2>1, <2>2
<1> QED  BY <1>4

\* Where nothing has a number below n, no key is below n.
NoneListed == \A n \in 0 .. MaxSeq :
    (\A m \in 0 .. n - 1 : \A k \in Key : ~Entry(m, k)) => KeysBelow[n] = <<>>

LEMMA NothingListed == Listed => NoneListed
<1> SUFFICES ASSUME Listed, NEW n \in 0 .. MaxSeq,
                    \A m \in 0 .. n - 1 : \A k \in Key : ~Entry(m, k)
             PROVE  KeysBelow[n] = <<>>
  BY DEF NoneListed
<1>1. MaxSeq \in Nat /\ 0 \in 0 .. MaxSeq /\ 0 <= n  BY TableAssumption
<1>2. KeysBelow[n] = KeysBelow[0]  BY <1>1, NothingBetween
<1> QED  BY <1>2 DEF Listed

\* The lists of the next state.
LEMMA ListNext == IInv' => Listed' /\ NoneListed'
BY ListGrows, NothingListed, PTL

\* Without the entry q, the lists below numbers above q lack its key.
LEMMA Removed ==
  ASSUME IInv, IInv', Listed, Listed', NEW q, NEW k, Entry(q, k),
         \A n, x : Entry(n, x)' <=> Entry(n, x) /\ n # q
  PROVE  /\ \A n \in 0 .. q : KeysBelow'[n] = KeysBelow[n]
         /\ \A n \in q + 1 .. MaxSeq :
               /\ Len(KeysBelow[q]) + 1 \in 1 .. Len(KeysBelow[n])
               /\ KeysBelow'[n] = Without(KeysBelow[n], Len(KeysBelow[q]) + 1)
<1> DEFINE i == Len(KeysBelow[q]) + 1
           Lacks(n) == /\ i \in 1 .. Len(KeysBelow[n])
                       /\ KeysBelow'[n] = Without(KeysBelow[n], i)
           T == {m \in 0 .. MaxSeq - (q + 1) : Lacks(q + 1 + m)}
<1>1. MaxSeq \in Nat /\ q \in 0 .. MaxSeq - 1 /\ q \in 0 .. MaxSeq /\ k \in Key
  <2>1. MaxSeq \in Nat  BY TableAssumption
  <2>2. q \in 0 .. MaxSeq - 1 /\ k \in Key  BY EntryOnce
  <2> QED  BY <2>1, <2>2
<1>2. \A n \in 0 .. q : KeysBelow'[n] = KeysBelow[n]
  <2>1. \A n \in 0 .. q - 1 : \A x : Entry(n, x)' <=> Entry(n, x)  BY <1>1
  <2> QED  BY <1>1, <2>1, SameBelow
<1>3. ASSUME NEW n \in 0 .. MaxSeq
      PROVE  /\ KeysBelow[n] \in Seq(Key) /\ Len(KeysBelow[n]) \in Nat
             /\ KeysBelow'[n] \in Seq(Key)
  <2>1. KeysBelow[n] \in Seq(Key) /\ KeysBelow'[n] \in Seq(Key)  BY DEF Listed
  <2> QED  BY <2>1, LenProperties
<1>4. Lacks(q + 1)
  <2>1. KeysBelow[q + 1] = Append(KeysBelow[q], k)  BY <1>1 DEF Listed
  <2>2. KeysBelow'[q + 1] = KeysBelow'[q]
    <3>1. \A x \in Key : ~Entry(q, x)'  OBVIOUS
    <3> QED  BY <1>1, <3>1 DEF Listed
  <2>3. KeysBelow'[q] = KeysBelow[q]  BY <1>1, <1>2
  <2>4. Len(KeysBelow[q + 1]) = i  BY <1>1, <1>3, <2>1, AppendProperties
  <2>5. Without(KeysBelow[q + 1], i) = KeysBelow[q]  BY <1>1, <1>3, <2>1, WithoutLast
  <2> QED  BY <1>1, <1>3, <2>2, <2>3, <2>4, <2>5
<1>5. ASSUME NEW m \in 1 .. MaxSeq - (q + 1), m - 1 \in T PROVE m \in T
  <2> DEFINE n == q + 1 + (m - 1)
  <2>1. /\ n \in 0 .. MaxSeq - 1 /\ n \in 0 .. MaxSeq /\ n + 1 = q + 1 + m /\ n # q
        /\ n + 1 \in 0 .. MaxSeq
    BY <1>1
  <2>2. Lacks(n)  BY <1>5
  <2> HIDE DEF n, i
  <2>3. CASE \A x \in Key : ~Entry(n, x)
    <3>1. KeysBelow[n + 1] = KeysBelow[n]  BY <2>1, <2>3 DEF Listed
    <3>2. \A x \in Key : ~Entry(n, x)'  BY <2>3
    <3>3. KeysBelow'[n + 1] = KeysBelow'[n]  BY <2>1, <3>2 DEF Listed
    <3>4. Lacks(n + 1)  BY <2>2, <3>1, <3>3
    <3> QED  BY <2>1, <3>4
  <2>4. CASE \E x \in Key : Entry(n, x)
    <3>1. PICK x \in Key : Entry(n, x)  BY <2>4
    <3>2. KeysBelow[n + 1] = Append(KeysBelow[n], x)  BY <2>1, <3>1 DEF Listed
    <3>3. Entry(n, x)'  BY <2>1, <3>1
    <3>4. KeysBelow'[n + 1] = Append(KeysBelow'[n], x)  BY <2>1, <3>3 DEF Listed
    <3>5. i \in 1 .. Len(KeysBelow[n + 1])
      BY <1>3, <2>1, <2>2, <3>2, AppendProperties
    <3>6. Without(KeysBelow[n + 1], i) = Append(Without(KeysBelow[n], i), x)
      BY <1>3, <2>1, <2>2, <3>2, WithoutEarlier
    <3>7. Lacks(n + 1)  BY <2>2, <3>4, <3>5, <3>6
    <3> QED  BY <2>1, <3>7
  <2> QED  BY <2>3, <2>4
<1>6. ASSUME NEW n \in q + 1 .. MaxSeq PROVE Lacks(n)
  <2>1. MaxSeq - (q + 1) \in Nat /\ n - (q + 1) \in 0 .. MaxSeq - (q + 1)
        /\ q + 1 + (n - (q + 1)) = n
    BY <1>1
  <2>2. 0 \in T
    <3>1. q + 1 + 0 = q + 1  BY <1>1
    <3> HIDE DEF Lacks
    <3> QED  BY <1>4, <2>1, <3>1
  <2>3. 0 .. MaxSeq - (q + 1) \subseteq T
    <3>1. \A m \in 1 .. MaxSeq - (q + 1) : m - 1 \in T => m \in T  BY <1>5
    <3> HIDE DEF T
    <3> QED  BY <2>1, <2>2, <3>1, Inductive
  <2>4. n - (q + 1) \in T  BY <2>1, <2>3
  <2> HIDE DEF Lacks
  <2> QED  BY <2>1, <2>4
<1> QED  BY <1>2, <1>6

------------------------------------------------------------------------------
(* The table implements the list.                                            *)

\* What the mapping needs of the numbers.
LEMMA Numbers ==
  ASSUME IInv
  PROVE  /\ MaxSeq \in Nat /\ insert_seq \in 0 .. MaxSeq
         /\ cursor # None => cursor \in 0 .. insert_seq /\ cursor \in 0 .. MaxSeq
         /\ None \notin Nat
BY TableAssumption DEF IInv, NumberInv

\* A list has a length.
LEMMA ListType ==
  ASSUME Listed, NEW n \in 0 .. MaxSeq
  PROVE  KeysBelow[n] \in Seq(Key) /\ Len(KeysBelow[n]) \in Nat
<1>1. KeysBelow[n] \in Seq(Key)  BY DEF Listed
<1> QED  BY <1>1, LenProperties

\* A step that leaves the entries alone leaves the lists alone.
LEMMA SameLists ==
  ASSUME IInv, IInv', Listed, Listed', \A n, x : Entry(n, x)' <=> Entry(n, x)
  PROVE  \A n \in 0 .. MaxSeq : KeysBelow'[n] = KeysBelow[n]
<1>1. MaxSeq \in 0 .. MaxSeq  BY TableAssumption
<1>2. \A n \in 0 .. MaxSeq - 1 : \A x : Entry(n, x)' <=> Entry(n, x)  OBVIOUS
<1> QED  BY <1>1, <1>2, SameBelow

\* A key that is written joins the end of the list.
LEMMA SetMaps ==
  ASSUME IInv, IInv', Listed, Listed', NEW k \in Key, k \in Kept, Set(k)
  PROVE  Ordered!Set(k)
<1>0. PICK n : n = insert_seq  OBVIOUS
<1>1. /\ MaxSeq \in Nat /\ n \in 0 .. MaxSeq - 1 /\ n \in 0 .. MaxSeq
      /\ insert_seq' = n + 1 /\ cursor' = cursor
      /\ cursor # None => cursor \in 0 .. n
  BY <1>0, Numbers DEF Set, Insert
<1>2. /\ \A m, x : Entry(m, x)' <=> Entry(m, x) \/ (m = n /\ x = k)
      /\ \A m : ~Entry(m, k)
  BY <1>0, SetStep DEF Entry
<1>3. \A m \in 0 .. n : KeysBelow'[m] = KeysBelow[m]
  <2>1. \A m \in 0 .. n - 1 : \A x : Entry(m, x)' <=> Entry(m, x)  BY <1>1, <1>2
  <2> QED  BY <1>1, <2>1, SameBelow
<1>4. KeysBelow'[n + 1] = Append(KeysBelow[n], k)
  <2>1. Entry(n, k)'  BY <1>2
  <2>2. KeysBelow'[n + 1] = Append(KeysBelow'[n], k)  BY <1>1, <2>1 DEF Listed
  <2> QED  BY <1>1, <1>3, <2>2
<1>5. ASSUME k \in Ordered!Range(KeysBelow[n]) PROVE FALSE
  <2>1. DOMAIN KeysBelow[n] = 1 .. Len(KeysBelow[n])  BY <1>1, ListType, LenProperties
  <2>2. PICK j \in 1 .. Len(KeysBelow[n]) : KeysBelow[n][j] = k
    BY <1>5, <2>1 DEF Ordered!Range
  <2>3. \E m \in 0 .. n - 1 : Entry(m, KeysBelow[n][j])  BY <1>1, ListedKeys
  <2> QED  BY <1>2, <2>2, <2>3
<1>6. Past' = Past  BY <1>1, <1>3 DEF Past
<1> QED  BY <1>0, <1>1, <1>4, <1>5, <1>6 DEF Ordered!Set, Ordered!Has, KeysInOrder

\* A key that is deleted leaves the list, and the forEach stays in front of the
\* same key.
LEMMA DeleteMaps ==
  ASSUME IInv, IInv', Listed, Listed', NEW k \in Key, Delete(k)
  PROVE  \E i \in 1 .. Len(KeysInOrder) : Ordered!Delete(i)
<1>1. PICK q : Entry(q, k) /\ \A n, x : Entry(n, x)' <=> Entry(n, x) /\ n # q
  BY DeleteStep DEF Entry
<1>2. /\ q \in 0 .. MaxSeq - 1 /\ q < insert_seq /\ q \in Nat
      /\ MaxSeq \in Nat /\ insert_seq \in 0 .. MaxSeq /\ None \notin Nat
      /\ cursor # None => cursor \in 0 .. insert_seq /\ cursor \in 0 .. MaxSeq
  BY <1>1, EntryOnce, Numbers
<1>3. insert_seq' = insert_seq /\ cursor' = cursor  BY DEF Delete
<1> DEFINE i == Len(KeysBelow[q]) + 1
<1>4. /\ \A n \in 0 .. q : KeysBelow'[n] = KeysBelow[n]
      /\ \A n \in q + 1 .. MaxSeq : /\ i \in 1 .. Len(KeysBelow[n])
                                    /\ KeysBelow'[n] = Without(KeysBelow[n], i)
  BY <1>1, Removed
<1>5. Len(KeysBelow[q]) \in Nat /\ i = Len(KeysBelow[q]) + 1  BY <1>2, ListType
<1> HIDE DEF i
<1>6. i \in 1 .. Len(KeysInOrder) /\ KeysInOrder' = Without(KeysInOrder, i)
  BY <1>2, <1>3, <1>4 DEF KeysInOrder
<1>7. Past' = IF Past # None /\ i <= Past THEN Past - 1 ELSE Past
  <2>1. CASE cursor = None  BY <1>3, <2>1 DEF Past
  <2>2. CASE cursor # None /\ cursor <= q
    <3>1. cursor \in 0 .. q /\ cursor \in 0 .. MaxSeq /\ q \in 0 .. MaxSeq  BY <1>2, <2>2
    <3>2. Len(KeysBelow[cursor]) <= Len(KeysBelow[q]) /\ Len(KeysBelow[cursor]) \in Nat
      BY <1>2, <2>2, <3>1, Longer, ListType
    <3>3. ~(i <= Len(KeysBelow[cursor]))  BY <1>5, <3>2
    <3> QED  BY <1>3, <1>4, <2>2, <3>1, <3>3 DEF Past
  <2>3. CASE cursor # None /\ ~(cursor <= q)
    <3>1. cursor \in q + 1 .. MaxSeq /\ cursor \in 0 .. MaxSeq  BY <1>2, <2>3
    <3>2. i \in 1 .. Len(KeysBelow[cursor])
          /\ KeysBelow'[cursor] = Without(KeysBelow[cursor], i)
      BY <1>4, <3>1
    <3>3. KeysBelow[cursor] \in Seq(Key) /\ Len(KeysBelow[cursor]) \in Nat
      BY <3>1, ListType
    <3>4. Len(KeysBelow'[cursor]) = Len(KeysBelow[cursor]) - 1
      BY <3>2, <3>3, WithoutIs
    <3>5. Past = Len(KeysBelow[cursor]) /\ Past' = Len(KeysBelow'[cursor])
      BY <1>3, <2>3 DEF Past
    <3>6. Past # None /\ i <= Past  BY <1>2, <3>2, <3>3, <3>5
    <3> QED  BY <3>4, <3>5, <3>6
  <2> QED  BY <2>1, <2>2, <2>3
<1>8. Ordered!Delete(i)  BY <1>6, <1>7 DEF Ordered!Delete, Ordered!RemoveAt, Without
<1> QED  BY <1>6, <1>8

LEMMA ClearMaps ==
  ASSUME IInv, Listed, NoneListed', Clear
  PROVE  Ordered!Clear
<1>1. /\ insert_seq' = insert_seq /\ cursor' = cursor
      /\ insert_seq \in 0 .. MaxSeq /\ None \notin Nat
      /\ cursor # None => cursor \in 0 .. MaxSeq
  BY Numbers DEF Clear
<1>2. \A n, x : ~Entry(n, x)'  BY ClearStep DEF Entry
<1>3. \A n \in 0 .. MaxSeq : KeysBelow'[n] = <<>>  BY <1>2 DEF NoneListed
<1>4. Len(<<>>) = 0  BY EmptySeq
<1>5. KeysInOrder' = <<>>  BY <1>1, <1>3 DEF KeysInOrder
<1>6. Past' = IF Past = None THEN None ELSE 0
  <2>1. CASE cursor = None  BY <1>1, <2>1 DEF Past
  <2>2. CASE cursor # None
    <3>1. Past' = 0  BY <1>1, <1>3, <1>4, <2>2 DEF Past
    <3>2. Past \in Nat  BY <1>1, <2>2, ListType DEF Past
    <3> QED  BY <1>1, <3>1, <3>2
  <2> QED  BY <2>1, <2>2
<1> QED  BY <1>5, <1>6 DEF Ordered!Clear

\* A visit: the list is the same, and the forEach is past one key more than below n.
LEMMA Visits ==
  ASSUME IInv, IInv', Listed, Listed', NEW n \in 0 .. insert_seq, VisitFrom(n)
  PROVE  /\ KeysInOrder' = KeysInOrder
         /\ Past' = Len(KeysBelow[n]) + 1
         /\ Len(KeysBelow[n]) < Len(KeysInOrder)
<1>1. /\ insert_seq' = insert_seq /\ slots' = slots /\ capacity' = capacity
      /\ MaxSeq \in Nat /\ insert_seq \in 0 .. MaxSeq /\ n \in 0 .. MaxSeq /\ None \notin Nat
  BY Numbers DEF VisitFrom, tableVars
<1>2. Live = LiveIn(slots, capacity) /\ Table(slots, capacity)  BY SlotSets DEF IInv, Sound
<1>3. PICK i \in Live : /\ slots[i].seq >= n
                        /\ \A j \in Live : slots[j].seq >= n => slots[i].seq <= slots[j].seq
                        /\ cursor' = slots[i].seq + 1
  BY DEF VisitFrom, Ahead
<1>4. PICK q, k : q = slots[i].seq /\ k = slots[i].key  OBVIOUS
<1>5. Entry(q, k)  BY <1>2, <1>4 DEF Entry, EntryIn
<1>6. /\ k \in Key /\ q \in 0 .. MaxSeq - 1 /\ q \in 0 .. MaxSeq /\ n <= q
      /\ q + 1 \in 0 .. MaxSeq /\ q + 1 <= insert_seq
  <2>1. k \in Key /\ q \in Nat /\ q < insert_seq /\ q \in 0 .. MaxSeq - 1
    BY <1>5, EntryOnce
  <2> QED  BY <1>1, <1>3, <1>4, <2>1
<1>7. ASSUME NEW m \in n .. q - 1, NEW x \in Key PROVE ~Entry(m, x)
  <2> SUFFICES ASSUME Entry(m, x) PROVE FALSE  OBVIOUS
  <2>1. PICK j \in Live : slots[j].seq = m  BY <1>2 DEF Entry, EntryIn
  <2>2. slots[j].seq >= n /\ ~(q <= slots[j].seq)  BY <1>1, <1>6, <2>1
  <2> QED  BY <1>3, <1>4, <2>2
<1>8. KeysBelow[q] = KeysBelow[n]  BY <1>1, <1>6, <1>7, NothingBetween
<1>9. KeysBelow[q + 1] = Append(KeysBelow[n], k)  BY <1>5, <1>6, <1>8 DEF Listed
<1>10. Len(KeysBelow[q + 1]) = Len(KeysBelow[n]) + 1 /\ Len(KeysBelow[n]) \in Nat
  BY <1>1, <1>6, <1>9, ListType, AppendProperties
<1>11. Len(KeysBelow[q + 1]) <= Len(KeysBelow[insert_seq]) /\ Len(KeysBelow[insert_seq]) \in Nat
  BY <1>1, <1>6, Longer, ListType
<1>12. \A m \in 0 .. MaxSeq : KeysBelow'[m] = KeysBelow[m]
  <2>1. \A m, x : Entry(m, x)' <=> Entry(m, x)  BY <1>1 DEF Entry, EntryIn, LiveIn
  <2> QED  BY <2>1, SameLists
<1>13. KeysInOrder' = KeysInOrder  BY <1>1, <1>12 DEF KeysInOrder
<1>14. Past' = Len(KeysBelow[q + 1])
  <2>1. cursor' = q + 1 /\ q + 1 # None  BY <1>1, <1>3, <1>4, <1>6
  <2> QED  BY <1>6, <1>12, <2>1 DEF Past
<1> QED  BY <1>10, <1>11, <1>13, <1>14 DEF KeysInOrder

LEMMA StartMaps ==
  ASSUME IInv, IInv', Listed, Listed', StartForEach
  PROVE  Ordered!Start
<1>1. cursor = None /\ VisitFrom(0) /\ 0 \in 0 .. insert_seq /\ 0 \in 0 .. MaxSeq
  BY Numbers DEF StartForEach
<1>2. /\ KeysInOrder' = KeysInOrder
      /\ Past' = Len(KeysBelow[0]) + 1
      /\ Len(KeysBelow[0]) < Len(KeysInOrder)
  BY <1>1, Visits
<1>3. Len(KeysBelow[0]) = 0 /\ Len(<<>>) = 0  BY EmptySeq DEF Listed
<1>4. KeysInOrder # <<>> /\ Past' = 1  BY <1>2, <1>3
<1>5. Past = None  BY <1>1 DEF Past
<1> QED  BY <1>2, <1>4, <1>5 DEF Ordered!Start

LEMMA NextMaps ==
  ASSUME IInv, IInv', Listed, Listed', NextLive
  PROVE  Ordered!Visit
<1>1. cursor # None /\ VisitFrom(cursor) /\ cursor \in 0 .. insert_seq /\ cursor \in 0 .. MaxSeq
  BY Numbers DEF NextLive
<1>2. PICK n : n = cursor  OBVIOUS
<1>3. /\ KeysInOrder' = KeysInOrder
      /\ Past' = Len(KeysBelow[n]) + 1
      /\ Len(KeysBelow[n]) < Len(KeysInOrder)
  BY <1>1, <1>2, Visits
<1>4. Past = Len(KeysBelow[n]) /\ Past # None
  <2>1. Len(KeysBelow[n]) \in Nat /\ None \notin Nat  BY <1>1, <1>2, Numbers, ListType
  <2> QED  BY <1>1, <1>2, <2>1 DEF Past
<1> QED  BY <1>3, <1>4 DEF Ordered!Visit

\* When nothing is ahead, the forEach is past every key.
LEMMA EndMaps ==
  ASSUME IInv, IInv', Listed, Listed', EndForEach
  PROVE  Ordered!Finish
<1>1. /\ insert_seq' = insert_seq /\ slots' = slots /\ capacity' = capacity
      /\ MaxSeq \in Nat /\ insert_seq \in 0 .. MaxSeq
      /\ cursor # None /\ cursor \in 0 .. insert_seq /\ cursor \in 0 .. MaxSeq
      /\ cursor <= insert_seq
      /\ cursor' = None /\ Ahead(cursor) = {}
  BY Numbers DEF EndForEach, tableVars
<1>2. Live = LiveIn(slots, capacity)  BY SlotSets DEF IInv, Sound
<1>3. \A m \in cursor .. insert_seq - 1 : \A x \in Key : ~Entry(m, x)
  BY <1>1, <1>2 DEF Ahead, Entry, EntryIn
<1>4. KeysBelow[insert_seq] = KeysBelow[cursor]  BY <1>1, <1>3, NothingBetween
<1>5. \A m \in 0 .. MaxSeq : KeysBelow'[m] = KeysBelow[m]
  <2>1. \A m, x : Entry(m, x)' <=> Entry(m, x)  BY <1>1 DEF Entry, EntryIn, LiveIn
  <2> QED  BY <2>1, SameLists
<1>6. KeysInOrder' = KeysInOrder  BY <1>1, <1>5 DEF KeysInOrder
<1>7. Past = Len(KeysInOrder) /\ Past' = None  BY <1>1, <1>4 DEF Past, KeysInOrder
<1> QED  BY <1>6, <1>7 DEF Ordered!Finish

\* The table is a list of distinct keys in the order of insertion, and forEach
\* walks that list as it changes: where entries are stored, rehashes and
\* tombstones are invisible.
THEOREM TableIsAList == Spec => ImplementsOrderedMap
<1>1. Init => Ordered!Init
  <2> SUFFICES ASSUME Init PROVE Ordered!Init  OBVIOUS
  <2>1. insert_seq = 0 /\ cursor = None  BY DEF Init
  <2>2. Listed  BY Started, ListGrows
  <2>3. KeysInOrder = <<>>  BY <2>1, <2>2 DEF Listed, KeysInOrder
  <2> QED  BY <2>1, <2>3 DEF Past, Ordered!Init
<1>2. IInv /\ IInv' /\ Kept = Key /\ [Next]_vars => [Ordered!Next]_(Ordered!mapVars)
  <2> SUFFICES ASSUME IInv, IInv', Kept = Key, [Next]_vars
               PROVE  Ordered!Next \/ UNCHANGED Ordered!mapVars
    OBVIOUS
  <2>1. Listed /\ Listed' /\ NoneListed'  BY ListGrows, ListNext
  <2>2. ASSUME NEW k \in Key, Set(k) PROVE Ordered!Next
    BY <2>1, <2>2, SetMaps DEF Ordered!Next
  <2>3. ASSUME NEW k \in Key, Delete(k) PROVE Ordered!Next
    BY <2>1, <2>3, DeleteMaps DEF Ordered!Next
  <2>4. CASE Clear  BY <2>1, <2>4, ClearMaps DEF Ordered!Next
  <2>5. CASE StartForEach  BY <2>1, <2>5, StartMaps DEF Ordered!Next
  <2>6. CASE NextLive  BY <2>1, <2>6, NextMaps DEF Ordered!Next
  <2>7. CASE EndForEach  BY <2>1, <2>7, EndMaps DEF Ordered!Next
  <2>8. ASSUME UNCHANGED vars PROVE UNCHANGED Ordered!mapVars
    <3>1. insert_seq' = insert_seq /\ cursor' = cursor /\ slots' = slots /\ capacity' = capacity
      BY <2>8 DEF vars
    <3>2. \A m, x : Entry(m, x)' <=> Entry(m, x)  BY <3>1 DEF Entry, EntryIn, LiveIn
    <3>3. \A m \in 0 .. MaxSeq : KeysBelow'[m] = KeysBelow[m]  BY <2>1, <3>2, SameLists
    <3>4. KeysInOrder' = KeysInOrder /\ Past' = Past
      BY <3>1, <3>3, Numbers DEF KeysInOrder, Past
    <3> QED  BY <3>4 DEF Ordered!mapVars
  <2> QED  BY <2>2, <2>3, <2>4, <2>5, <2>6, <2>7, <2>8 DEF Next, Mutate
<1> QED  BY <1>1, <1>2, Invariance, AllKept, PTL DEF Spec, ImplementsOrderedMap, Ordered!Spec

------------------------------------------------------------------------------
(* The forEach of Map, which collects the slots it will visit beforehand.    *)

ToVisit == {order[i] : i \in DOMAIN order}

\* While the slots are visited, the callback inserts without a rehash, or deletes
\* an entry that is not still to visit.
KindStep == CallbackStep /\ order # <<>> =>
    \/ \E k \in Key : Set(k) /\ ~Full
    \/ \E k \in Key : Delete(k) /\ find_slot(k) \notin ToVisit

OrderInv == /\ order \in Seq(LiveIn(slots, capacity))
            /\ IInv

\* An insert without a rehash leaves every live slot alive.
LEMMA SetKeepsLive ==
  ASSUME IInv, NEW k \in Key, Set(k), ~Full
  PROVE  LiveIn(slots, capacity) \subseteq LiveIn(slots, capacity)'
<1> DEFINE c == capacity
           f == FreeSlot(slots, c, k)
           entry == [ctrl |-> h2_from_hash(hash[k]), key |-> k, seq |-> insert_seq]
<1>1. /\ hash \in [Key -> Nat] /\ c \in Nat /\ c >= 8 /\ Table(slots, c) /\ LoadInv
      /\ slots \in [0 .. c - 1 -> Slot]
  BY DEF IInv, Sound, Table
<1>2. capacity' = c /\ slots' = [slots EXCEPT ![f] = entry]
  BY DEF Set, Insert, Placed
<1> HIDE DEF entry, f
<1>3. PICK e \in (0 .. c - 1) \ LiveIn(slots, c) : TRUE
  <2>1. Cardinality(LiveIn(slots, c)) \in Nat /\ Cardinality(DeletedIn(slots, c)) \in Nat
    BY <1>1, SlotsFinite
  <2>2. Cardinality(LiveIn(slots, c)) < c  BY <1>1, <2>1 DEF LoadInv, GrowThresh
  <2> QED  BY <1>1, <2>2, RoomLeft
<1>4. f \in (0 .. c - 1) \ LiveIn(slots, c)
  <2>1. c > 0  BY <1>1
  <2> QED  BY <1>1, <1>3, <2>1, FreeSlotFound DEF f
<1>5. \A i \in 0 .. c - 1 : i # f => slots'[i] = slots[i]  BY <1>1, <1>2
<1> QED  BY <1>2, <1>4, <1>5 DEF LiveIn

\* A delete leaves every other live slot alive.
LEMMA DeleteKeepsLive ==
  ASSUME IInv, NEW k \in Key, Delete(k)
  PROVE  LiveIn(slots, capacity) \ {find_slot(k)} \subseteq LiveIn(slots, capacity)'
<1>1. slots \in [0 .. capacity - 1 -> Slot]  BY DEF IInv, Sound, Table
<1>2. capacity' = capacity /\ slots' = [slots EXCEPT ![find_slot(k)] = Tomb]
  BY DEF Delete
<1> QED  BY <1>1, <1>2 DEF LiveIn

\* Slots that stay alive are a sequence of live slots still.
LEMMA OrderKept ==
  ASSUME NEW S, NEW T, order \in Seq(S), ToVisit \cap S \subseteq T
  PROVE  order \in Seq(T)
<1>1. /\ Len(order) \in Nat /\ order \in [1 .. Len(order) -> S]
      /\ DOMAIN order = 1 .. Len(order)
  BY LenProperties
<1>2. order \in [1 .. Len(order) -> T]  BY <1>1 DEF ToVisit
<1> QED  BY <1>1, <1>2

\* When its callback is that kind, the forEach of Map visits live entries only:
\* what it visits besides is due to a rehash or to the deletion of an entry that
\* is still to visit.
THEOREM KindCallback == MapSpec /\ [][KindStep]_forEachVars => VisitsLiveEntries
<1> DEFINE N == CallbackStep \/ StartMapForEach \/ Visit
<1>1. Init /\ order = <<>> => OrderInv
  BY Started, EmptySeq DEF OrderInv
<1>2. OrderInv /\ [N]_forEachVars /\ [KindStep]_forEachVars => OrderInv'
  <2> SUFFICES ASSUME OrderInv, [N]_forEachVars, [KindStep]_forEachVars PROVE OrderInv'
    OBVIOUS
  <2>1. IInv'
    <3>1. CallbackStep => Next  BY DEF CallbackStep, Next
    <3>2. StartMapForEach \/ Visit \/ UNCHANGED forEachVars => UNCHANGED vars
      BY DEF StartMapForEach, Visit, forEachVars
    <3> QED  BY <3>1, <3>2, Stepped DEF OrderInv
  <2> DEFINE L == LiveIn(slots, capacity)
  <2>2. order \in Seq(L)  BY DEF OrderInv
  <2>3. UNCHANGED vars => L' = L  BY DEF vars, LiveIn
  <2>4. CASE UNCHANGED forEachVars
    <3>1. order' = order /\ L' = L  BY <2>3, <2>4 DEF forEachVars
    <3> QED  BY <2>1, <2>2, <3>1 DEF OrderInv
  <2>5. CASE CallbackStep /\ ~UNCHANGED forEachVars
    <3>1. order' = order /\ KindStep  BY <2>5 DEF CallbackStep
    <3>2. CASE order = <<>>
      <4>1. order' \in Seq(L')  BY <3>1, <3>2, EmptySeq
      <4> QED  BY <2>1, <4>1 DEF OrderInv
    <3>3. ASSUME NEW k \in Key, Set(k), ~Full PROVE OrderInv'
      <4>1. L \subseteq L'  BY <3>3, SetKeepsLive DEF OrderInv
      <4>2. order \in Seq(L')
        <5> HIDE DEF L
        <5> QED  BY <2>2, <4>1, OrderKept
      <4> QED  BY <2>1, <3>1, <4>2 DEF OrderInv
    <3>4. ASSUME NEW k \in Key, Delete(k), find_slot(k) \notin ToVisit PROVE OrderInv'
      <4>1. L \ {find_slot(k)} \subseteq L'  BY <3>4, DeleteKeepsLive DEF OrderInv
      <4>2. order \in Seq(L')
        <5> HIDE DEF L
        <5> QED  BY <2>2, <3>4, <4>1, OrderKept
      <4> QED  BY <2>1, <3>1, <4>2 DEF OrderInv
    <3> QED  BY <2>5, <3>1, <3>2, <3>3, <3>4 DEF KindStep
  <2>6. CASE StartMapForEach
    <3>1. PICK slot \in [1 .. Cardinality(Live) -> Live] : order' = Tail(slot)
      BY <2>6 DEF StartMapForEach
    <3>2. Live = L /\ Cardinality(L) \in Nat /\ Live # {}
      BY <2>6, SlotSets, SlotsFinite DEF OrderInv, IInv, Sound, StartMapForEach
    <3>3. slot \in Seq(L) /\ L' = L
      BY <2>3, <2>6, <3>1, <3>2 DEF StartMapForEach
    <3>4. slot # <<>>
      <4>1. IsFiniteSet(L)  BY SlotsFinite DEF OrderInv, IInv
      <4>2. Cardinality(L) # 0
        <5> HIDE DEF L
        <5> QED  BY <3>2, <4>1, FS_EmptySet
      <4> QED  BY <3>1, <3>2, <4>2
    <3>5. order' \in Seq(L')
      <4> HIDE DEF L
      <4> QED  BY <3>1, <3>3, <3>4, HeadTailProperties
    <3> QED  BY <2>1, <3>5 DEF OrderInv
  <2>7. CASE Visit
    <3>1. order # <<>> /\ order' = Tail(order) /\ L' = L  BY <2>3, <2>7 DEF Visit
    <3>2. order' \in Seq(L')
      <4> HIDE DEF L
      <4> QED  BY <2>2, <3>1, HeadTailProperties
    <3> QED  BY <2>1, <3>2 DEF OrderInv
  <2> QED  BY <2>4, <2>5, <2>6, <2>7
<1>3. OrderInv => (Visit => Head(order) \in Live)
  <2> SUFFICES ASSUME OrderInv, Visit PROVE Head(order) \in Live  OBVIOUS
  <2>1. order \in Seq(LiveIn(slots, capacity)) /\ order # <<>>  BY DEF OrderInv, Visit
  <2>2. Head(order) \in LiveIn(slots, capacity)
    <3> DEFINE L == LiveIn(slots, capacity)
    <3> HIDE DEF L
    <3>1. order \in Seq(L) /\ order # <<>>  BY <2>1 DEF L
    <3> QED  BY <3>1, HeadTailProperties DEF L
  <2> QED  BY <2>2, SlotSets DEF OrderInv, IInv, Sound
<1> QED  BY <1>1, <1>2, <1>3, PTL DEF MapSpec, VisitsLiveEntries

==============================================================================

---------------------------- MODULE CommonTheorems ----------------------------
(***************************************************************************)
(* Facts that the proofs of several components rest on: least elements,    *)
(* remainders, and a ring of n cells with a head and a tail, of which one  *)
(* cell is kept free, as both halves of HardwareSerial have one            *)
(* (Drivers/HardwareSerial/HardwareSerial_private.h).                      *)
(*                                                                         *)
(* The code computes indices modulo n; ModRange turns every remainder it   *)
(* takes into a comparison and a subtraction, after which the arithmetic   *)
(* is linear.                                                              *)
(***************************************************************************)
EXTENDS Integers, Sequences, SequenceTheorems, WellFoundedInduction, NaturalsInduction, TLAPS

-----------------------------------------------------------------------------
(* Least elements and remainders. *)

\* A non-empty set of naturals has a least element.
LEMMA LeastElement ==
  ASSUME NEW S \in SUBSET Nat, S # {}
  PROVE  \E x \in S : \A y \in S : x <= y
<1> DEFINE R == OpToRel(<, Nat)
<1>1. IsWellFoundedOn(R, Nat)
  BY NatLessThanWellFounded
<1>2. R = {ss \in Nat \X Nat : ss[1] < ss[2]}
  BY DEF OpToRel
<1> HIDE DEF R
<1>3. PICK x \in S : \A y \in S : ~ (<<y, x>> \in R)
  BY <1>1, WFMin
<1>4. \A y \in S : <<y, x>> \in Nat \X Nat /\ <<y, x>>[1] = y /\ <<y, x>>[2] = x
  BY <1>3
<1>5. \A y \in S : ~ (y < x)
  BY <1>2, <1>3, <1>4
<1> QED BY <1>5

\* A remainder is determined by any quotient.
LEMMA ModUnique ==
  ASSUME NEW n \in Nat \ {0}, NEW k \in Int, NEW r \in 0 .. n - 1
  PROVE  (n * k + r) % n = r
OBVIOUS

\* The remainder of an index that has gone round the ring at most once.
LEMMA ModRange ==
  ASSUME NEW n \in Nat \ {0}, NEW a \in 0 .. 2 * n - 1
  PROVE  a % n = IF a < n THEN a ELSE a - n
<1>1. CASE a < n
  <2>1. a \in 0 .. n - 1 /\ n * 0 + a = a
    BY <1>1
  <2> QED BY <2>1, <1>1, ModUnique
<1>2. CASE a >= n
  <2>1. a - n \in 0 .. n - 1 /\ n * 1 + (a - n) = a
    BY <1>2
  <2>2. (n * 1 + (a - n)) % n = a - n
    BY <2>1, ModUnique
  <2> QED BY <2>1, <2>2, <1>2
<1> QED BY <1>1, <1>2

-----------------------------------------------------------------------------
(* A ring: indices. *)

CellsOf(n) == 0 .. n - 1
Rings(n, X) == [CellsOf(n) -> X]
With(buffer, cell, x) == [buffer EXCEPT ![cell] = x]
Following(n, cell) == IF cell = n - 1 THEN 0 ELSE cell + 1

\* How many entries wait, and the cell of the k-th.
Distance(n, head, tail) == IF head >= tail THEN head - tail ELSE n + head - tail
RingSlot(n, tail, k) == IF tail + k - 1 < n THEN tail + k - 1 ELSE tail + k - 1 - n

\* The waiting entries as a sequence.
Contents(n, buffer, head, tail) ==
  [k \in 1 .. Distance(n, head, tail) |-> buffer[RingSlot(n, tail, k)]]

\* The three remainders in the code: the cell after a cell, the number of
\* waiting entries, the cell of one of them.
LEMMA RingRemainders ==
  ASSUME NEW n \in Nat \ {0, 1}
  PROVE  /\ \A cell \in CellsOf(n) :
              (cell + 1) % n = Following(n, cell) /\ Following(n, cell) \in CellsOf(n)
         /\ \A h, t \in CellsOf(n) :
              /\ (n + h - t) % n = Distance(n, h, t)
              /\ \A k \in 1 .. Distance(n, h, t) : (t + k - 1) % n = RingSlot(n, t, k)
<1>1. ASSUME NEW cell \in CellsOf(n)
      PROVE  (cell + 1) % n = Following(n, cell) /\ Following(n, cell) \in CellsOf(n)
  <2>1. cell + 1 \in 0 .. 2 * n - 1 /\ cell \in 0 .. n - 1
    BY DEF CellsOf
  <2>2. (cell + 1) % n = IF cell + 1 < n THEN cell + 1 ELSE cell + 1 - n
    BY <2>1, ModRange
  <2> QED BY <2>1, <2>2 DEF Following, CellsOf
<1>2. ASSUME NEW h \in CellsOf(n), NEW t \in CellsOf(n)
      PROVE  /\ (n + h - t) % n = Distance(n, h, t)
             /\ \A k \in 1 .. Distance(n, h, t) : (t + k - 1) % n = RingSlot(n, t, k)
  <2>1. h \in 0 .. n - 1 /\ t \in 0 .. n - 1 /\ n + h - t \in 0 .. 2 * n - 1
    BY DEF CellsOf
  <2>2. (n + h - t) % n = IF n + h - t < n THEN n + h - t ELSE n + h - t - n
    <3> DEFINE a == n + h - t
    <3> HIDE DEF a
    <3>1. a % n = IF a < n THEN a ELSE a - n
      BY <2>1, ModRange DEF a
    <3> QED BY <2>1, <3>1 DEF a
  <2>3. (n + h - t) % n = Distance(n, h, t)
    BY <2>1, <2>2 DEF Distance
  <2>4. ASSUME NEW k \in 1 .. Distance(n, h, t)
        PROVE  (t + k - 1) % n = RingSlot(n, t, k)
    <3>1. t + k - 1 \in 0 .. 2 * n - 1
      BY <2>1 DEF Distance
    <3>2. (t + k - 1) % n = IF t + k - 1 < n THEN t + k - 1 ELSE t + k - 1 - n
      <4> DEFINE a == t + k - 1
      <4> HIDE DEF a
      <4>1. a % n = IF a < n THEN a ELSE a - n
        BY <3>1, ModRange DEF a
      <4> QED BY <2>1, <3>1, <4>1 DEF a
    <3> QED BY <3>2 DEF RingSlot
  <2> QED BY <2>3, <2>4
<1> QED BY <1>1, <1>2

LEMMA DistanceBounds ==
  ASSUME NEW n \in Nat \ {0, 1}, NEW h \in CellsOf(n), NEW t \in CellsOf(n)
  PROVE  /\ Distance(n, h, t) \in CellsOf(n)
         /\ Distance(n, h, t) = 0 <=> h = t
         /\ Following(n, h) = t => Distance(n, h, t) = n - 1
         /\ Following(n, h) # t => Distance(n, h, t) < n - 1
BY DEF Distance, Following, CellsOf

-----------------------------------------------------------------------------
(* What waits in the ring. *)

LEMMA ContentsAreASequence ==
  ASSUME NEW n \in Nat \ {0, 1}, NEW h \in CellsOf(n), NEW t \in CellsOf(n),
         NEW X, NEW buffer \in Rings(n, X)
  PROVE  /\ Contents(n, buffer, h, t) \in Seq(X)
         /\ Len(Contents(n, buffer, h, t)) = Distance(n, h, t)
         /\ \A k \in 1 .. Distance(n, h, t) :
              /\ RingSlot(n, t, k) \in CellsOf(n)
              /\ Contents(n, buffer, h, t)[k] = buffer[RingSlot(n, t, k)]
<1> DEFINE d == Distance(n, h, t)
<1>1. d \in Nat /\ d < n
  BY DistanceBounds DEF CellsOf
<1> HIDE DEF d
<1>2. ASSUME NEW k \in 1 .. d
      PROVE  RingSlot(n, t, k) \in CellsOf(n)
  BY <1>1 DEF RingSlot, CellsOf
<1>3. Contents(n, buffer, h, t) = [k \in 1 .. d |-> buffer[RingSlot(n, t, k)]]
  BY DEF Contents, d
<1>4. \A k \in 1 .. d : buffer[RingSlot(n, t, k)] \in X
  BY <1>2 DEF Rings
<1>5. Contents(n, buffer, h, t) \in [1 .. d -> X]
  BY <1>3, <1>4
<1>6. Contents(n, buffer, h, t) \in Seq(X) /\ Len(Contents(n, buffer, h, t)) = d
  BY <1>1, <1>5
<1> QED BY <1>2, <1>3, <1>6 DEF d

\* An entry in the free cell at the head, and the head moved on: one more waits.
LEMMA PutAppends ==
  ASSUME NEW n \in Nat \ {0, 1}, NEW h \in CellsOf(n), NEW t \in CellsOf(n),
         NEW X, NEW buffer \in Rings(n, X), NEW b \in X,
         Following(n, h) # t
  PROVE  /\ Distance(n, Following(n, h), t) = Distance(n, h, t) + 1
         /\ Contents(n, With(buffer, h, b), Following(n, h), t)
              = Append(Contents(n, buffer, h, t), b)
<1> DEFINE d == Distance(n, h, t)
           w == Contents(n, buffer, h, t)
<1>1. /\ w \in Seq(X) /\ Len(w) = d
      /\ \A k \in 1 .. d : w[k] = buffer[RingSlot(n, t, k)]
  BY ContentsAreASequence
<1>1a. \A k \in 1 .. d : RingSlot(n, t, k) \in CellsOf(n)
  BY ContentsAreASequence
<1> DEFINE next == Following(n, h)
           stored == With(buffer, h, b)
           v == Contents(n, stored, next, t)
<1>2. h \in 0 .. n - 1 /\ t \in 0 .. n - 1
  BY DEF CellsOf
<1>3. next = IF h = n - 1 THEN 0 ELSE h + 1
  BY DEF Following
<1>4. d \in Nat /\ d < n - 1 /\ Distance(n, next, t) = d + 1 /\ next \in CellsOf(n)
  BY <1>2, <1>3 DEF Distance, CellsOf
<1>5. stored \in Rings(n, X)
  BY DEF Rings, With
<1>6. /\ v \in Seq(X) /\ Len(v) = d + 1
      /\ \A k \in 1 .. d + 1 : v[k] = stored[RingSlot(n, t, k)]
  <2> HIDE DEF next, w, d, stored
  <2>1. v \in Seq(X) /\ Len(v) = Distance(n, next, t)
    BY <1>4, <1>5, ContentsAreASequence
  <2>2. \A k \in 1 .. Distance(n, next, t) : v[k] = stored[RingSlot(n, t, k)]
    BY DEF Contents
  <2> QED BY <2>1, <2>2, <1>4
<1>7. RingSlot(n, t, d + 1) = h
  BY <1>2, <1>4 DEF RingSlot, Distance
<1>8. ASSUME NEW k \in 1 .. d
      PROVE  RingSlot(n, t, k) # h
  BY <1>2, <1>4 DEF RingSlot, Distance
<1> HIDE DEF d, w, v, next
<1>9. \A k \in 1 .. d + 1 : v[k] = IF k = d + 1 THEN b ELSE w[k]
  BY <1>1a, <1>1, <1>4, <1>6, <1>7, <1>8 DEF Rings, With
<1>10. /\ Append(w, b) \in Seq(X) /\ Len(Append(w, b)) = d + 1
       /\ \A k \in 1 .. d + 1 : Append(w, b)[k] = IF k = d + 1 THEN b ELSE w[k]
  BY <1>1, <1>4
<1>11. v = Append(w, b)
  BY <1>6, <1>9, <1>10, SeqEqual
<1> QED BY <1>4, <1>11 DEF d, w, v, next

\* The tail moved on: the first of the waiting entries is taken.
LEMMA AdvanceTakesHead ==
  ASSUME NEW n \in Nat \ {0, 1}, NEW h \in CellsOf(n), NEW t \in CellsOf(n),
         NEW X, NEW buffer \in Rings(n, X), h # t
  PROVE  /\ Contents(n, buffer, h, t) # <<>>
         /\ Head(Contents(n, buffer, h, t)) = buffer[t]
         /\ Distance(n, h, Following(n, t)) = Distance(n, h, t) - 1
         /\ Contents(n, buffer, h, Following(n, t)) = Tail(Contents(n, buffer, h, t))
<1> DEFINE d == Distance(n, h, t)
           next == Following(n, t)
           w == Contents(n, buffer, h, t)
           v == Contents(n, buffer, h, next)
<1>1. /\ w \in Seq(X) /\ Len(w) = d
      /\ \A k \in 1 .. d : w[k] = buffer[RingSlot(n, t, k)]
  BY ContentsAreASequence
<1>2. h \in 0 .. n - 1 /\ t \in 0 .. n - 1
  BY DEF CellsOf
<1>3. next = IF t = n - 1 THEN 0 ELSE t + 1
  BY DEF Following
<1>4. d \in Nat \ {0} /\ Distance(n, h, next) = d - 1 /\ d < n /\ next \in CellsOf(n)
  BY <1>2, <1>3 DEF Distance, CellsOf
<1>5. /\ v \in Seq(X) /\ Len(v) = d - 1
      /\ \A k \in 1 .. d - 1 : v[k] = buffer[RingSlot(n, next, k)]
  <2> HIDE DEF next
  <2>1. /\ v \in Seq(X) /\ Len(v) = Distance(n, h, next)
        /\ \A k \in 1 .. Distance(n, h, next) : v[k] = buffer[RingSlot(n, next, k)]
    BY <1>4, ContentsAreASequence
  <2> QED BY <2>1, <1>4
<1>6. RingSlot(n, t, 1) = t
  BY <1>2 DEF RingSlot
<1> HIDE DEF d, w, v
<1>7. ASSUME NEW k \in 1 .. d - 1
      PROVE  RingSlot(n, next, k) = RingSlot(n, t, k + 1)
  <2>1. k \in Nat /\ k >= 1 /\ k + 1 < n
    BY <1>4
  <2> QED BY <2>1, <1>2, <1>3 DEF RingSlot
<1> HIDE DEF next
<1>8. w # <<>>
  BY <1>1, <1>4
<1>9. /\ Tail(w) \in Seq(X) /\ Len(Tail(w)) = d - 1
      /\ \A k \in 1 .. d - 1 : Tail(w)[k] = w[k + 1]
  BY <1>1, <1>8, HeadTailProperties
<1>10. ASSUME NEW k \in 1 .. d - 1
       PROVE  v[k] = Tail(w)[k]
  <2>1. k + 1 \in 1 .. d
    BY <1>4
  <2>2. Tail(w)[k] = buffer[RingSlot(n, t, k + 1)]
    BY <2>1, <1>1, <1>9
  <2> QED BY <2>2, <1>5, <1>7
<1>11. v = Tail(w)
  BY <1>4, <1>5, <1>9, <1>10, SeqEqual
<1>12. Head(w) = buffer[t]
  BY <1>1, <1>4, <1>6, <1>8
<1> QED BY <1>4, <1>8, <1>11, <1>12 DEF d, w, v, next

\* What is in the free cells does not wait.
LEMMA FreeCellIsNotThere ==
  ASSUME NEW n \in Nat \ {0, 1}, NEW h \in CellsOf(n), NEW t \in CellsOf(n),
         NEW X, NEW buffer \in Rings(n, X), NEW b \in X
  PROVE  Contents(n, With(buffer, h, b), h, t) = Contents(n, buffer, h, t)
<1> DEFINE d == Distance(n, h, t)
<1>1. h \in 0 .. n - 1 /\ t \in 0 .. n - 1
  BY DEF CellsOf
<1>2. \A k \in 1 .. d : RingSlot(n, t, k) # h
  BY <1>1 DEF RingSlot, Distance
<1> QED BY <1>2 DEF Contents, Rings, With
===============================================================================

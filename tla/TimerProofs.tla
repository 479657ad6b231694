----------------------------- MODULE TimerProofs -----------------------------
(***************************************************************************)
(* The list that the timer interrupt walks (Scheduler) and the clocks that *)
(* the timers drive (SystemClk).                                           *)
(*                                                                         *)
(* For every set of subscriptions, with any periods and callbacks: the     *)
(* walk of the interrupt and the edits of the main program agree on the    *)
(* list.                                                                   *)
(*                                                                         *)
(* The list is a chain of pointers, and what is said of it is said of the  *)
(* array behind it: the nodes L[1] .. L[n], the main program at the j-th   *)
(* and the interrupt at the k-th.  No variable holds them.                 *)
(*                                                                         *)
(* For every length of the timers, every period and every delay: what the  *)
(* two clocks of SystemClk promise.                                        *)
(*                                                                         *)
(* All the counters of the program wrap, and its arithmetic is right only  *)
(* because the differences do not.  The invariants name the numbers behind *)
(* the counters: the time that has really passed, the overflows that were  *)
(* really served, the time of the call, of the reading and of the mark     *)
(* from which delay() measures.  No variable holds any of them.            *)
(***************************************************************************)
EXTENDS Scheduler, SystemClk, CommonTheorems

-----------------------------------------------------------------------------
(* The invariant. *)

Pointers == Subscriptions \cup {NULL}

Typed ==
  /\ use \in {"launcher", "test"}
  /\ next \in [Pointers -> Pointers]
  /\ tick \in 0 .. TICKS - 1
  /\ edit = NoEdit \/ edit \in [pc : {"find", "clear", "unlink"}, sub : Subscriptions, it : Pointers]
  /\ isr \in [running : BOOLEAN, it : Pointers]
  /\ waited \in [Subscriptions -> 0 .. TICKS]

\* Who runs beside whom.
Modes ==
  /\ Edits /\ isr.running => edit = NoEdit
  /\ Interrupts => /\ edit.pc # "unlink"
                   /\ edit.pc = "find" => edit.sub \notin members
                   /\ \A s \in Subscriptions \ members : next[s] = NULL

\* How far the tick is in the period of s.
Phase(s) == tick % timeout[s]

\* No member has waited longer than that, unless it is still to be called.
Waits ==
  \A s \in members :
    \/ waited[s] <= Phase(s)
    \/ isr.running /\ Phase(s) = 0 /\ s \notin called /\ waited[s] <= timeout[s]

Node(n, L, i) == IF i \in 1 .. n THEN L[i] ELSE NULL
Held(n, L) == {L[i] : i \in 1 .. n}

\* The nodes are all different, each leads to the next, and the last to NULL once
\* its pointer is cleared.
Chain(n, L) ==
  /\ \A i, h \in 1 .. n : L[i] = L[h] => i = h
  /\ \A i \in 1 .. n :
       \/ next[L[i]] = Node(n, L, i + 1)
       \/ i = n /\ Edits /\ edit.pc = "clear"

Linked(n, L) ==
  /\ edit.pc # "unlink" => subscriptions = Node(n, L, 1) /\ members = Held(n, L)
  /\ edit.pc = "unlink" => /\ next[NULL] = Node(n, L, 1)
                           /\ Held(n, L) \subseteq members
                           /\ members \subseteq Held(n, L) \cup {edit.sub}

MainAt(n, L, j) ==
  /\ edit.pc = "find" => /\ j \in 1 .. n /\ edit.it = L[j]
                         /\ \A i \in 1 .. n : i < j => L[i] # edit.sub
  /\ edit.pc = "clear" => n > 0 /\ edit.sub = L[n]
  /\ edit.pc = "unlink" => /\ j \in 0 .. n /\ edit.it = Node(n, L, j)
                           /\ \A i \in 1 .. n : i <= j => L[i] # edit.sub

\* The interrupt has called the due ones among the nodes it has passed.
WalkAt(n, L, k) ==
  isr.running => /\ k \in 1 .. n + 1 /\ isr.it = Node(n, L, k)
                 /\ \A i \in 1 .. n : L[i] \in called <=> (i < k /\ Phase(L[i]) = 0)
                 /\ called \subseteq Held(n, L)

List(n, L, j, k) == Chain(n, L) /\ Linked(n, L) /\ MainAt(n, L, j) /\ WalkAt(n, L, k)

ListInv ==
  /\ Typed /\ Modes /\ Waits /\ members \subseteq Subscriptions
  /\ \E n, j, k \in Nat : \E L \in [1 .. n -> Subscriptions] : List(n, L, j, k)

-----------------------------------------------------------------------------
(* Lemmas. *)

LEMMA NodeIsPointer ==
  ASSUME NEW n \in Nat, NEW L \in [1 .. n -> Subscriptions], NEW i \in Int
  PROVE  /\ Node(n, L, i) \in Pointers
         /\ Node(n, L, i) = NULL <=> i \notin 1 .. n
         /\ i \in 1 .. n => Node(n, L, i) = L[i] /\ L[i] \in Subscriptions
BY PeriodAssumption DEF Node, Pointers

\* How far a period has got: the wrap of the tick only ever ends it early.
LEMMA PhaseMovesOn ==
  ASSUME NEW t \in 1 .. TICKS, NEW x \in 0 .. TICKS - 1, NEW y \in Int, y = (x + 1) % TICKS
  PROVE  /\ y \in 0 .. TICKS - 1
         /\ x % t \in Nat /\ (x % t) + 1 <= t
         /\ y % t = 0 \/ y % t = (x % t) + 1
<1> DEFINE q == x \div t
           r == x % t
<1>1. TICKS \in Nat \ {0} /\ t \in Nat \ {0} /\ x \in Nat
  BY PeriodAssumption
<1>2. q \in Int /\ r \in 0 .. t - 1 /\ x = t * q + r
  BY <1>1
<1>3. y = IF x + 1 = TICKS THEN 0 ELSE x + 1
  <2>1. PICK z \in 0 .. 2 * TICKS - 1 : z = x + 1
    BY <1>1
  <2>2. z % TICKS = IF z < TICKS THEN z ELSE z - TICKS
    BY <1>1, ModRange
  <2> QED BY <1>1, <2>1, <2>2
<1> DEFINE s == y % t
<1> SUFFICES s = 0 \/ s = r + 1
  <2>1. r \in Nat /\ r + 1 <= t
    BY <1>1, <1>2
  <2>2. y \in 0 .. TICKS - 1
    BY <1>1, <1>3
  <2> QED BY <2>1, <2>2
<1> HIDE DEF q, r
<1>4. CASE x + 1 = TICKS
  <2>1. y = t * 0 + 0 /\ 0 \in 0 .. t - 1
    BY <1>1, <1>3, <1>4
  <2>2. y % t = 0
    BY <1>1, <2>1, ModUnique
  <2> QED BY <2>2
<1>5. CASE x + 1 # TICKS /\ r + 1 = t
  <2>1. y = t * (q + 1) + 0 /\ 0 \in 0 .. t - 1 /\ q + 1 \in Int
    BY <1>1, <1>2, <1>3, <1>5
  <2>2. (t * (q + 1) + 0) % t = 0
    BY <1>1, <2>1, ModUnique
  <2> QED BY <2>1, <2>2
<1>6. CASE x + 1 # TICKS /\ r + 1 # t
  <2>1. y = t * q + (r + 1) /\ r + 1 \in 0 .. t - 1
    BY <1>1, <1>2, <1>3, <1>6
  <2>2. (t * q + (r + 1)) % t = r + 1
    BY <1>1, <1>2, <2>1, ModUnique
  <2> QED BY <2>1, <2>2
<1> QED BY <1>4, <1>5, <1>6

LEMMA PhaseRange ==
  ASSUME Typed, NEW s \in Subscriptions
  PROVE  Phase(s) \in 0 .. timeout[s] - 1 /\ timeout[s] \in 1 .. TICKS /\ TICKS \in Nat \ {0}
<1>1. timeout[s] \in 1 .. TICKS /\ TICKS \in Nat \ {0}
  BY PeriodAssumption
<1>2. tick \in Int /\ timeout[s] \in Nat \ {0}
  BY <1>1 DEF Typed
<1> QED BY <1>1, <1>2 DEF Phase

\* What a step of the main program has to show where no interrupt runs.
LEMMA Unwalked ==
  ASSUME NEW n, NEW L, NEW k, ~ isr'.running
  PROVE  WalkAt(n, L, k)'
BY DEF WalkAt

LEMMA InitListInv == Init => ListInv
<1> SUFFICES ASSUME Init PROVE ListInv
  OBVIOUS
<1>1. Typed /\ members \subseteq Subscriptions
  BY PeriodAssumption DEF Init, Typed, Pointers
<1>2. Modes
  BY DEF Init, Modes, NoEdit, Pointers
<1>3. Waits
  BY DEF Init, Waits
<1> DEFINE none == [i \in 1 .. 0 |-> NULL]
<1>4. none \in [1 .. 0 -> Subscriptions] /\ 0 \in Nat
  OBVIOUS
<1>5. List(0, none, 0, 0)
  BY DEF Init, List, Chain, Linked, MainAt, WalkAt, Node, Held, NoEdit
<1>6. \E n, j, k \in Nat : \E L \in [1 .. n -> Subscriptions] : List(n, L, j, k)
  BY <1>4, <1>5
<1> QED BY <1>1, <1>2, <1>3, <1>6 DEF ListInv

-----------------------------------------------------------------------------
(* The main program. *)

LEMMA SubscribeKeepsList ==
  ASSUME ListInv, NEW s \in Subscriptions, Subscribe(s)
  PROVE  ListInv'
<1>0. PICK n \in Nat, j \in Nat, k \in Nat : \E L \in [1 .. n -> Subscriptions] : List(n, L, j, k)
  BY DEF ListInv
<1>1. PICK L \in [1 .. n -> Subscriptions] : List(n, L, j, k)
  BY <1>0
<1>2. /\ Typed /\ Modes /\ Waits /\ members \subseteq Subscriptions
      /\ edit = NoEdit /\ edit.pc = "idle" /\ ~ isr.running
      /\ Interrupts => ~ Edits
  BY DEF ListInv, Subscribe, MainMayRun, NoEdit, Interrupts, Edits
<1>3. UNCHANGED <<use, next, tick, isr, called>>
  BY DEF Subscribe
<1>4. subscriptions = Node(n, L, 1) /\ members = Held(n, L)
  BY <1>1, <1>2 DEF List, Linked
<1>5. CASE subscriptions = NULL
  <2>1. n = 0 /\ members = {}
    <3>1. 1 \notin 1 .. n
      BY <1>4, <1>5, NodeIsPointer
    <3>2. n = 0
      BY <3>1
    <3> QED BY <1>4, <3>2 DEF Held
  <2>2. /\ subscriptions' = s /\ edit' = Editing("clear", s, NULL)
        /\ members' = {s} /\ waited' = [waited EXCEPT ![s] = 0]
    BY <1>5, <2>1 DEF Subscribe, Link
  <2>3. edit'.pc = "clear" /\ edit'.sub = s
    BY <2>2 DEF Editing
  <2>4. Typed'
    <3>1. 0 \in 0 .. TICKS
      BY PeriodAssumption
    <3>2. waited' \in [Subscriptions -> 0 .. TICKS]
      BY <1>2, <2>2, <3>1 DEF Typed
    <3> QED BY <1>2, <1>3, <2>2, <3>2 DEF Typed, Editing, Pointers
  <2>5. Modes'
    BY <1>2, <1>3, <2>1, <2>2, <2>3 DEF Modes, Interrupts, Edits
  <2>6. Waits'
    <3>1. waited'[s] = 0 /\ Phase(s)' = Phase(s) /\ Phase(s) \in Nat
      BY <1>2, <1>3, <2>2, PhaseRange DEF Typed, Phase
    <3> QED BY <2>2, <3>1 DEF Waits
  <2> DEFINE M == [i \in 1 .. 1 |-> s]
  <2>7. M \in [1 .. 1 -> Subscriptions] /\ 1 \in Nat /\ 0 \in Nat /\ M[1] = s
    OBVIOUS
  <2>8. List(1, M, 0, 0)'
    <3>1. Node(1, M, 1) = s /\ Node(1, M, 2) = NULL /\ Held(1, M) = {s}
      BY DEF Node, Held
    <3>2. Chain(1, M)'
      <4>1. next'[s] = NULL \/ Edits'
        BY <1>2, <1>3, <2>1 DEF Modes, Interrupts, Edits, Typed
      <4>2. \A i \in 1 .. 1 : i = 1 /\ M[i] = s /\ Node(1, M, i + 1) = NULL
        BY <3>1
      <4> HIDE DEF M
      <4> QED BY <2>3, <4>1, <4>2 DEF Chain
    <3>3. Linked(1, M)' /\ MainAt(1, M, 0)'
      BY <2>2, <2>3, <2>7, <3>1 DEF Linked, MainAt
    <3> QED BY <1>2, <1>3, <3>2, <3>3, Unwalked DEF List
  <2> HIDE DEF M
  <2>9. (\E m, h, l \in Nat : \E K \in [1 .. m -> Subscriptions] : List(m, K, h, l))'
    BY <2>7, <2>8
  <2> QED BY <2>2, <2>4, <2>5, <2>6, <2>9 DEF ListInv
<1>6. CASE subscriptions # NULL
  <2>1. 1 \in 1 .. n /\ subscriptions = L[1]
    <3>1. 1 \in 1 .. n
      BY <1>4, <1>6, NodeIsPointer
    <3> QED BY <1>4, <3>1, NodeIsPointer
  <2>2. edit' = Editing("find", s, subscriptions) /\ UNCHANGED <<subscriptions, members, waited>>
    BY <1>6 DEF Subscribe
  <2>3. edit'.pc = "find" /\ edit'.sub = s /\ edit'.it = L[1]
    BY <2>1, <2>2 DEF Editing
  <2>4. Typed'
    <3>1. edit' \in [pc : {"find", "clear", "unlink"}, sub : Subscriptions, it : Pointers]
      BY <2>1, <2>2 DEF Editing, Pointers
    <3> QED BY <1>2, <1>3, <2>2, <3>1 DEF Typed
  <2>5. Modes'
    BY <1>2, <1>3, <2>2, <2>3 DEF Modes, Interrupts, Edits, Subscribe
  <2>6. Waits'
    BY <1>2, <1>3, <2>2 DEF Waits, Phase
  <2>7. List(n, L, 1, k)'
    <3>1. Chain(n, L)'
      BY <1>1, <1>2, <1>3 DEF List, Chain
    <3>2. Linked(n, L)'
      BY <1>4, <2>2, <2>3 DEF Linked
    <3>3. MainAt(n, L, 1)'
      BY <2>1, <2>3 DEF MainAt
    <3> QED BY <1>2, <1>3, <3>1, <3>2, <3>3, Unwalked DEF List
  <2>8. 1 \in Nat
    OBVIOUS
  <2>9. (\E m, h, l \in Nat : \E K \in [1 .. m -> Subscriptions] : List(m, K, h, l))'
    BY <2>7, <2>8
  <2> QED BY <1>2, <2>2, <2>4, <2>5, <2>6, <2>9 DEF ListInv
<1> QED BY <1>5, <1>6

\* The walk to the tail: when it arrives, the object is the tail itself, or not in
\* the list.
LEMMA FindTailKeepsList ==
  ASSUME ListInv, FindTail
  PROVE  ListInv'
<1>0. PICK n \in Nat, j \in Nat, k \in Nat : \E L \in [1 .. n -> Subscriptions] : List(n, L, j, k)
  BY DEF ListInv
<1>1. PICK L \in [1 .. n -> Subscriptions] : List(n, L, j, k)
  BY <1>0
<1>2. /\ Typed /\ Modes /\ Waits /\ members \subseteq Subscriptions
      /\ edit.pc = "find" /\ ~ isr.running
      /\ use \in {"launcher", "test"} /\ (Interrupts <=> use = "launcher") /\ (Edits <=> use = "test")
  BY DEF ListInv, Typed, FindTail, MainMayRun, Interrupts, Edits
<1>3. UNCHANGED <<use, subscriptions, tick, isr, called>>
  BY DEF FindTail
<1>4. /\ subscriptions = Node(n, L, 1) /\ members = Held(n, L)
      /\ j \in 1 .. n /\ edit.it = L[j] /\ \A i \in 1 .. n : i < j => L[i] # edit.sub
  BY <1>1, <1>2 DEF List, Linked, MainAt
<1>5. edit \in [pc : {"find", "clear", "unlink"}, sub : Subscriptions, it : Pointers]
  BY <1>2 DEF Typed, NoEdit
<1>6. edit.sub \in Subscriptions /\ next \in [Pointers -> Pointers]
  BY <1>2, <1>5 DEF Typed
<1>7. /\ \A i, h \in 1 .. n : L[i] = L[h] => i = h
      /\ \A i \in 1 .. n : next[L[i]] = Node(n, L, i + 1)
  BY <1>1, <1>2 DEF List, Chain
<1>8. ASSUME next[edit.it] = NULL PROVE ListInv'
  <2>1. j = n
    <3>1. j + 1 \notin 1 .. n
      BY <1>4, <1>7, <1>8, NodeIsPointer
    <3> QED BY <1>4, <3>1
  <2>2. /\ next' = [next EXCEPT ![L[n]] = edit.sub] /\ edit' = Editing("clear", edit.sub, NULL)
        /\ members' = members \cup {edit.sub}
        /\ waited' = IF edit.sub \in members THEN waited ELSE [waited EXCEPT ![edit.sub] = 0]
    BY <1>4, <1>8, <2>1 DEF FindTail, Link
  <2>3. edit'.pc = "clear" /\ edit'.sub = edit.sub
    BY <2>2 DEF Editing
  <2>4. n \in 1 .. n /\ L[n] \in members /\ L[n] \in Pointers
    BY <1>2, <1>4, <2>1 DEF Held, Pointers
  <2>5. Typed' /\ members' \subseteq Subscriptions
    <3>1. 0 \in 0 .. TICKS
      BY PeriodAssumption
    <3>2. waited' \in [Subscriptions -> 0 .. TICKS]
      BY <1>2, <2>2, <3>1 DEF Typed
    <3>3. next' \in [Pointers -> Pointers]
      BY <1>6, <2>2, <2>4 DEF Pointers
    <3>4. edit' \in [pc : {"find", "clear", "unlink"}, sub : Subscriptions, it : Pointers]
      BY <1>6, <2>2 DEF Editing, Pointers
    <3> QED BY <1>2, <1>3, <1>6, <2>2, <3>2, <3>3, <3>4 DEF Typed
  <2>6. Modes'
    <3>1. \A s \in Subscriptions \ members' : next'[s] = next[s] /\ s \in Subscriptions \ members
      BY <1>6, <2>2, <2>4 DEF Pointers
    <3> QED BY <1>2, <1>3, <2>3, <3>1 DEF Modes, Interrupts, Edits
  <2>7. Waits'
    <3> SUFFICES ASSUME NEW s \in members'
                 PROVE  (waited[s] <= Phase(s))'
      BY DEF Waits
    <3>1. Phase(s)' = Phase(s)
      BY <1>3 DEF Phase
    <3>2. CASE s \in members
      <4>1. waited'[s] = waited[s]
        BY <1>2, <2>2, <3>2 DEF Typed
      <4> QED BY <1>2, <3>1, <3>2, <4>1 DEF Waits
    <3>3. CASE s \notin members
      <4>1. s = edit.sub /\ waited'[s] = 0
        BY <1>2, <1>6, <2>2, <3>3 DEF Typed
      <4> QED BY <1>2, <1>6, <3>1, <4>1, PhaseRange
    <3> QED BY <3>2, <3>3
  <2>8. CASE edit.sub = L[n]
    <3>1. Edits
      BY <1>2, <2>4, <2>8 DEF Modes
    <3>2. \A i \in 1 .. n : i # n => next'[L[i]] = next[L[i]]
      BY <1>6, <1>7, <2>2, <2>4 DEF Pointers
    <3>3. Chain(n, L)'
      BY <1>3, <1>7, <2>3, <3>1, <3>2 DEF Chain, Edits
    <3>4. Linked(n, L)' /\ MainAt(n, L, j)'
      BY <1>3, <1>4, <2>1, <2>2, <2>3, <2>4, <2>8 DEF Linked, MainAt
    <3>5. List(n, L, j, k)'
      BY <1>2, <1>3, <3>3, <3>4, Unwalked DEF List
    <3>6. (\E m, h, l \in Nat : \E K \in [1 .. m -> Subscriptions] : List(m, K, h, l))'
      BY <3>5
    <3> QED BY <2>5, <2>6, <2>7, <3>6 DEF ListInv
  <2>9. CASE edit.sub # L[n]
    <3>1. \A i \in 1 .. n : L[i] # edit.sub
      BY <1>4, <2>1, <2>9
    <3> DEFINE M == [i \in 1 .. n + 1 |-> IF i = n + 1 THEN edit.sub ELSE L[i]]
    <3>2. PICK K \in [1 .. n + 1 -> Subscriptions] : K = M
      <4>1. \A i \in 1 .. n + 1 : i # n + 1 => i \in 1 .. n
        OBVIOUS
      <4>2. M \in [1 .. n + 1 -> Subscriptions]
        BY <1>6, <4>1
      <4> QED BY <4>2
    <3>3. K[n + 1] = edit.sub /\ \A i \in 1 .. n : K[i] = L[i]
      BY <3>2
    <3> HIDE DEF M
    <3>4. PICK m \in Nat : m = n + 1
      OBVIOUS
    <3>5. Chain(m, K)'
      <4>1. ASSUME NEW i \in 1 .. m, NEW h \in 1 .. m, K[i] = K[h] PROVE i = h
        <5>1. (i = n + 1 \/ i \in 1 .. n) /\ (h = n + 1 \/ h \in 1 .. n)
          BY <3>4
        <5> QED BY <1>7, <3>1, <3>3, <4>1, <5>1
      <4>2. ASSUME NEW i \in 1 .. m
            PROVE  next'[K[i]] = Node(m, K, i + 1) \/ (i = m /\ Edits' /\ edit'.pc = "clear")
        <5>1. CASE i = m
          <6>1. next'[edit.sub] = next[edit.sub] /\ edit.sub \notin members
            BY <1>4, <1>6, <2>2, <2>9, <3>1 DEF Held, Pointers
          <6>2. Interrupts => next[edit.sub] = NULL
            BY <1>2, <1>6, <6>1 DEF Modes
          <6>3. Node(m, K, i + 1) = NULL
            BY <5>1 DEF Node
          <6> QED BY <1>2, <1>3, <2>3, <3>3, <3>4, <5>1, <6>1, <6>2, <6>3 DEF Edits, Interrupts
        <5>2. CASE i \in 1 .. n /\ i = n
          <6>1. next'[L[n]] = edit.sub
            BY <1>6, <2>2, <2>4
          <6>2. Node(m, K, i + 1) = edit.sub
            BY <3>3, <3>4, <5>2 DEF Node
          <6> QED BY <3>3, <5>2, <6>1, <6>2
        <5>3. CASE i \in 1 .. n /\ i # n
          <6>1. next'[L[i]] = next[L[i]]
            BY <1>6, <1>7, <2>2, <2>4, <5>3 DEF Pointers
          <6>2. i + 1 \in 1 .. n /\ i + 1 \in 1 .. m
            BY <3>4, <5>3
          <6>3. Node(m, K, i + 1) = L[i + 1] /\ Node(n, L, i + 1) = L[i + 1]
            BY <3>3, <6>2 DEF Node
          <6> QED BY <1>7, <3>3, <5>3, <6>1, <6>3
        <5>4. i = m \/ i \in 1 .. n
          BY <3>4
        <5> QED BY <5>1, <5>2, <5>3, <5>4
      <4> QED BY <4>1, <4>2 DEF Chain
    <3>6. Linked(m, K)'
      <4>1. Held(m, K) = Held(n, L) \cup {edit.sub}
        <5>1. \A i : i \in 1 .. m <=> (i \in 1 .. n \/ i = n + 1)
          BY <3>4
        <5> QED BY <3>3, <5>1 DEF Held
      <4>2. Node(m, K, 1) = Node(n, L, 1)
        <5>1. 1 \in 1 .. n /\ 1 \in 1 .. m
          BY <2>4, <3>4
        <5> QED BY <3>3, <5>1 DEF Node
      <4> QED BY <1>3, <1>4, <2>2, <2>3, <4>1, <4>2 DEF Linked
    <3>7. MainAt(m, K, j)'
      BY <2>3, <3>3, <3>4 DEF MainAt
    <3>8. List(m, K, j, k)'
      BY <1>2, <1>3, <3>5, <3>6, <3>7, Unwalked DEF List
    <3>9. K \in [1 .. m -> Subscriptions]
      BY <3>2, <3>4
    <3>10. (\E m_, h, l \in Nat : \E K_ \in [1 .. m_ -> Subscriptions] : List(m_, K_, h, l))'
      BY <3>8, <3>9
    <3> QED BY <2>5, <2>6, <2>7, <3>10 DEF ListInv
  <2> QED BY <2>8, <2>9
<1>9. ASSUME next[edit.it] # NULL PROVE ListInv'
  <2>1. /\ UNCHANGED <<next, members, waited>>
        /\ edit' = IF callback[edit.it] = callback[edit.sub]
                     THEN NoEdit ELSE [edit EXCEPT !.it = next[edit.it]]
    BY <1>9 DEF FindTail
  <2>2. j + 1 \in 1 .. n /\ next[edit.it] = L[j + 1]
    <3>1. next[edit.it] = Node(n, L, j + 1)
      BY <1>4, <1>7
    <3>2. j + 1 \in 1 .. n
      BY <1>9, <3>1, NodeIsPointer
    <3> QED BY <3>1, <3>2, NodeIsPointer
  <2>3. Waits'
    BY <1>2, <1>3, <2>1 DEF Waits, Phase
  <2>4. CASE callback[edit.it] = callback[edit.sub]
    <3>1. edit' = NoEdit /\ edit'.pc = "idle"
      BY <2>1, <2>4 DEF NoEdit
    <3>2. Typed' /\ Modes'
      BY <1>2, <1>3, <2>1, <3>1 DEF Typed, Modes, Interrupts, Edits
    <3>3. Chain(n, L)'
      BY <1>7, <2>1 DEF Chain
    <3>4. Linked(n, L)' /\ MainAt(n, L, j)'
      BY <1>3, <1>4, <2>1, <3>1 DEF Linked, MainAt
    <3>5. List(n, L, j, k)'
      BY <1>2, <1>3, <3>3, <3>4, Unwalked DEF List
    <3>6. (\E m, h, l \in Nat : \E K \in [1 .. m -> Subscriptions] : List(m, K, h, l))'
      BY <3>5
    <3> QED BY <1>2, <2>1, <2>3, <3>2, <3>6 DEF ListInv
  <2>5. CASE callback[edit.it] # callback[edit.sub]
    <3>1. edit' = [edit EXCEPT !.it = next[edit.it]]
      BY <2>1, <2>5
    <3>2. /\ edit'.pc = "find" /\ edit'.sub = edit.sub /\ edit'.it = L[j + 1]
          /\ edit' \in [pc : {"find", "clear", "unlink"}, sub : Subscriptions, it : Pointers]
      BY <1>2, <1>5, <2>2, <3>1 DEF Pointers
    <3>3. Typed' /\ Modes'
      BY <1>2, <1>3, <2>1, <3>2 DEF Typed, Modes, Interrupts, Edits
    <3>4. Chain(n, L)'
      BY <1>7, <2>1 DEF Chain
    <3>5. L[j] # edit.sub
      BY <1>4, <2>5
    <3>6. PICK h \in Nat : h = j + 1
      OBVIOUS
    <3>7. MainAt(n, L, h)'
      <4>1. \A i \in 1 .. n : i < h => i < j \/ i = j
        BY <3>6
      <4> QED BY <1>4, <2>2, <3>2, <3>5, <3>6, <4>1 DEF MainAt
    <3>8. Linked(n, L)'
      BY <1>3, <1>4, <2>1, <3>2 DEF Linked
    <3>9. List(n, L, h, k)'
      BY <1>2, <1>3, <3>4, <3>7, <3>8, Unwalked DEF List
    <3>10. (\E m, h_, l \in Nat : \E K \in [1 .. m -> Subscriptions] : List(m, K, h_, l))'
      BY <3>9
    <3> QED BY <1>2, <2>1, <2>3, <3>3, <3>10 DEF ListInv
  <2> QED BY <2>4, <2>5
<1> QED BY <1>8, <1>9

LEMMA ClearNextKeepsList ==
  ASSUME ListInv, ClearNext
  PROVE  ListInv'
<1>0. PICK n \in Nat, j \in Nat, k \in Nat : \E L \in [1 .. n -> Subscriptions] : List(n, L, j, k)
  BY DEF ListInv
<1>1. PICK L \in [1 .. n -> Subscriptions] : List(n, L, j, k)
  BY <1>0
<1>2. /\ Typed /\ Modes /\ Waits /\ members \subseteq Subscriptions
      /\ edit.pc = "clear" /\ ~ isr.running /\ edit'.pc = "idle" /\ edit' = NoEdit
      /\ next \in [Pointers -> Pointers] /\ next' = [next EXCEPT ![edit.sub] = NULL]
  BY DEF ListInv, Typed, ClearNext, MainMayRun, NoEdit
<1>3. UNCHANGED <<use, subscriptions, tick, isr, members, called, waited>>
  BY DEF ClearNext
<1>4. /\ subscriptions = Node(n, L, 1) /\ members = Held(n, L)
      /\ n \in 1 .. n /\ edit.sub = L[n] /\ L[n] \in Pointers
  BY <1>1, <1>2 DEF List, Linked, MainAt, Pointers
<1>5. Typed'
  BY <1>2, <1>3 DEF Typed, Pointers
<1>6. Modes'
  <2>1. \A s \in Subscriptions : next'[s] = next[s] \/ next'[s] = NULL
    BY <1>2, <1>4 DEF Pointers
  <2> QED BY <1>2, <1>3, <2>1 DEF Modes, Interrupts, Edits
<1>7. Waits'
  BY <1>2, <1>3 DEF Waits, Phase
<1>8. Chain(n, L)'
  <2>1. \A i, h \in 1 .. n : L[i] = L[h] => i = h
    BY <1>1 DEF List, Chain
  <2>2. ASSUME NEW i \in 1 .. n PROVE next'[L[i]] = Node(n, L, i + 1)
    <3>1. CASE i = n
      BY <1>2, <1>4, <3>1 DEF Node
    <3>2. CASE i # n
      <4>1. L[i] # L[n] /\ L[i] \in Pointers
        BY <1>4, <2>1, <3>2 DEF Pointers
      <4>2. next[L[i]] = Node(n, L, i + 1)
        BY <1>1, <3>2 DEF List, Chain
      <4> QED BY <1>2, <1>4, <4>1, <4>2
    <3> QED BY <3>1, <3>2
  <2> QED BY <2>1, <2>2 DEF Chain
<1>9. Linked(n, L)' /\ MainAt(n, L, j)'
  BY <1>2, <1>3, <1>4 DEF Linked, MainAt
<1>10. List(n, L, j, k)'
  BY <1>2, <1>3, <1>8, <1>9, Unwalked DEF List
<1>11. (\E m, h, l \in Nat : \E K \in [1 .. m -> Subscriptions] : List(m, K, h, l))'
  BY <1>10
<1> QED BY <1>2, <1>3, <1>5, <1>6, <1>7, <1>11 DEF ListInv

LEMMA UnsubscribeKeepsList ==
  ASSUME ListInv, NEW s \in Subscriptions, Unsubscribe(s)
  PROVE  ListInv'
<1>0. PICK n \in Nat, j \in Nat, k \in Nat : \E L \in [1 .. n -> Subscriptions] : List(n, L, j, k)
  BY DEF ListInv
<1>1. PICK L \in [1 .. n -> Subscriptions] : List(n, L, j, k)
  BY <1>0
<1>2. /\ Typed /\ Modes /\ Waits /\ members \subseteq Subscriptions
      /\ edit.pc = "idle" /\ ~ isr.running /\ Edits /\ ~ Interrupts
      /\ edit' = Editing("unlink", s, NULL) /\ edit'.pc = "unlink" /\ edit'.sub = s /\ edit'.it = NULL
      /\ next \in [Pointers -> Pointers] /\ next' = [next EXCEPT ![NULL] = subscriptions]
  BY DEF ListInv, Typed, Unsubscribe, MainMayRun, NoEdit, Editing, Edits, Interrupts
<1>3. UNCHANGED <<use, subscriptions, tick, isr, members, called, waited>>
  BY DEF Unsubscribe
<1>4. /\ subscriptions = Node(n, L, 1) /\ members = Held(n, L) /\ subscriptions \in Pointers
      /\ Node(n, L, 0) = NULL
  BY <1>1, <1>2, NodeIsPointer DEF List, Linked, MainAt
<1>5. Typed'
  <2>1. edit' \in [pc : {"find", "clear", "unlink"}, sub : Subscriptions, it : Pointers]
    BY <1>2 DEF Editing, Pointers
  <2> QED BY <1>2, <1>3, <1>4, <2>1 DEF Typed
<1>6. Modes'
  BY <1>2, <1>3 DEF Modes, Interrupts, Edits
<1>7. Waits'
  BY <1>2, <1>3 DEF Waits, Phase
<1>8. Chain(n, L)'
  <2>1. \A i \in 1 .. n : next'[L[i]] = next[L[i]]
    BY <1>2, PeriodAssumption DEF Pointers
  <2> QED BY <1>1, <1>2, <2>1 DEF List, Chain
<1>9. Linked(n, L)' /\ MainAt(n, L, 0)'
  <2>1. next'[NULL] = Node(n, L, 1)
    BY <1>2, <1>4 DEF Pointers
  <2> QED BY <1>2, <1>3, <1>4, <2>1 DEF Linked, MainAt
<1>10. List(n, L, 0, k)'
  BY <1>2, <1>3, <1>8, <1>9, Unwalked DEF List
<1>11. (\E m, h, l \in Nat : \E K \in [1 .. m -> Subscriptions] : List(m, K, h, l))'
  <2>1. 0 \in Nat
    OBVIOUS
  <2> QED BY <1>10, <2>1
<1> QED BY <1>2, <1>3, <1>5, <1>6, <1>7, <1>11 DEF ListInv

\* The walk of prev: an object that is met is passed over, and it is met once.
LEMMA UnlinkKeepsList ==
  ASSUME ListInv, Unlink
  PROVE  ListInv'
<1>0. PICK n \in Nat, j \in Nat, k \in Nat : \E L \in [1 .. n -> Subscriptions] : List(n, L, j, k)
  BY DEF ListInv
<1>1. PICK L \in [1 .. n -> Subscriptions] : List(n, L, j, k)
  BY <1>0
<1>2. /\ Typed /\ Modes /\ Waits /\ members \subseteq Subscriptions
      /\ edit.pc = "unlink" /\ ~ isr.running /\ Edits /\ ~ Interrupts
      /\ next \in [Pointers -> Pointers] /\ NULL \in Pointers
  <2>1. /\ Typed /\ Modes /\ Waits /\ members \subseteq Subscriptions
        /\ edit.pc = "unlink" /\ ~ isr.running /\ next \in [Pointers -> Pointers]
        /\ use \in {"launcher", "test"}
    BY DEF ListInv, Typed, Unlink, MainMayRun
  <2> QED BY <2>1 DEF Modes, Edits, Interrupts, Pointers
<1>3. UNCHANGED <<use, tick, isr, called, waited>>
  BY DEF Unlink
<1>4. edit \in [pc : {"find", "clear", "unlink"}, sub : Subscriptions, it : Pointers]
  BY <1>2 DEF Typed, NoEdit
<1>5. /\ next[NULL] = Node(n, L, 1)
      /\ Held(n, L) \subseteq members /\ members \subseteq Held(n, L) \cup {edit.sub}
      /\ j \in 0 .. n /\ edit.it = Node(n, L, j)
      /\ \A i \in 1 .. n : i <= j => L[i] # edit.sub
  BY <1>1, <1>2 DEF List, Linked, MainAt
<1>6. /\ \A i, h \in 1 .. n : L[i] = L[h] => i = h
      /\ \A i \in 1 .. n : next[L[i]] = Node(n, L, i + 1)
      /\ \A i \in 1 .. n : L[i] \in Pointers /\ L[i] # NULL /\ L[i] \in Subscriptions
  <2>1. \A i \in 1 .. n : L[i] \in Pointers /\ L[i] # NULL /\ L[i] \in Subscriptions
    BY PeriodAssumption DEF Pointers
  <2> QED BY <1>1, <1>2, <2>1 DEF List, Chain
<1>7. next[edit.it] = Node(n, L, j + 1)
  <2>1. CASE j = 0
    <3>1. edit.it = NULL /\ j + 1 = 1
      BY <1>5, <2>1, NodeIsPointer
    <3> QED BY <1>5, <3>1
  <2>2. CASE j \in 1 .. n
    <3>1. edit.it = L[j]
      BY <1>5, <2>2, NodeIsPointer
    <3> QED BY <1>6, <2>2, <3>1
  <2> QED BY <1>5, <2>1, <2>2
<1>8. edit.it \in Pointers
  BY <1>5, NodeIsPointer
<1>9. Waits /\ Typed /\ (members' \subseteq members => Waits')
  BY <1>2, <1>3 DEF Waits, Phase
<1>10. ASSUME next[edit.it] = NULL PROVE ListInv'
  <2>1. j = n
    <3>1. j + 1 \notin 1 .. n
      BY <1>7, <1>10, NodeIsPointer
    <3> QED BY <1>5, <3>1
  <2>2. /\ subscriptions' = next[NULL] /\ next' = [next EXCEPT ![NULL] = NULL]
        /\ edit' = NoEdit /\ edit'.pc = "idle" /\ members' = members \ {edit.sub}
    BY <1>10 DEF Unlink, NoEdit
  <2>3. Typed' /\ Modes'
    BY <1>2, <1>3, <2>2 DEF Typed, Modes, Interrupts, Edits
  <2>4. members' = Held(n, L)
    <3>1. edit.sub \notin Held(n, L)
      BY <1>5, <2>1 DEF Held
    <3> QED BY <1>5, <2>2, <3>1
  <2>5. Chain(n, L)'
    <3>1. \A i \in 1 .. n : next'[L[i]] = next[L[i]]
      BY <1>2, <1>6, <2>2
    <3> QED BY <1>6, <3>1 DEF Chain
  <2>6. Linked(n, L)' /\ MainAt(n, L, j)'
    BY <1>5, <2>2, <2>4 DEF Linked, MainAt
  <2>7. List(n, L, j, k)'
    BY <1>2, <1>3, <2>5, <2>6, Unwalked DEF List
  <2>8. (\E m, h, l \in Nat : \E K \in [1 .. m -> Subscriptions] : List(m, K, h, l))'
    BY <2>7
  <2> QED BY <1>2, <1>9, <2>2, <2>3, <2>8 DEF ListInv
<1>11. ASSUME next[edit.it] # NULL PROVE ListInv'
  <2>1. j + 1 \in 1 .. n /\ next[edit.it] = L[j + 1]
    <3>1. j + 1 \in 1 .. n
      BY <1>7, <1>11, NodeIsPointer
    <3> QED BY <1>7, <3>1, NodeIsPointer
  <2>2. UNCHANGED <<subscriptions, members>>
    BY <1>11 DEF Unlink
  <2>3. CASE L[j + 1] = edit.sub
    <3>1. next' = [next EXCEPT ![edit.it] = Node(n, L, j + 2)] /\ UNCHANGED edit
      <4>1. next[L[j + 1]] = Node(n, L, j + 2)
        <5>1. (j + 1) + 1 = j + 2
          OBVIOUS
        <5> QED BY <1>6, <2>1, <5>1
      <4> QED BY <1>11, <2>1, <2>3, <4>1 DEF Unlink
    <3>2. Node(n, L, j + 2) \in Pointers
      BY NodeIsPointer
    <3>3. Typed' /\ Modes'
      BY <1>2, <1>3, <3>1, <3>2 DEF Typed, Modes, Interrupts, Edits
    <3>4. PICK m \in Nat : m = n - 1
      BY <2>1
    <3>5. j \in 0 .. m /\ \A i \in 1 .. m : i \in 1 .. n /\ i + 1 \in 1 .. n
      BY <1>5, <2>1, <3>4
    <3> DEFINE M == [i \in 1 .. m |-> IF i <= j THEN L[i] ELSE L[i + 1]]
    <3>6. PICK K \in [1 .. m -> Subscriptions] : K = M
      <4>1. M \in [1 .. m -> Subscriptions]
        BY <3>5
      <4> QED BY <4>1
    <3>7. \A i \in 1 .. m : K[i] = IF i <= j THEN L[i] ELSE L[i + 1]
      BY <3>6
    <3> HIDE DEF M
    <3>8. \A i, h \in 1 .. m : K[i] = K[h] => i = h
      <4> TAKE i, h \in 1 .. m
      <4> HAVE K[i] = K[h]
      <4>1. /\ i \in 1 .. n /\ i + 1 \in 1 .. n /\ h \in 1 .. n /\ h + 1 \in 1 .. n /\ j \in Nat
            /\ K[i] = (IF i <= j THEN L[i] ELSE L[i + 1])
            /\ K[h] = (IF h <= j THEN L[h] ELSE L[h + 1])
        BY <3>5, <3>7
      <4>2. CASE i <= j /\ h <= j
        BY <1>6, <4>1, <4>2
      <4>3. CASE i <= j /\ ~ h <= j
        <5>1. L[i] = L[h + 1]
          BY <4>1, <4>3
        <5>2. i = h + 1
          BY <1>6, <4>1, <5>1
        <5> QED BY <4>1, <4>3, <5>2
      <4>4. CASE ~ i <= j /\ h <= j
        <5>1. L[i + 1] = L[h]
          BY <4>1, <4>4
        <5>2. i + 1 = h
          BY <1>6, <4>1, <5>1
        <5> QED BY <4>1, <4>4, <5>2
      <4>5. CASE ~ i <= j /\ ~ h <= j
        <5>1. L[i + 1] = L[h + 1]
          BY <4>1, <4>5
        <5>2. i + 1 = h + 1
          BY <1>6, <4>1, <5>1
        <5> QED BY <4>1, <5>2
      <4> QED BY <4>2, <4>3, <4>4, <4>5
    <3>9. \A i \in Nat : i > j => Node(m, K, i) = Node(n, L, i + 1)
      <4> TAKE i \in Nat
      <4> HAVE i > j
      <4>1. i \in 1 .. m <=> i + 1 \in 1 .. n
        BY <2>1, <3>4
      <4>2. i \in 1 .. m => K[i] = L[i + 1]
        BY <3>7
      <4> QED BY <4>1, <4>2 DEF Node
    <3>10. \A i \in Nat : i <= j => Node(m, K, i) = Node(n, L, i)
      <4> TAKE i \in Nat
      <4> HAVE i <= j
      <4>1. i \in 1 .. m <=> i \in 1 .. n
        BY <2>1, <3>4
      <4>2. i \in 1 .. m => K[i] = L[i]
        BY <3>7
      <4> QED BY <4>1, <4>2 DEF Node
    <3>11. Chain(m, K)'
      <4>1. ASSUME NEW i \in 1 .. m PROVE next'[K[i]] = Node(m, K, i + 1)
        <5>1. i \in Nat /\ i \in 1 .. n /\ i + 1 \in 1 .. n /\ i + 1 \in Nat /\ j \in Nat
          BY <3>5
        <5>2. CASE i < j
          <6>1. K[i] = L[i] /\ Node(m, K, i + 1) = Node(n, L, i + 1)
            <7>1. i <= j /\ i + 1 <= j
              BY <5>1, <5>2
            <7> QED BY <3>7, <3>10, <5>1, <7>1
          <6>2. edit.it # L[i]
            <7>1. j \in 1 .. n /\ i # j
              BY <1>5, <5>1, <5>2
            <7>2. edit.it = L[j]
              BY <1>5, <7>1, NodeIsPointer
            <7> QED BY <1>6, <5>1, <7>1, <7>2
          <6>3. next'[L[i]] = next[L[i]]
            BY <1>2, <1>6, <3>1, <5>1, <6>2
          <6> QED BY <1>6, <5>1, <6>1, <6>3
        <5>3. CASE i = j
          <6>1. K[i] = L[i] /\ edit.it = L[i]
            <7>1. i <= j
              BY <5>1, <5>3
            <7> QED BY <1>5, <3>7, <5>1, <5>3, <7>1, NodeIsPointer
          <6>2. next'[L[i]] = Node(n, L, j + 2)
            BY <1>2, <1>8, <3>1, <6>1
          <6>3. Node(m, K, i + 1) = Node(n, L, j + 2)
            <7>1. i + 1 > j /\ (i + 1) + 1 = j + 2
              BY <5>1, <5>3
            <7> QED BY <3>9, <5>1, <7>1
          <6> QED BY <6>1, <6>2, <6>3
        <5>4. CASE i > j
          <6>1. K[i] = L[i + 1]
            <7>1. ~ i <= j
              BY <5>1, <5>4
            <7> QED BY <3>7, <7>1
          <6>2. edit.it # L[i + 1]
            <7>1. CASE j = 0
              <8>1. edit.it = NULL
                BY <1>5, <7>1, NodeIsPointer
              <8> QED BY <1>6, <5>1, <8>1
            <7>2. CASE j \in 1 .. n
              <8>1. edit.it = L[j]
                BY <1>5, <7>2, NodeIsPointer
              <8>2. j # i + 1
                BY <5>1, <5>4
              <8> QED BY <1>6, <5>1, <7>2, <8>1, <8>2
            <7> QED BY <1>5, <7>1, <7>2
          <6>3. next'[L[i + 1]] = next[L[i + 1]]
            BY <1>2, <1>6, <3>1, <5>1, <6>2
          <6>4. next[L[i + 1]] = Node(n, L, (i + 1) + 1)
            BY <1>6, <5>1
          <6>5. Node(m, K, i + 1) = Node(n, L, (i + 1) + 1)
            <7>1. i + 1 > j
              BY <5>1, <5>4
            <7> QED BY <3>9, <5>1, <7>1
          <6> QED BY <6>1, <6>3, <6>4, <6>5
        <5> QED BY <5>1, <5>2, <5>3, <5>4
      <4> QED BY <3>8, <4>1 DEF Chain
    <3>12. Linked(m, K)'
      <4>1. next'[NULL] = Node(m, K, 1)
        <5>1. CASE j = 0
          <6>1. edit.it = NULL
            BY <1>5, <5>1, NodeIsPointer
          <6>2. Node(m, K, 1) = Node(n, L, j + 2)
            <7>1. 1 \in Nat /\ 1 > j /\ 1 + 1 = j + 2
              BY <5>1
            <7> QED BY <3>9, <7>1
          <6> QED BY <1>2, <3>1, <6>1, <6>2
        <5>2. CASE j \in 1 .. n
          <6>1. edit.it # NULL
            BY <1>5, <1>6, <5>2, NodeIsPointer
          <6>2. next'[NULL] = next[NULL]
            BY <1>2, <3>1, <6>1
          <6>3. Node(m, K, 1) = Node(n, L, 1)
            <7>1. 1 \in Nat /\ 1 <= j
              BY <5>2
            <7> QED BY <3>10, <7>1
          <6> QED BY <1>5, <6>2, <6>3
        <5> QED BY <1>5, <5>1, <5>2
      <4>2. Held(m, K) \subseteq Held(n, L)
        BY <3>5, <3>7 DEF Held
      <4>3. Held(n, L) \subseteq Held(m, K) \cup {edit.sub}
        <5> SUFFICES ASSUME NEW i \in 1 .. n PROVE L[i] \in Held(m, K) \cup {edit.sub}
          BY DEF Held
        <5>1. CASE i <= j
          <6>1. i \in 1 .. m
            BY <3>5, <5>1
          <6> QED BY <3>7, <5>1, <6>1 DEF Held
        <5>2. CASE i = j + 1
          BY <2>3, <5>2
        <5>3. CASE i > j + 1
          <6>1. i - 1 \in 1 .. m /\ ~ (i - 1 <= j) /\ (i - 1) + 1 = i
            BY <3>4, <3>5, <5>3
          <6>2. K[i - 1] = L[i]
            BY <3>7, <6>1
          <6> QED BY <6>1, <6>2 DEF Held
        <5> QED BY <5>1, <5>2, <5>3
      <4>4. Held(m, K)' = Held(m, K)
        BY DEF Held
      <4> QED BY <1>2, <1>5, <2>2, <3>1, <4>1, <4>2, <4>3 DEF Linked
    <3>13. MainAt(m, K, j)'
      <4>1. edit.it = Node(m, K, j)
        <5>1. j <= j
          OBVIOUS
        <5> QED BY <1>5, <3>10, <5>1
      <4>2. \A i \in 1 .. m : i <= j => K[i] # edit.sub
        BY <1>5, <3>5, <3>7
      <4> QED BY <1>2, <3>1, <3>5, <4>1, <4>2 DEF MainAt
    <3>14. List(m, K, j, k)'
      BY <1>2, <1>3, <3>11, <3>12, <3>13, Unwalked DEF List
    <3>15. (\E m_, h, l \in Nat : \E K_ \in [1 .. m_ -> Subscriptions] : List(m_, K_, h, l))'
      BY <3>14
    <3> QED BY <1>2, <1>9, <2>2, <3>3, <3>15 DEF ListInv
  <2>4. CASE L[j + 1] # edit.sub
    <3>1. edit' = [edit EXCEPT !.it = L[j + 1]] /\ UNCHANGED next
      BY <1>11, <2>1, <2>4 DEF Unlink
    <3>2. /\ edit'.pc = "unlink" /\ edit'.sub = edit.sub /\ edit'.it = L[j + 1]
          /\ edit' \in [pc : {"find", "clear", "unlink"}, sub : Subscriptions, it : Pointers]
      BY <1>2, <1>4, <1>6, <2>1, <3>1
    <3>3. Typed' /\ Modes'
      BY <1>2, <1>3, <3>1, <3>2 DEF Typed, Modes, Interrupts, Edits
    <3>4. Chain(n, L)' /\ Linked(n, L)'
      BY <1>2, <1>5, <1>6, <2>2, <3>1, <3>2 DEF Chain, Linked
    <3>5. PICK h \in Nat : h = j + 1
      OBVIOUS
    <3>6. MainAt(n, L, h)'
      <4>1. \A i \in 1 .. n : i <= h => i <= j \/ i = j + 1
        BY <3>5
      <4>2. h \in 0 .. n /\ edit'.it = Node(n, L, h)
        BY <2>1, <3>2, <3>5, NodeIsPointer
      <4> QED BY <1>5, <2>4, <3>2, <4>1, <4>2 DEF MainAt
    <3>7. List(n, L, h, k)'
      BY <1>2, <1>3, <3>4, <3>6, Unwalked DEF List
    <3>8. (\E m, h_, l \in Nat : \E K \in [1 .. m -> Subscriptions] : List(m, K, h_, l))'
      BY <3>7
    <3> QED BY <1>2, <1>9, <2>2, <3>3, <3>8 DEF ListInv
  <2> QED BY <2>3, <2>4
<1> QED BY <1>10, <1>11

-----------------------------------------------------------------------------
(* The interrupt. *)

LEMMA StartTickKeepsList ==
  ASSUME ListInv, StartTick
  PROVE  ListInv'
<1>0. PICK n \in Nat, j \in Nat, k \in Nat : \E L \in [1 .. n -> Subscriptions] : List(n, L, j, k)
  BY DEF ListInv
<1>1. PICK L \in [1 .. n -> Subscriptions] : List(n, L, j, k)
  BY <1>0
<1>2. /\ Typed /\ Modes /\ Waits /\ members \subseteq Subscriptions /\ ~ isr.running
      /\ use \in {"launcher", "test"} /\ (Interrupts \/ edit = NoEdit)
  BY DEF ListInv, Typed, StartTick
<1>3. /\ UNCHANGED <<use, subscriptions, next, edit, members>>
      /\ tick' = (tick + 1) % TICKS /\ isr' = [running |-> TRUE, it |-> subscriptions] /\ called' = {}
      /\ waited' = [s \in Subscriptions |-> IF s \in members THEN waited[s] + 1 ELSE 0]
  BY DEF StartTick
<1>4. edit.pc # "unlink"
  BY <1>2 DEF Modes, NoEdit
<1>5. subscriptions = Node(n, L, 1) /\ members = Held(n, L) /\ subscriptions \in Pointers
  BY <1>1, <1>4, NodeIsPointer DEF List, Linked
<1>6. ASSUME NEW s \in members
      PROVE  /\ waited[s] \in Nat /\ waited'[s] = waited[s] + 1 /\ waited[s] <= Phase(s)
             /\ Phase(s) \in Nat /\ Phase(s) + 1 <= timeout[s] /\ timeout[s] \in 1 .. TICKS
             /\ Phase(s)' = 0 \/ Phase(s)' = Phase(s) + 1
  <2>1. s \in Subscriptions /\ waited[s] \in Nat
    BY <1>2 DEF Typed
  <2>2. waited'[s] = waited[s] + 1
    BY <1>3, <2>1
  <2>3. waited[s] <= Phase(s)
    BY <1>2 DEF Waits
  <2>4. timeout[s] \in 1 .. TICKS /\ tick \in 0 .. TICKS - 1 /\ TICKS \in Nat \ {0}
    BY <1>2, <2>1, PeriodAssumption DEF Typed
  <2>5. PICK y \in Int : y = (tick + 1) % TICKS
    BY <2>4
  <2>6. /\ tick % timeout[s] \in Nat /\ (tick % timeout[s]) + 1 <= timeout[s]
        /\ y % timeout[s] = 0 \/ y % timeout[s] = (tick % timeout[s]) + 1
    BY <2>4, <2>5, PhaseMovesOn
  <2> QED BY <1>3, <2>1, <2>2, <2>3, <2>4, <2>5, <2>6 DEF Phase
<1>7. Typed'
  <2>1. tick' \in 0 .. TICKS - 1
    <3>1. tick \in Int /\ TICKS \in Nat \ {0}
      BY <1>2, PeriodAssumption DEF Typed
    <3> QED BY <1>3, <3>1
  <2>2. waited' \in [Subscriptions -> 0 .. TICKS]
    <3>1. ASSUME NEW s \in Subscriptions
          PROVE  (IF s \in members THEN waited[s] + 1 ELSE 0) \in 0 .. TICKS
      <4>1. TICKS \in Nat
        BY PeriodAssumption
      <4>2. CASE s \in members
        BY <1>6, <4>1, <4>2
      <4>3. CASE s \notin members
        BY <4>1, <4>3
      <4> QED BY <4>2, <4>3
    <3> QED BY <1>3, <3>1
  <2>3. isr' \in [running : BOOLEAN, it : Pointers]
    BY <1>3, <1>5
  <2> QED BY <1>2, <1>3, <2>1, <2>2, <2>3 DEF Typed
<1>8. Modes'
  BY <1>2, <1>3 DEF Modes, Interrupts, Edits
<1>9. Waits'
  <2> SUFFICES ASSUME NEW s \in members
               PROVE  \/ waited'[s] <= Phase(s)'
                      \/ isr'.running /\ Phase(s)' = 0 /\ s \notin called' /\ waited'[s] <= timeout[s]
    BY <1>3 DEF Waits
  <2>1. isr'.running /\ s \notin called'
    BY <1>3
  <2>2. CASE Phase(s)' = 0
    <3>1. waited'[s] <= timeout[s]
      BY <1>6
    <3> QED BY <2>1, <2>2, <3>1
  <2>3. CASE Phase(s)' = Phase(s) + 1
    BY <1>6, <2>3
  <2> QED BY <1>6, <2>2, <2>3
<1>10. Chain(n, L)' /\ Linked(n, L)' /\ MainAt(n, L, j)'
  BY <1>1, <1>3 DEF List, Chain, Linked, MainAt, Edits
<1>11. WalkAt(n, L, 1)'
  BY <1>3, <1>5 DEF WalkAt
<1>12. (\E m, h, l \in Nat : \E K \in [1 .. m -> Subscriptions] : List(m, K, h, l))'
  <2>1. 1 \in Nat
    OBVIOUS
  <2>2. List(n, L, j, 1)'
    BY <1>10, <1>11 DEF List
  <2> QED BY <2>1, <2>2
<1> QED BY <1>2, <1>3, <1>7, <1>8, <1>9, <1>12 DEF ListInv

LEMMA VisitNodeKeepsList ==
  ASSUME ListInv, VisitNode
  PROVE  ListInv'
<1>0. PICK n \in Nat, j \in Nat, k \in Nat : \E L \in [1 .. n -> Subscriptions] : List(n, L, j, k)
  BY DEF ListInv
<1>1. PICK L \in [1 .. n -> Subscriptions] : List(n, L, j, k)
  BY <1>0
<1>2. /\ Typed /\ Modes /\ Waits /\ members \subseteq Subscriptions /\ isr.running /\ isr.it # NULL
      /\ isr \in [running : BOOLEAN, it : Pointers] /\ next \in [Pointers -> Pointers]
      /\ waited \in [Subscriptions -> 0 .. TICKS]
  BY DEF ListInv, Typed, VisitNode
<1>3. /\ UNCHANGED <<use, subscriptions, next, tick, edit, members>>
      /\ isr' = [isr EXCEPT !.it = next[isr.it]]
  BY DEF VisitNode
<1>4. /\ k \in 1 .. n /\ isr.it = L[k] /\ L[k] \in Subscriptions /\ L[k] \in Pointers
      /\ \A i \in 1 .. n : L[i] \in called <=> (i < k /\ Phase(L[i]) = 0)
      /\ called \subseteq Held(n, L)
  <2>1. /\ k \in 1 .. n + 1 /\ isr.it = Node(n, L, k)
        /\ \A i \in 1 .. n : L[i] \in called <=> (i < k /\ Phase(L[i]) = 0)
        /\ called \subseteq Held(n, L)
    BY <1>1, <1>2 DEF List, WalkAt
  <2>2. k \in 1 .. n
    BY <1>2, <2>1, NodeIsPointer
  <2> QED BY <2>1, <2>2, NodeIsPointer DEF Pointers
<1>5. /\ \A i, h \in 1 .. n : L[i] = L[h] => i = h
      /\ next[L[k]] = Node(n, L, k + 1)
  <2>1. ~ (Edits /\ edit.pc = "clear")
    BY <1>2 DEF Modes, NoEdit
  <2> QED BY <1>1, <1>4, <2>1 DEF List, Chain
<1>6. isr'.running /\ isr'.it = Node(n, L, k + 1) /\ isr' \in [running : BOOLEAN, it : Pointers]
  <2>1. Node(n, L, k + 1) \in Pointers
    BY NodeIsPointer
  <2> QED BY <1>2, <1>3, <1>4, <1>5, <2>1
<1>7. \A s : Phase(s)' = Phase(s)
  BY <1>3 DEF Phase
<1>8. Chain(n, L)' /\ Linked(n, L)' /\ MainAt(n, L, j)' /\ Modes'
  BY <1>1, <1>2, <1>3 DEF List, Chain, Linked, MainAt, Edits, Interrupts, Modes
<1>9. PICK h \in Nat : h = k + 1
  OBVIOUS
<1>10. ASSUME NEW i \in 1 .. n PROVE i < h <=> (i < k \/ L[i] = L[k])
  <2>1. L[i] = L[k] <=> i = k
    BY <1>4, <1>5
  <2> QED BY <1>4, <1>9, <2>1
<1>11. CASE Phase(L[k]) = 0
  <2>1. called' = called \cup {L[k]} /\ waited' = [waited EXCEPT ![L[k]] = 0]
    BY <1>4, <1>11 DEF VisitNode, Due, Phase
  <2>2. Typed'
    <3>1. 0 \in 0 .. TICKS
      BY PeriodAssumption
    <3>2. waited' \in [Subscriptions -> 0 .. TICKS]
      BY <1>2, <2>1, <3>1
    <3> QED BY <1>2, <1>3, <1>6, <3>2 DEF Typed
  <2>3. Waits'
    <3> SUFFICES ASSUME NEW s \in members
                 PROVE  \/ waited'[s] <= Phase(s)
                        \/ isr'.running /\ Phase(s) = 0 /\ s \notin called' /\ waited'[s] <= timeout[s]
      BY <1>3, <1>7 DEF Waits
    <3>1. CASE s = L[k]
      <4>1. waited'[s] = 0 /\ Phase(s) \in Nat
        BY <1>2, <1>4, <2>1, <3>1, PhaseRange
      <4> QED BY <4>1
    <3>2. CASE s # L[k]
      <4>1. waited'[s] = waited[s] /\ (s \in called' <=> s \in called)
        BY <1>2, <1>4, <2>1, <3>2
      <4> QED BY <1>2, <1>6, <4>1 DEF Waits
    <3> QED BY <3>1, <3>2
  <2>4. WalkAt(n, L, h)'
    <3>1. called' \subseteq Held(n, L)
      BY <1>4, <2>1 DEF Held
    <3>2. \A i \in 1 .. n : L[i] \in called' <=> (i < h /\ Phase(L[i]) = 0)
      BY <1>4, <1>10, <1>11, <2>1
    <3>3. h \in 1 .. n + 1
      BY <1>4, <1>9
    <3> QED BY <1>6, <1>7, <1>9, <3>1, <3>2, <3>3 DEF WalkAt
  <2>5. (\E m, h_, l \in Nat : \E K \in [1 .. m -> Subscriptions] : List(m, K, h_, l))'
    <3>1. List(n, L, j, h)'
      BY <1>8, <2>4 DEF List
    <3> QED BY <3>1
  <2> QED BY <1>2, <1>3, <1>8, <2>2, <2>3, <2>5 DEF ListInv
<1>12. CASE Phase(L[k]) # 0
  <2>1. called' = called /\ waited' = waited
    BY <1>4, <1>12 DEF VisitNode, Due, Phase
  <2>2. Typed'
    BY <1>2, <1>3, <1>6, <2>1 DEF Typed
  <2>3. Waits'
    BY <1>2, <1>3, <1>6, <1>7, <2>1 DEF Waits
  <2>4. WalkAt(n, L, h)'
    <3>1. \A i \in 1 .. n : L[i] \in called' <=> (i < h /\ Phase(L[i]) = 0)
      BY <1>4, <1>10, <1>12, <2>1
    <3>2. h \in 1 .. n + 1
      BY <1>4, <1>9
    <3> QED BY <1>4, <1>6, <1>7, <1>9, <2>1, <3>1, <3>2 DEF WalkAt
  <2>5. (\E m, h_, l \in Nat : \E K \in [1 .. m -> Subscriptions] : List(m, K, h_, l))'
    <3>1. List(n, L, j, h)'
      BY <1>8, <2>4 DEF List
    <3> QED BY <3>1
  <2> QED BY <1>2, <1>3, <1>8, <2>2, <2>3, <2>5 DEF ListInv
<1> QED BY <1>11, <1>12

\* Where the walk ends, every node has been passed.
LEMMA AllPassed ==
  ASSUME ListInv, EndTick
  PROVE  called = {s \in members : Phase(s) = 0}
<1>0. PICK n \in Nat, j \in Nat, k \in Nat : \E L \in [1 .. n -> Subscriptions] : List(n, L, j, k)
  BY DEF ListInv
<1>1. PICK L \in [1 .. n -> Subscriptions] : List(n, L, j, k)
  BY <1>0
<1>2. isr.running /\ isr.it = NULL /\ edit.pc # "unlink"
  <2>1. Modes /\ Typed /\ isr.running /\ isr.it = NULL /\ use \in {"launcher", "test"}
    BY DEF ListInv, Typed, EndTick
  <2> QED BY <2>1 DEF Modes, Interrupts, Edits, NoEdit
<1>3. /\ k \in 1 .. n + 1 /\ Node(n, L, k) = NULL
      /\ \A i \in 1 .. n : L[i] \in called <=> (i < k /\ Phase(L[i]) = 0)
      /\ called \subseteq Held(n, L) /\ members = Held(n, L)
  BY <1>1, <1>2 DEF List, WalkAt, Linked
<1>4. k = n + 1
  <2>1. k \notin 1 .. n
    BY <1>3, NodeIsPointer
  <2> QED BY <1>3, <2>1
<1>5. \A i \in 1 .. n : L[i] \in called <=> Phase(L[i]) = 0
  BY <1>3, <1>4
<1> QED BY <1>3, <1>5 DEF Held

LEMMA EndTickKeepsList ==
  ASSUME ListInv, EndTick
  PROVE  ListInv'
<1>0. PICK n \in Nat, j \in Nat, k \in Nat : \E L \in [1 .. n -> Subscriptions] : List(n, L, j, k)
  BY DEF ListInv
<1>1. PICK L \in [1 .. n -> Subscriptions] : List(n, L, j, k)
  BY <1>0
<1>2. /\ Typed /\ Modes /\ Waits /\ members \subseteq Subscriptions
      /\ isr \in [running : BOOLEAN, it : Pointers]
  BY DEF ListInv, Typed
<1>3. /\ UNCHANGED <<use, subscriptions, next, tick, edit, members, called, waited>>
      /\ isr' = [isr EXCEPT !.running = FALSE]
  BY DEF EndTick
<1>4. ~ isr'.running /\ isr' \in [running : BOOLEAN, it : Pointers]
  BY <1>2, <1>3
<1>5. Typed' /\ Modes'
  BY <1>2, <1>3, <1>4 DEF Typed, Modes, Interrupts, Edits
<1>6. Waits'
  <2> SUFFICES ASSUME NEW s \in members PROVE waited[s] <= Phase(s)
    BY <1>3 DEF Waits, Phase
  <2>1. Phase(s) = 0 => s \in called
    BY AllPassed
  <2> QED BY <1>2, <2>1 DEF Waits
<1>7. List(n, L, j, k)'
  BY <1>1, <1>3, <1>4, Unwalked DEF List, Chain, Linked, MainAt, Edits
<1>8. (\E m, h, l \in Nat : \E K \in [1 .. m -> Subscriptions] : List(m, K, h, l))'
  BY <1>7
<1> QED BY <1>2, <1>3, <1>5, <1>6, <1>8 DEF ListInv

LEMMA NextListInv ==
  ASSUME ListInv, [Next]_vars
  PROVE  ListInv'
<1>1. CASE UNCHANGED vars
  <2>1. UNCHANGED <<use, subscriptions, next, tick, edit, isr, members, called, waited>>
    BY <1>1 DEF vars
  <2>2. Typed' /\ Modes' /\ Waits' /\ members' \subseteq Subscriptions
    BY <2>1 DEF ListInv, Typed, Modes, Waits, Phase, Interrupts, Edits
  <2>3. PICK n \in Nat, j \in Nat, k \in Nat : \E L \in [1 .. n -> Subscriptions] : List(n, L, j, k)
    BY DEF ListInv
  <2>4. PICK L \in [1 .. n -> Subscriptions] : List(n, L, j, k)
    BY <2>3
  <2>5. List(n, L, j, k)'
    BY <2>1, <2>4 DEF List, Chain, Linked, MainAt, WalkAt, Edits, Phase
  <2>6. (\E m, h, l \in Nat : \E K \in [1 .. m -> Subscriptions] : List(m, K, h, l))'
    BY <2>5
  <2> QED BY <2>2, <2>6 DEF ListInv
<1> QED BY <1>1, SubscribeKeepsList, UnsubscribeKeepsList, FindTailKeepsList, ClearNextKeepsList,
           UnlinkKeepsList, StartTickKeepsList, VisitNodeKeepsList, EndTickKeepsList DEF Next

-----------------------------------------------------------------------------
(* Theorems. *)

\* In every reachable state the pointers are a list of different nodes, which are
\* the members, and both walks stand somewhere in it.
THEOREM ListInvariant == Spec => []ListInv
<1>1. Init => ListInv
  BY InitListInv
<1>2. ListInv /\ [Next]_vars => ListInv'
  BY NextListInv
<1> QED BY <1>1, <1>2, PTL DEF Spec

\* A member is called at the latest when its period is over, whatever the period
\* and wherever the tick wraps.
THEOREM CallsAreNeverLate == Spec => []NeverLate
<1>1. ListInv => NeverLate
  <2> SUFFICES ASSUME ListInv, ~ isr.running, NEW s \in members
               PROVE  waited[s] < timeout[s]
    BY DEF NeverLate
  <2>1. s \in Subscriptions /\ Typed /\ waited[s] <= Phase(s)
    BY DEF ListInv, Waits
  <2>2. Phase(s) \in 0 .. timeout[s] - 1 /\ timeout[s] \in Nat /\ waited[s] \in Nat
    <3>1. waited[s] \in Nat
      BY <2>1 DEF Typed
    <3> QED BY <2>1, <3>1, PhaseRange
  <2> QED BY <2>1, <2>2
<1> QED BY <1>1, ListInvariant, PTL

\* A tick calls the members that are due and no others, wherever it cut the main
\* program.
THEOREM EveryDueIsCalled == Spec => DueAreCalled
<1>1. ListInv /\ [Next]_vars =>
        [isr.running /\ ~ isr'.running => called = {s \in members : Due(s)}]_vars
  <2> SUFFICES ASSUME ListInv, Next, isr.running, ~ isr'.running
               PROVE  called = {s \in members : Due(s)}
    OBVIOUS
  <2>1. isr \in [running : BOOLEAN, it : Pointers]
    BY DEF ListInv, Typed
  <2>2. EndTick
    <3>1. CASE \E s \in Subscriptions : Subscribe(s) \/ Unsubscribe(s)
      BY <3>1 DEF Subscribe, Unsubscribe
    <3>2. CASE FindTail \/ ClearNext \/ Unlink
      BY <3>2 DEF FindTail, ClearNext, Unlink
    <3>3. CASE StartTick
      BY <3>3 DEF StartTick
    <3>4. CASE VisitNode
      BY <2>1, <3>4 DEF VisitNode
    <3> QED BY <3>1, <3>2, <3>3, <3>4 DEF Next
  <2> QED BY <2>2, AllPassed DEF Due, Phase
<1> QED BY <1>1, ListInvariant, PTL DEF Spec, DueAreCalled

-----------------------------------------------------------------------------
(* Remainders. *)

LEMMA Divided ==
  ASSUME NEW n \in Nat \ {0}, NEW x \in Int
  PROVE  x \div n \in Int /\ x % n \in 0 .. n - 1 /\ x = n * (x \div n) + (x % n)
OBVIOUS

\* Whole rounds do not show.
LEMMA ModShift ==
  ASSUME NEW n \in Nat \ {0}, NEW k \in Int, NEW x \in Int
  PROVE  (n * k + x) % n = x % n
<1> DEFINE q == x \div n
           r == x % n
<1>1. q \in Int /\ r \in 0 .. n - 1 /\ x = n * q + r
  BY Divided
<1> HIDE DEF q, r
<1>2. n * k + x = n * (k + q) + r /\ k + q \in Int
  BY <1>1
<1>3. (n * k + x) % n = r
  BY <1>1, <1>2, ModUnique
<1> QED BY <1>3 DEF r

\* A counter that wraps at every step counts like one that never does.
LEMMA ModAdd ==
  ASSUME NEW n \in Nat \ {0}, NEW x \in Int, NEW y \in Int
  PROVE  ((x % n) + y) % n = (x + y) % n
<1> DEFINE q == x \div n
           r == x % n
<1>1. q \in Int /\ r \in 0 .. n - 1 /\ x = n * q + r
  BY Divided
<1> HIDE DEF q, r
<1>2. x + y = n * q + (r + y) /\ r + y \in Int
  BY <1>1
<1>3. (x + y) % n = (r + y) % n
  <2>1. (n * q + (r + y)) % n = (r + y) % n
    BY <1>1, <1>2, ModShift
  <2> QED BY <1>2, <2>1, Zenon
<1> QED BY <1>3 DEF r

\* Two readings of it are as far apart as the numbers behind them.
LEMMA ModDifference ==
  ASSUME NEW n \in Nat \ {0}, NEW x \in Int, NEW y \in Int
  PROVE  ((x % n) - (y % n)) % n = (x - y) % n
<1> DEFINE q == y \div n
           r == y % n
<1>1. q \in Int /\ r \in 0 .. n - 1 /\ y = n * q + r
  BY Divided
<1>2. x % n \in Int
  BY Divided
<1> HIDE DEF q, r
<1>3. x - r = n * q + (x - y) /\ x - y \in Int /\ -r \in Int
  BY <1>1
<1>4. (x - r) % n = (x - y) % n
  <2>1. (n * q + (x - y)) % n = (x - y) % n
    BY <1>1, <1>3, ModShift
  <2> QED BY <1>3, <2>1
<1>5. ((x % n) + (-r)) % n = (x + (-r)) % n
  BY <1>3, ModAdd
<1> DEFINE s == x % n
<1>6. s + (-r) = s - r /\ x + (-r) = x - r
  <2>1. s \in Int
    BY <1>2
  <2> HIDE DEF s
  <2> QED BY <1>1, <2>1
<1>7. ((x % n) - r) % n = (x - y) % n
  BY <1>4, <1>5, <1>6
<1> QED BY <1>7 DEF r

\* A narrow counter may be cut from a wide one.
LEMMA ModTwice ==
  ASSUME NEW n \in Nat \ {0}, NEW m \in Nat \ {0}, n % m = 0, NEW x \in Int
  PROVE  (x % n) % m = x % m
<1> DEFINE q == x \div n
           r == x % n
           l == n \div m
<1>1. q \in Int /\ r \in 0 .. n - 1 /\ x = n * q + r
  BY Divided
<1>2. l \in Int /\ n = m * l
  <2>1. l \in Int /\ n = m * l + (n % m)
    BY Divided
  <2> HIDE DEF l
  <2> QED BY <2>1
<1> HIDE DEF q, r, l
<1> DEFINE k == l * q
<1>3. x = m * k + r /\ k \in Int /\ r \in Int
  BY <1>1, <1>2
<1> HIDE DEF k
<1>4. x % m = r % m
  <2>1. (m * k + r) % m = r % m
    BY <1>3, ModShift
  <2> QED BY <1>3, <2>1
<1> QED BY <1>4 DEF r

LEMMA ModOfSmall ==
  ASSUME NEW n \in Nat \ {0}, NEW x \in 0 .. n - 1
  PROVE  x % n = x
OBVIOUS

\* The remainder is never more than the number.
LEMMA ModAtMost ==
  ASSUME NEW n \in Nat \ {0}, NEW x \in Nat
  PROVE  x % n <= x /\ x % n \in Nat
<1> DEFINE q == x \div n
           r == x % n
<1>1. q \in Int /\ r \in 0 .. n - 1 /\ x = n * q + r
  BY Divided
<1>2. q >= 0
  <2> SUFFICES ASSUME q <= -1 PROVE FALSE
    BY <1>1
  <2> HIDE DEF q, r
  <2>1. n * q <= -n
    BY <1>1
  <2> QED BY <1>1, <2>1
<1> HIDE DEF q, r
<1>3. n * q >= 0
  BY <1>1, <1>2
<1>4. r <= x /\ r \in Nat
  BY <1>1, <1>3
<1> QED BY <1>4 DEF r

\* A count that wraps, times what each count stands for.
LEMMA ModProduct ==
  ASSUME NEW w \in Nat \ {0}, NEW t \in Nat \ {0}, NEW o \in Int, NEW x \in Int
  PROVE  ((o % w) * t + x) % (w * t) = (o * t + x) % (w * t)
<1> DEFINE q == o \div w
           r == o % w
           n == w * t
<1>1. q \in Int /\ r \in 0 .. w - 1 /\ o = w * q + r
  BY Divided
<1>2. n \in Nat \ {0}
  OBVIOUS
<1> HIDE DEF q, r
<1>3. o * t + x = n * q + (r * t + x) /\ r * t + x \in Int
  BY <1>1
<1> HIDE DEF n
<1>4. (o * t + x) % n = (r * t + x) % n
  <2>1. (n * q + (r * t + x)) % n = (r * t + x) % n
    BY <1>1, <1>2, <1>3, ModShift
  <2> QED BY <1>3, <2>1, Zenon
<1> QED BY <1>4 DEF r, n

-----------------------------------------------------------------------------
(* The constants. *)

LEMMA Constants ==
  /\ TOP \in Nat \ {0} /\ MS \in Nat \ {0} /\ WRAP \in Nat \ {0} /\ WORD \in Nat \ {0}
  /\ HOLD \in Nat \ {0} /\ GAP \in Nat \ {0} /\ Msecs \in Nat \ {0}
  /\ MS < TOP /\ HOLD + 2 <= TOP /\ HOLD < MS
  /\ SPAN \in Nat \ {0} /\ SPAN % WORD = 0 /\ GAP + 3 < SPAN
  /\ PERIOD \in Nat \ {0}
<1>1. /\ TOP \in Nat \ {0} /\ MS \in Nat \ {0} /\ WRAP \in Nat \ {0} /\ WORD \in Nat \ {0}
      /\ HOLD \in Nat \ {0} /\ GAP \in Nat \ {0}
  BY ClockAssumption
<1>2. Msecs \in Nat \ {0}
  BY ClockAssumption DEF Msecs
<1>3. SPAN \in Nat \ {0} /\ PERIOD \in Nat \ {0}
  BY <1>1, <1>2 DEF SPAN, PERIOD
<1> QED BY <1>1, <1>2, <1>3, ClockAssumption, PromptAssumption DEF SPAN

\* What an overflow adds is what an overflow lasts.
LEMMA IncrementsAreTheOverflow ==
  /\ MILLIS_INC \in Int /\ FRACT_INC \in 0 .. MS - 1
  /\ MILLIS_INC * MS + FRACT_INC = TOP
<1>1. MILLIS_INC \in Int /\ FRACT_INC \in 0 .. MS - 1 /\ TOP = MS * MILLIS_INC + FRACT_INC
  BY Constants, Divided DEF MILLIS_INC, FRACT_INC
<1>2. MS \in Int
  BY Constants
<1> QED BY <1>1, <1>2

LEMMA LongestDelay ==
  ASSUME NEW d \in Delays
  PROVE  Longest \in Delays /\ d <= Longest /\ Longest \in Nat /\ d \in Nat
<1> DEFINE left == {WRAP - e : e \in Delays}
<1>1. Delays \subseteq 1 .. WRAP - 1 /\ WRAP \in Nat
  BY ClockAssumption, Constants
<1>2. left \in SUBSET Nat /\ left # {}
  BY <1>1
<1>3. PICK x \in left : \A y \in left : x <= y
  BY <1>2, LeastElement
<1>4. PICK e \in Delays : x = WRAP - e
  BY <1>3
<1>5. \A f \in Delays : f <= e
  <2> TAKE f \in Delays
  <2>1. WRAP - f \in left
    OBVIOUS
  <2>2. x <= WRAP - f
    BY <1>3, <2>1
  <2> QED BY <1>1, <1>4, <2>2
<1>6. Longest \in Delays /\ \A f \in Delays : f <= Longest
  BY <1>5 DEF Longest
<1> QED BY <1>1, <1>6

-----------------------------------------------------------------------------
(* The timers. *)

\* The types of the timers; an interrupt that waits is not waited for by another
\* overflow of its timer.
TimersOK ==
  /\ clock \in 0 .. SPAN - 1
  /\ tcnt0 \in 0 .. TOP - 1 /\ tcnt2 \in 0 .. MS + HOLD
  /\ tov0 \in BOOLEAN /\ tov2 \in BOOLEAN
  /\ timer0_overflow_count \in 0 .. WRAP - 1 /\ timer0_millis \in 0 .. WRAP - 1
  /\ timer0_fract \in 0 .. MS - 1
  /\ count \in 0 .. Msecs - 1
  /\ since \in Nat
  /\ tov0 => tcnt0 <= HOLD
  /\ tov2 <=> tcnt2 >= MS

\* Milliseconds, fraction and overflows agree but for whole rounds of a counter.
MillisAgree ==
  \E k \in Int : timer0_millis * MS + timer0_fract - timer0_overflow_count * TOP = WRAP * k

\* The count and timer 2 never run ahead of the time since func was called.
SinceEnough == since >= PERIOD \/ since >= count * MS + tcnt2

TimerInv == TimersOK /\ MillisAgree /\ SinceEnough

LEMMA InitTimerInv == CkInit => TimerInv
<1> SUFFICES ASSUME CkInit PROVE TimerInv
  OBVIOUS
<1>1. TimersOK
  <2>1. tov0 = FALSE /\ tov2 = FALSE
    BY DEF CkInit, MsTimer2Start
  <2>2. /\ clock = 0 /\ tcnt0 = 0 /\ tcnt2 = 0 /\ since = 0 /\ count = 0
        /\ timer0_overflow_count = 0 /\ timer0_millis = 0 /\ timer0_fract = 0
    BY DEF CkInit, MsTimer2Start
  <2>3. /\ tov0 \in BOOLEAN /\ tov2 \in BOOLEAN
        /\ tov0 => tcnt0 <= HOLD
        /\ ~ tov2
    BY <2>1
  <2>4. tov2 <=> tcnt2 >= MS
    BY <2>2, <2>3, Constants
  <2> QED BY <2>2, <2>3, <2>4, Constants DEF TimersOK
<1>2. MillisAgree
  <2>1. timer0_millis * MS + timer0_fract - timer0_overflow_count * TOP = WRAP * 0
    BY Constants DEF CkInit
  <2> QED BY <2>1 DEF MillisAgree
<1>3. SinceEnough
  BY Constants DEF CkInit, MsTimer2Start, SinceEnough
<1> QED BY <1>1, <1>2, <1>3 DEF TimerInv

LEMMA TickKeepsTimers ==
  ASSUME TimerInv, Tick
  PROVE  TimerInv'
<1>1. TimersOK'
  <2>1. (clock + 1) % SPAN \in 0 .. SPAN - 1
    BY Constants DEF TimerInv, TimersOK
  <2>2. tcnt0' = IF tcnt0 + 1 = TOP THEN 0 ELSE tcnt0 + 1
    <3>1. tcnt0 \in 0 .. TOP - 1 /\ tcnt0 + 1 \in 0 .. 2 * TOP - 1 /\ TOP \in Nat \ {0}
      BY Constants DEF TimerInv, TimersOK
    <3>2. PICK x \in 0 .. 2 * TOP - 1 : x = tcnt0 + 1
      BY <3>1
    <3>3. x % TOP = IF x < TOP THEN x ELSE x - TOP
      BY <3>1, ModRange
    <3> QED BY <3>1, <3>2, <3>3 DEF Tick
  <2>3. tcnt2' = tcnt2 + 1 /\ tcnt2' <= MS + HOLD
    <3>1. tov2 \/ tcnt2 < MS
      BY Constants DEF TimerInv, TimersOK, Tick
    <3> QED BY <3>1, Constants DEF TimerInv, TimersOK, Tick
  <2>4. since' \in Nat
    BY Constants DEF TimerInv, TimersOK, Tick, CappedAt
  <2>5. /\ tov0' \in BOOLEAN /\ tov2' \in BOOLEAN
        /\ tov0' <=> tov0 \/ tcnt0' = 0
        /\ tov2' <=> tov2 \/ tcnt2' = MS
    BY Zenon DEF Tick
  <2>6. tov0' => tcnt0' <= HOLD
    BY <2>2, <2>5, Constants DEF TimerInv, TimersOK, Tick
  <2>7. tov2' <=> tcnt2' >= MS
    BY <2>3, <2>5, Constants DEF TimerInv, TimersOK
  <2>8. tcnt0' \in 0 .. TOP - 1 /\ tcnt2' \in 0 .. MS + HOLD
    BY <2>2, <2>3, Constants DEF TimerInv, TimersOK
  <2>9. clock' \in 0 .. SPAN - 1
    BY <2>1 DEF Tick
  <2> QED BY <2>4, <2>5, <2>6, <2>7, <2>8, <2>9 DEF TimerInv, TimersOK, Tick, timer0Vars, SPAN, Msecs
<1>2. MillisAgree'
  BY DEF TimerInv, MillisAgree, Tick, timer0Vars
<1>3. SinceEnough'
  <2> DEFINE counted == count * MS
  <2>1. counted \in Int /\ counted' = counted /\ tcnt2 \in Int /\ since \in Nat
    BY Constants DEF TimerInv, TimersOK, Tick
  <2>2. since >= PERIOD \/ since >= counted + tcnt2
    BY DEF TimerInv, SinceEnough
  <2>3. since' = (IF since + 1 < PERIOD THEN since + 1 ELSE PERIOD) /\ tcnt2' = tcnt2 + 1
    BY DEF Tick, CappedAt
  <2>4. PERIOD \in Nat /\ PERIOD' = PERIOD
    BY Constants DEF PERIOD, Msecs
  <2>5. SinceEnough' <=> (since' >= PERIOD \/ since' >= counted' + tcnt2')
    BY <2>4 DEF SinceEnough
  <2> HIDE DEF counted
  <2> QED BY <2>1, <2>2, <2>3, <2>4, <2>5
<1> QED BY <1>1, <1>2, <1>3 DEF TimerInv

\* The interrupt of timer 0 loses nothing in the fractions.
LEMMA Timer0KeepsTimers ==
  ASSUME TimerInv, Timer0Overflow
  PROVE  TimerInv'
<1> DEFINE f == timer0_fract + FRACT_INC
           carry == IF f >= MS THEN 1 ELSE 0
           m == timer0_millis + MILLIS_INC + carry
           c == timer0_overflow_count + 1
           mq == m \div WRAP
           cq == c \div WRAP
<1>1. /\ timer0_fract \in 0 .. MS - 1 /\ timer0_millis \in Int /\ timer0_overflow_count \in Int
      /\ MS \in Nat \ {0} /\ TOP \in Nat \ {0} /\ WRAP \in Nat \ {0}
      /\ MILLIS_INC \in Int /\ FRACT_INC \in 0 .. MS - 1
  BY Constants, IncrementsAreTheOverflow DEF TimerInv, TimersOK
<1>2. /\ timer0_fract' = f - carry * MS
      /\ timer0_millis' = m % WRAP
      /\ timer0_overflow_count' = c % WRAP
  BY <1>1 DEF Timer0Overflow, FRACT_MAX, Carried
<1>3. m \in Int /\ c \in Int /\ carry \in {0, 1}
  BY <1>1
<1>4. /\ mq \in Int /\ timer0_millis' \in 0 .. WRAP - 1 /\ m = WRAP * mq + timer0_millis'
      /\ cq \in Int /\ timer0_overflow_count' \in 0 .. WRAP - 1 /\ c = WRAP * cq + timer0_overflow_count'
  BY <1>1, <1>2, <1>3, Divided
<1>5. timer0_fract' \in 0 .. MS - 1
  BY <1>1, <1>2
<1> HIDE DEF mq, cq, carry
<1>6. TimersOK'
  BY <1>4, <1>5, Constants DEF TimerInv, TimersOK, Timer0Overflow, historyVars
<1>7. SinceEnough'
  BY DEF TimerInv, SinceEnough, Timer0Overflow, historyVars
<1>8. MillisAgree'
  <2>1. PICK k \in Int : timer0_millis * MS + timer0_fract - timer0_overflow_count * TOP = WRAP * k
    BY DEF TimerInv, MillisAgree
  <2>2. PICK a \in Int, b \in Int, o \in Int :
          a = timer0_millis' /\ b = timer0_fract' /\ o = timer0_overflow_count'
    BY <1>4, <1>5
  <2>3. PICK millis \in Int, fract \in Int, overflows \in Int, cr \in Int, p \in Int, q \in Int :
          /\ millis = timer0_millis /\ fract = timer0_fract /\ overflows = timer0_overflow_count
          /\ cr = carry /\ p = mq /\ q = cq
    BY <1>1, <1>3, <1>4
  <2>4. millis * MS + fract - overflows * TOP = WRAP * k
    BY <2>1, <2>3
  <2>5. a = millis + MILLIS_INC + cr - WRAP * p
    <3>1. millis + MILLIS_INC + cr = WRAP * p + a
      BY <1>4, <2>2, <2>3
    <3>2. WRAP * p \in Int
      BY <1>1
    <3> QED BY <1>1, <3>1, <3>2
  <2>6. b = fract + FRACT_INC - cr * MS
    BY <1>1, <1>2, <2>2, <2>3
  <2>7. o = overflows + 1 - WRAP * q
    <3>1. overflows + 1 = WRAP * q + o
      BY <1>4, <2>2, <2>3
    <3>2. WRAP * q \in Int
      BY <1>1
    <3> QED BY <3>1, <3>2
  <2>8. MILLIS_INC * MS + FRACT_INC = TOP
    BY IncrementsAreTheOverflow
  <2>9. a * MS = millis * MS + MILLIS_INC * MS + cr * MS - WRAP * (p * MS)
    BY <1>1, <2>5
  <2>10. o * TOP = overflows * TOP + TOP - WRAP * (q * TOP)
    BY <1>1, <2>7
  <2> DEFINE r == k - p * MS + q * TOP
  <2>11. r \in Int /\ WRAP * r = WRAP * k - WRAP * (p * MS) + WRAP * (q * TOP)
    BY <1>1
  <2> HIDE DEF r
  <2>12. a * MS + b - o * TOP = WRAP * r
    BY <1>1, <2>4, <2>6, <2>8, <2>9, <2>10, <2>11
  <2> QED BY <2>2, <2>11, <2>12 DEF MillisAgree
<1> QED BY <1>6, <1>7, <1>8 DEF TimerInv

\* When the interrupt of timer 2 calls func, a whole period has passed.
LEMMA PeriodHasPassed ==
  ASSUME TimerInv, Timer2Overflow, DueNow(count + 1)
  PROVE  since >= PERIOD /\ count + 1 = Msecs
<1>1. count \in 0 .. Msecs - 1 /\ Msecs \in Nat \ {0} /\ MS \in Nat \ {0} /\ since \in Nat
  BY Constants DEF TimerInv, TimersOK
<1>2. count + 1 = Msecs
  BY <1>1 DEF DueNow
<1>3. tcnt2 >= MS /\ tcnt2 \in Nat
  BY Constants DEF TimerInv, TimersOK, Timer2Overflow
<1>4. count * MS + MS = PERIOD /\ count * MS \in Nat
  BY <1>1, <1>2 DEF PERIOD
<1>5. since >= PERIOD \/ since >= count * MS + tcnt2
  BY DEF TimerInv, SinceEnough
<1> DEFINE counted == count * MS
<1>6. counted + MS = PERIOD /\ counted \in Nat /\ (since >= PERIOD \/ since >= counted + tcnt2)
  BY <1>4, <1>5
<1> HIDE DEF counted
<1>7. since >= PERIOD
  BY <1>1, <1>3, <1>6
<1> QED BY <1>2, <1>7

LEMMA Timer2KeepsTimers ==
  ASSUME TimerInv, Timer2Overflow
  PROVE  TimerInv'
<1>1. count \in 0 .. Msecs - 1 /\ Msecs \in Nat \ {0} /\ MS \in Nat \ {0} /\ since \in Nat
  BY Constants DEF TimerInv, TimersOK
<1>2. MillisAgree'
  BY DEF TimerInv, MillisAgree, Timer2Overflow, timer0Vars
<1>3. /\ count' \in 0 .. Msecs - 1 /\ since' \in Nat /\ tcnt2' = 0 /\ tov2' = FALSE
      /\ \/ count' = 0 /\ since' = 0
         \/ count' = count + 1 /\ since' = since
  <2>1. CASE DueNow(count + 1)
    <3>1. count + 1 = Msecs
      BY <2>1, PeriodHasPassed
    <3> QED BY <1>1, <2>1, <3>1 DEF Timer2Overflow
  <2>2. CASE ~ DueNow(count + 1)
    BY <1>1, <2>2 DEF Timer2Overflow, DueNow
  <2> QED BY <2>1, <2>2
<1>4. TimersOK'
  <2>1. tov2' \in BOOLEAN /\ ~ tov2'
    BY <1>3
  <2>2. tov2' <=> tcnt2' >= MS
    BY <1>1, <1>3, <2>1
  <2>3. tcnt2' \in 0 .. MS + HOLD
    BY <1>3, Constants
  <2> QED BY <1>3, <2>1, <2>2, <2>3 DEF TimerInv, TimersOK, Timer2Overflow, timer0Vars, SPAN, Msecs
<1>5. SinceEnough'
  <2>1. CASE count' = 0 /\ since' = 0
    BY <1>1, <1>3, <2>1 DEF SinceEnough
  <2>2. CASE count' = count + 1 /\ since' = since
    <3> DEFINE counted == count * MS
    <3>1. counted \in Nat /\ count' * MS = counted + MS
      BY <1>1, <2>2
    <3>2. since >= PERIOD \/ since >= counted + tcnt2
      BY DEF TimerInv, SinceEnough
    <3>3. tcnt2 >= MS /\ tcnt2 \in Nat
      BY Constants DEF TimerInv, TimersOK, Timer2Overflow
    <3>4. SinceEnough' <=> (since' >= PERIOD \/ since' >= count' * MS + tcnt2')
      BY DEF SinceEnough, PERIOD, Msecs
    <3>5. PERIOD \in Nat
      BY Constants
    <3> HIDE DEF counted
    <3> QED BY <1>1, <1>3, <2>2, <3>1, <3>2, <3>3, <3>4, <3>5
  <2> QED BY <1>3, <2>1, <2>2
<1> QED BY <1>2, <1>4, <1>5 DEF TimerInv

LEMMA NextTimerInv ==
  ASSUME TimerInv, [CkNext]_ckVars
  PROVE  TimerInv'
<1> DEFINE same == <<clock, tcnt0, tov0, tcnt2, tov2, timer0Vars, count, since>>
<1>1. CASE UNCHANGED same
  BY <1>1 DEF TimerInv, TimersOK, MillisAgree, SinceEnough, timer0Vars
<1>2. CASE Main \/ Calls
  <2>1. Step
    BY <1>2 DEF Main, Calls, ReadCount, ReadTCNT0, ReadTOV0, ReadMillisHigh, Return, Start, Loop,
                Look, AskMicros, ReadMillisLow, StartDelay
  <2> QED BY <1>1, <2>1 DEF Step
<1>3. CASE UNCHANGED ckVars
  BY <1>1, <1>3 DEF ckVars, historyVars
<1> QED BY <1>2, <1>3, TickKeepsTimers, Timer0KeepsTimers, Timer2KeepsTimers DEF CkNext

\* The types and the agreement of the counters hold of every reachable state.
THEOREM TimerInvariant == CkSpec => []TimerInv
<1>1. CkInit => TimerInv
  BY InitTimerInv
<1>2. TimerInv /\ [CkNext]_ckVars => TimerInv'
  BY NextTimerInv
<1> QED BY <1>1, <1>2, PTL DEF CkSpec

\* millis() is the time of the overflows that were served: no fraction is lost at
\* a carry, nor at the wrap of either counter.
THEOREM MillisIsExact == CkSpec => []MillisExact
<1>1. TimerInv => MillisExact
  <2> SUFFICES ASSUME TimerInv PROVE MillisExact
    OBVIOUS
  <2> DEFINE x == timer0_millis * MS + timer0_fract - timer0_overflow_count * TOP
  <2>1. PICK k \in Int : x = WRAP * k
    BY DEF TimerInv, MillisAgree
  <2>2. WRAP \in Nat \ {0} /\ 0 \in 0 .. WRAP - 1
    BY Constants
  <2>3. (WRAP * k + 0) % WRAP = 0
    BY <2>2, ModUnique
  <2>4. WRAP * k + 0 = WRAP * k
    BY <2>2
  <2>5. x % WRAP = 0
    BY <2>1, <2>3, <2>4
  <2> QED BY <2>5 DEF MillisExact
<1> QED BY <1>1, TimerInvariant, PTL

\* Between two calls of func there is at least a whole period, whatever is left
\* of count and however the interrupts are held off.
THEOREM TicksAreNotFast == CkSpec => TicksNotFast
<1>1. TimerInv /\ [CkNext]_ckVars => [Timer2Overflow /\ DueNow(count + 1) => since >= PERIOD]_ckVars
  BY PeriodHasPassed
<1> QED BY <1>1, TimerInvariant, PTL DEF CkSpec, TicksNotFast

-----------------------------------------------------------------------------
(* The main program. *)

Done == {"start", "look", "gotMicros"}
Micro == {"readCount", "readTCNT0", "readTOV0"}
Locked == {"readTCNT0", "readTOV0", "readHigh"}

\* main, without what its numbers mean.
MainTyped ==
  main \in [pc : Micro \cup Done \cup {"idle", "readHigh", "gotMillis", "loop", "returned"},
            m : 0 .. WRAP, t : 0 .. TOP - 1,
            ms : Nat, asked : {0} \cup Delays, start : 0 .. WORD - 1,
            caller : {"idle"} \cup Done]

\* Who has called micros(), what delay() was asked for, and where interrupts are
\* held off.
MainOK ==
  /\ MainTyped
  /\ idle \in Nat /\ sreg \in BOOLEAN
  /\ sreg <=> main.pc \notin Locked
  /\ main.pc \in Reading => idle <= 1
  /\ main.pc # "idle" => idle <= GAP
  /\ main.pc = "idle" => main = Idle
  /\ main.pc \in Micro => main.caller \in Done
  /\ main.pc \in Done => main.caller = main.pc
  /\ main.pc \in {"readHigh", "gotMillis"} => main.asked = 0
  /\ main.pc \in Micro \cup Done => (main.asked = 0 <=> main.caller = "gotMicros")
  /\ main.pc \in {"loop", "returned"} => main.asked # 0
  /\ main.ms <= main.asked
  /\ main.pc = "returned" => main.ms = 0
  /\ main.pc \in Micro \cup Done /\ main.caller = "start" => main.ms = main.asked
  /\ main.pc \in Micro \cup Done /\ main.caller = "look" => main.ms # 0
  /\ main.pc = "readHigh" => main.m = timer0_millis % 2 /\ begun = timer0_millis
  /\ main.pc = "gotMillis" => main.m = begun

\* The remainder, as a name the provers do not look into.
Rest(n, x) == x % n

\* now is the time, o the overflows served.
Pending == IF tov0 THEN 1 ELSE 0
TimeIs(now, o) ==
  /\ clock = Rest(SPAN, now) /\ timer0_overflow_count = Rest(WRAP, o)
  /\ now = (o + Pending) * TOP + tcnt0

\* micros() was called at b; what it reads is the time r.
CallIs(now, o, b, r) ==
  /\ main.pc \in Micro \cup Done => b <= now /\ begun = Rest(SPAN, b)
  /\ main.pc = "readCount" => now <= b + idle
  /\ main.pc = "readTCNT0" => now <= b + 1 + idle /\ main.m = Rest(WRAP, o)
  /\ main.pc = "readTOV0" =>
       /\ now <= b + 2 + idle /\ main.m = Rest(WRAP, o)
       /\ b <= r /\ now = r + idle
       /\ \/ tcnt0 = main.t + idle
          \/ tcnt0 = 0 /\ main.t = TOP - 1 /\ idle = 1 /\ tov0
  /\ main.pc \in Done => /\ b <= r /\ r <= now /\ now <= b + 3 + idle
                         /\ Micros = Rest(SPAN, r)

\* delay() was called at c; it has counted its milliseconds up to s.
Counting ==
  \/ main.pc \in {"loop", "returned"}
  \/ main.pc \in Micro \cup Done /\ main.caller = "look"
DelayIs(now, b, s, c) ==
  main.asked # 0 =>
    /\ c <= now /\ passed = CappedAt(Longest * MS, now - c)
    /\ main.pc \in Micro \cup Done => c <= b
    /\ Counting => /\ main.start = Rest(WORD, s)
                   /\ c + (main.asked - main.ms) * MS <= s /\ s <= now
                   /\ main.pc \in Micro \cup Done => s <= b

Behind(now, o, b, r, s, c) == TimeIs(now, o) /\ CallIs(now, o, b, r) /\ DelayIs(now, b, s, c)

ClockInv ==
  /\ MainOK
  /\ \E now, o, b, r, s, c \in Nat : Behind(now, o, b, r, s, c)

LEMMA MainFields ==
  ASSUME MainTyped
  PROVE  /\ main.pc \in Micro \cup Done \cup {"idle", "readHigh", "gotMillis", "loop", "returned"}
         /\ main.m \in 0 .. WRAP /\ main.t \in 0 .. TOP - 1
         /\ main.ms \in Nat /\ main.asked \in {0} \cup Delays /\ main.asked \in Nat
         /\ main.start \in 0 .. WORD - 1 /\ main.caller \in {"idle"} \cup Done
<1>1. {0} \cup Delays \subseteq Nat
  BY ClockAssumption, Constants
<1>2. /\ main.pc \in Micro \cup Done \cup {"idle", "readHigh", "gotMillis", "loop", "returned"}
      /\ main.m \in 0 .. WRAP /\ main.t \in 0 .. TOP - 1
      /\ main.ms \in Nat /\ main.asked \in {0} \cup Delays
      /\ main.start \in 0 .. WORD - 1 /\ main.caller \in {"idle"} \cup Done
  BY DEF MainTyped
<1> QED BY <1>1, <1>2

LEMMA InitClockInv == CkInit => ClockInv
<1> SUFFICES ASSUME CkInit PROVE ClockInv
  OBVIOUS
<1>2. main = Idle /\ idle = 0 /\ sreg = TRUE
  BY DEF CkInit
<1>3. MainTyped
  BY <1>2, Constants DEF MainTyped, Idle
<1>4. MainOK
  <2>1. sreg \in BOOLEAN /\ (sreg <=> main.pc \notin Locked)
    BY <1>2, Zenon DEF Idle, Locked
  <2> QED BY <1>2, <1>3, <2>1 DEF MainOK, Idle, Micro, Done, Reading
<1>5. TimeIs(0, 0)
  <2>1. clock = 0 /\ timer0_overflow_count = 0 /\ tcnt0 = 0 /\ Pending = 0
    BY DEF CkInit, Pending
  <2>2. 0 % SPAN = 0 /\ 0 % WRAP = 0
    <3>1. 0 \in 0 .. SPAN - 1 /\ 0 \in 0 .. WRAP - 1
      BY Constants
    <3> QED BY <3>1, Constants, ModOfSmall
  <2> QED BY <2>1, <2>2, Constants DEF TimeIs, Rest
<1>6. CallIs(0, 0, 0, 0) /\ DelayIs(0, 0, 0, 0)
  BY <1>2 DEF CallIs, DelayIs, Idle, Micro, Done
<1> QED BY <1>4, <1>5, <1>6 DEF ClockInv, Behind

\* What the invariant says of the numbers, in the form the steps use.
LEMMA TimerNumbers ==
  ASSUME TimerInv
  PROVE  /\ clock \in Nat /\ tcnt0 \in 0 .. TOP - 1 /\ timer0_millis \in Nat
         /\ timer0_overflow_count \in 0 .. WRAP - 1 /\ Pending \in {0, 1}
         /\ tov0 => tcnt0 <= HOLD
BY Constants DEF TimerInv, TimersOK, Pending

LEMMA TickTurnsTimer0 ==
  ASSUME TimerInv, Tick
  PROVE  /\ tcnt0' = (IF tcnt0 + 1 = TOP THEN 0 ELSE tcnt0 + 1)
         /\ tov0' <=> tov0 \/ tcnt0' = 0
<1>1. tcnt0 \in 0 .. TOP - 1 /\ TOP \in Nat \ {0}
  BY TimerNumbers, Constants
<1>2. PICK x \in 0 .. 2 * TOP - 1 : x = tcnt0 + 1
  BY <1>1
<1>3. x % TOP = IF x < TOP THEN x ELSE x - TOP
  BY <1>1, ModRange
<1>4. tcnt0' = IF tcnt0 + 1 = TOP THEN 0 ELSE tcnt0 + 1
  BY <1>1, <1>2, <1>3 DEF Tick
<1>5. tov0' <=> tov0 \/ tcnt0' = 0
  BY Zenon DEF Tick
<1> QED BY <1>4, <1>5

LEMMA TickKeepsMain ==
  ASSUME TimerInv, MainOK, Tick
  PROVE  MainOK'
<1>1. UNCHANGED <<main, sreg, begun, timer0_millis>>
  BY DEF Tick, timer0Vars
<1>2. idle \in Nat /\ (idle' = IF main.pc = "idle" THEN 0 ELSE idle + 1)
  BY DEF MainOK, Tick
<1>3. (main.pc \in Reading => idle = 0) /\ (main.pc # "idle" => idle < GAP)
  BY DEF Tick
<1>4. /\ idle' \in Nat
      /\ main.pc \in Reading => idle' <= 1
      /\ main.pc # "idle" => idle' <= GAP
  BY <1>2, <1>3, Constants
<1>5. MainTyped'
  BY <1>1 DEF MainOK, MainTyped
<1> QED BY <1>1, <1>4, <1>5 DEF MainOK, Idle

LEMMA TickKeepsClock ==
  ASSUME TimerInv, ClockInv, Tick
  PROVE  ClockInv'
<1>1. PICK now \in Nat, o \in Nat, b \in Nat, r \in Nat, s \in Nat, c \in Nat :
        Behind(now, o, b, r, s, c)
  BY DEF ClockInv
<1>2. MainOK'
  BY TickKeepsMain DEF ClockInv
<1>3. MainTyped /\ MainOK /\ idle \in Nat
  BY DEF ClockInv, MainOK
<1>4. TimeIs(now + 1, o)'
  <2>1. clock' = Rest(SPAN, now + 1)
    <3>1. clock = now % SPAN
      BY <1>1 DEF Behind, TimeIs, Rest
    <3>2. now \in Int /\ 1 \in Int /\ SPAN \in Nat \ {0}
      BY Constants
    <3>3. ((now % SPAN) + 1) % SPAN = (now + 1) % SPAN
      BY <3>2, ModAdd
    <3> QED BY <3>1, <3>3 DEF Tick, Rest
  <2>2. /\ tcnt0' = (IF tcnt0 + 1 = TOP THEN 0 ELSE tcnt0 + 1)
        /\ tov0' <=> tov0 \/ tcnt0' = 0
    BY TickTurnsTimer0
  <2>3. now = (o + Pending) * TOP + tcnt0
    BY <1>1 DEF Behind, TimeIs
  <2>4. now + 1 = (o + Pending') * TOP + tcnt0'
    <3>1. CASE tcnt0 + 1 = TOP
      <4>1. ~ tov0
        BY <3>1, Constants, TimerNumbers
      <4>2. Pending = 0 /\ Pending' = 1 /\ tcnt0' = 0
        BY <2>2, <3>1, <4>1 DEF Pending
      <4>3. (o + 0) * TOP = o * TOP /\ (o + 1) * TOP = o * TOP + TOP
        BY Constants
      <4>4. o * TOP \in Int /\ tcnt0 \in Int /\ TOP \in Int
        BY TimerNumbers, Constants
      <4>5. now = o * TOP + tcnt0
        BY <2>3, <4>2, <4>3
      <4> DEFINE z == o * TOP
      <4>6. now + 1 = z + TOP
        <5>1. now = z + tcnt0 /\ z \in Int
          BY <4>4, <4>5
        <5> HIDE DEF z
        <5> QED BY <3>1, <4>4, <5>1
      <4>7. (o + Pending') * TOP + tcnt0' = z + TOP
        BY <4>2, <4>3, <4>4
      <4> QED BY <4>6, <4>7
    <3>2. CASE tcnt0 + 1 # TOP
      <4>1. tcnt0' = tcnt0 + 1 /\ tcnt0' # 0
        BY <2>2, <3>2, TimerNumbers, Constants
      <4>2. Pending' = Pending
        BY <2>2, <4>1 DEF Pending
      <4>3. (o + Pending) * TOP \in Int /\ tcnt0 \in Int
        BY TimerNumbers, Constants
      <4> DEFINE z == (o + Pending) * TOP
      <4>4. now = z + tcnt0 /\ z \in Int /\ tcnt0 \in Int
        BY <2>3, <4>3
      <4>5. (o + Pending') * TOP = z
        BY <4>2
      <4> HIDE DEF z
      <4>6. now + 1 = z + tcnt0'
        BY <4>1, <4>4
      <4> QED BY <4>5, <4>6
    <3> QED BY <3>1, <3>2
  <2>5. timer0_overflow_count' = Rest(WRAP, o)
    BY <1>1 DEF Behind, TimeIs, Tick, timer0Vars
  <2> QED BY <2>1, <2>4, <2>5 DEF TimeIs, Pending, SPAN
<1>5. /\ main' = main /\ begun' = begun
      /\ main.pc # "idle" => idle' = idle + 1
      /\ main.pc \in Reading => idle = 0
      /\ idle' \in Nat
  BY <1>2 DEF MainOK, Tick
<1>6. CallIs(now + 1, o, b, r)'
  <2>1. CallIs(now, o, b, r)
    BY <1>1 DEF Behind
  <2> DEFINE soon == now + 1
  <2>0. soon \in Nat /\ now \in Nat /\ soon = now + 1 /\ \A z \in Nat : z <= now => z <= soon
    OBVIOUS
  <2>2. main.pc \in Micro \cup Done => b <= now + 1 /\ begun' = Rest(SPAN, b)
    <3> HIDE DEF soon
    <3>1. main.pc \in Micro \cup Done => b <= soon /\ begun' = Rest(SPAN, b)
      BY <1>5, <2>0, <2>1 DEF CallIs
    <3> QED BY <3>1 DEF soon
  <2>3. main.pc = "readCount" => now + 1 <= b + idle'
    BY <1>3, <1>5, <2>1 DEF CallIs
  <2>4. main.pc = "readTCNT0" => now + 1 <= b + 1 + idle' /\ main.m = Rest(WRAP, o)
    BY <1>3, <1>5, <2>1 DEF CallIs
  <2>5. ASSUME main.pc = "readTOV0"
        PROVE  /\ now + 1 <= b + 2 + idle' /\ main.m = Rest(WRAP, o)
               /\ b <= r /\ now + 1 = r + idle'
               /\ \/ tcnt0' = main.t + idle'
                  \/ tcnt0' = 0 /\ main.t = TOP - 1 /\ idle' = 1 /\ tov0'
    <3>1. idle = 0 /\ idle' = 1
      BY <1>3, <1>5, <2>5 DEF Reading
    <3>2. tcnt0 = main.t /\ now = r /\ b <= r /\ now <= b + 2 /\ main.m = Rest(WRAP, o)
      <4>1. main.t \in Nat /\ tcnt0 \in Nat
        BY <1>3, MainFields, TimerNumbers, Constants
      <4> QED BY <2>1, <2>5, <3>1, <4>1 DEF CallIs
    <3>3. /\ tcnt0' = (IF tcnt0 + 1 = TOP THEN 0 ELSE tcnt0 + 1)
          /\ tov0' <=> tov0 \/ tcnt0' = 0
      BY TickTurnsTimer0
    <3>4. tcnt0' = main.t + 1 \/ (tcnt0' = 0 /\ main.t = TOP - 1 /\ tov0')
      BY <3>2, <3>3, Constants, TimerNumbers
    <3>5. now + 1 <= b + 2 + 1 /\ now + 1 = r + 1
      BY <3>2
    <3> QED BY <3>1, <3>2, <3>4, <3>5
  <2>6. main.pc \in Done => /\ b <= r /\ r <= now + 1 /\ now + 1 <= b + 3 + idle'
                            /\ Micros' = Rest(SPAN, r)
    <3>1. Micros' = Micros
      BY <1>5 DEF Micros, SPAN
    <3>2. main.pc \in Done => main.pc # "idle"
      BY DEF Done
    <3> HIDE DEF soon
    <3>3. main.pc \in Done => r <= soon
      BY <2>0, <2>1 DEF CallIs
    <3>4. main.pc \in Done => now <= b + 3 + idle /\ b <= r /\ Micros = Rest(SPAN, r)
      BY <2>1 DEF CallIs
    <3>5. ASSUME main.pc \in Done PROVE soon <= b + 3 + idle'
      <4>1. idle' = idle + 1 /\ now <= b + 3 + idle
        BY <1>5, <3>2, <3>4, <3>5
      <4> QED BY <1>3, <1>5, <2>0, <4>1
    <3> QED BY <3>1, <3>3, <3>4, <3>5 DEF soon
  <2> QED BY <1>5, <2>2, <2>3, <2>4, <2>5, <2>6 DEF CallIs, SPAN
<1>7. DelayIs(now + 1, b, s, c)'
  <2> SUFFICES ASSUME main.asked # 0
               PROVE  /\ c <= now + 1 /\ passed' = CappedAt(Longest * MS, now + 1 - c)
                      /\ main.pc \in Micro \cup Done => c <= b
                      /\ Counting => /\ main.start = Rest(WORD, s)
                                     /\ c + (main.asked - main.ms) * MS <= s /\ s <= now + 1
                                     /\ main.pc \in Micro \cup Done => s <= b
    BY <1>5 DEF DelayIs, Counting
  <2>1. DelayIs(now, b, s, c)
    BY <1>1 DEF Behind
  <2>2. c <= now /\ passed = CappedAt(Longest * MS, now - c)
    BY <2>1 DEF DelayIs
  <2>3. passed' = CappedAt(Longest * MS, passed + 1)
    BY DEF Tick
  <2>4. Longest * MS \in Nat
    BY <1>3, MainFields, LongestDelay, Constants
  <2> DEFINE L == Longest * MS
  <2>5. CappedAt(L, CappedAt(L, now - c) + 1) = CappedAt(L, now + 1 - c)
    <3>1. L \in Nat
      BY <2>4
    <3> HIDE DEF L
    <3> QED BY <3>1, <2>2 DEF CappedAt
  <2>6. passed' = CappedAt(L, now + 1 - c) /\ c <= now + 1
    BY <2>2, <2>3, <2>5
  <2>7. (main.pc \in Micro \cup Done => c <= b)
        /\ (Counting => /\ main.start = Rest(WORD, s)
                        /\ c + (main.asked - main.ms) * MS <= s /\ s <= now
                        /\ main.pc \in Micro \cup Done => s <= b)
    BY <2>1 DEF DelayIs
  <2>8. s <= now => s <= now + 1
    OBVIOUS
  <2> QED BY <2>6, <2>7, <2>8
<1>8. Behind(now + 1, o, b, r, s, c)'
  BY <1>4, <1>6, <1>7 DEF Behind
<1>9. now + 1 \in Nat
  OBVIOUS
<1>10. \E n \in Nat : Behind(n, o, b, r, s, c)'
  BY <1>8, <1>9
<1> QED BY <1>2, <1>10 DEF ClockInv

LEMMA InterruptsKeepMain ==
  ASSUME MainOK, UNCHANGED <<main, sreg, idle, begun>>, timer0_millis' = timer0_millis \/ sreg
  PROVE  MainOK'
<1>1. UNCHANGED <<main, sreg, idle, begun>>
  OBVIOUS
<1>2. main.pc = "readHigh" => timer0_millis' = timer0_millis
  BY DEF MainOK, Locked
<1>3. MainTyped'
  BY <1>1 DEF MainOK, MainTyped
<1> QED BY <1>1, <1>2, <1>3 DEF MainOK, Idle

\* The overflow that is served moves from the flag to the counter.
LEMMA Timer0KeepsClock ==
  ASSUME TimerInv, ClockInv, Timer0Overflow
  PROVE  ClockInv'
<1>1. PICK now \in Nat, o \in Nat, b \in Nat, r \in Nat, s \in Nat, c \in Nat :
        Behind(now, o, b, r, s, c)
  BY DEF ClockInv
<1>2. /\ sreg /\ tov0 /\ tov0' = FALSE
      /\ UNCHANGED <<clock, tcnt0, main, sreg, idle, begun, passed>>
      /\ timer0_overflow_count' = (timer0_overflow_count + 1) % WRAP
  BY DEF Timer0Overflow, historyVars
<1>3. MainOK'
  BY <1>2, InterruptsKeepMain DEF ClockInv
<1>4. PICK p \in Nat : p = o + 1
  OBVIOUS
<1>5. TimeIs(now, p)'
  <2>1. now = (o + Pending) * TOP + tcnt0 /\ clock = Rest(SPAN, now) /\ timer0_overflow_count = o % WRAP
    BY <1>1 DEF Behind, TimeIs, Rest
  <2>2. Pending = 1 /\ Pending' = 0
    BY <1>2 DEF Pending
  <2>3. o + 1 = p + 0
    BY <1>4
  <2>4. now = (p + Pending') * TOP + tcnt0
    BY <2>1, <2>2, <2>3
  <2>5. timer0_overflow_count' = Rest(WRAP, p)
    <3>1. o \in Int /\ 1 \in Int /\ WRAP \in Nat \ {0}
      BY Constants
    <3>2. ((o % WRAP) + 1) % WRAP = (o + 1) % WRAP
      BY <3>1, ModAdd
    <3> QED BY <1>2, <1>4, <2>1, <3>2 DEF Rest
  <2> QED BY <1>2, <2>1, <2>4, <2>5 DEF TimeIs, Pending, SPAN
<1>6. main.pc \notin Locked
  BY <1>2 DEF ClockInv, MainOK
<1>7. CallIs(now, p, b, r)'
  <2>1. CallIs(now, o, b, r)
    BY <1>1 DEF Behind
  <2>2. Micros' = Micros
    BY <1>2 DEF Micros, SPAN
  <2> QED BY <1>2, <1>6, <2>1, <2>2 DEF CallIs, Locked, SPAN
<1>8. DelayIs(now, b, s, c)'
  BY <1>1, <1>2 DEF Behind, DelayIs, Counting, Longest
<1> QED BY <1>3, <1>5, <1>7, <1>8 DEF ClockInv, Behind

LEMMA Timer2KeepsClock ==
  ASSUME TimerInv, ClockInv,
         UNCHANGED <<clock, tcnt0, tov0, timer0_overflow_count, timer0_millis, main, sreg, idle, begun, passed>>
  PROVE  ClockInv'
<1>1. PICK now \in Nat, o \in Nat, b \in Nat, r \in Nat, s \in Nat, c \in Nat :
        Behind(now, o, b, r, s, c)
  BY DEF ClockInv
<1>2. MainOK'
  BY InterruptsKeepMain DEF ClockInv
<1>3. Micros' = Micros
  BY DEF Micros, SPAN
<1>4. TimeIs(now, o)'
  BY <1>1 DEF Behind, TimeIs, Pending, SPAN
<1>5. CallIs(now, o, b, r)'
  BY <1>1, <1>3 DEF Behind, CallIs, SPAN
<1>6. DelayIs(now, b, s, c)'
  BY <1>1 DEF Behind, DelayIs, Counting, Longest
<1> QED BY <1>2, <1>4, <1>5, <1>6 DEF ClockInv, Behind

\* Where the main program moves, the timers stand still.
LEMMA StepKeepsTime ==
  ASSUME NEW now, NEW o, TimeIs(now, o), Step
  PROVE  TimeIs(now, o)'
BY DEF TimeIs, Pending, Step, SPAN, timer0Vars

\* Inside a call of micros() nothing that delay() has counted changes.
LEMMA ReadingKeepsDelay ==
  ASSUME NEW now, NEW b, NEW s, NEW c, DelayIs(now, b, s, c),
         main.pc \in Micro \cup Done, main'.pc \in Micro \cup Done, passed' = passed,
         main'.asked = main.asked, main'.ms = main.ms, main'.start = main.start,
         main'.caller = main.caller
  PROVE  DelayIs(now, b, s, c)'
<1>1. main.pc \notin {"loop", "returned"} /\ main'.pc \notin {"loop", "returned"}
  BY DEF Micro, Done
<1>2. Counting' <=> Counting
  BY <1>1 DEF Counting
<1> QED BY <1>2 DEF DelayIs, Longest

LEMMA ReadCountKeepsClock ==
  ASSUME TimerInv, ClockInv, ReadCount
  PROVE  ClockInv'
<1>1. PICK now \in Nat, o \in Nat, b \in Nat, r \in Nat, s \in Nat, c \in Nat :
        Behind(now, o, b, r, s, c)
  BY DEF ClockInv
<1>2. MainTyped /\ MainOK /\ main.pc = "readCount" /\ idle \in Nat
  BY DEF ClockInv, MainOK, ReadCount
<1>3. timer0_overflow_count \in 0 .. WRAP /\ 0 \in 0 .. TOP - 1
  BY TimerNumbers, Constants
<1>4. /\ main'.pc = "readTCNT0" /\ main'.m = timer0_overflow_count /\ main'.t = 0
      /\ main'.ms = main.ms /\ main'.asked = main.asked /\ main'.start = main.start
      /\ main'.caller = main.caller /\ MainTyped'
  BY <1>2, <1>3 DEF MainTyped, ReadCount, At, Micro
<1>5. sreg' = FALSE /\ idle' = 0 /\ UNCHANGED <<begun, passed>> /\ Step
  BY DEF ReadCount, Step
<1>6. MainOK'
  <2>1. sreg' \in BOOLEAN /\ (sreg' <=> main'.pc \notin Locked)
    BY <1>4, <1>5, Zenon DEF Locked
  <2> QED BY <1>2, <1>4, <1>5, <2>1, Constants DEF MainOK, Micro, Done, Reading
<1>7. CallIs(now, o, b, r)'
  <2>1. idle <= 1 /\ now <= b + idle /\ b <= now /\ begun = Rest(SPAN, b)
    BY <1>1, <1>2 DEF MainOK, Reading, Behind, CallIs, Micro
  <2>2. main'.m = Rest(WRAP, o)
    BY <1>1, <1>4 DEF Behind, TimeIs
  <2>3. now <= b + 1 + 0
    BY <1>2, <2>1
  <2> QED BY <1>4, <1>5, <2>1, <2>2, <2>3 DEF CallIs, Micro, Done, SPAN
<1>8. DelayIs(now, b, s, c)'
  BY <1>1, <1>2, <1>4, <1>5, ReadingKeepsDelay DEF Behind, Micro
<1> QED BY <1>1, <1>5, <1>6, <1>7, <1>8, StepKeepsTime DEF ClockInv, Behind

\* The time that is read is the time of this load.
LEMMA ReadTCNT0KeepsClock ==
  ASSUME TimerInv, ClockInv, ReadTCNT0
  PROVE  ClockInv'
<1>1. PICK now \in Nat, o \in Nat, b \in Nat, r \in Nat, s \in Nat, c \in Nat :
        Behind(now, o, b, r, s, c)
  BY DEF ClockInv
<1>2. MainTyped /\ MainOK /\ main.pc = "readTCNT0" /\ idle \in Nat
  BY DEF ClockInv, MainOK, ReadTCNT0
<1>3. tcnt0 \in 0 .. TOP - 1 /\ tcnt0 \in Nat
  BY TimerNumbers, Constants
<1>4. /\ main'.pc = "readTOV0" /\ main'.m = main.m /\ main'.t = tcnt0
      /\ main'.ms = main.ms /\ main'.asked = main.asked /\ main'.start = main.start
      /\ main'.caller = main.caller /\ MainTyped'
  BY <1>2, <1>3 DEF MainTyped, ReadTCNT0, At, Micro
<1>5. sreg' = sreg /\ idle' = 0 /\ tcnt0' = tcnt0 /\ UNCHANGED <<begun, passed>> /\ Step
  BY DEF ReadTCNT0, Step
<1>6. MainOK'
  <2>1. sreg' \in BOOLEAN /\ (sreg' <=> main'.pc \notin Locked)
    BY <1>2, <1>4, <1>5 DEF MainOK, Locked
  <2> QED BY <1>2, <1>4, <1>5, <2>1, Constants DEF MainOK, Micro, Done, Reading
<1>7. CallIs(now, o, b, now)'
  <2>1. idle <= 1 /\ now <= b + 1 + idle /\ b <= now /\ begun = Rest(SPAN, b) /\ main.m = Rest(WRAP, o)
    BY <1>1, <1>2 DEF MainOK, Reading, Behind, CallIs, Micro
  <2>3. now <= b + 2 + 0 /\ now = now + 0 /\ tcnt0' = main'.t + 0
    BY <1>2, <1>3, <1>4, <1>5, <2>1
  <2> QED BY <1>4, <1>5, <2>1, <2>3 DEF CallIs, Micro, Done, SPAN
<1>8. DelayIs(now, b, s, c)'
  BY <1>1, <1>2, <1>4, <1>5, ReadingKeepsDelay DEF Behind, Micro
<1> QED BY <1>1, <1>5, <1>6, <1>7, <1>8, StepKeepsTime DEF ClockInv, Behind

\* An overflow that waits is counted exactly when the tick was read after it.
LEMMA ReadTOV0KeepsClock ==
  ASSUME TimerInv, ClockInv, ReadTOV0
  PROVE  ClockInv'
<1>1. PICK now \in Nat, o \in Nat, b \in Nat, r \in Nat, s \in Nat, c \in Nat :
        Behind(now, o, b, r, s, c)
  BY DEF ClockInv
<1>2. /\ MainTyped /\ MainOK /\ main.pc = "readTOV0" /\ idle \in Nat /\ idle <= 1
      /\ main.caller \in Done
  BY DEF ClockInv, MainOK, ReadTOV0, Reading, Micro
<1>3. /\ main.t \in 0 .. TOP - 1 /\ tcnt0 \in 0 .. TOP - 1 /\ TOP \in Nat \ {0} /\ HOLD \in Nat
      /\ HOLD + 2 <= TOP /\ WRAP \in Nat \ {0} /\ (tov0 => tcnt0 <= HOLD)
  BY <1>2, MainFields, TimerNumbers, Constants
<1>4. /\ now <= b + 2 + idle /\ main.m = Rest(WRAP, o) /\ b <= r /\ now = r + idle
      /\ \/ tcnt0 = main.t + idle
         \/ tcnt0 = 0 /\ main.t = TOP - 1 /\ idle = 1 /\ tov0
      /\ b <= now /\ begun = Rest(SPAN, b)
  BY <1>1, <1>2 DEF Behind, CallIs, Micro
<1> DEFINE e == IF Missed THEN 1 ELSE 0
<1>5. e \in {0, 1} /\ main.m \in 0 .. WRAP - 1
  BY <1>3, <1>4, Divided DEF Rest
<1>6. /\ main'.pc = main.caller /\ main'.m = main.m + e /\ main'.t = main.t
      /\ main'.ms = main.ms /\ main'.asked = main.asked /\ main'.start = main.start
      /\ main'.caller = main.caller /\ MainTyped'
  <2>1. main' = [main EXCEPT !.pc = main.caller, !.m = main.m + e, !.t = main.t]
    <3>1. main.m + 0 = main.m
      BY <1>5
    <3> QED BY <3>1 DEF ReadTOV0, At
  <2>2. main.m + e \in 0 .. WRAP
    BY <1>3, <1>5
  <2> HIDE DEF e
  <2> QED BY <1>2, <2>1, <2>2 DEF MainTyped
<1>7. sreg' = TRUE /\ idle' = 0 /\ UNCHANGED <<begun, passed>> /\ Step
  BY DEF ReadTOV0, Step
<1>8. MainOK'
  <2>1. sreg' \in BOOLEAN /\ (sreg' <=> main'.pc \notin Locked)
    BY <1>2, <1>6, <1>7 DEF Locked, Done
  <2> QED BY <1>2, <1>6, <1>7, <2>1, Constants DEF MainOK, Micro, Done, Reading
<1>9. r = o * TOP + (e * TOP + main.t)
  <2>1. now = (o + Pending) * TOP + tcnt0
    BY <1>1 DEF Behind, TimeIs
  <2>2. CASE tcnt0 = main.t + idle
    <3>1. Pending = e
      BY <1>2, <1>3, <2>2 DEF Missed, Pending
    <3> DEFINE z == (o + Pending) * TOP
    <3>2. z \in Int /\ z = o * TOP + e * TOP
      BY <1>3, <1>5, <3>1
    <3>3. now = z + tcnt0
      BY <2>1
    <3> HIDE DEF z, e
    <3>4. r = z + main.t
      BY <1>2, <1>3, <1>4, <2>2, <3>2, <3>3
    <3> QED BY <1>3, <1>5, <3>2, <3>4
  <2>3. CASE tcnt0 = 0 /\ main.t = TOP - 1 /\ idle = 1 /\ tov0
    <3>1. Pending = 1 /\ e = 0
      BY <1>3, <2>3 DEF Missed, Pending
    <3> DEFINE z == o * TOP
    <3>2. z \in Int /\ (o + Pending) * TOP = z + TOP /\ e * TOP = 0
      BY <1>3, <3>1
    <3>3. now = z + TOP
      BY <1>3, <2>1, <2>3, <3>2
    <3> HIDE DEF z, e
    <3>4. r = z + main.t
      BY <1>3, <1>4, <2>3, <3>2, <3>3
    <3> QED BY <1>3, <3>2, <3>4 DEF z
  <2> QED BY <1>4, <2>2, <2>3
<1> HIDE DEF e
<1>10. Micros' = Rest(SPAN, r)
  <2> DEFINE x == e * TOP + main.t
  <2>1. x \in Int
    BY <1>3, <1>5
  <2>2. o \in Int /\ WRAP \in Nat \ {0} /\ TOP \in Nat \ {0} /\ main.m = o % WRAP
    BY <1>3, <1>4 DEF Rest
  <2>3. main'.m * TOP + main'.t = (o % WRAP) * TOP + x
    BY <1>3, <1>5, <1>6, <2>2
  <2>4. r = o * TOP + x
    BY <1>9
  <2> HIDE DEF x
  <2>5. ((o % WRAP) * TOP + x) % (WRAP * TOP) = (o * TOP + x) % (WRAP * TOP)
    BY <2>1, <2>2, ModProduct
  <2>6. Micros' = ((o % WRAP) * TOP + x) % (WRAP * TOP)
    BY <2>3 DEF Micros, SPAN
  <2> QED BY <2>4, <2>5, <2>6 DEF Rest, SPAN
<1>11. CallIs(now, o, b, r)'
  <2>1. main'.pc \in Done /\ main'.pc \notin Micro
    BY <1>2, <1>6 DEF Done, Micro
  <2>2. r <= now /\ now <= b + 3 + 0
    BY <1>2, <1>4
  <2> QED BY <1>4, <1>7, <1>10, <2>1, <2>2 DEF CallIs, Micro, SPAN
<1>12. DelayIs(now, b, s, c)'
  BY <1>1, <1>2, <1>6, <1>7, ReadingKeepsDelay DEF Behind, Micro
<1> QED BY <1>1, <1>7, <1>8, <1>11, <1>12, StepKeepsTime DEF ClockInv, Behind

LEMMA ReadMillisLowKeepsClock ==
  ASSUME TimerInv, ClockInv, ReadMillisLow
  PROVE  ClockInv'
<1>1. PICK now \in Nat, o \in Nat, b \in Nat, r \in Nat, s \in Nat, c \in Nat :
        Behind(now, o, b, r, s, c)
  BY DEF ClockInv
<1>2. MainTyped /\ MainOK /\ main = Idle
  BY DEF ClockInv, MainOK, ReadMillisLow
<1>3. timer0_millis % 2 \in 0 .. WRAP /\ 0 \in 0 .. TOP - 1
  <2>1. timer0_millis % 2 \in 0 .. 1
    BY TimerNumbers, Divided
  <2> QED BY <2>1, Constants
<1>4. /\ main'.pc = "readHigh" /\ main'.m = timer0_millis % 2 /\ main'.asked = 0 /\ main'.ms = 0
      /\ MainTyped'
  <2>1. main' = [Idle EXCEPT !.pc = "readHigh", !.m = timer0_millis % 2, !.t = 0]
    BY <1>2 DEF ReadMillisLow, At
  <2> DEFINE low == timer0_millis % 2
  <2> HIDE DEF low
  <2> QED BY <1>2, <1>3, <2>1 DEF MainTyped, Idle, low
<1>5. sreg' = FALSE /\ idle' = 0 /\ begun' = timer0_millis /\ timer0_millis' = timer0_millis /\ Step
  BY DEF ReadMillisLow, Step, timer0Vars
<1>6. MainOK'
  <2>1. sreg' \in BOOLEAN /\ (sreg' <=> main'.pc \notin Locked)
    BY <1>4, <1>5, Zenon DEF Locked
  <2> QED BY <1>4, <1>5, <2>1, Constants DEF MainOK, Micro, Done, Reading
<1>7. CallIs(now, o, b, r)' /\ DelayIs(now, b, s, c)'
  BY <1>4 DEF CallIs, DelayIs, Micro, Done
<1> QED BY <1>1, <1>5, <1>6, <1>7, StepKeepsTime DEF ClockInv, Behind

LEMMA ReadMillisHighKeepsClock ==
  ASSUME TimerInv, ClockInv, ReadMillisHigh
  PROVE  ClockInv'
<1>1. PICK now \in Nat, o \in Nat, b \in Nat, r \in Nat, s \in Nat, c \in Nat :
        Behind(now, o, b, r, s, c)
  BY DEF ClockInv
<1>2. /\ MainTyped /\ MainOK /\ main.pc = "readHigh" /\ main.asked = 0 /\ main.ms = 0
      /\ main.m = timer0_millis % 2 /\ begun = timer0_millis
  <2>1. /\ MainTyped /\ MainOK /\ main.pc = "readHigh" /\ main.asked = 0 /\ main.ms <= main.asked
        /\ main.m = timer0_millis % 2 /\ begun = timer0_millis
    BY DEF ClockInv, MainOK, ReadMillisHigh
  <2> QED BY <2>1, MainFields
<1>3. (timer0_millis \div 2) * 2 + main.m = timer0_millis
  <2> DEFINE half == timer0_millis \div 2
             low == timer0_millis % 2
  <2>1. half \in Int /\ low \in Int /\ timer0_millis = 2 * half + low
    <3>1. timer0_millis \in Int /\ 2 \in Nat \ {0}
      BY TimerNumbers
    <3>2. half \in Int /\ low \in 0 .. 2 - 1 /\ timer0_millis = 2 * half + low
      BY <3>1, Divided
    <3> QED BY <3>2
  <2>2. main.m = low
    BY <1>2
  <2> HIDE DEF half, low
  <2>3. half * 2 + main.m = timer0_millis
    BY <2>1, <2>2
  <2> QED BY <2>3 DEF half
<1>4. main' = At("gotMillis", timer0_millis, 0)
  BY <1>3 DEF ReadMillisHigh
<1>5. /\ main'.pc = "gotMillis" /\ main'.m = timer0_millis /\ main'.asked = 0 /\ main'.ms = 0
      /\ MainTyped'
  <2>1. timer0_millis \in 0 .. WRAP /\ 0 \in 0 .. TOP - 1
    BY Constants DEF TimerInv, TimersOK
  <2> QED BY <1>2, <1>4, <2>1 DEF MainTyped, At
<1>6. sreg' = TRUE /\ idle' = 0 /\ begun' = begun /\ Step
  BY DEF ReadMillisHigh, Step
<1>7. MainOK'
  <2>1. sreg' \in BOOLEAN /\ (sreg' <=> main'.pc \notin Locked)
    BY <1>5, <1>6, Zenon DEF Locked
  <2> QED BY <1>2, <1>5, <1>6, <2>1, Constants DEF MainOK, Micro, Done, Reading
<1>8. CallIs(now, o, b, r)' /\ DelayIs(now, b, s, c)'
  BY <1>5 DEF CallIs, DelayIs, Micro, Done
<1> QED BY <1>1, <1>6, <1>7, <1>8, StepKeepsTime DEF ClockInv, Behind

LEMMA AskMicrosKeepsClock ==
  ASSUME TimerInv, ClockInv, AskMicros
  PROVE  ClockInv'
<1>1. PICK now \in Nat, o \in Nat, b \in Nat, r \in Nat, s \in Nat, c \in Nat :
        Behind(now, o, b, r, s, c)
  BY DEF ClockInv
<1>2. MainTyped /\ MainOK /\ main = Idle /\ sreg /\ sreg' = sreg
  BY DEF ClockInv, MainOK, AskMicros, Idle, Locked
<1>3. /\ main'.pc = "readCount" /\ main'.caller = "gotMicros" /\ main'.asked = 0 /\ main'.ms = 0
      /\ MainTyped'
  <2>1. main' = [Idle EXCEPT !.pc = "readCount", !.caller = "gotMicros", !.m = 0, !.t = 0]
    BY <1>2 DEF AskMicros, CallMicros
  <2> QED BY <1>2, <2>1 DEF MainTyped, Idle, Micro, Done
<1>4. idle' = 0 /\ begun' = clock /\ Step
  BY DEF AskMicros, CallMicros, Step
<1>5. MainOK'
  <2>1. sreg' \in BOOLEAN /\ (sreg' <=> main'.pc \notin Locked)
    BY <1>2, <1>3 DEF MainOK, Locked
  <2> QED BY <1>3, <1>4, <2>1, Constants DEF MainOK, Micro, Done, Reading
<1>6. CallIs(now, o, now, r)'
  <2>1. begun' = Rest(SPAN, now) /\ now <= now + 0
    BY <1>1, <1>4 DEF Behind, TimeIs
  <2> QED BY <1>3, <1>4, <2>1 DEF CallIs, Done, SPAN
<1>7. DelayIs(now, now, s, c)'
  BY <1>3 DEF DelayIs
<1> QED BY <1>1, <1>4, <1>5, <1>6, <1>7, StepKeepsTime DEF ClockInv, Behind

LEMMA ReturnKeepsClock ==
  ASSUME TimerInv, ClockInv, Return
  PROVE  ClockInv'
<1>1. PICK now \in Nat, o \in Nat, b \in Nat, r \in Nat, s \in Nat, c \in Nat :
        Behind(now, o, b, r, s, c)
  BY DEF ClockInv
<1>2. main' = Idle /\ idle' = 0 /\ sreg' = sreg /\ sreg \in BOOLEAN /\ sreg /\ Step
  BY DEF ClockInv, MainOK, Return, Step, Locked
<1>3. MainTyped'
  BY <1>2, Constants DEF MainTyped, Idle
<1>4. MainOK'
  <2>1. sreg' \in BOOLEAN /\ (sreg' <=> main'.pc \notin Locked)
    BY <1>2 DEF Locked, Idle
  <2> QED BY <1>2, <1>3, <2>1 DEF MainOK, Idle, Micro, Done, Reading
<1>5. CallIs(now, o, b, r)' /\ DelayIs(now, b, s, c)'
  BY <1>2 DEF CallIs, DelayIs, Idle, Micro, Done
<1> QED BY <1>1, <1>2, <1>4, <1>5, StepKeepsTime DEF ClockInv, Behind

LEMMA StartDelayKeepsClock ==
  ASSUME TimerInv, ClockInv, NEW ms \in Delays, StartDelay(ms)
  PROVE  ClockInv'
<1>1. PICK now \in Nat, o \in Nat, b \in Nat, r \in Nat, s \in Nat, c \in Nat :
        Behind(now, o, b, r, s, c)
  BY DEF ClockInv
<1>2. MainTyped /\ MainOK /\ main = Idle /\ sreg /\ sreg' = sreg
  BY DEF ClockInv, MainOK, StartDelay, Idle, Locked
<1>3. ms \in Nat \ {0}
  BY ClockAssumption, Constants
<1>4. /\ main'.pc = "readCount" /\ main'.caller = "start" /\ main'.asked = ms /\ main'.ms = ms
      /\ MainTyped'
  <2>1. main' = [Idle EXCEPT !.ms = ms, !.asked = ms, !.pc = "readCount", !.caller = "start",
                             !.m = 0, !.t = 0]
    BY <1>2 DEF StartDelay, CallMicros
  <2> QED BY <1>2, <1>3, <2>1 DEF MainTyped, Idle, Micro, Done
<1>5. idle' = 0 /\ begun' = clock /\ passed' = 0 /\ Step
  BY DEF StartDelay, CallMicros, Step
<1>6. MainOK'
  <2>1. sreg' \in BOOLEAN /\ (sreg' <=> main'.pc \notin Locked)
    BY <1>2, <1>4 DEF MainOK, Locked
  <2> QED BY <1>3, <1>4, <1>5, <2>1, Constants DEF MainOK, Micro, Done, Reading
<1>7. CallIs(now, o, now, r)'
  <2>1. begun' = Rest(SPAN, now) /\ now <= now + 0
    BY <1>1, <1>5 DEF Behind, TimeIs
  <2> QED BY <1>4, <1>5, <2>1 DEF CallIs, Done, SPAN
<1>8. DelayIs(now, now, s, now)'
  <2>1. Longest * MS \in Nat
    BY LongestDelay, Constants
  <2> DEFINE L == Longest * MS
  <2>2. 0 = CappedAt(L, now - now)
    <3>1. L \in Nat
      BY <2>1
    <3> HIDE DEF L
    <3> QED BY <3>1 DEF CappedAt
  <2>3. passed' = CappedAt(L, now - now)
    BY <1>5, <2>2
  <2>4. ~ Counting'
    BY <1>4 DEF Counting
  <2> QED BY <2>3, <2>4 DEF DelayIs, Longest
<1> QED BY <1>1, <1>5, <1>6, <1>7, <1>8, StepKeepsTime DEF ClockInv, Behind

\* delay() measures from the time it has read.
LEMMA StartKeepsClock ==
  ASSUME TimerInv, ClockInv, Start
  PROVE  ClockInv'
<1>0. 0 \in 0 .. WRAP /\ 0 \in 0 .. TOP - 1
  BY Constants
<1>1. PICK now \in Nat, o \in Nat, b \in Nat, r \in Nat, s \in Nat, c \in Nat :
        Behind(now, o, b, r, s, c)
  BY DEF ClockInv
<1>2. /\ MainTyped /\ MainOK /\ main.pc = "start" /\ main.caller = "start" /\ main.asked # 0
      /\ main.ms = main.asked /\ sreg /\ sreg' = sreg
  BY DEF ClockInv, MainOK, Start, Done, Locked
<1>3. /\ b <= r /\ r <= now /\ Micros = Rest(SPAN, r)
      /\ c <= now /\ passed = CappedAt(Longest * MS, now - c) /\ c <= b
  BY <1>1, <1>2 DEF Behind, CallIs, DelayIs, Done
<1>4. Micros % WORD = Rest(WORD, r) /\ Micros % WORD \in 0 .. WORD - 1
  <2>1. SPAN \in Nat \ {0} /\ WORD \in Nat \ {0} /\ SPAN % WORD = 0 /\ r \in Int
    BY Constants
  <2>2. (r % SPAN) % WORD = r % WORD /\ r % WORD \in 0 .. WORD - 1
    BY <2>1, ModTwice, Divided
  <2> QED BY <1>3, <2>2 DEF Rest
<1>5. /\ main'.pc = "loop" /\ main'.caller = main.caller /\ main'.asked = main.asked
      /\ main'.ms = main.ms /\ main'.start = Micros % WORD /\ MainTyped'
  <2> DEFINE at == Micros % WORD
  <2>1. main' = [main EXCEPT !.pc = "loop", !.start = at, !.m = 0, !.t = 0]
    BY DEF Start
  <2>2. at \in 0 .. WORD - 1
    BY <1>4
  <2> HIDE DEF at
  <2>3. /\ main'.pc = "loop" /\ main'.caller = main.caller /\ main'.asked = main.asked
        /\ main'.ms = main.ms /\ main'.start = at /\ MainTyped'
    BY <1>0, <1>2, <2>1, <2>2 DEF MainTyped
  <2> QED BY <2>3 DEF at
<1>6. idle' = 0 /\ passed' = passed /\ Step
  BY DEF Start, Step
<1>7. MainOK'
  <2>1. sreg' \in BOOLEAN /\ (sreg' <=> main'.pc \notin Locked)
    BY <1>2, <1>5 DEF MainOK, Locked
  <2> QED BY <1>2, <1>5, <1>6, <2>1, MainFields, Constants DEF MainOK, Micro, Done, Reading
<1>8. CallIs(now, o, b, r)'
  BY <1>5 DEF CallIs, Done, Micro
<1>9. DelayIs(now, b, r, c)'
  <2>1. main'.pc \notin Micro \cup Done
    BY <1>5 DEF Micro, Done
  <2>2. main'.start = Rest(WORD, r)
    BY <1>4, <1>5
  <2>3. c + (main'.asked - main'.ms) * MS <= r
    <3>1. main.asked - main.ms = 0
      BY <1>2, MainFields
    <3>2. 0 * MS = 0
      BY Constants
    <3>3. c + 0 <= r
      BY <1>3
    <3> QED BY <1>5, <3>1, <3>2, <3>3
  <2> QED BY <1>3, <1>6, <2>1, <2>2, <2>3 DEF DelayIs, Longest
<1> QED BY <1>1, <1>6, <1>7, <1>8, <1>9, StepKeepsTime DEF ClockInv, Behind

LEMMA LoopKeepsClock ==
  ASSUME TimerInv, ClockInv, Loop
  PROVE  ClockInv'
<1>0. 0 \in 0 .. WRAP /\ 0 \in 0 .. TOP - 1
  BY Constants
<1>1. PICK now \in Nat, o \in Nat, b \in Nat, r \in Nat, s \in Nat, c \in Nat :
        Behind(now, o, b, r, s, c)
  BY DEF ClockInv
<1>2. /\ MainTyped /\ MainOK /\ main.pc = "loop" /\ main.asked # 0 /\ sreg /\ sreg' = sreg
      /\ main.ms \in Nat /\ main.ms <= main.asked
  BY MainFields DEF ClockInv, MainOK, Loop, Locked
<1>3. /\ c <= now /\ passed = CappedAt(Longest * MS, now - c)
      /\ main.start = Rest(WORD, s)
      /\ c + (main.asked - main.ms) * MS <= s /\ s <= now
  BY <1>1, <1>2 DEF Behind, DelayIs, Counting
<1>4. idle' = 0 /\ passed' = passed /\ Step
  BY DEF Loop, Step
<1>5. ASSUME main.ms > 0 PROVE ClockInv'
  <2>1. main' = [main EXCEPT !.pc = "readCount", !.caller = "look", !.m = 0, !.t = 0] /\ begun' = clock
    BY <1>5 DEF Loop, CallMicros
  <2>2. /\ main'.pc = "readCount" /\ main'.caller = "look" /\ main'.asked = main.asked
        /\ main'.ms = main.ms /\ main'.start = main.start /\ MainTyped'
    BY <1>0, <1>2, <2>1 DEF MainTyped, Micro, Done
  <2>3. MainOK'
    <3>1. sreg' \in BOOLEAN /\ (sreg' <=> main'.pc \notin Locked)
      BY <1>2, <2>2 DEF MainOK, Locked
    <3> QED BY <1>2, <1>4, <1>5, <2>2, <3>1, Constants DEF MainOK, Micro, Done, Reading
  <2>4. CallIs(now, o, now, r)'
    <3>1. begun' = Rest(SPAN, now) /\ now <= now + 0
      BY <1>1, <2>1 DEF Behind, TimeIs
    <3> QED BY <1>4, <2>2, <3>1 DEF CallIs, Done, SPAN
  <2>5. DelayIs(now, now, s, c)'
    BY <1>3, <1>4, <2>2 DEF DelayIs, Longest
  <2> QED BY <1>1, <1>4, <2>3, <2>4, <2>5, StepKeepsTime DEF ClockInv, Behind
<1>6. ASSUME ~ main.ms > 0 PROVE ClockInv'
  <2>1. main' = [main EXCEPT !.pc = "returned"] /\ main.ms = 0
    BY <1>2, <1>6 DEF Loop
  <2>2. /\ main'.pc = "returned" /\ main'.caller = main.caller /\ main'.asked = main.asked
        /\ main'.ms = main.ms /\ main'.start = main.start /\ MainTyped'
    BY <1>2, <2>1 DEF MainTyped
  <2>3. MainOK'
    <3>1. sreg' \in BOOLEAN /\ (sreg' <=> main'.pc \notin Locked)
      BY <1>2, <2>2 DEF MainOK, Locked
    <3> QED BY <1>2, <1>4, <2>1, <2>2, <3>1, Constants DEF MainOK, Micro, Done, Reading
  <2>4. CallIs(now, o, b, r)'
    BY <2>2 DEF CallIs, Done, Micro
  <2>5. DelayIs(now, b, s, c)'
    <3>1. main'.pc \notin Micro \cup Done
      BY <2>2 DEF Micro, Done
    <3> QED BY <1>3, <1>4, <2>2, <3>1 DEF DelayIs, Longest
  <2> QED BY <1>1, <1>4, <2>3, <2>4, <2>5, StepKeepsTime DEF ClockInv, Behind
<1> QED BY <1>5, <1>6

\* The narrow difference is never more than the true one, so the mark moves on by a
\* millisecond only when one has passed since it.
LEMMA LookKeepsClock ==
  ASSUME TimerInv, ClockInv, Look
  PROVE  ClockInv'
<1>0. 0 \in 0 .. WRAP /\ 0 \in 0 .. TOP - 1
  BY Constants
<1>1. PICK now \in Nat, o \in Nat, b \in Nat, r \in Nat, s \in Nat, c \in Nat :
        Behind(now, o, b, r, s, c)
  BY DEF ClockInv
<1>2. /\ MainTyped /\ MainOK /\ main.pc = "look" /\ main.caller = "look" /\ main.asked # 0
      /\ main.ms # 0 /\ sreg /\ sreg' = sreg
  BY DEF ClockInv, MainOK, Look, Done, Locked
<1>3. /\ b <= r /\ r <= now /\ Micros = Rest(SPAN, r)
      /\ c <= now /\ passed = CappedAt(Longest * MS, now - c)
      /\ main.start = Rest(WORD, s) /\ c + (main.asked - main.ms) * MS <= s /\ s <= b
  BY <1>1, <1>2 DEF Behind, CallIs, DelayIs, Done, Counting
<1>4. main.ms \in Nat /\ main.asked \in Nat /\ main.ms <= main.asked /\ main.start \in 0 .. WORD - 1
  BY <1>2, MainFields DEF MainOK
<1>5. /\ SPAN \in Nat \ {0} /\ WORD \in Nat \ {0} /\ SPAN % WORD = 0 /\ MS \in Nat \ {0}
      /\ r \in Int /\ s \in Int
  BY Constants
<1>6. Elapsed = Rest(WORD, r - s) /\ Elapsed \in Nat /\ Elapsed <= r - s
  <2>1. (r % SPAN) % WORD = r % WORD
    BY <1>5, ModTwice
  <2>2. ((r % WORD) - (s % WORD)) % WORD = (r - s) % WORD
    BY <1>5, ModDifference
  <2>3. Elapsed = (r - s) % WORD
    BY <1>3, <2>1, <2>2 DEF Elapsed, Rest
  <2>4. r - s \in Nat
    BY <1>3
  <2>5. PICK d \in Nat : d = r - s
    BY <2>4
  <2>6. d % WORD <= d /\ d % WORD \in Nat
    BY <1>5, ModAtMost
  <2> QED BY <2>3, <2>5, <2>6 DEF Rest
<1>7. PICK q \in Nat : q = IF Elapsed >= MS THEN s + MS ELSE s
  BY <1>5
<1> DEFINE at == IF Elapsed >= MS THEN Advanced(main.start) ELSE main.start
           left == IF Elapsed >= MS THEN main.ms - 1 ELSE main.ms
<1>8. at = Rest(WORD, q) /\ at \in 0 .. WORD - 1
  <2>1. ((s % WORD) + MS) % WORD = (s + MS) % WORD
    <3>1. MS \in Int
      BY <1>5
    <3> QED BY <1>5, <3>1, ModAdd
  <2>2. Advanced(main.start) = Rest(WORD, s + MS)
    BY <1>3, <2>1 DEF Advanced, Rest
  <2>3. at = Rest(WORD, q)
    BY <1>3, <1>7, <2>2
  <2>4. q % WORD \in 0 .. WORD - 1
    BY <1>5, Divided
  <2> QED BY <2>3, <2>4 DEF Rest
<1>9. left \in Nat /\ left <= main.asked /\ c + (main.asked - left) * MS <= q /\ q <= now
  <2>1. CASE Elapsed >= MS
    <3>1. left = main.ms - 1 /\ q = s + MS
      BY <1>7, <2>1
    <3>2. left \in Nat /\ left <= main.asked
      BY <1>2, <1>4, <3>1
    <3>3. (main.asked - left) * MS = (main.asked - main.ms) * MS + MS
      BY <1>4, <1>5, <3>1
    <3> DEFINE z == (main.asked - main.ms) * MS
    <3>4. z \in Int /\ c + z <= s /\ (main.asked - left) * MS = z + MS
      BY <1>3, <1>4, <1>5, <3>3
    <3>5. s + MS <= r
      BY <1>5, <1>6, <2>1
    <3> HIDE DEF z
    <3>6. c + (z + MS) <= s + MS
      BY <1>5, <3>4
    <3>7. s + MS <= now
      BY <1>3, <1>5, <3>5
    <3> QED BY <3>1, <3>2, <3>4, <3>6, <3>7
  <2>2. CASE ~ Elapsed >= MS
    <3>1. left = main.ms /\ q = s
      BY <1>7, <2>2
    <3>2. s <= now
      BY <1>3
    <3> QED BY <1>3, <1>4, <3>1, <3>2
  <2> QED BY <2>1, <2>2
<1>10. main' = [main EXCEPT !.pc = "loop", !.m = 0, !.t = 0, !.start = at, !.ms = left]
  BY DEF Look
<1> HIDE DEF at, left
<1>11. /\ main'.pc = "loop" /\ main'.caller = main.caller /\ main'.asked = main.asked
       /\ main'.ms = left /\ main'.start = at /\ MainTyped'
  BY <1>0, <1>2, <1>8, <1>9, <1>10 DEF MainTyped
<1>12. idle' = 0 /\ passed' = passed /\ Step
  BY DEF Look, Step
<1>13. MainOK'
  <2>1. sreg' \in BOOLEAN /\ (sreg' <=> main'.pc \notin Locked)
    BY <1>2, <1>11 DEF MainOK, Locked
  <2> QED BY <1>2, <1>9, <1>11, <1>12, <2>1, Constants DEF MainOK, Micro, Done, Reading
<1>14. CallIs(now, o, b, r)'
  BY <1>11 DEF CallIs, Done, Micro
<1>15. DelayIs(now, b, q, c)'
  <2>1. main'.pc \notin Micro \cup Done
    BY <1>11 DEF Micro, Done
  <2> QED BY <1>3, <1>8, <1>9, <1>11, <1>12, <2>1 DEF DelayIs, Longest
<1> QED BY <1>1, <1>12, <1>13, <1>14, <1>15, StepKeepsTime DEF ClockInv, Behind

LEMMA NextClockInv ==
  ASSUME TimerInv, ClockInv, [CkNext]_ckVars
  PROVE  ClockInv'
<1>1. CASE Tick
  BY <1>1, TickKeepsClock
<1>2. CASE Timer0Overflow
  BY <1>2, Timer0KeepsClock
<1>3. CASE Timer2Overflow
  BY <1>3, Timer2KeepsClock DEF Timer2Overflow, timer0Vars
<1>4. CASE UNCHANGED ckVars
  BY <1>4, Timer2KeepsClock DEF ckVars, timer0Vars, historyVars
<1>5. CASE Main
  BY <1>5, ReadCountKeepsClock, ReadTCNT0KeepsClock, ReadTOV0KeepsClock, ReadMillisHighKeepsClock,
     ReturnKeepsClock, StartKeepsClock, LoopKeepsClock, LookKeepsClock DEF Main
<1>6. CASE Calls
  BY <1>6, AskMicrosKeepsClock, ReadMillisLowKeepsClock, StartDelayKeepsClock DEF Calls
<1> QED BY <1>1, <1>2, <1>3, <1>4, <1>5, <1>6 DEF CkNext

\* In every reachable state there are numbers behind the counters that the program
\* keeps, for the time, the call, the reading and the mark of delay().
THEOREM ClockInvariant == CkSpec => [](TimerInv /\ ClockInv)
<1>1. CkInit => TimerInv /\ ClockInv
  BY InitTimerInv, InitClockInv
<1>2. TimerInv /\ ClockInv /\ [CkNext]_ckVars => TimerInv' /\ ClockInv'
  BY NextTimerInv, NextClockInv
<1> QED BY <1>1, <1>2, PTL DEF CkSpec

\* Every variable of the clocks keeps its type; the count that micros() raises is at
\* most one beyond the values of its counter.
THEOREM ClockTyped == CkSpec => []CkTypeOK
<1>1. TimerInv /\ ClockInv => CkTypeOK
  <2> SUFFICES ASSUME TimerInv, ClockInv PROVE CkTypeOK
    OBVIOUS
  <2>1. {tov0, tov2, sreg} \subseteq BOOLEAN
    BY Zenon DEF TimerInv, TimersOK, ClockInv, MainOK
  <2>2. main.m \in 0 .. WRAP /\ main.t \in 0 .. TOP - 1 /\ main.start \in 0 .. WORD - 1
    BY MainFields DEF ClockInv, MainOK
  <2> QED BY <2>1, <2>2 DEF TimerInv, TimersOK, CkTypeOK
<1> QED BY <1>1, ClockInvariant, PTL

\* Two times less than a round apart are as far apart as their counters say.
LEMMA AfterIsDifference ==
  ASSUME NEW b \in Nat, NEW x \in Nat, b <= x, x - b < SPAN
  PROVE  After(Rest(SPAN, b), Rest(SPAN, x)) = x - b
<1>1. SPAN \in Nat \ {0} /\ b \in Int /\ x \in Int
  BY Constants
<1>2. ((x % SPAN) - (b % SPAN)) % SPAN = (x - b) % SPAN
  BY <1>1, ModDifference
<1>3. x - b \in 0 .. SPAN - 1
  BY <1>1
<1>4. (x - b) % SPAN = x - b
  BY <1>1, <1>3, ModOfSmall
<1> QED BY <1>2, <1>4 DEF After, Rest

\* What micros() answers is the time of one of its own loads, and what millis()
\* answers is the value of one moment, wherever the interrupts fall.
THEOREM MicrosIsTrue == CkSpec => []MicrosTrue
<1>1. TimerInv /\ ClockInv => MicrosTrue
  <2> SUFFICES ASSUME TimerInv, ClockInv PROVE MicrosTrue
    OBVIOUS
  <2>1. main.pc = "gotMillis" => main.m = begun
    BY DEF ClockInv, MainOK
  <2>2. ASSUME main.pc \in Done
        PROVE  After(begun, Micros) <= After(begun, clock)
    <3>1. PICK now \in Nat, o \in Nat, b \in Nat, r \in Nat, s \in Nat, c \in Nat :
            Behind(now, o, b, r, s, c)
      BY DEF ClockInv
    <3>2. /\ b <= r /\ r <= now /\ now <= b + 3 + idle
          /\ Micros = Rest(SPAN, r) /\ begun = Rest(SPAN, b) /\ clock = Rest(SPAN, now)
      BY <2>2, <3>1 DEF Behind, CallIs, TimeIs
    <3>3. idle \in Nat /\ idle <= GAP
      BY <2>2 DEF ClockInv, MainOK, Done
    <3>4. SPAN \in Nat /\ GAP \in Nat /\ GAP + 3 < SPAN
      BY Constants
    <3>5. b <= now /\ now - b < SPAN /\ r - b < SPAN
      BY <3>2, <3>3, <3>4
    <3>6. After(begun, Micros) = r - b /\ After(begun, clock) = now - b
      BY <3>2, <3>5, AfterIsDifference
    <3>7. r - b <= now - b
      BY <3>2
    <3> QED BY <3>6, <3>7
  <2> QED BY <2>1, <2>2 DEF MicrosTrue, Done
<1> QED BY <1>1, ClockInvariant, PTL

\* delay() does not return before its milliseconds are over, although it measures
\* in a uint16_t that wraps many times in one call.
THEOREM DelayIsNeverShort == CkSpec => []NeverShort
<1>1. TimerInv /\ ClockInv => NeverShort
  <2> SUFFICES ASSUME ClockInv, main.pc = "returned"
               PROVE  passed >= main.asked * MS
    BY DEF NeverShort
  <2>1. PICK now \in Nat, o \in Nat, b \in Nat, r \in Nat, s \in Nat, c \in Nat :
          Behind(now, o, b, r, s, c)
    BY DEF ClockInv
  <2>2. main.asked # 0 /\ main.ms = 0 /\ main.asked \in Nat /\ main.asked \in Delays
    <3>1. main.asked # 0 /\ main.ms = 0 /\ MainTyped
      BY DEF ClockInv, MainOK
    <3> QED BY <3>1, MainFields
  <2>3. c <= now /\ passed = CappedAt(Longest * MS, now - c) /\ c + (main.asked - 0) * MS <= s /\ s <= now
    BY <2>1, <2>2 DEF Behind, DelayIs, Counting
  <2>4. Longest \in Nat /\ main.asked <= Longest /\ MS \in Nat \ {0}
    BY <2>2, LongestDelay, Constants
  <2> DEFINE long == Longest * MS
             due == main.asked * MS
  <2>5. long \in Nat /\ due \in Nat /\ due <= long
    BY <2>2, <2>4
  <2>6. c + due <= s
    BY <2>2, <2>3
  <2>7. passed = IF now - c < long THEN now - c ELSE long
    BY <2>3 DEF CappedAt
  <2> HIDE DEF long, due
  <2>8. now - c >= due
    BY <2>3, <2>5, <2>6
  <2>9. passed >= due
    BY <2>5, <2>7, <2>8
  <2> QED BY <2>9 DEF due
<1> QED BY <1>1, ClockInvariant, PTL
=============================================================================

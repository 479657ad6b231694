------------------------------- MODULE Scheduler -------------------------------
(***************************************************************************)
(* The tick scheduler (Support/Scheduler/Scheduler.cpp): a singly linked   *)
(* list of subscriptions that the main program edits and the timer         *)
(* interrupt walks.  The main program's steps are the single loads and     *)
(* stores of a list pointer, so that an interrupt may fall between any two *)
(* of them; the interrupt runs to its end before the main program goes on. *)
(***************************************************************************)
EXTENDS Integers, FiniteSets

CONSTANTS
  Subscriptions,   \* the Subscription objects
  callback,        \* callback[s]: the function s->subscription points to
  timeout,         \* timeout[s]: the period in ticks
  TICKS,           \* tick counts modulo TICKS (2^16, a uint16_t)
  NULL

ASSUME PeriodAssumption ==
  /\ TICKS \in Nat \ {0}
  /\ timeout \in [Subscriptions -> 1 .. TICKS]
  /\ NULL \notin Subscriptions

VARIABLES
  use,             \* who uses the object: "launcher" or "test"
  subscriptions,   \* head of the list
  next,            \* next[s]; next[NULL] is the local prev of unsubscribe
  tick,
  edit,            \* the main program: where it is, its argument, its iterator
  isr,             \* callSubscriptions: running or not, and its iterator
  members,         \* history: what the list should hold
  called,          \* history: the callbacks made in this tick
  waited           \* history: ticks since a member was linked or called

vars == <<use, subscriptions, next, tick, edit, isr, members, called, waited>>

\* The launchers subscribe each object once, while the timer may run, and never
\* take one away; the unit tests edit the list with no timer running.
Interrupts == use = "launcher"
Edits == use = "test"

NoEdit == [pc |-> "idle"]
Editing(pc, s, it) == [pc |-> pc, sub |-> s, it |-> it]

Init ==
  /\ use \in {"launcher", "test"}
  /\ subscriptions = NULL
  /\ next = [s \in Subscriptions \cup {NULL} |-> NULL]
  /\ tick = 0
  /\ edit = NoEdit
  /\ isr = [running |-> FALSE, it |-> NULL]
  /\ members = {}
  /\ called = {}
  /\ waited = [s \in Subscriptions |-> 0]

MainMayRun == ~ isr.running

-----------------------------------------------------------------------------
(* subscribe. *)

Link(s) ==
  /\ members' = members \cup {s}
  /\ waited' = IF s \in members THEN waited ELSE [waited EXCEPT ![s] = 0]

Subscribe(s) ==
  /\ MainMayRun /\ edit = NoEdit
  /\ Edits \/ (s \notin members)
  /\ IF subscriptions = NULL
       THEN /\ subscriptions' = s
            /\ edit' = Editing("clear", s, NULL)
            /\ Link(s)
       ELSE /\ edit' = Editing("find", s, subscriptions)
            /\ UNCHANGED <<subscriptions, members, waited>>
  /\ UNCHANGED <<use, next, tick, isr, called>>

\* One turn of the loop over it; the last node's callback is not compared.
FindTail ==
  /\ MainMayRun /\ edit.pc = "find"
  /\ IF next[edit.it] = NULL
       THEN /\ next' = [next EXCEPT ![edit.it] = edit.sub]
            /\ edit' = Editing("clear", edit.sub, NULL)
            /\ Link(edit.sub)
       ELSE /\ edit' = IF callback[edit.it] = callback[edit.sub]
                         THEN NoEdit
                         ELSE [edit EXCEPT !.it = next[edit.it]]
            /\ UNCHANGED <<next, members, waited>>
  /\ UNCHANGED <<use, subscriptions, tick, isr, called>>

\* Mistake: the list is closed into a ring.
ClearNextRing ==
  /\ MainMayRun /\ edit.pc = "clear"
  /\ next' = [next EXCEPT ![edit.sub] = subscriptions]
  /\ edit' = NoEdit
  /\ UNCHANGED <<use, subscriptions, tick, isr, members, called, waited>>

\* subscription->next = NULL
ClearNext ==
  /\ MainMayRun /\ edit.pc = "clear"
  /\ next' = [next EXCEPT ![edit.sub] = NULL]
  /\ edit' = NoEdit
  /\ UNCHANGED <<use, subscriptions, tick, isr, members, called, waited>>

-----------------------------------------------------------------------------
(* unsubscribe: prev.next = subscriptions, then the loop from &prev. *)

Unsubscribe(s) ==
  /\ MainMayRun /\ edit = NoEdit /\ Edits
  /\ subscriptions # NULL
  /\ next' = [next EXCEPT ![NULL] = subscriptions]
  /\ edit' = Editing("unlink", s, NULL)
  /\ UNCHANGED <<use, subscriptions, tick, isr, members, called, waited>>

Unlink ==
  /\ MainMayRun /\ edit.pc = "unlink"
  /\ LET following == next[edit.it] IN
       IF following = NULL
         THEN /\ subscriptions' = next[NULL]
              /\ next' = [next EXCEPT ![NULL] = NULL]    \* prev goes out of scope
              /\ edit' = NoEdit
              /\ members' = members \ {edit.sub}
         ELSE /\ IF following = edit.sub
                   THEN /\ next' = [next EXCEPT ![edit.it] = next[following]]
                        /\ UNCHANGED edit
                   ELSE /\ edit' = [edit EXCEPT !.it = following]
                        /\ UNCHANGED next
              /\ UNCHANGED <<subscriptions, members>>
  /\ UNCHANGED <<use, tick, isr, called, waited>>

-----------------------------------------------------------------------------
(* CheckTime and callSubscriptions, from the timer interrupt. *)

StartTick ==
  /\ ~ isr.running
  /\ Interrupts \/ edit = NoEdit
  /\ tick' = (tick + 1) % TICKS
  /\ isr' = [running |-> TRUE, it |-> subscriptions]
  /\ called' = {}
  /\ waited' = [s \in Subscriptions |-> IF s \in members THEN waited[s] + 1 ELSE 0]
  /\ UNCHANGED <<use, subscriptions, next, edit, members>>

\* Mistake: the remainder is compared with one.
DueOneOff(s) == tick % timeout[s] = 1

Due(s) == tick % timeout[s] = 0

\* Mistake: the node after one that was called is passed over.
VisitNodeSkipping ==
  /\ isr.running /\ isr.it # NULL
  /\ IF Due(isr.it)
       THEN /\ called' = called \cup {isr.it}
            /\ waited' = [waited EXCEPT ![isr.it] = 0]
            /\ isr' = [isr EXCEPT !.it = IF next[@] = NULL THEN NULL ELSE next[next[@]]]
       ELSE /\ isr' = [isr EXCEPT !.it = next[@]]
            /\ UNCHANGED <<called, waited>>
  /\ UNCHANGED <<use, subscriptions, next, tick, edit, members>>

VisitNode ==
  /\ isr.running /\ isr.it # NULL
  /\ IF Due(isr.it)
       THEN called' = called \cup {isr.it} /\ waited' = [waited EXCEPT ![isr.it] = 0]
       ELSE UNCHANGED <<called, waited>>
  /\ isr' = [isr EXCEPT !.it = next[isr.it]]
  /\ UNCHANGED <<use, subscriptions, next, tick, edit, members>>

EndTick ==
  /\ isr.running /\ isr.it = NULL
  /\ isr' = [isr EXCEPT !.running = FALSE]
  /\ UNCHANGED <<use, subscriptions, next, tick, edit, members, called, waited>>

Next ==
  \/ \E s \in Subscriptions : Subscribe(s) \/ Unsubscribe(s)
  \/ FindTail \/ ClearNext \/ Unlink
  \/ StartTick \/ VisitNode \/ EndTick

\* The interrupt service routine runs to its end.
Spec == Init /\ [][Next]_vars /\ WF_vars(VisitNode \/ EndTick)

-----------------------------------------------------------------------------
(* Properties. *)

TypeOK ==
  /\ use \in {"launcher", "test"}
  /\ subscriptions \in Subscriptions \cup {NULL}
  /\ next \in [Subscriptions \cup {NULL} -> Subscriptions \cup {NULL}]
  /\ tick \in 0 .. TICKS - 1
  /\ edit = NoEdit \/ edit \in [pc  : {"find", "clear", "unlink"},
                              sub : Subscriptions,
                              it  : Subscriptions \cup {NULL}]
  /\ isr \in [running : BOOLEAN, it : Subscriptions \cup {NULL}]
  /\ members \subseteq Subscriptions
  /\ called \subseteq Subscriptions
  /\ waited \in [Subscriptions -> 0 .. TICKS]

\* The walk of a tick ends: no edit ever leaves a cycle in the list where the
\* interrupt can see it.
WalkEnds == isr.running ~> ~ isr.running

\* One tick calls exactly the members that are due, whatever the main program
\* was in the middle of: none is lost from the list, none is left in it.
DueAreCalled ==
  [][isr.running /\ ~ isr'.running => called = {s \in members : Due(s)}]_vars

\* A member never waits longer than its period, the wrap of the uint16_t tick
\* included (the wrap may only shorten a wait).
NeverLate ==
  ~ isr.running => \A s \in members : waited[s] < timeout[s]
===============================================================================

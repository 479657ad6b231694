------------------------------- MODULE SystemClk -------------------------------
(***************************************************************************)
(* The two clocks of the program: timer 0 behind millis(), micros() and    *)
(* delay() (Drivers/Timers/SystemClk.c), and timer 2 behind the ticks of   *)
(* the scheduler (Drivers/Timers/MsTimer2.cpp).  The timers count on their *)
(* own; their interrupts may be held off, by a cli() of the main program   *)
(* or by another interrupt, and the main program is cut at every access to *)
(* what an interrupt writes.                                               *)
(*                                                                         *)
(* At the 8 MHz of the build a timer counts every 8 microseconds, so a     *)
(* millisecond is 125 ticks, FRACT_MAX is 125 and FRACT_INC is what 256    *)
(* ticks leave of whole milliseconds.                                      *)
(***************************************************************************)
EXTENDS Integers

CONSTANTS
  TOP,       \* ticks from one overflow of timer 0 to the next: 256
  MS,        \* ticks in a millisecond: 125
  WRAP,      \* values of timer0_overflow_count and timer0_millis: 2^32
  WORD,      \* ticks in which the uint16_t of delay() wraps: 65536 / 8
  MSECS,     \* the period given to MsTimer2::set: Scheduler::INT_PERIOD
  HOLD,      \* ticks for which an interrupt may be held off
  GAP,       \* ticks between two looks at the clock in delay()
  Delays     \* arguments of delay()

ASSUME ClockAssumption ==
  /\ {TOP, MS, WRAP, WORD, HOLD, GAP} \subseteq Nat \ {0} /\ MSECS \in Nat
  /\ MS < TOP /\ (WRAP * TOP) % WORD = 0
  /\ Delays \subseteq 1 .. WRAP - 1

\* Below these bounds no overflow is lost, and no call of micros() takes the time
\* in which its answer comes round, 101 days; the program does not enforce them.
ASSUME PromptAssumption == HOLD + 2 <= TOP /\ HOLD < MS /\ GAP + 3 < WRAP * TOP

VARIABLES
  clock,         \* the time that has really passed, modulo WRAP * TOP
  tcnt0, tov0,   \* timer 0 and its overflow flag
  tcnt2, tov2,   \* timer 2, counted from the value it is reloaded with
  timer0_overflow_count, timer0_millis, timer0_fract,
  count,         \* MsTimer2::count
  main,          \* the main program: where it is, and its locals
  sreg,          \* SREG.I
  idle,          \* ticks since the main program's last step
  begun,         \* history: clock, or timer0_millis, when the call was made
  passed,        \* history: ticks since delay() was called
  since          \* history: ticks since func was last called

timer0Vars == <<timer0_overflow_count, timer0_millis, timer0_fract>>
historyVars == <<begun, passed, since>>
ckVars == <<clock, tcnt0, tov0, tcnt2, tov2, timer0Vars, count, main, sreg, idle, historyVars>>

SPAN == WRAP * TOP

\* MsTimer2::set on the ATmega328P: the period, and the ticks of timer 2 from its
\* reload value to its overflow, of a CPU of so many kHz.
Msecs == IF MSECS = 0 THEN 1 ELSE MSECS
Prescaler(khz) == IF khz < 1000 THEN 8 ELSE IF khz <= 16000 THEN 64 ELSE 128
TicksPerMs(khz) == khz \div Prescaler(khz)
ASSUME BuildAssumption == TicksPerMs(8000) = 125

PERIOD == Msecs * MS

\* What an overflow adds: whole milliseconds, and ticks.
MILLIS_INC == TOP \div MS
FRACT_INC == TOP % MS
FRACT_MAX == MS

Longest == CHOOSE ms \in Delays : \A other \in Delays : other <= ms

Idle == [pc |-> "idle", m |-> 0, t |-> 0, ms |-> 0, asked |-> 0, start |-> 0, caller |-> "idle"]
At(pc, m, t) == [main EXCEPT !.pc = pc, !.m = m, !.t = t]
After(a, b) == (b - a) % SPAN

\* MsTimer2::start().
MsTimer2Start == count = 0 /\ tcnt2 = 0 /\ tov2 = FALSE

\* init(); the timer of the scheduler is started in setup().
CkInit ==
  /\ clock = 0
  /\ tcnt0 = 0 /\ tov0 = FALSE
  /\ MsTimer2Start
  /\ timer0_overflow_count = 0 /\ timer0_millis = 0 /\ timer0_fract = 0
  /\ main = Idle
  /\ sreg = TRUE /\ idle = 0
  /\ begun = 0 /\ passed = 0 /\ since = 0

-----------------------------------------------------------------------------
(* The timers. *)

Reading == {"readCount", "readTCNT0", "readTOV0", "readHigh"}

CappedAt(limit, n) == IF n < limit THEN n ELSE limit

\* The main program reads on without delay; an interrupt that waits is served in
\* time.
Tick ==
  /\ main.pc \in Reading => idle = 0
  /\ main.pc # "idle" => idle < GAP
  /\ tov0 => tcnt0 < HOLD
  /\ tov2 => tcnt2 < MS + HOLD
  /\ clock' = (clock + 1) % SPAN
  /\ tcnt0' = (tcnt0 + 1) % TOP
  /\ tov0' = (tov0 \/ tcnt0' = 0)
  /\ tcnt2' = tcnt2 + 1
  /\ tov2' = (tov2 \/ tcnt2' = MS)
  /\ idle' = IF main.pc = "idle" THEN 0 ELSE idle + 1
  /\ passed' = IF main.asked = 0 THEN 0 ELSE CappedAt(Longest * MS, passed + 1)
  /\ since' = CappedAt(PERIOD, since + 1)
  /\ UNCHANGED <<timer0Vars, count, main, sreg, begun>>

\* Mistake: the carry of the fraction is lost.
CarriedNot(m) == m

\* m += 1
Carried(m) == m + 1

\* ISR(TIMER0_OVF_vect).
Timer0Overflow ==
  /\ sreg /\ tov0
  /\ tov0' = FALSE
  /\ LET f == timer0_fract + FRACT_INC
         m == timer0_millis + MILLIS_INC
     IN  IF f >= FRACT_MAX
           THEN timer0_fract' = f - FRACT_MAX /\ timer0_millis' = Carried(m) % WRAP
           ELSE timer0_fract' = f /\ timer0_millis' = m % WRAP
  /\ timer0_overflow_count' = (timer0_overflow_count + 1) % WRAP
  /\ UNCHANGED <<clock, tcnt0, tcnt2, tov2, count, main, sreg, idle, historyVars>>

\* Mistake: the count is compared before it has come round.
DueEarly(n) == n + 1 >= Msecs

\* The test of _overflow().
DueNow(n) == n >= Msecs

\* ISR(TIMER2_OVF_vect) and _overflow(); nothing interrupts it, so overflowing is
\* never found set.
Timer2Overflow ==
  /\ sreg /\ tov2
  /\ tov2' = FALSE
  /\ tcnt2' = 0
  /\ IF DueNow(count + 1)
       THEN count' = count + 1 - Msecs /\ since' = 0      \* (*func)()
       ELSE count' = count + 1 /\ UNCHANGED since
  /\ UNCHANGED <<clock, tcnt0, tov0, timer0Vars, main, sreg, idle, begun, passed>>

-----------------------------------------------------------------------------
(* micros(), for delay() or another caller; millis(). *)

Step == idle' = 0 /\ UNCHANGED <<clock, tcnt0, tov0, tcnt2, tov2, timer0Vars, count, since>>

CallMicros(from, caller) ==
  /\ begun' = clock
  /\ main' = [from EXCEPT !.pc = "readCount", !.caller = caller, !.m = 0, !.t = 0]

\* Mistake: interrupts stay enabled.
ReadCountEnabled ==
  /\ main.pc = "readCount"
  /\ main' = At("readTCNT0", timer0_overflow_count, 0)
  /\ Step /\ UNCHANGED <<sreg, begun, passed>>

\* cli() and the first load.
ReadCount ==
  /\ main.pc = "readCount"
  /\ sreg' = FALSE
  /\ main' = At("readTCNT0", timer0_overflow_count, 0)
  /\ Step /\ UNCHANGED <<begun, passed>>

ReadTCNT0 ==
  /\ main.pc = "readTCNT0"
  /\ main' = At("readTOV0", main.m, tcnt0)
  /\ Step /\ UNCHANGED <<sreg, begun, passed>>

\* An overflow that waits, and that the tick already read comes after.
Missed == tov0 /\ main.t < TOP - 1

ReadTOV0 ==
  /\ main.pc = "readTOV0"
  /\ main' = At(main.caller, IF Missed THEN main.m + 1 ELSE main.m, main.t)
  /\ sreg' = TRUE
  /\ Step /\ UNCHANGED <<begun, passed>>

\* The value that is returned, in ticks.
Micros == (main.m * TOP + main.t) % SPAN

\* The four bytes of timer0_millis are loaded one after the other.
ReadMillisLow ==
  /\ main.pc = "idle"
  /\ sreg' = FALSE
  /\ main' = At("readHigh", timer0_millis % 2, 0)
  /\ begun' = timer0_millis /\ Step /\ UNCHANGED passed

ReadMillisHigh ==
  /\ main.pc = "readHigh"
  /\ main' = At("gotMillis", (timer0_millis \div 2) * 2 + main.m, 0)
  /\ sreg' = TRUE
  /\ Step /\ UNCHANGED <<begun, passed>>

AskMicros ==
  /\ main.pc = "idle"
  /\ CallMicros(main, "gotMicros")
  /\ Step /\ UNCHANGED <<sreg, passed>>

Return ==
  /\ main.pc \in {"gotMicros", "gotMillis", "returned"}
  /\ main' = Idle /\ begun' = 0 /\ passed' = 0
  /\ Step /\ UNCHANGED sreg

-----------------------------------------------------------------------------
(* delay(ms). *)

StartDelay(ms) ==
  /\ main.pc = "idle"
  /\ CallMicros([main EXCEPT !.ms = ms, !.asked = ms], "start")
  /\ passed' = 0
  /\ Step /\ UNCHANGED sreg

Start ==
  /\ main.pc = "start"
  /\ main' = [main EXCEPT !.pc = "loop", !.start = Micros % WORD, !.m = 0, !.t = 0]
  /\ begun' = 0 /\ Step /\ UNCHANGED <<sreg, passed>>

Loop ==
  /\ main.pc = "loop"
  /\ IF main.ms > 0
       THEN CallMicros(main, "look")
       ELSE main' = [main EXCEPT !.pc = "returned"] /\ UNCHANGED begun
  /\ Step /\ UNCHANGED <<sreg, passed>>

\* Mistake: the start is left where it was.
StartLeft(start) == start

\* start += 1000, in the uint16_t.
Advanced(start) == (start + MS) % WORD

Elapsed == ((Micros % WORD) - main.start) % WORD

Look ==
  /\ main.pc = "look"
  /\ main' = [main EXCEPT !.pc = "loop", !.m = 0, !.t = 0,
                          !.start = IF Elapsed >= MS THEN Advanced(@) ELSE @,
                          !.ms = IF Elapsed >= MS THEN @ - 1 ELSE @]
  /\ begun' = 0 /\ Step /\ UNCHANGED <<sreg, passed>>

Main ==
  \/ ReadCount \/ ReadTCNT0 \/ ReadTOV0 \/ ReadMillisHigh \/ Return
  \/ Start \/ Loop \/ Look
Calls == AskMicros \/ ReadMillisLow \/ \E ms \in Delays : StartDelay(ms)

CkNext == Tick \/ Timer0Overflow \/ Timer2Overflow \/ Main \/ Calls

CkSpec == CkInit /\ [][CkNext]_ckVars

-----------------------------------------------------------------------------
(* Properties. *)

CkTypeOK ==
  /\ clock \in 0 .. SPAN - 1
  /\ tcnt0 \in 0 .. TOP - 1 /\ tcnt2 \in 0 .. MS + HOLD
  /\ {tov0, tov2, sreg} \subseteq BOOLEAN
  /\ {timer0_overflow_count, timer0_millis} \subseteq 0 .. WRAP - 1
  /\ timer0_fract \in 0 .. MS - 1
  /\ count \in 0 .. Msecs - 1
  /\ main.m \in 0 .. WRAP /\ main.t \in 0 .. TOP - 1
  /\ main.start \in 0 .. WORD - 1

\* micros() answers a time between its call and its return, although the counter
\* may overflow between any two of its loads and the overflow may be waiting;
\* millis() never mixes the bytes of two values.
MicrosTrue ==
  /\ main.pc \in {"start", "look", "gotMicros"} => After(begun, Micros) <= After(begun, clock)
  /\ main.pc = "gotMillis" => main.m = begun

\* millis() loses nothing in its fractions: in ticks, it is the time of the
\* overflows that were served.
MillisExact ==
  (timer0_millis * MS + timer0_fract - timer0_overflow_count * TOP) % WRAP = 0

\* delay() never returns before its time, over a uint16_t that wraps in the
\* middle, however long it is kept from looking.
NeverShort == main.pc = "returned" => passed >= main.asked * MS

\* The scheduler's ticks never come faster than their period, although count is
\* not cleared but reduced.
TicksNotFast == [][Timer2Overflow /\ DueNow(count + 1) => since >= PERIOD]_ckVars
===============================================================================

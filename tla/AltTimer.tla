---------------------------------- MODULE AltTimer ----------------------------------
(***************************************************************************)
(* The interval timer and its two drivers: as the system clock it raises   *)
(* the interrupt whose handler makes the ticks, as the timestamp clock it  *)
(* counts once through its whole range and is read in parts of 16 bits.    *)
(* The program and the handler get at it by one register access at a time, *)
(* and it goes on counting between them.                                   *)
(***************************************************************************)
EXTENDS Integers, Sequences

CONSTANTS
  Part,                 \* values of one part of a count, 2^16 in the code
  Loads,                \* LOAD_VALUE of the timer, neither 0 nor more than two parts
  TIMER_FREQ,           \* clocks in a second
  Clocks                \* what the timer may be: sets of "sys" and "timestamp"

VARIABLES
  unit,                 \* how the timer was generated, and what it is used for
  timer,                \* its registers
  ts_freq, rate,        \* altera_avalon_timer_ts_freq; of alt_sysclk_init
  handled,              \* alt_avalon_timer_sc_irq is registered and enabled
  todo, got,            \* accesses of the function that runs, what alt_timestamp has read
  elapsed, taken,       \* history: clocks since alt_timestamp_start, at the last
                        \* snapshot; one more than the period when it has run out
  owed, overrun         \* history: time-outs without a tick; one came before the
                        \* handler got to the one before

configuration == <<unit, ts_freq, rate, handled>>
history == <<elapsed, taken, owed, overrun>>

-----------------------------------------------------------------------------
(* The registers (altera_avalon_timer_regs.h).                             *)

STATUS == 0
CONTROL == 1
Registers32 == [period |-> 2, snap |-> 4]    \* PERIODL, PERIODH, SNAPL, SNAPH
Registers64 == [period |-> 2, snap |-> 6]    \* PERIOD_0..PERIOD_3, SNAP_0..SNAP_3
Registers == IF unit.parts = 2 THEN Registers32 ELSE Registers64
PERIOD(i) == Registers.period + i
SNAP(i) == Registers.snap + i
Parts == 0..(unit.parts - 1)
Unit(i) == <<1, Part, Part * Part, Part * Part * Part>>[i + 1]
Full == Part * Unit(unit.parts - 1) - 1             \* 2^COUNTER_SIZE - 1

PartOf(n, i) == (n \div Unit(i)) % Part
WithPart(n, i, v) == n + (v - PartOf(n, i)) * Unit(i)

\* A write to a period register also stops the counter and loads it, even when
\* the period itself is fixed.
Written(t, reg, v) ==
  CASE reg = STATUS  -> [t EXCEPT !.to = FALSE]
    [] reg = CONTROL -> [t EXCEPT !.ito = "ITO" \in v, !.cont = "CONT" \in v,
                                  !.run = "START" \in v \/ (@ /\ "STOP" \notin v)]
    [] OTHER ->
         LET i == reg - PERIOD(0)
             p == IF unit.fixed THEN t.period ELSE WithPart(t.period, i, v)
         IN  IF i \in Parts THEN [t EXCEPT !.period = p, !.counter = p, !.run = FALSE]
             ELSE [t EXCEPT !.snap = t.counter]

TimesOut == timer.run /\ timer.counter = 0

\* One clock.
Counted(t) ==
  IF t.counter = 0 THEN [t EXCEPT !.counter = t.period, !.to = TRUE, !.run = t.cont]
  ELSE [t EXCEPT !.counter = @ - 1]

-----------------------------------------------------------------------------
(* What the functions do, as sequences of accesses.                        *)

write(reg, v) == [do |-> "write", reg |-> reg, value |-> v]
read(reg) == [do |-> "read", reg |-> reg]
call(f) == [do |-> f]
ReadParts == [k \in 1..unit.parts |-> read(SNAP(k - 1))]
FillParts == [k \in 1..unit.parts |-> write(PERIOD(k - 1), Part - 1)]

alt_timestamp == <<write(SNAP(0), 0)>> \o ReadParts

\* Its result, (upper << 16) | lower from the top of the range down.
Combined(parts) ==
  Full - (parts[1] + Part * (parts[2] + IF unit.parts = 2 THEN 0
                                        ELSE Part * (parts[3] + Part * parts[4])))

alt_timestamp_start ==
  <<write(CONTROL, {"STOP"})>> \o FillParts \o <<write(CONTROL, {"START"})>>

\* mutant: the interrupt is cleared after the tick
ClearedLast == <<call("alt_tick"), write(STATUS, 0), read(CONTROL)>>

alt_avalon_timer_sc_irq == <<write(STATUS, 0), read(CONTROL), call("alt_tick")>>

alt_avalon_timer_sc_init ==
  <<write(CONTROL, {"ITO", "CONT", "START"}), call("alt_ic_isr_register")>>

\* ALTERA_AVALON_TIMER_FREQ
TimerFreq(freq, period, units) ==
  LET up(n) == (n + period - 1) \div period IN
  CASE units = "us" -> up(1000000) [] units = "ms" -> up(1000)
    [] units = "s" -> 1 [] OTHER -> up(freq)

-----------------------------------------------------------------------------
TimerInit ==
  /\ unit \in [clocks : Clocks, parts : {2, 4}, fixed : BOOLEAN, load : Loads]
  /\ timer = [counter |-> unit.load, period |-> unit.load, snap |-> 0,
              run |-> FALSE, cont |-> FALSE, ito |-> FALSE, to |-> FALSE]
  /\ ts_freq = 0 /\ rate = 0 /\ handled = FALSE
  /\ todo = <<>> /\ got = <<>>
  /\ elapsed = 0 /\ taken = 0 /\ owed = 0 /\ overrun = FALSE

\* ALTERA_AVALON_TIMER_INIT, of alt_sys_init: a timer that is the system clock is
\* no timestamp clock; one that is neither is left alone.
SetUp ==
  /\ todo = <<>> /\ ts_freq = 0 /\ rate = 0
  /\ \/ /\ "sys" \in unit.clocks
        /\ rate' = TimerFreq(TIMER_FREQ, unit.load + 1, "clocks")
        /\ todo' = alt_avalon_timer_sc_init
        /\ UNCHANGED ts_freq
     \/ /\ unit.clocks = {"timestamp"}
        /\ ts_freq' = TIMER_FREQ
        /\ UNCHANGED <<rate, todo>>
  /\ UNCHANGED <<unit, timer, handled, got, history>>

\* alt_timestamp_start and alt_timestamp: without a timestamp clock they return
\* all ones at once.
Calls(f) ==
  /\ todo = <<>> /\ ts_freq # 0
  /\ todo' = f /\ got' = <<>>
  /\ UNCHANGED <<configuration, timer, history>>

Interrupt ==
  /\ todo = <<>> /\ handled /\ timer.ito /\ timer.to
  /\ todo' = alt_avalon_timer_sc_irq
  /\ UNCHANGED <<configuration, timer, got, history>>

Does(what) == todo # <<>> /\ Head(todo).do = what /\ todo' = Tail(todo)
access == Head(todo)

Write ==
  /\ Does("write")
  /\ timer' = Written(timer, access.reg, access.value)
  /\ elapsed' = IF access.reg = CONTROL /\ "START" \in access.value THEN 0 ELSE elapsed
  /\ taken' = IF access.reg = SNAP(0) THEN elapsed ELSE taken
  /\ UNCHANGED <<configuration, got, owed, overrun>>

\* The result of the dummy read of the handler is not used.
Read ==
  /\ Does("read")
  /\ got' = IF access.reg = CONTROL THEN got
            ELSE Append(got, PartOf(timer.snap, access.reg - SNAP(0)))
  /\ UNCHANGED <<configuration, timer, history>>

Register ==
  /\ Does("alt_ic_isr_register")
  /\ handled' = TRUE
  /\ UNCHANGED <<unit, ts_freq, rate, timer, got, history>>

\* alt_tick, with interrupts disabled: see AltAlarm for what it does.
CallTick ==
  /\ Does("alt_tick")
  /\ owed' = owed - 1
  /\ UNCHANGED <<configuration, timer, got, elapsed, taken, overrun>>

\* The program gets to the handler and to its first access within a period;
\* alt_tick, with the callbacks it makes, may take longer.
InHandler == handled /\ todo # <<>>
Clock ==
  /\ timer.run /\ ~(TimesOut /\ InHandler /\ todo = alt_avalon_timer_sc_irq)
  /\ timer' = Counted(timer)
  /\ elapsed' = IF ts_freq # 0 THEN elapsed + 1 ELSE elapsed
  /\ LET late == IF InHandler THEN owed = 2 ELSE timer.to IN
     IF TimesOut /\ timer.ito
     THEN overrun' = (overrun \/ late) /\ owed' = IF late THEN owed ELSE owed + 1
     ELSE UNCHANGED <<owed, overrun>>
  /\ UNCHANGED <<configuration, todo, got, taken>>

TimerNext ==
  \/ SetUp \/ Calls(alt_timestamp_start) \/ Calls(alt_timestamp) \/ Interrupt
  \/ Write \/ Read \/ Register \/ CallTick
  \/ Clock

-----------------------------------------------------------------------------
\* "The returned timestamp counts up from the last time the period register was
\* reset" (altera_avalon_timer_ts.c:96-97): the parts that are read while the
\* counter runs make up one moment, the clocks since the start; when the range
\* is over the result is where it began (line 58).  Where the period is fixed it
\* begins that much below the top of the range.
Stamps ==
  Len(got) = unit.parts =>
    Combined(got) = (Full - timer.period) + (IF taken > timer.period THEN 0 ELSE taken)

\* Every time-out makes one tick: one that comes while the handler runs is kept
\* for the next call of it (altera_avalon_timer_sc.c:58-81).
TicksKept ==
  ~overrun => owed = (IF timer.to /\ timer.ito THEN 1 ELSE 0)
                     + (IF InHandler /\ todo # alt_avalon_timer_sc_irq THEN 1 ELSE 0)

\* The rate the system clock is given is that of its time-outs, rounded up
\* (altera_avalon_timer.h:97-103), and nothing but the handler touches its timer.
SysClock ==
  rate # 0 =>
    /\ (rate - 1) * (unit.load + 1) < TIMER_FREQ /\ TIMER_FREQ <= rate * (unit.load + 1)
    /\ ts_freq = 0 /\ timer.period = unit.load
    /\ handled => timer.run /\ timer.cont /\ timer.ito

TimerInv == Stamps /\ TicksKept /\ SysClock
=====================================================================================

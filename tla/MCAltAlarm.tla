-------------------------------- MODULE MCAltAlarm --------------------------------
(* Three alarms and a counter of eight values, which rolls over within the   *)
(* longest delay and the longest period; or, with an empty program, the      *)
(* timer, whose counts have two or four parts of one bit.                    *)
EXTENDS AltTime

CONSTANTS Part, Loads, TIMER_FREQ, Clocks
ASSUME TimerAssumption ==
  /\ Part \in Nat \ {0, 1} /\ Loads \subseteq 1..(Part * Part - 1)
  /\ TIMER_FREQ \in Nat \ {0} /\ Clocks \subseteq SUBSET {"sys", "timestamp"}

VARIABLES unit, timer, ts_freq, rate, handled, todo, got, elapsed, taken, owed, overrun

Timer == INSTANCE AltTimer
timerVars ==
  <<unit, timer, ts_freq, rate, handled, todo, got, elapsed, taken, owed, overrun>>

AlarmsOrTime == {{"alarms"}, {"time"}, {}}
BeforeAndAfter == {Time(0, 5), Time(3, 0), Time(9, 2)}
EitherOrBoth == {{"sys"}, {"timestamp"}, {"sys", "timestamp"}}

TimerOnly == program = {}

ClockInit ==
  /\ TimeInit /\ Timer!TimerInit
  /\ TimerOnly \/ (unit.clocks = {"sys"} /\ unit.parts = 2 /\ ~unit.fixed /\ unit.load = 1)

ClockNext ==
  \/ ~TimerOnly /\ TimeNext /\ UNCHANGED timerVars
  \/ TimerOnly /\ Timer!TimerNext /\ UNCHANGED allVars

ClockSpec ==
  ClockInit /\ [][ClockNext]_<<allVars, timerVars>> /\ WF_allVars(TimeLoop)

\* No tick of an alarm and none of the time of day is lost when the counter rolls
\* over (AltTime), no tick of the system clock and no clock of a timestamp between
\* the accesses to the timer (AltTimer).
ClocksRight == IF TimerOnly THEN Timer!TimerInv ELSE TimeInv
===================================================================================

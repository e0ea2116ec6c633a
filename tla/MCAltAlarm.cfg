CONSTANTS
  Alarm = {a1, a2, a3}
  alt_alarm_list = head
  Wrap = 8
  Delays = {0, 6}
  Periods = {2, 7}
  Rate = 2
  CallbackStops = FALSE
  Programs <- AlarmsOrTime
  ALT_US = 6
  Times <- BeforeAndAfter
  INT_MAX = 7
  LoopsPerUs = 3
  Sleeps = {0, 1, 2, 3, 4, 5, 6, 7}
  Part = 2
  Loads = {1, 3}
  TIMER_FREQ = 5
  Clocks <- EitherOrBoth
SPECIFICATION ClockSpec
INVARIANTS
  ListLinked
  ClocksRight
PROPERTIES
  Countdowns

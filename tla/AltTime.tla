----------------------------------- MODULE AltTime -----------------------------------
(***************************************************************************)
(* The time of day of the HAL on top of the ticks of AltAlarm:             *)
(* settimeofday stores what to add to the time since the system clock was  *)
(* started, gettimeofday adds it, and usleep counts in a loop.  The        *)
(* program uses the alarms, the time of day, or both.                      *)
(***************************************************************************)
EXTENDS AltAlarm

CONSTANTS
  Programs,             \* what the program may use: sets of "alarms" and "time"
  ALT_US,               \* microseconds in a second
  Times,                \* arguments of settimeofday
  INT_MAX, LoopsPerUs,  \* of the loop of alt_busy_sleep
  Sleeps                \* arguments of usleep

ASSUME TimeAssumption ==
  /\ Programs \subseteq SUBSET {"alarms", "time"}
  /\ ALT_US \in Nat /\ Rate <= ALT_US /\ ALT_US % Rate = 0
  /\ Times \subseteq [tv_sec : Nat, tv_usec : 0..(ALT_US - 1)]
  /\ INT_MAX \in Nat /\ LoopsPerUs \in 1..INT_MAX /\ Sleeps \subseteq Nat

VARIABLES
  program,
  alt_resettime,
  asked,                \* history: the last time that was set, and when
  since                 \* history: ticks since then, None when the counter has
                        \* rolled over or the product has when it was set

timeVars == <<alt_resettime, asked, since>>
allVars == <<vars, program, timeVars>>

None == -1
Time(s, us) == [tv_sec |-> s, tv_usec |-> us]
Seconds(n) == n \div tick_rate
usPerTick == ALT_US \div tick_rate

\* Microseconds of n ticks in settimeofday: a product of 32 bits.
SetFraction(n) == ((n * usPerTick) % Wrap) % ALT_US
\* And in gettimeofday, where it is one of 64 bits.
GetFraction(n) == (n * usPerTick) % ALT_US

\* The two loops at the end of gettimeofday.
Normalised(t) ==
  IF t.tv_usec < 0
    THEN IF t.tv_sec <= 0 THEN Time(0, 0) ELSE Time(t.tv_sec - 1, t.tv_usec + ALT_US)
    ELSE Time(t.tv_sec + (t.tv_usec \div ALT_US), t.tv_usec % ALT_US)

\* What ALT_GETTIMEOFDAY returns: without a system clock it is -ENOTSUP.
gettimeofday ==
  Normalised(Time(alt_resettime.tv_sec + Seconds(nticks),
                  alt_resettime.tv_usec + GetFraction(nticks)))

\* ALT_SETTIMEOFDAY: without a system clock it sets errno only.
SetTimeOfDay(t) ==
  /\ "time" \in program /\ tick_rate # 0 /\ ~inTick
  /\ alt_resettime' = Time(t.tv_sec - Seconds(nticks), t.tv_usec - SetFraction(nticks))
  /\ asked' = t
  /\ since' = IF nticks * usPerTick < Wrap THEN 0 ELSE None
  /\ UNCHANGED <<vars, program>>

-----------------------------------------------------------------------------
(* alt_busy_sleep: how often its loops of three cycles are run.            *)

\* `addi; bne': a loop that is entered with 0 counts through all values.
UntilZero(n) == IF n = 0 THEN Wrap ELSE n
\* `addi; bgt'
WhilePositive(n) == IF n = 0 THEN 1 ELSE n

chunk == INT_MAX \div LoopsPerUs      \* microseconds of one big loop
BusyLoops(us) ==
  IF us \div chunk > 0
    THEN (us \div chunk) * INT_MAX + UntilZero((us % chunk) * LoopsPerUs)
    ELSE WhilePositive(us * LoopsPerUs)

-----------------------------------------------------------------------------
TimeInit ==
  /\ Init /\ program \in Programs
  /\ alt_resettime = Time(0, 0) /\ asked = Time(0, 0) /\ since = 0

TimeTick ==
  /\ Tick
  /\ since' = IF since = None \/ nticks' = 0 THEN None ELSE since + 1
  /\ UNCHANGED <<program, alt_resettime, asked>>

Alarms ==
  /\ "alarms" \in program
  /\ \E a \in Alarm : AlarmStart(a) \/ AlarmStop(a)
  /\ UNCHANGED <<program, timeVars>>

TimeLoop == TickLoop /\ UNCHANGED <<program, timeVars>>

TimeNext ==
  \/ SysclkInit /\ UNCHANGED <<program, timeVars>>
  \/ Alarms \/ TimeTick \/ TimeLoop
  \/ \E t \in Times : SetTimeOfDay(t)

TimeSpec == TimeInit /\ [][TimeNext]_allVars /\ WF_allVars(TimeLoop)

-----------------------------------------------------------------------------
\* "an immediate call to gettimeofday() would return the value specified", and
\* later ones that value and the ticks since, with the borrow and the carry
\* between the two parts of a time, until a counter of 32 bits has rolled over
\* (alt_settod.c:60-68, alt_gettod.c:83-113).
WallClock ==
  tick_rate # 0 /\ since # None =>
    LET us == asked.tv_usec + since * usPerTick IN
    gettimeofday = Time(asked.tv_sec + (us \div ALT_US), us % ALT_US)

\* No call of usleep returns early, whatever big loops it is split into.
SleepsEnough == \A us \in Sleeps : BusyLoops(us) >= us * LoopsPerUs

TimeInv == TypeOK /\ OnlyRegistered /\ WallClock /\ SleepsEnough
=====================================================================================

---------------------------------- MODULE AltAlarm ----------------------------------
(***************************************************************************)
(* The alarms of the HAL: a doubly linked list of alarms (alt_llist.h)     *)
(* that alt_tick walks in the interrupt of the system clock, against a     *)
(* tick counter that rolls over.  alt_alarm_start and alt_alarm_stop run   *)
(* with the interrupts disabled, in the program or in a callback, so each  *)
(* is one step; a turn of the loop of alt_tick, with the callback it makes *)
(* and what the callback calls, is one step.                               *)
(***************************************************************************)
EXTENDS Integers

CONSTANTS
  Alarm, alt_alarm_list,        \* the alarms, and the head of their list
  Wrap,                 \* values of the tick counter, 2^32 in the code
  Delays,               \* arguments of alt_alarm_start
  Periods,              \* what a callback returns other than 0
  Rate,                 \* of the system clock in ticks per second
  CallbackStops         \* callbacks stop other alarms

ASSUME AlarmAssumption ==
  /\ Wrap \in Nat \ {0, 1} /\ Rate \in Nat \ {0}
  /\ alt_alarm_list \notin Alarm
  /\ Delays \subseteq 0..(Wrap - 1) /\ Periods \subseteq 1..(Wrap - 1)
  /\ CallbackStops \in BOOLEAN

VARIABLES
  nticks,               \* _alt_nticks
  tick_rate,            \* _alt_tick_rate
  links,                \* next and previous of every entry
  time, rollover,
  alarm                 \* the alarm alt_tick looks at, alt_alarm_list outside of it

vars == <<nticks, tick_rate, links, time, rollover, alarm>>

-----------------------------------------------------------------------------
Entry == Alarm \cup {alt_alarm_list}

\* mutant: the entry behind the new one keeps its old predecessor
InsertForwardOnly(l, list, entry) ==
  [next |-> [l.next EXCEPT ![entry] = l.next[list], ![list] = entry],
   previous |-> [l.previous EXCEPT ![entry] = list]]

alt_llist_insert(l, list, entry) ==
  [next |-> [l.next EXCEPT ![entry] = l.next[list], ![list] = entry],
   previous |-> [l.previous EXCEPT ![entry] = list, ![l.next[list]] = entry]]

alt_llist_remove(l, entry) ==
  [next |-> [l.next EXCEPT ![l.previous[entry]] = l.next[entry], ![entry] = entry],
   previous |-> [l.previous EXCEPT ![l.next[entry]] = l.previous[entry],
                                   ![entry] = entry]]

Registered(a) == links.next[a] # a
inTick == alarm # alt_alarm_list

\* The time and the roll-over flag of an alarm that is started at tick `now'.
StartTime(delay, now) == (delay + now + 1) % Wrap

\* mutant: no flag, as if the counter never rolled over
NoRollover(t, now) == FALSE
RollsOver(t, now) == t < now

Init ==
  /\ nticks = 0 /\ tick_rate = 0
  /\ links = [next |-> [e \in Entry |-> e], previous |-> [e \in Entry |-> e]]
  /\ time = [a \in Alarm |-> 0] /\ rollover = [a \in Alarm |-> FALSE]
  /\ alarm = alt_alarm_list

\* alt_sysclk_init, from alt_avalon_timer_sc_init
SysclkInit ==
  /\ ~inTick /\ tick_rate = 0
  /\ tick_rate' = Rate
  /\ UNCHANGED <<nticks, links, time, rollover, alarm>>

\* alt_alarm_start: without a system clock it returns -ENOTSUP
AlarmStart(a) ==
  /\ ~inTick /\ tick_rate # 0 /\ ~Registered(a)
  /\ \E delay \in Delays :
       /\ time' = [time EXCEPT ![a] = StartTime(delay, nticks)]
       /\ rollover' = [rollover EXCEPT ![a] = RollsOver(time'[a], nticks)]
  /\ links' = alt_llist_insert(links, alt_alarm_list, a)
  /\ UNCHANGED <<nticks, tick_rate, alarm>>

AlarmStop(a) ==
  /\ ~inTick /\ Registered(a)
  /\ links' = alt_llist_remove(links, a)
  /\ UNCHANGED <<nticks, tick_rate, time, rollover, alarm>>

\* alt_avalon_timer_sc_irq up to the loop of alt_tick
Tick ==
  /\ ~inTick /\ tick_rate # 0
  /\ nticks' = (nticks + 1) % Wrap
  /\ alarm' = links.next[alt_alarm_list]
  /\ UNCHANGED <<tick_rate, links, time, rollover>>

-----------------------------------------------------------------------------
(* A turn of the loop of alt_tick.                                         *)

flag == rollover[alarm] /\ nticks # 0     \* after the test for roll-over

Due == time[alarm] <= nticks /\ ~flag

NotDue ==
  /\ inTick /\ ~Due
  /\ rollover' = [rollover EXCEPT ![alarm] = flag]
  /\ alarm' = links.next[alarm]
  /\ UNCHANGED <<nticks, tick_rate, links, time>>

\* What is left when the callback, which has made the list `l', returns: the
\* alarm is stopped or set again.  Other alarms have times t and flags r.
Returned(l, t, r) ==
  \/ /\ links' = alt_llist_remove(l, alarm)
     /\ time' = t /\ rollover' = [r EXCEPT ![alarm] = flag]
  \/ \E p \in Periods :
       /\ links' = l
       /\ time' = [t EXCEPT ![alarm] = (time[alarm] + p) % Wrap]
       /\ rollover' = [r EXCEPT ![alarm] = flag \/ RollsOver(time'[alarm], nticks)]

\* The callback starts another alarm, stops one, or calls neither.
Callback ==
  /\ inTick /\ Due
  /\ \/ Returned(links, time, rollover)
     \/ \E a \in Alarm, delay \in Delays :
          /\ ~Registered(a)
          /\ LET t == StartTime(delay, nticks) IN
             Returned(alt_llist_insert(links, alt_alarm_list, a), [time EXCEPT ![a] = t],
                      [rollover EXCEPT ![a] = RollsOver(t, nticks)])
     \/ \E a \in Alarm :
          /\ Registered(a) /\ (a = alarm \/ CallbackStops)
          /\ Returned(alt_llist_remove(links, a), time, rollover)
  /\ alarm' = links.next[alarm]
  /\ UNCHANGED <<nticks, tick_rate>>

TickLoop == NotDue \/ Callback

Next ==
  \/ SysclkInit
  \/ \E a \in Alarm : AlarmStart(a) \/ AlarmStop(a)
  \/ Tick \/ TickLoop

Spec == Init /\ [][Next]_vars

-----------------------------------------------------------------------------
TypeOK ==
  /\ nticks \in 0..(Wrap - 1) /\ tick_rate \in {0, Rate}
  /\ links \in [next : [Entry -> Entry], previous : [Entry -> Entry]]
  /\ time \in [Alarm -> 0..(Wrap - 1)] /\ rollover \in [Alarm -> BOOLEAN]
  /\ alarm \in Entry

\* The two directions of the list agree at every entry, for every order of
\* insertions and removals.
Linked(l) == \A e \in Entry : l.previous[l.next[e]] = e /\ l.next[l.previous[e]] = e
ListLinked == Linked(links)

\* alt_tick looks at registered alarms only ("process the registered
\* callbacks"), although it takes the next one before it makes a callback.
OnlyRegistered == inTick => Registered(alarm)

\* Every alarm runs out after exactly the ticks that were asked for, also
\* across a roll-over of the counter, whatever callbacks start and stop, and is
\* served then: the walk of alt_tick comes to the end of the list.
\* A flag is looked at when the counter has come to 0.
remaining ==
  [a \in Alarm |->
     CASE ~Registered(a) -> -1
       [] Registered(a) /\ rollover[a] /\ nticks # 0 -> time[a] + Wrap - nticks
       [] Registered(a) /\ ~(rollover[a] /\ nticks # 0) -> time[a] - nticks]

Clock == INSTANCE Countdown
Countdowns == Clock!Spec
=====================================================================================

--------------------------------- MODULE Countdown ---------------------------------
(***************************************************************************)
(* What the alarms of the HAL promise: an alarm that is set runs out after *)
(* the ticks that were asked for, is then set again for its period or goes *)
(* off, and time does not pass while an alarm that has run out waits.      *)
(***************************************************************************)
EXTENDS Integers

CONSTANTS Alarm, Delays, Periods

VARIABLE remaining      \* ticks until an alarm runs out, or Off

Off == -1

Init == remaining = [a \in Alarm |-> Off]

\* Outside of time an alarm may be stopped, started, or set again when it has
\* run out.
Settings(a) ==
  {remaining[a], Off}
    \cup (IF remaining[a] = Off THEN {d + 1 : d \in Delays} ELSE {})
    \cup (IF remaining[a] = 0 THEN Periods ELSE {})

Set == \A a \in Alarm : remaining'[a] \in Settings(a)

Pass ==
  /\ \A a \in Alarm : remaining[a] # 0
  /\ \A a \in Alarm : remaining'[a] = IF remaining[a] = Off THEN Off ELSE remaining[a] - 1

Next == Set \/ Pass

\* No alarm waits for ever once it has run out.
Served == \A a \in Alarm : []<>(remaining[a] # 0)

Spec == Init /\ [][Next]_remaining /\ Served
====================================================================================

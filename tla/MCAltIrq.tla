--------------------------------- MODULE MCAltIrq ---------------------------------
(* Instances of AltIrq for TLC, and of AltStart, which leaves the processor  *)
(* in the state AltIrq begins with.  A behaviour is of one of them.          *)
EXTENDS AltIrq

AllButFirst == Irqs \ {0}
First == {0}
Ends == {0, ALT_NIRQ - 1}
Beyond == {ALT_NIRQ}

CONSTANTS Size, LineSize, Drivers, Copied
VARIABLES booting, memory, present, dirty, copy, pc, turn, copied, cpuPie, cpuIenable, icache

ASSUME StartAssumption ==
  /\ Size \in Nat /\ Size >= 7 /\ LineSize \in Nat \ {0}
  /\ Drivers \in Seq({0, 1}) /\ Drivers # << >>
  /\ \A sections \in Copied : "rwdata" \in sections

Boot == INSTANCE AltStart
bootVars == <<memory, present, dirty, copy, pc, turn, copied, cpuPie, cpuIenable, icache>>

InTurn == <<0, 1>>
FirmwareOrFlash == {{"rwdata"}, {"rwdata", "exceptions"}}

PartInit ==
  /\ booting \in BOOLEAN /\ Init /\ Boot!PowerUp
  /\ ~booting => copied = {"rwdata"} /\ dirty = {}

PartNext ==
  /\ \/ booting /\ Boot!StartNext /\ UNCHANGED vars
     \/ ~booting /\ Next /\ UNCHANGED bootVars
  /\ UNCHANGED booting

PartSpec == PartInit /\ [][PartNext]_<<booting, vars, bootVars>>
                     /\ WF_vars(Step) /\ WF_vars(Take)

\* A reset at any moment leads to enabled interrupts that have handlers, a mask
\* that lets all through and the code that is fetched for them (AltStart); from
\* then on each is dispatched to its handler and the enables are restored (AltIrq).
InterruptsRight == IF booting THEN Boot!StartInv ELSE IrqInv
=============================================================================

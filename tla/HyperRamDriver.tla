---------------------------- MODULE HyperRamDriver ----------------------------
(***************************************************************************)
(* The HyperRAM bus driver, src/src/hyperRamDriver.sv, at the granularity  *)
(* of its clock edges, in the environment the controller gives it.         *)
(*                                                                         *)
(* The four clocks come from one PLL (src/src/hyperRamPll.v: clock200 x4,  *)
(* clock200shifted x4 delayed 2500 ps, clock400 x8 of the 50 MHz clk_50),  *)
(* so their edges have a fixed order.  Time is counted in SLOTS of half a  *)
(* clock400 period (1250 ps), 16 to a clk_50 period; `slot' is the slot    *)
(* whose edges happened last:                                              *)
(*                                                                         *)
(*   even slots  clock400 rises        odd slots  clock400 falls           *)
(*   0,4,8,12    clock200 rises, clock200shifted falls                     *)
(*   2,6,10,14   clock200 falls, clock200shifted rises                     *)
(*   0           clk_50 rises          8          clk_50 falls             *)
(*                                                                         *)
(* A register clocked by an edge reads the values from before the edge.    *)
(* The asynchronous clear of the controller by processDone is a step of    *)
(* its own that takes no time: no edge happens before it (Settled).        *)
(***************************************************************************)
EXTENDS Integers

CONSTANTS
  Lengths,            \* values of bytesToTransfer the controller is asked for
  PowerUpTotals       \* values totalTime may power up with: it has no reset

Count11 == 2048       \* fastCountNegedge, ckRamCounter, totalTime: 11 bits
Count13 == 8192       \* csCounter: 13 bits
timeToCs == 2         \* clock200 periods with chip select high
settingTime == 34     \* command/address bytes and initial latency

\* "1280 max" (hyperRamDriver.sv:11).  The counters allow more: the longest
\* read whose last count, totalTime + 1, still is a value of 11 bits.
LongestRead == Count11 - 1 - (settingTime + 1)

ASSUME LengthsAssumption == Lengths \subseteq 0..LongestRead
ASSUME PowerUpAssumption ==
  PowerUpTotals \subseteq 0..(Count11 - 1) /\ PowerUpTotals # {}

VARIABLES
  slot,
  enable, rwMode, bytesToTransfer,     \* driven by the controller
  csCounter, totalTime, fastCountNegedge, ckRamCounter,
  chipEdges                            \* what the chip sees

driverRegs == <<csCounter, totalTime, fastCountNegedge, ckRamCounter>>
chipVars == <<chipEdges>>
driverVars == <<slot, enable, rwMode, bytesToTransfer, driverRegs, chipVars>>

-----------------------------------------------------------------------------
(* The combinational outputs.  rwMode is TRUE for a read.                  *)

csDone == csCounter >= timeToCs
LimitWithoutReadByte == totalTime                        \* mutant
transferLimit == IF rwMode THEN totalTime + 1 ELSE totalTime
processDone == fastCountNegedge >= transferLimit
setupDone == ckRamCounter >= (IF rwMode THEN 17 ELSE 16)
StopsOneByteEarly == setupDone /\ fastCountNegedge + 1 < transferLimit   \* mutant
dataTransfering == setupDone /\ fastCountNegedge < transferLimit
toRamCs == processDone \/ ~csDone                \* chip select, active low
UnmaskedEarly == fastCountNegedge >= 1                   \* mutant
clockMask == fastCountNegedge > 1
toRamCk == slot % 4 \in {2, 3} /\ clockMask      \* clock200shifted & clockMask

\* The byte of caInfo on the data bus, most significant first; 0 for none.
commandByte == IF fastCountNegedge \in 2..7 THEN fastCountNegedge - 1 ELSE 0

-----------------------------------------------------------------------------
(* What each register does at an edge.                                     *)

CsCounterEdge ==        \* negedge clock200
  csCounter' = IF enable THEN (csCounter + 1) % Count13 ELSE 0

FastCountEdge ==        \* negedge clock400
  fastCountNegedge' =
     IF enable /\ csDone THEN (fastCountNegedge + 1) % Count11 ELSE 0

CkRamEdgeNoReset ==     \* mutant
  ckRamCounter' = IF toRamCk /\ ~toRamCk'
                  THEN (ckRamCounter + 1) % Count11 ELSE ckRamCounter

CkRamEdge ==            \* negedge toRamCk, whatever made it fall
  ckRamCounter' = IF toRamCk /\ ~toRamCk'
                  THEN IF enable THEN (ckRamCounter + 1) % Count11 ELSE 0
                  ELSE ckRamCounter

TotalTimeEdge ==        \* posedge enable
  totalTime' = IF ~enable /\ enable'
               THEN (settingTime + bytesToTransfer) % Count11
               ELSE totalTime

-----------------------------------------------------------------------------
(* The chip on the other end of the wires counts the edges of the clock    *)
(* while it is selected (double data rate: one byte an edge).              *)

ChipStep ==
  chipEdges' = IF toRamCs' THEN 0
               ELSE IF toRamCk' <=> toRamCk THEN chipEdges ELSE chipEdges + 1

-----------------------------------------------------------------------------
(* The edges of the clocks, in slot order.                                 *)

\* The asynchronous clear takes effect before the next edge.
Settled == processDone => ~enable /\ bytesToTransfer = 0

To(S) == /\ Settled
         /\ slot' = (slot + 1) % 16
         /\ slot' \in S

\* clock400 falls.
Fall400 ==
  /\ To({1, 3, 5, 7, 9, 11, 13, 15})
  /\ FastCountEdge
  /\ CkRamEdge
  /\ UNCHANGED <<enable, rwMode, bytesToTransfer, csCounter, totalTime>>
  /\ ChipStep

\* clock200 falls and clock200shifted rises.
Fall200 ==
  /\ To({2, 6, 10, 14})
  /\ CsCounterEdge
  /\ UNCHANGED <<enable, rwMode, bytesToTransfer, totalTime, fastCountNegedge>>
  /\ CkRamEdge
  /\ ChipStep

\* clock200shifted falls while clk_50 does not rise.
FallShifted ==
  /\ To({4, 8, 12})
  /\ UNCHANGED <<enable, rwMode, bytesToTransfer, csCounter, totalTime,
                 fastCountNegedge>>
  /\ CkRamEdge
  /\ ChipStep

\* What the driver does when clk_50 rises: clock200shifted falls too.
Rise50 ==
  /\ UNCHANGED <<csCounter, fastCountNegedge>>
  /\ CkRamEdge
  /\ TotalTimeEdge
  /\ ChipStep

-----------------------------------------------------------------------------
(* The controller as the driver sees it: it loads the registers of a       *)
(* transaction, raises enable one clk_50 period later at the earliest, and *)
(* clears enable and the length as soon as processDone rises.              *)

Load == /\ To({0})
        /\ ~enable /\ ~processDone
        /\ rwMode' \in BOOLEAN
        /\ bytesToTransfer' \in Lengths
        /\ UNCHANGED enable
        /\ Rise50

Raise == /\ To({0})
         /\ ~enable /\ ~processDone
         /\ bytesToTransfer \in Lengths
         /\ enable' = TRUE
         /\ UNCHANGED <<rwMode, bytesToTransfer>>
         /\ Rise50

Hold == /\ To({0})
        /\ UNCHANGED <<enable, rwMode, bytesToTransfer>>
        /\ Rise50

Clear == /\ ~Settled
         /\ enable' = FALSE
         /\ bytesToTransfer' = 0
         /\ UNCHANGED <<slot, rwMode, driverRegs, chipVars>>

DriverInit ==
  /\ slot = 15
  /\ enable = FALSE            \* has an asynchronous clear: powers up low
  /\ rwMode \in BOOLEAN        \* neither reset nor initial value
  /\ bytesToTransfer = 0
  /\ csCounter = 0 /\ fastCountNegedge = 0 /\ ckRamCounter = 0
  /\ totalTime \in PowerUpTotals
  /\ chipEdges = 0

DriverNext ==
  Fall400 \/ Fall200 \/ FallShifted \/ Load \/ Raise \/ Hold \/ Clear

DriverSpec == DriverInit /\ [][DriverNext]_driverVars

-----------------------------------------------------------------------------
DriverTypeOK ==
  /\ slot \in 0..15
  /\ enable \in BOOLEAN
  /\ rwMode \in BOOLEAN
  /\ bytesToTransfer \in 0..(Count11 - 1)
  /\ csCounter \in 0..(Count13 - 1)
  /\ totalTime \in 0..(Count11 - 1)
  /\ fastCountNegedge \in 0..(Count11 - 1)
  /\ ckRamCounter \in 0..(Count11 - 1)
  /\ chipEdges \in Nat

-----------------------------------------------------------------------------
(* The inductive invariant of the driver.                                  *)

\* Between transactions: what is left in the counters in each of the slots
\* after processDone, until all of them are back at zero.
Draining ==
  \/ fastCountNegedge = 0 /\ ckRamCounter = 0 /\ (csCounter = 0 \/ slot % 4 = 1)
  \/ /\ fastCountNegedge > 1 /\ processDone
     /\ \/ slot % 2 = 1
        \/ slot % 4 = 2 /\ csCounter = 0
        \/ slot % 4 = 0 /\ ckRamCounter = 0

\* Before the first byte time: chip select is counted down.
Selecting ==
  /\ fastCountNegedge = 0 /\ ckRamCounter = 0
  /\ \/ csCounter = 0 /\ slot \in 0..1
     \/ csCounter = 1 /\ slot \in 2..5
     \/ csCounter = 2 /\ slot = 6

\* The three counters, clocked by three different signals, in step.
InStep ==
  /\ fastCountNegedge > 0
  /\ \/ /\ slot % 4 = 3
        /\ 2 * csCounter = fastCountNegedge + 3
        /\ 2 * ckRamCounter = IF fastCountNegedge = 1 THEN 0
                                                      ELSE fastCountNegedge - 3
     \/ /\ slot % 4 = 0
        /\ 2 * csCounter = fastCountNegedge + 3
        /\ 2 * ckRamCounter = fastCountNegedge - 1
     \/ /\ slot % 4 = 1
        /\ 2 * csCounter = fastCountNegedge + 2
        /\ 2 * ckRamCounter = fastCountNegedge - 2
     \/ /\ slot % 4 = 2
        /\ 2 * csCounter = fastCountNegedge + 4
        /\ 2 * ckRamCounter = fastCountNegedge - 2

\* The transaction in progress has the total it was started with, and stops
\* at it.
Bounded ==
  /\ bytesToTransfer \in Lengths
  /\ totalTime = settingTime + bytesToTransfer
  /\ fastCountNegedge <= transferLimit
  /\ fastCountNegedge = transferLimit => slot % 2 = 1

\* The clock edges the chip has been given since it was selected.
EdgesCounted ==
  chipEdges = IF toRamCs \/ fastCountNegedge < 2 THEN 0
              ELSE IF slot % 2 = 1 THEN fastCountNegedge - 2
                                   ELSE fastCountNegedge - 1

DriverInv ==
  /\ DriverTypeOK
  /\ EdgesCounted
  /\ ~enable => Draining
  /\ enable => Bounded /\ (Selecting \/ InStep)

-----------------------------------------------------------------------------
(* Properties.                                                             *)

\* While a transaction runs, setupDone means that the command and the latency
\* of THIS transaction have been sent: ckRamCounter, which is cleared only by
\* a clock edge that comes after enable has fallen, is never left over from
\* the one before (hyperRamDriver.sv:98-126).
FreshSetup == enable /\ setupDone => fastCountNegedge >= settingTime - 1

\* The chip is given a clock edge only in a running transaction; the first
\* six edges find the six bytes of the command on the bus, in order and not
\* changing at the edge (hyperRamDriver.sv:85-93, 177-184).
CommandFirst ==
  [][chipEdges' > chipEdges =>
       /\ enable
       /\ chipEdges' \in 1..6 => commandByte = chipEdges' /\ commandByte' = chipEdges'
     ]_driverVars

\* When the chip is deselected at the end of a transaction it has had exactly
\* the edges of command, latency and bytesToTransfer data bytes, one more for
\* a read (hyperRamDriver.sv:62-81, 248-265).
ExactEdges ==
  [][enable /\ ~toRamCs /\ toRamCs' =>
       chipEdges = settingTime - 2 + bytesToTransfer + (IF rwMode THEN 1 ELSE 0)
     ]_driverVars

\* dataTransfering ends by processDone and by nothing else, so the controller
\* never sees a transfer stop that the driver has not finished
\* (hyperRamDriver.sv:128-153).
StopsWhenDone ==
  [][enable /\ dataTransfering /\ ~dataTransfering' => processDone']_driverVars
=============================================================================

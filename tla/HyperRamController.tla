-------------------------- MODULE HyperRamController --------------------------
(***************************************************************************)
(* The HyperRAM controller, src/src/hyperRAMcontroller.sv, with its bus    *)
(* driver: a port on which a user queues transactions, the dual-clock FIFO *)
(* that holds them, and the state machine that takes them out one by one   *)
(* and runs the driver.                                                    *)
(*                                                                         *)
(* A transaction is a record [read, adr, len].  The names of the registers *)
(* are the source's; the driver's inputs enable, rwMode, bytesToTransfer   *)
(* are enableRamDriver, rwModeRamDriver and dataLenRamDriver here.         *)
(***************************************************************************)
EXTENDS HyperRamDriver, Sequences

CONSTANTS
  Addresses,        \* values of adrQueury
  FifoDepth,        \* words in RamControlSeqFifo: 128 in the code
  FlagTimings,      \* values of flagsNeedReadClock
  MaxRequests,      \* bound on the transactions a user asks for
  UserSlots         \* slots in which the user's wires may change

ASSUME FifoAssumption == FifoDepth \in Nat \ {0} /\ MaxRequests \in Nat
ASSUME UserAssumption == UserSlots \subseteq 0..15
ASSUME FlagAssumption == FlagTimings \subseteq BOOLEAN
ASSUME AddressAssumption == Addresses \subseteq Nat

Transaction == [read : BOOLEAN, adr : Addresses, len : Lengths]
Command == [read : BOOLEAN, adr : Addresses \cup {0}]
NoCommand == [read |-> FALSE, adr |-> 0]
PowerUpWord == [read |-> FALSE, adr |-> 0, len |-> 0]
RamWords == 4096      \* adrWriteRamRead and adrReadInfo: 12 bits

VARIABLES
  clockQueury, request,                        \* the user's wires
  dataInputQueuryInput, clockQueuryTemp, WreqFifoQuaury,
  RamControlSeqFifo, dataOutFifoQueury,        \* the queue and its output
  emptyAtReadClock,                            \* rdempty at the last rdclk
  flagsNeedReadClock,       \* whether rdempty changes at edges of rdclk only
  RreqFifoQueury, clockReadFifoQueury,
  fsmStateTransfer, controlRegRamDriver,
  WrenRamRead, RreqFifoWrite,                  \* to ramRead, HyperRamFifoWrite
  adrWriteRamRead, adrReadInfo, numInQueuryInfo,
  moved, issued                   \* history

userVars == <<clockQueury, request, issued>>
portVars == <<dataInputQueuryInput, clockQueuryTemp, WreqFifoQuaury>>
queueVars == <<RamControlSeqFifo, dataOutFifoQueury, emptyAtReadClock, flagsNeedReadClock>>
fsmVars == <<RreqFifoQueury, clockReadFifoQueury, fsmStateTransfer,
             controlRegRamDriver, WrenRamRead, RreqFifoWrite, adrReadInfo>>
dataVars == <<adrWriteRamRead, moved>>
vars == <<driverVars, userVars, portVars, queueVars, fsmVars, dataVars,
          numInQueuryInfo>>

-----------------------------------------------------------------------------
(* The blocks clocked by clock400 and clock200.                            *)

\* posedge clock400: the read RAM stores a byte, or the write FIFO yields one,
\* and the write address moves on while a read's data is on the bus.  `moved'
\* counts the bytes.
Rise400 ==
  /\ adrWriteRamRead' = IF rwMode /\ dataTransfering
                        THEN (adrWriteRamRead + 1) % RamWords
                        ELSE adrWriteRamRead
  /\ moved' = IF ~enable /\ enable' THEN 0
              ELSE IF WrenRamRead \/ RreqFifoWrite THEN moved + 1 ELSE moved

\* posedge clock200: rdusedw has 7 bits and reads 0 when all 128 words are used.
Rise200 == numInQueuryInfo' = Len(RamControlSeqFifo) % FifoDepth

\* negedge clk_50: the RS trigger of the FIFO's write request.
Fall50 ==
  WreqFifoQuaury' = IF clockQueury THEN TRUE
                    ELSE IF clockQueuryTemp THEN FALSE ELSE WreqFifoQuaury

-----------------------------------------------------------------------------
(* posedge clk_50.  clockQueuryTemp is the write clock of the FIFO and     *)
(* clockReadFifoQueury its read clock: a word is written, or moved to the  *)
(* output, when one of them rises.                                         *)

PortRise50Late ==             \* mutant: the data sampled one edge too late
  /\ clockQueuryTemp' = clockQueury
  /\ dataInputQueuryInput' = IF clockQueuryTemp THEN request ELSE dataInputQueuryInput
  /\ UNCHANGED WreqFifoQuaury

PortRise50 ==
  /\ clockQueuryTemp' = clockQueury
  /\ dataInputQueuryInput' = IF clockQueury THEN request ELSE dataInputQueuryInput
  /\ UNCHANGED WreqFifoQuaury

Written == IF ~clockQueuryTemp /\ clockQueuryTemp' /\ WreqFifoQuaury
              /\ Len(RamControlSeqFifo) < FifoDepth
           THEN <<dataInputQueuryInput'>> ELSE <<>>

ReadClock == ~clockReadFifoQueury /\ clockReadFifoQueury'
ReadsQueue == ReadClock /\ RreqFifoQueury /\ RamControlSeqFifo # <<>>

\* The FIFO as it is generated brings what was written to its read side through
\* registers clocked by rdclk, which the state machine stops while rdempty is high:
\* the flag does not fall before an edge of rdclk.  The state machine is written for
\* a flag that follows the writes.
emptyFlagFifoQueury ==
  IF flagsNeedReadClock THEN emptyAtReadClock ELSE RamControlSeqFifo = <<>>

QueueStep ==
  /\ IF ReadsQueue
     THEN /\ RamControlSeqFifo' = Tail(RamControlSeqFifo) \o Written
          /\ dataOutFifoQueury' = Head(RamControlSeqFifo)
     ELSE /\ RamControlSeqFifo' = RamControlSeqFifo \o Written
          /\ UNCHANGED dataOutFifoQueury
  /\ emptyAtReadClock' =
       IF ReadClock THEN RamControlSeqFifo' = <<>> ELSE emptyAtReadClock
  /\ UNCHANGED flagsNeedReadClock

\* The state machine; processDone holds it in reset.
InReset ==
  /\ processDone
  /\ UNCHANGED <<enable, rwMode, bytesToTransfer, fsmVars>>

OtherThanState == <<enable, rwMode, bytesToTransfer, RreqFifoQueury,
                    clockReadFifoQueury, controlRegRamDriver, WrenRamRead,
                    RreqFifoWrite, adrReadInfo>>

IdleIgnoresEmpty ==           \* mutant
  /\ fsmStateTransfer = 0
  /\ fsmStateTransfer' = 1
  /\ UNCHANGED OtherThanState

Idle ==
  /\ fsmStateTransfer = 0
  /\ fsmStateTransfer' = IF ~emptyFlagFifoQueury THEN 1 ELSE 0
  /\ UNCHANGED OtherThanState

RequestWord ==
  /\ fsmStateTransfer = 1
  /\ RreqFifoQueury' = TRUE
  /\ IF RreqFifoQueury
     THEN clockReadFifoQueury' = TRUE /\ fsmStateTransfer' = 2
     ELSE UNCHANGED <<clockReadFifoQueury, fsmStateTransfer>>
  /\ UNCHANGED <<enable, rwMode, bytesToTransfer, controlRegRamDriver,
                 WrenRamRead, RreqFifoWrite, adrReadInfo>>

EndRequest ==
  /\ fsmStateTransfer = 2
  /\ RreqFifoQueury' = FALSE
  /\ clockReadFifoQueury' = FALSE
  /\ fsmStateTransfer' = 3
  /\ UNCHANGED <<enable, rwMode, bytesToTransfer, controlRegRamDriver,
                 WrenRamRead, RreqFifoWrite, adrReadInfo>>

LoadAndEnable ==              \* mutant: enable raised together with the length
  /\ fsmStateTransfer = 3
  /\ bytesToTransfer' = dataOutFifoQueury.len
  /\ controlRegRamDriver' =
       [read |-> dataOutFifoQueury.read, adr |-> dataOutFifoQueury.adr]
  /\ rwMode' = dataOutFifoQueury.read
  /\ enable' = TRUE
  /\ fsmStateTransfer' = 4
  /\ UNCHANGED <<RreqFifoQueury, clockReadFifoQueury, WrenRamRead,
                 RreqFifoWrite, adrReadInfo>>

LoadKeepsMode ==              \* mutant: rwModeRamDriver not loaded
  /\ fsmStateTransfer = 3
  /\ bytesToTransfer' = dataOutFifoQueury.len
  /\ controlRegRamDriver' =
       [read |-> dataOutFifoQueury.read, adr |-> dataOutFifoQueury.adr]
  /\ fsmStateTransfer' = 4
  /\ UNCHANGED <<enable, rwMode, RreqFifoQueury, clockReadFifoQueury,
                 WrenRamRead, RreqFifoWrite, adrReadInfo>>

LoadRegisters ==
  /\ fsmStateTransfer = 3
  /\ bytesToTransfer' = dataOutFifoQueury.len
  /\ controlRegRamDriver' =
       [read |-> dataOutFifoQueury.read, adr |-> dataOutFifoQueury.adr]
  /\ rwMode' = dataOutFifoQueury.read
  /\ fsmStateTransfer' = 4
  /\ UNCHANGED <<enable, RreqFifoQueury, clockReadFifoQueury, WrenRamRead,
                 RreqFifoWrite, adrReadInfo>>

DoesNotWait ==                \* mutant: state 4 left at once
  /\ fsmStateTransfer = 4
  /\ enable' = TRUE
  /\ adrReadInfo' = adrWriteRamRead
  /\ fsmStateTransfer' = 5
  /\ UNCHANGED <<rwMode, bytesToTransfer, RreqFifoQueury, clockReadFifoQueury,
                 controlRegRamDriver, WrenRamRead, RreqFifoWrite>>

WaitSetup ==
  /\ fsmStateTransfer = 4
  /\ enable' = TRUE
  /\ adrReadInfo' = adrWriteRamRead
  /\ fsmStateTransfer' = IF setupDone THEN 5 ELSE 4
  /\ UNCHANGED <<rwMode, bytesToTransfer, RreqFifoQueury, clockReadFifoQueury,
                 controlRegRamDriver, WrenRamRead, RreqFifoWrite>>

OpenData ==
  /\ fsmStateTransfer = 5
  /\ WrenRamRead' = rwMode
  /\ RreqFifoWrite' = ~rwMode
  /\ fsmStateTransfer' = 6
  /\ UNCHANGED <<enable, rwMode, bytesToTransfer, RreqFifoQueury,
                 clockReadFifoQueury, controlRegRamDriver, adrReadInfo>>

AwaitEnd ==
  /\ fsmStateTransfer = 6
  /\ fsmStateTransfer' = IF dataTransfering THEN 6 ELSE 0
  /\ UNCHANGED OtherThanState

NoRecovery ==                 \* mutant: the default branch dropped
  /\ fsmStateTransfer \notin 0..6
  /\ UNCHANGED fsmStateTransfer
  /\ UNCHANGED OtherThanState

\* Any other value of the state register: at power-up only.
Recover ==
  /\ fsmStateTransfer \notin 0..6
  /\ fsmStateTransfer' = 0
  /\ UNCHANGED OtherThanState

Fsm == \/ InReset
       \/ ~processDone /\ (\/ Idle \/ RequestWord \/ EndRequest
                           \/ LoadRegisters \/ WaitSetup \/ OpenData
                           \/ AwaitEnd \/ Recover)

-----------------------------------------------------------------------------
(* The user presents a transaction, holds it over a rising edge of clk_50  *)
(* and withdraws it; the wires change in the slots of UserSlots.           *)

Present(t) ==
  /\ slot \in UserSlots /\ issued < MaxRequests
  /\ ~clockQueury /\ ~clockQueuryTemp
  /\ clockQueury' = TRUE
  /\ request' = t
  /\ issued' = issued + 1
  /\ UNCHANGED <<driverVars, portVars, queueVars, fsmVars, dataVars,
                 numInQueuryInfo>>

Withdraw ==
  /\ slot \in UserSlots
  /\ clockQueury /\ clockQueuryTemp
  /\ clockQueury' = FALSE
  /\ UNCHANGED <<request, issued, driverVars, portVars, queueVars, fsmVars,
                 dataVars, numInQueuryInfo>>

-----------------------------------------------------------------------------
(* The asynchronous clear, and the edges of the clocks.                    *)

Cleared == /\ fsmStateTransfer = 0 /\ ~WrenRamRead /\ ~RreqFifoWrite
           /\ ~enable /\ bytesToTransfer = 0
           /\ controlRegRamDriver = NoCommand

TransferEnd ==
  /\ processDone /\ ~Cleared
  /\ fsmStateTransfer' = 0
  /\ WrenRamRead' = FALSE /\ RreqFifoWrite' = FALSE
  /\ enable' = FALSE
  /\ controlRegRamDriver' = NoCommand
  /\ bytesToTransfer' = 0
  /\ UNCHANGED <<slot, rwMode, driverRegs, chipVars, userVars, portVars,
                 queueVars, dataVars, numInQueuryInfo, RreqFifoQueury,
                 clockReadFifoQueury, adrReadInfo>>

Quiet == processDone => Cleared        \* no edge before the clear

OddSlot ==
  /\ Quiet /\ Fall400
  /\ UNCHANGED <<userVars, portVars, queueVars, fsmVars, dataVars,
                 numInQueuryInfo>>

SlotTwoOfFour ==
  /\ Quiet /\ Fall200
  /\ Rise400
  /\ UNCHANGED <<userVars, portVars, queueVars, fsmVars, numInQueuryInfo>>

SlotFourOrTwelve ==
  /\ Quiet /\ slot # 7 /\ FallShifted
  /\ Rise400 /\ Rise200
  /\ UNCHANGED <<userVars, portVars, queueVars, fsmVars>>

SlotEight ==
  /\ Quiet /\ slot = 7 /\ FallShifted
  /\ Rise400 /\ Rise200 /\ Fall50
  /\ UNCHANGED <<userVars, dataInputQueuryInput, clockQueuryTemp, queueVars,
                 fsmVars>>

SlotZero ==
  /\ Quiet /\ To({0})
  /\ PortRise50 /\ Fsm /\ QueueStep
  /\ Rise400 /\ Rise200 /\ Rise50
  /\ UNCHANGED userVars

Clocks == OddSlot \/ SlotTwoOfFour \/ SlotFourOrTwelve \/ SlotEight \/ SlotZero

-----------------------------------------------------------------------------
(* Registers without initial value power up low; the state register may    *)
(* also hold a value that is none of its states (7 stands for them).       *)

Init ==
  /\ DriverInit
  /\ clockQueury = FALSE /\ request = PowerUpWord /\ issued = 0
  /\ dataInputQueuryInput = PowerUpWord
  /\ clockQueuryTemp = FALSE /\ WreqFifoQuaury = FALSE
  /\ RamControlSeqFifo = <<>> /\ dataOutFifoQueury = PowerUpWord
  /\ emptyAtReadClock = TRUE /\ flagsNeedReadClock \in FlagTimings
  /\ RreqFifoQueury = FALSE /\ clockReadFifoQueury = FALSE
  /\ fsmStateTransfer \in {0, 7} /\ controlRegRamDriver = NoCommand
  /\ WrenRamRead = FALSE /\ RreqFifoWrite = FALSE
  /\ adrWriteRamRead = 0 /\ adrReadInfo = 0 /\ numInQueuryInfo = 0
  /\ moved = 0

Next == Clocks \/ TransferEnd \/ Withdraw \/ \E t \in Transaction : Present(t)

\* The PLL's clocks never stop, and an asynchronous clear takes no time.
Spec == Init /\ [][Next]_vars /\ WF_vars(Clocks \/ TransferEnd)

-----------------------------------------------------------------------------
UserTypeOK ==
  /\ clockQueury \in BOOLEAN /\ issued \in 0..MaxRequests
  /\ request \in Transaction \cup {PowerUpWord}

PortTypeOK ==
  /\ dataInputQueuryInput \in Transaction \cup {PowerUpWord}
  /\ clockQueuryTemp \in BOOLEAN /\ WreqFifoQuaury \in BOOLEAN

QueueTypeOK ==
  /\ dataOutFifoQueury \in Transaction \cup {PowerUpWord}
  /\ emptyAtReadClock \in BOOLEAN /\ flagsNeedReadClock \in FlagTimings
  /\ RamControlSeqFifo \in Seq(Transaction) /\ Len(RamControlSeqFifo) <= FifoDepth

FsmTypeOK ==
  /\ RreqFifoQueury \in BOOLEAN /\ clockReadFifoQueury \in BOOLEAN
  /\ fsmStateTransfer \in 0..7 /\ controlRegRamDriver \in Command
  /\ WrenRamRead \in BOOLEAN /\ RreqFifoWrite \in BOOLEAN
  /\ adrReadInfo \in 0..(RamWords - 1)

DataTypeOK ==
  /\ adrWriteRamRead \in 0..(RamWords - 1)
  /\ numInQueuryInfo \in 0..(FifoDepth - 1) /\ moved \in Nat

TypeOK == /\ DriverTypeOK /\ UserTypeOK /\ PortTypeOK
          /\ QueueTypeOK /\ FsmTypeOK /\ DataTypeOK

-----------------------------------------------------------------------------
(* What the user is promised: TransactionQueue, with the transaction being *)
(* run read off the registers that the driver is run from.                 *)

NoTransaction == [read |-> FALSE, adr |-> 0, len |-> Count11]

running ==
  IF fsmStateTransfer \in {2, 3} THEN dataOutFifoQueury
  ELSE IF fsmStateTransfer \in 4..6
  THEN [read |-> rwMode, adr |-> controlRegRamDriver.adr, len |-> bytesToTransfer]
  ELSE NoTransaction

Queue == INSTANCE TransactionQueue WITH
  Transactions <- Transaction, Depth <- FifoDepth, None <- NoTransaction,
  pending <- RamControlSeqFifo, current <- running

\* The controller takes the queued transactions in order, one at a time and
\* none twice, from the queue through the registers of the driver to the end of
\* the transfer (hyperRAMcontroller.sv:110-206).
RunsInOrder == Queue!Spec

\* No word can be taken: the empty flag waits for a read clock that waits for the
\* flag, or a total of 0, which nothing but the next transaction changes, holds the
\* state machine in reset.
Stalled == flagsNeedReadClock \/ (totalTime = 0 /\ ~rwMode)

\* Once stalled, the controller is so for ever and takes no word
\* (hyperRAMcontroller.sv:79-88, 110-127; hyperRamDriver.sv:61, 73-81).
StallIsForEver == [][Stalled => Stalled' /\ ~ReadsQueue]_vars

\* As long as the controller has not stalled, which it can at power-up or with the
\* first transaction, every queued transaction is started and every started one ends;
\* afterwards none is started (hyperRAMcontroller.sv:79-88, 110-203).
AllAreRun == ([]~Stalled => Queue!Progress) /\ StallIsForEver

-----------------------------------------------------------------------------
(* The inductive invariant of the controller.                              *)

\* The state machine enables the driver in states 4 to 6 only, and is in 5 or
\* 6 only in a transaction whose set-up is over.
StateMatchesDriver ==
  /\ enable => fsmStateTransfer \in 4..6
  /\ fsmStateTransfer \in {5, 6} => enable /\ setupDone
  /\ WrenRamRead \/ RreqFifoWrite => fsmStateTransfer = 6
  /\ ~enable /\ fastCountNegedge > 0 => fsmStateTransfer = 0
  /\ fsmStateTransfer \in 1..3 => ~processDone

\* The read handshake of the queue: a word is asked for in states 1 and 2 only.
Handshake ==
  /\ clockReadFifoQueury => fsmStateTransfer = 2
  /\ RreqFifoQueury => fsmStateTransfer \in {1, 2}
  /\ fsmStateTransfer = 1 \/ ~emptyAtReadClock => RamControlSeqFifo # <<>>
  /\ fsmStateTransfer \in {2, 3} => dataOutFifoQueury \in Transaction

\* From state 4 on the registers hold one transaction.
RegistersLoaded ==
  fsmStateTransfer \in 4..6 =>
    /\ bytesToTransfer \in Lengths
    /\ controlRegRamDriver \in [read : {rwMode}, adr : Addresses]

\* A word that is to be written is the user's transaction.
PortHolds == clockQueury => request \in Transaction

ControllerInv ==
  /\ TypeOK /\ DriverInv
  /\ StateMatchesDriver /\ Handshake /\ RegistersLoaded /\ PortHolds

-----------------------------------------------------------------------------
(* Properties.                                                             *)

\* The transaction a user holds over a rising edge of clk_50 is written to the
\* queue when it is sampled, if there is room; nothing else ever is, so a full
\* queue drops it (hyperRAMcontroller.sv:54-88).
PresentedIsQueued ==
  [][LET left == {RamControlSeqFifo} \cup
                   (IF RamControlSeqFifo = <<>> THEN {} ELSE {Tail(RamControlSeqFifo)})
     IN IF /\ ~clockQueuryTemp /\ clockQueuryTemp'
           /\ Len(RamControlSeqFifo) < FifoDepth
        THEN RamControlSeqFifo' \in {Append(l, request) : l \in left}
        ELSE RamControlSeqFifo' \in left
    ]_vars

\* Bytes are taken from the write FIFO, or stored in the read RAM, only while
\* the data of the transaction is on the bus (hyperRAMcontroller.sv:171-203,
\* 213-245).
MovesInDataPhase ==
  [][moved' > moved => ~toRamCs /\ fastCountNegedge >= settingTime]_vars
=============================================================================

---------------------------- MODULE HyperRam_proofs ----------------------------
(***************************************************************************)
(* The timing of the driver holds for every length the counters allow: the *)
(* three counters, clocked by three signals, stay in step.  The controller *)
(* keeps its invariant, drives its driver as the driver expects, and runs  *)
(* the queued transactions in order, once each, for every depth of the     *)
(* queue, address set and length the counters allow.                       *)
(***************************************************************************)
EXTENDS HyperRamController, SequenceTheorems, TLAPS

USE DEF Count11, Count13, timeToCs, settingTime, LongestRead

-----------------------------------------------------------------------------
(* Facts about slots and about a transaction in progress.                  *)

\* A step of the clocks moves to the next slot.
LEMMA NextSlot ==
  ASSUME DriverTypeOK, NEW S, To(S)
  PROVE  /\ slot \in 0..15 /\ slot' \in 0..15 /\ slot' \in S
         /\ slot' = (IF slot = 15 THEN 0 ELSE slot + 1)
         /\ slot' % 2 = 1 - (slot % 2)
         /\ slot' % 4 = (IF slot % 4 = 3 THEN 0 ELSE (slot % 4) + 1)
         /\ slot % 4 \in 0..3 /\ slot % 2 \in 0..1
         /\ slot % 2 = (IF slot % 4 \in {1, 3} THEN 1 ELSE 0)
<1>1. slot \in 0..15 /\ slot' = (slot + 1) % 16 /\ slot' \in S
  BY DEF DriverTypeOK, To
<1>2. slot' = IF slot = 15 THEN 0 ELSE slot + 1
  BY <1>1
<1>3. slot' \in 0..15 /\ slot % 4 \in 0..3 /\ slot % 2 \in 0..1
  BY <1>1
<1>4. slot % 2 = (IF slot % 4 \in {1, 3} THEN 1 ELSE 0)
  BY <1>1
<1>5. slot' % 2 = 1 - (slot % 2)
  BY <1>1, <1>2
<1>6. slot' % 4 = (IF slot % 4 = 3 THEN 0 ELSE (slot % 4) + 1)
  BY <1>1, <1>2
<1> QED
  BY <1>1, <1>2, <1>3, <1>4, <1>5, <1>6

LEMMA LengthRange == ASSUME NEW l \in Lengths PROVE l \in 0..2012
BY LengthsAssumption
   DEF LengthsAssumption, LongestRead, settingTime, Count11

\* What a step that only does arithmetic needs of the types.
CountsAreNat ==
  /\ csCounter \in Nat /\ fastCountNegedge \in Nat /\ ckRamCounter \in Nat
  /\ totalTime \in Nat /\ bytesToTransfer \in Nat /\ chipEdges \in Nat

LEMMA FastCountRange == DriverTypeOK => fastCountNegedge \in 0..2047
BY DEF DriverTypeOK

\* Counting below the last value does not wrap.
LEMMA NoWrap ==
  ASSUME NEW n \in 0..2046
  PROVE  (n + 1) % 2048 = n + 1
OBVIOUS

LEMMA Counts == DriverTypeOK => CountsAreNat
BY DEF DriverTypeOK, CountsAreNat

LEMMA CountsNext == DriverTypeOK' => CountsAreNat'
BY DEF DriverTypeOK, CountsAreNat

\* In a running transaction no counter is near its last value.
LEMMA CountsSmall ==
  ASSUME DriverInv, enable
  PROVE  csCounter \in 0..2000 /\ ckRamCounter \in 0..2000
<1>1. DriverTypeOK /\ (Selecting \/ InStep)
  BY DEF DriverInv
<1>2. CASE Selecting
  BY <1>2 DEF Selecting
<1>3. CASE InStep
  <2>1. 2 * ckRamCounter <= fastCountNegedge /\ 2 * csCounter <= fastCountNegedge + 4
    BY <1>1, <1>3, Counts DEF InStep, CountsAreNat
  <2>2. ckRamCounter \in Nat /\ csCounter \in Nat /\ fastCountNegedge \in 0..2047
    BY <1>1 DEF DriverTypeOK
  <2> QED
    BY <2>1, <2>2
<1> QED
  BY <1>1, <1>2, <1>3

\* No count overflows before the end of a transaction.
LEMMA LimitFits ==
  ASSUME DriverTypeOK, Bounded
  PROVE  transferLimit \in settingTime..(Count11 - 1)
BY LengthRange DEF DriverTypeOK, Bounded, transferLimit, settingTime, Count11

-----------------------------------------------------------------------------
(* Initially, and at each of the clock edges.                              *)

LEMMA DriverInvInit == DriverInit => DriverInv
<1> SUFFICES ASSUME DriverInit PROVE DriverInv
  OBVIOUS
<1>1. enable \in BOOLEAN /\ rwMode \in BOOLEAN
  BY Zenon DEF DriverInit
<1>2. DriverTypeOK
  BY <1>1, PowerUpAssumption
     DEF PowerUpAssumption, DriverInit, DriverTypeOK, Count11, Count13
<1>3. EdgesCounted
  BY DEF DriverInit, EdgesCounted
<1>4. ~enable /\ Draining
  BY DEF DriverInit, Draining
<1> QED
  BY <1>2, <1>3, <1>4 DEF DriverInv

\* The types of the registers survive every step.
LEMMA DriverTypeStep == DriverTypeOK /\ [DriverNext]_driverVars => DriverTypeOK'
<1> SUFFICES ASSUME DriverTypeOK, [DriverNext]_driverVars PROVE DriverTypeOK'
  OBVIOUS
<1> USE DEF DriverNext, Fall400, Fall200, FallShifted, Load, Raise, Hold, Rise50,
            Clear, driverVars, driverRegs, chipVars
<1>1. slot' \in 0..15
  <2>1. slot \in 0..15
    BY DEF DriverTypeOK
  <2>2. slot' \in {slot, (slot + 1) % 16}
    BY DEF To
  <2> QED
    BY <2>1, <2>2
<1>2. enable' \in BOOLEAN
  <2>1. enable \in BOOLEAN
    BY DEF DriverTypeOK
  <2>2. (enable' = TRUE \/ enable' = FALSE) \/ enable' = enable
    OBVIOUS
  <2> QED
    BY <2>1, <2>2, Zenon
<1>3. rwMode' \in BOOLEAN
  <2>1. rwMode \in BOOLEAN
    BY DEF DriverTypeOK
  <2>2. rwMode' \in BOOLEAN \/ rwMode' = rwMode
    OBVIOUS
  <2> QED
    BY <2>1, <2>2, Zenon
<1>4. bytesToTransfer' \in 0..(Count11 - 1)
  <2>1. bytesToTransfer \in 0..2047
    BY DEF DriverTypeOK
  <2>2. bytesToTransfer' \in {0, bytesToTransfer} \/ bytesToTransfer' \in Lengths
    OBVIOUS
  <2>3. CASE bytesToTransfer' \in Lengths
    BY <2>3, LengthRange
  <2> QED
    BY <2>1, <2>2, <2>3
<1>5. csCounter' \in 0..(Count13 - 1)
  <2>1. csCounter \in 0..8191
    BY DEF DriverTypeOK
  <2>2. csCounter' \in {0, csCounter, (csCounter + 1) % 8192}
    BY DEF CsCounterEdge
  <2> QED
    BY <2>1, <2>2
<1>6. totalTime' \in 0..(Count11 - 1)
  <2>1. bytesToTransfer \in Nat /\ totalTime \in 0..2047
    BY DEF DriverTypeOK
  <2>2. totalTime' \in {totalTime, (34 + bytesToTransfer) % 2048}
    BY DEF TotalTimeEdge
  <2> QED
    BY <2>1, <2>2
<1>7. fastCountNegedge' \in 0..(Count11 - 1)
  <2>1. fastCountNegedge \in 0..2047
    BY DEF DriverTypeOK
  <2>2. fastCountNegedge' \in {0, fastCountNegedge, (fastCountNegedge + 1) % 2048}
    BY DEF FastCountEdge
  <2> QED
    BY <2>1, <2>2
<1>8. ckRamCounter' \in 0..(Count11 - 1)
  <2>1. ckRamCounter \in 0..2047
    BY DEF DriverTypeOK
  <2>2. ckRamCounter' \in {0, ckRamCounter, (ckRamCounter + 1) % 2048}
    BY DEF CkRamEdge
  <2> QED
    BY <2>1, <2>2
<1>9. chipEdges' \in Nat
  <2>1. chipEdges \in Nat
    BY DEF DriverTypeOK
  <2>2. chipEdges' \in {0, chipEdges, chipEdges + 1}
    BY DEF ChipStep
  <2> QED
    BY <2>1, <2>2
<1> HIDE DEF DriverNext, Fall400, Fall200, FallShifted, Load, Raise, Hold, Rise50,
             Clear, driverVars, driverRegs, chipVars, Count11, Count13
<1> QED
  BY <1>1, <1>2, <1>3, <1>4, <1>5, <1>6, <1>7, <1>8, <1>9, Zenon
     DEF DriverTypeOK

\* clock400 falls: the byte count moves on.
LEMMA DriverInvFall400 == DriverInv /\ Fall400 => DriverInv'
<1> SUFFICES ASSUME DriverInv, Fall400 PROVE DriverInv'
  OBVIOUS
<1>1. DriverTypeOK /\ DriverTypeOK'
  BY DriverTypeStep DEF DriverInv, DriverNext
<1>n. CountsAreNat /\ CountsAreNat'
  BY <1>1, Counts, CountsNext
<1>2. /\ slot \in 0..15 /\ slot' \in 0..15
      /\ slot' = slot + 1
      /\ slot % 2 = 0 /\ slot' % 2 = 1
      /\ (slot % 4 = 0 /\ slot' % 4 = 1) \/ (slot % 4 = 2 /\ slot' % 4 = 3)
  <2>1. To({1, 3, 5, 7, 9, 11, 13, 15})
    BY DEF Fall400
  <2> QED
    BY <2>1, <1>1, NextSlot
<1>3. CASE ~enable
  <2>1. fastCountNegedge' = 0 /\ ~clockMask' /\ ~enable'
    BY <1>3 DEF Fall400, FastCountEdge, clockMask
  <2>2. ckRamCounter' = IF toRamCk THEN 0 ELSE ckRamCounter
    BY <1>3, <2>1 DEF Fall400, CkRamEdge, toRamCk
  <2>3. Draining
    BY <1>3 DEF DriverInv
  <2>4. Draining'
    BY <1>2, <2>1, <2>2, <2>3 DEF Draining, toRamCk, clockMask, Fall400
  <2>5. EdgesCounted /\ chipEdges = 0
    BY <2>1, <2>3, <1>2, <1>1 DEF DriverInv, EdgesCounted, Draining, toRamCs
  <2>6. EdgesCounted'
    <3>1. chipEdges' = 0
      <4>1. CASE toRamCs'
        BY <4>1 DEF Fall400, ChipStep
      <4>2. CASE ~toRamCs'
        <5>1. csCounter >= 2
          BY <4>2 DEF toRamCs, csDone, Fall400
        <5>2. ~toRamCk
          BY <1>n, <1>2, <2>3, <5>1 DEF Draining, toRamCk, clockMask, CountsAreNat
        <5> QED
          BY <2>1, <2>5, <4>2, <5>2 DEF Fall400, ChipStep, toRamCk
      <4> QED
        BY <4>1, <4>2
    <3> QED
      BY <3>1, <2>1 DEF EdgesCounted
  <2> QED
    BY <2>1, <2>4, <2>6, <1>1 DEF DriverInv
<1>4. CASE enable
  <2>1. Bounded /\ (Selecting \/ InStep) /\ EdgesCounted /\ enable'
    BY <1>4 DEF DriverInv, Fall400
  <2>2. transferLimit \in 34..2047 /\ transferLimit' = transferLimit
    <3>1. transferLimit' = transferLimit
      BY DEF Fall400, transferLimit
    <3> QED
      BY <2>1, <1>1, <3>1, LimitFits DEF settingTime, Count11
  <2>3. fastCountNegedge < transferLimit
    BY <1>n, <1>4, <2>1, <2>2 DEF Fall400, To, Settled, processDone, CountsAreNat
  <2>4. fastCountNegedge' = IF csCounter >= 2 THEN fastCountNegedge + 1 ELSE 0
    <3>1. fastCountNegedge \in 0..2046
      <4>1. fastCountNegedge \in Nat
        BY <1>n DEF CountsAreNat
      <4>2. transferLimit \in Nat /\ transferLimit <= 2047
        BY <2>2
      <4> QED
        BY <4>1, <4>2, <2>3
    <3>2. (fastCountNegedge + 1) % 2048 = fastCountNegedge + 1
      BY <3>1, NoWrap
    <3> QED
      BY <1>4, <3>2 DEF Fall400, FastCountEdge, csDone, timeToCs, Count11
  <2>5. Selecting => fastCountNegedge' \in 0..1
    BY <2>4 DEF Selecting
  <2>6. (toRamCk' <=> toRamCk) /\ ckRamCounter' = ckRamCounter
    <3>1. toRamCk' <=> toRamCk
      BY <1>n, <1>2, <2>1, <2>4
         DEF Selecting, InStep, toRamCk, clockMask, CountsAreNat
    <3> QED
      BY <3>1 DEF Fall400, CkRamEdge
  <2>7. Bounded'
    BY <1>2, <2>1, <2>2, <2>3, <2>4, <1>n DEF Bounded, Fall400, CountsAreNat
  <2>8. (Selecting \/ InStep)'
    BY <1>n, <1>2, <2>1, <2>4, <2>6 DEF Selecting, InStep, Fall400, CountsAreNat
  <2>9. EdgesCounted'
    <3>1. toRamCs' \/ chipEdges' = chipEdges
      BY <2>6 DEF Fall400, ChipStep
    <3>2. toRamCs' => chipEdges' = 0
      BY DEF Fall400, ChipStep
    <3>3. fastCountNegedge >= 2 => ~toRamCs
      BY <1>n, <2>1, <2>2, <2>3
         DEF Selecting, InStep, toRamCs, processDone, csDone, timeToCs, CountsAreNat
    <3>4. CASE toRamCs'
      BY <3>2, <3>4 DEF EdgesCounted
    <3>5. CASE ~toRamCs' /\ fastCountNegedge < 2
      <4>1. chipEdges' = 0 /\ fastCountNegedge' \in {0, fastCountNegedge + 1}
        BY <2>1, <2>4, <3>1, <3>5 DEF EdgesCounted
      <4> QED
        BY <4>1, <1>n, <1>2, <3>5 DEF EdgesCounted, CountsAreNat
    <3>6. CASE ~toRamCs' /\ fastCountNegedge >= 2
      <4>1. fastCountNegedge' = fastCountNegedge + 1
        BY <2>4, <2>5, <3>6, <3>3, <1>n, <2>1 DEF Selecting, toRamCs, csDone, CountsAreNat
      <4>2. chipEdges = fastCountNegedge - 1 /\ chipEdges' = chipEdges
        BY <1>n, <1>2, <2>1, <3>1, <3>3, <3>6 DEF EdgesCounted, CountsAreNat
      <4> QED
        BY <4>1, <4>2, <1>n, <1>2, <3>6 DEF EdgesCounted, CountsAreNat
    <3> QED
      BY <1>n, <3>4, <3>5, <3>6 DEF CountsAreNat
  <2> QED
    BY <1>1, <2>1, <2>7, <2>8, <2>9 DEF DriverInv
<1> QED
  BY <1>3, <1>4

\* clock200 falls and clock200shifted rises: csCounter moves on.
LEMMA DriverInvFall200 == DriverInv /\ Fall200 => DriverInv'
<1> SUFFICES ASSUME DriverInv, Fall200 PROVE DriverInv'
  OBVIOUS
<1>1. DriverTypeOK /\ DriverTypeOK'
  BY DriverTypeStep DEF DriverInv, DriverNext
<1>n. CountsAreNat /\ CountsAreNat'
  BY <1>1, Counts, CountsNext
<1>2. /\ slot \in 0..15 /\ slot' \in 0..15
      /\ slot' = slot + 1
      /\ slot \in {1, 5, 9, 13}
      /\ slot % 2 = 1 /\ slot' % 2 = 0
      /\ slot % 4 = 1 /\ slot' % 4 = 2
  <2>1. To({2, 6, 10, 14})
    BY DEF Fall200
  <2>2. slot \in 0..15 /\ slot' \in {2, 6, 10, 14} /\ slot' = slot + 1
    BY <2>1, <1>1, NextSlot
  <2> QED
    BY <2>2
<1>3. fastCountNegedge' = fastCountNegedge /\ transferLimit' = transferLimit
      /\ (processDone' <=> processDone) /\ (clockMask' <=> clockMask)
  BY DEF Fall200, transferLimit, processDone, clockMask
<1>4. ~toRamCk /\ (toRamCk' <=> clockMask)
  BY <1>2, <1>3 DEF toRamCk
<1>5. ckRamCounter' = ckRamCounter
  BY <1>4 DEF Fall200, CkRamEdge
<1>6. CASE ~enable
  <2>1. csCounter' = 0 /\ ~enable' /\ toRamCs'
    BY <1>6 DEF Fall200, CsCounterEdge, toRamCs, csDone
  <2>2. Draining'
    BY <1>2, <1>3, <1>5, <1>6, <2>1 DEF DriverInv, Draining
  <2>3. EdgesCounted'
    BY <2>1 DEF Fall200, ChipStep, EdgesCounted
  <2> QED
    BY <1>1, <2>1, <2>2, <2>3 DEF DriverInv
<1>7. CASE enable
  <2>1. Bounded /\ (Selecting \/ InStep) /\ EdgesCounted /\ enable'
    BY <1>7 DEF DriverInv, Fall200
  <2>2. transferLimit \in 34..2047
    BY <2>1, <1>1, LimitFits
  <2>3. fastCountNegedge < transferLimit
    BY <1>n, <1>7, <2>1, <2>2 DEF Fall200, To, Settled, processDone, CountsAreNat
  <2>4. csCounter' = csCounter + 1
    <3>1. csCounter \in 0..2000
      <4>1. enable /\ DriverInv
        BY <1>7
      <4> QED
        BY <4>1, CountsSmall
    <3>2. (csCounter + 1) % 8192 = csCounter + 1
      BY <3>1
    <3> QED
      BY <1>7, <3>2 DEF Fall200, CsCounterEdge
  <2>5. Bounded'
    <3>1. bytesToTransfer' = bytesToTransfer /\ totalTime' = totalTime
      BY DEF Fall200
    <3>2. fastCountNegedge' <= transferLimit'
          /\ fastCountNegedge' # transferLimit'
      BY <1>n, <1>3, <2>2, <2>3 DEF CountsAreNat
    <3> QED
      BY <2>1, <3>1, <3>2 DEF Bounded
  <2>6. (Selecting \/ InStep)'
    BY <1>n, <1>2, <1>3, <1>5, <2>1, <2>4 DEF Selecting, InStep, CountsAreNat
  <2>7. EdgesCounted'
    <3>1. CASE toRamCs'
      BY <3>1 DEF Fall200, ChipStep, EdgesCounted
    <3>2. CASE ~toRamCs' /\ fastCountNegedge < 2
      <4>1. chipEdges' = chipEdges /\ chipEdges = 0
        BY <1>n, <1>4, <2>1, <3>2
           DEF Fall200, ChipStep, EdgesCounted, clockMask, CountsAreNat
      <4> QED
        BY <4>1, <3>2, <1>3 DEF EdgesCounted
    <3>3. CASE ~toRamCs' /\ fastCountNegedge >= 2
      <4>1. ~toRamCs
        BY <1>n, <2>1, <2>2, <2>3, <3>3
           DEF Selecting, InStep, toRamCs, processDone, csDone, CountsAreNat
      <4>2. chipEdges = fastCountNegedge - 2
        BY <4>1, <1>2, <2>1, <3>3, <1>n DEF EdgesCounted, CountsAreNat
      <4>3. chipEdges' = chipEdges + 1
        BY <1>n, <1>4, <3>3 DEF Fall200, ChipStep, clockMask, CountsAreNat
      <4> QED
        BY <4>2, <4>3, <3>3, <1>n, <1>2, <1>3 DEF EdgesCounted, CountsAreNat
    <3> QED
      BY <1>n, <3>1, <3>2, <3>3 DEF CountsAreNat
  <2> QED
    BY <1>1, <2>1, <2>5, <2>6, <2>7 DEF DriverInv
<1> QED
  BY <1>6, <1>7

\* clock200shifted falls with the rest of the registers at rest: the edges in
\* slots 4, 8 and 12, and in slot 0 when the controller changes nothing.
LEMMA ShiftedFalls ==
  ASSUME DriverInv, DriverTypeOK', To({0, 4, 8, 12}), CkRamEdge, ChipStep,
         UNCHANGED <<enable, rwMode, bytesToTransfer, csCounter, totalTime,
                     fastCountNegedge>>
  PROVE  DriverInv'
<1>1. DriverTypeOK
  BY DEF DriverInv
<1>n. CountsAreNat /\ CountsAreNat'
  BY <1>1, Counts, CountsNext
<1>2. /\ slot \in {3, 7, 11, 15}
      /\ slot' = (IF slot = 15 THEN 0 ELSE slot + 1)
      /\ slot % 2 = 1 /\ slot' % 2 = 0
      /\ slot % 4 = 3 /\ slot' % 4 = 0
  <2>1. /\ slot \in 0..15 /\ slot' \in {0, 4, 8, 12}
        /\ slot' = (IF slot = 15 THEN 0 ELSE slot + 1)
    BY <1>1, NextSlot
  <2> QED
    BY <2>1
<1>3. fastCountNegedge' = fastCountNegedge /\ transferLimit' = transferLimit
      /\ (processDone' <=> processDone) /\ (csDone' <=> csDone)
      /\ (toRamCs' <=> toRamCs)
  BY DEF transferLimit, processDone, clockMask, csDone, toRamCs
<1>4. ~toRamCk' /\ (toRamCk <=> clockMask)
  BY <1>2 DEF toRamCk
<1>5. CASE ~enable
  <2>1. ckRamCounter' = IF clockMask THEN 0 ELSE ckRamCounter
    BY <1>4, <1>5 DEF CkRamEdge
  <2>2. Draining'
    BY <1>n, <1>2, <1>3, <1>5, <2>1 DEF DriverInv, Draining, clockMask, CountsAreNat
  <2>3. EdgesCounted'
    <3>1. chipEdges = 0 /\ (fastCountNegedge > 1 => toRamCs)
      BY <1>n, <1>2, <1>5 DEF DriverInv, Draining, EdgesCounted, toRamCs, CountsAreNat
    <3>2. chipEdges' = 0
      <4>1. CASE fastCountNegedge > 1
        BY <3>1, <4>1, <1>3 DEF ChipStep
      <4>2. CASE ~(fastCountNegedge > 1)
        BY <3>1, <4>2, <1>4 DEF ChipStep, clockMask
      <4> QED
        BY <4>1, <4>2
    <3>3. toRamCs' \/ fastCountNegedge' < 2
      BY <3>1, <1>n, <1>3 DEF CountsAreNat
    <3> QED
      BY <3>2, <3>3 DEF EdgesCounted
  <2> QED
    BY <1>5, <2>2, <2>3 DEF DriverInv
<1>6. CASE enable
  <2>1. Bounded /\ (Selecting \/ InStep) /\ EdgesCounted /\ enable'
    BY <1>6 DEF DriverInv
  <2>2. transferLimit \in 34..2047
    BY <2>1, <1>1, LimitFits
  <2>3. fastCountNegedge < transferLimit
    BY <1>n, <1>6, <2>1, <2>2 DEF To, Settled, processDone, CountsAreNat
  <2>4. ckRamCounter' = IF fastCountNegedge > 1 THEN ckRamCounter + 1
                                                ELSE ckRamCounter
    <3>1. ckRamCounter \in 0..2000
      <4>1. CASE Selecting
        BY <4>1 DEF Selecting
      <4>2. CASE InStep
        <5>1. 2 * ckRamCounter <= fastCountNegedge
          BY <1>n, <1>2, <4>2 DEF InStep, CountsAreNat
        <5>2. ckRamCounter \in Nat /\ fastCountNegedge \in 0..2047
          <6>1. ckRamCounter \in Nat
            BY <1>n DEF CountsAreNat
          <6>2. fastCountNegedge \in 0..2047
            BY <1>1, FastCountRange
          <6> QED
            BY <6>1, <6>2
        <5> QED
          BY <5>1, <5>2
      <4> QED
        BY <2>1, <4>1, <4>2
    <3>2. (ckRamCounter + 1) % 2048 = ckRamCounter + 1
      BY <3>1
    <3> QED
      BY <1>4, <1>6, <3>2 DEF CkRamEdge, clockMask
  <2>5. Bounded'
    <3>1. bytesToTransfer' = bytesToTransfer /\ totalTime' = totalTime
      BY DEF DriverTypeOK
    <3>2. fastCountNegedge' <= transferLimit'
          /\ fastCountNegedge' # transferLimit'
      BY <1>n, <1>3, <2>2, <2>3 DEF CountsAreNat
    <3> QED
      BY <2>1, <3>1, <3>2 DEF Bounded
  <2>6. (Selecting \/ InStep)'
    <3>1. CASE Selecting
      BY <1>n, <1>2, <1>3, <2>4, <3>1 DEF Selecting, CountsAreNat
    <3>2. CASE InStep
      BY <1>n, <1>2, <1>3, <2>4, <3>2 DEF InStep, CountsAreNat
    <3> QED
      BY <2>1, <3>1, <3>2
  <2>7. EdgesCounted'
    <3>1. CASE toRamCs
      BY <3>1, <1>3 DEF ChipStep, EdgesCounted
    <3>2. CASE ~toRamCs /\ fastCountNegedge < 2
      <4>1. chipEdges' = chipEdges /\ chipEdges = 0
        BY <1>n, <1>3, <1>4, <2>1, <3>2
           DEF ChipStep, EdgesCounted, clockMask, CountsAreNat
      <4> QED
        BY <4>1, <3>2, <1>3 DEF EdgesCounted
    <3>3. CASE ~toRamCs /\ fastCountNegedge >= 2
      <4>1. chipEdges = fastCountNegedge - 2
        BY <1>2, <2>1, <3>3, <1>n DEF EdgesCounted, CountsAreNat
      <4>2. chipEdges' = chipEdges + 1
        BY <1>n, <1>3, <1>4, <3>3 DEF ChipStep, clockMask, CountsAreNat
      <4> QED
        BY <4>1, <4>2, <3>3, <1>n, <1>2, <1>3 DEF EdgesCounted, CountsAreNat
    <3> QED
      BY <1>n, <3>1, <3>2, <3>3 DEF CountsAreNat
  <2> QED
    BY <2>1, <2>5, <2>6, <2>7 DEF DriverInv
<1> QED
  BY <1>5, <1>6

LEMMA DriverInvFallShifted == DriverInv /\ FallShifted => DriverInv'
<1> SUFFICES ASSUME DriverInv, FallShifted PROVE DriverInv'
  OBVIOUS
<1>1. DriverTypeOK'
  BY DriverTypeStep DEF DriverInv, DriverNext
<1>2. To({0, 4, 8, 12})
  BY DEF FallShifted, To
<1> QED
  BY <1>1, <1>2, ShiftedFalls DEF FallShifted

\* Between transactions the counters are at zero when clk_50 rises, unless
\* processDone still holds the state machine in reset.
LEMMA RestedAtRise50 ==
  ASSUME DriverInv, ~enable, ~processDone, To({0})
  PROVE  /\ fastCountNegedge = 0 /\ ckRamCounter = 0 /\ csCounter = 0
         /\ chipEdges = 0
<1>1. slot = 15
  <2>1. DriverTypeOK
    BY DEF DriverInv
  <2>2. slot \in 0..15 /\ 0 = (IF slot = 15 THEN 0 ELSE slot + 1)
    BY <2>1, NextSlot
  <2> QED
    BY <2>2
<1> QED
  BY <1>1 DEF DriverInv, Draining, EdgesCounted

\* clk_50 rises: the controller loads the registers, raises enable, or waits.
LEMMA DriverInvRise50 == DriverInv /\ (Load \/ Raise \/ Hold) => DriverInv'
<1> SUFFICES ASSUME DriverInv, Load \/ Raise \/ Hold PROVE DriverInv'
  OBVIOUS
<1>1. DriverTypeOK /\ DriverTypeOK'
  BY DriverTypeStep DEF DriverInv, DriverNext
<1>n. CountsAreNat /\ CountsAreNat'
  BY <1>1, Counts, CountsNext
<1>2. To({0}) /\ Rise50 /\ slot' = 0
  BY DEF Load, Raise, Hold, To
<1>3. CASE Hold
  <2>1. To({0, 4, 8, 12})
    BY <1>2 DEF To
  <2>2. UNCHANGED <<enable, rwMode, bytesToTransfer, csCounter, totalTime,
                    fastCountNegedge>>
    BY <1>3 DEF Hold, Rise50, TotalTimeEdge
  <2> QED
    BY <1>1, <1>2, <2>1, <2>2, ShiftedFalls DEF Rise50
<1>4. CASE Load \/ Raise
  <2>1. /\ fastCountNegedge = 0 /\ ckRamCounter = 0 /\ csCounter = 0
        /\ chipEdges = 0 /\ ~enable
    BY <1>2, <1>4, RestedAtRise50 DEF Load, Raise
  <2>2. fastCountNegedge' = 0 /\ csCounter' = 0
    BY <1>2, <2>1 DEF Rise50
  <2>3. ckRamCounter' = 0
    BY <1>2, <2>1 DEF Rise50, CkRamEdge
  <2>4. toRamCs'
    BY <2>2 DEF toRamCs, csDone
  <2>5. EdgesCounted'
    BY <1>2, <2>4 DEF Rise50, ChipStep, EdgesCounted
  <2>6. CASE Load
    <3>1. ~enable' /\ Draining'
      BY <2>1, <2>2, <2>3, <2>6 DEF Load, Draining
    <3> QED
      BY <1>1, <2>5, <3>1 DEF DriverInv
  <2>7. CASE Raise
    <3>1. enable' /\ bytesToTransfer \in Lengths /\ bytesToTransfer' = bytesToTransfer
      BY <2>7 DEF Raise
    <3>2. bytesToTransfer \in 0..2012
      BY <3>1, LengthRange
    <3>3. totalTime' = 34 + bytesToTransfer
      <4>1. (34 + bytesToTransfer) % 2048 = 34 + bytesToTransfer
        BY <3>2
      <4> QED
        BY <1>2, <2>1, <3>1, <4>1 DEF Rise50, TotalTimeEdge
    <3>4. fastCountNegedge' <= transferLimit' /\ fastCountNegedge' # transferLimit'
      BY <2>2, <3>2, <3>3 DEF transferLimit
    <3>5. Bounded' /\ Selecting'
      BY <1>2, <2>2, <2>3, <3>1, <3>3, <3>4 DEF Bounded, Selecting
    <3> QED
      BY <1>1, <2>5, <3>1, <3>5 DEF DriverInv
  <2> QED
    BY <1>4, <2>6, <2>7
<1> QED
  BY <1>3, <1>4

\* The asynchronous clear.
LEMMA DriverInvClear == DriverInv /\ Clear => DriverInv'
<1> SUFFICES ASSUME DriverInv, Clear PROVE DriverInv'
  OBVIOUS
<1>1. DriverTypeOK /\ DriverTypeOK'
  BY DriverTypeStep DEF DriverInv, DriverNext
<1>n. CountsAreNat /\ CountsAreNat'
  BY <1>1, Counts, CountsNext
<1>2. /\ ~enable' /\ processDone
      /\ UNCHANGED <<slot, rwMode, csCounter, totalTime, fastCountNegedge,
                     ckRamCounter, chipEdges>>
  BY DEF Clear, Settled, driverRegs, chipVars
<1>3. (processDone' <=> processDone) /\ (toRamCs' <=> toRamCs)
  BY <1>2 DEF processDone, transferLimit, toRamCs, csDone
<1>4. EdgesCounted'
  BY <1>2, <1>3 DEF DriverInv, EdgesCounted
<1>5. Draining'
  <2>1. CASE ~enable
    BY <1>2, <1>3, <2>1 DEF DriverInv, Draining
  <2>2. CASE enable
    <3>1. Bounded /\ transferLimit \in 34..2047
      BY <1>1, <2>2, LimitFits DEF DriverInv
    <3>2. fastCountNegedge > 1 /\ slot % 2 = 1
      BY <1>n, <1>2, <3>1 DEF Bounded, processDone, CountsAreNat
    <3> QED
      BY <1>2, <1>3, <3>2 DEF Draining
  <2> QED
    BY <2>1, <2>2
<1> QED
  BY <1>1, <1>2, <1>4, <1>5 DEF DriverInv

-----------------------------------------------------------------------------
(* The theorems of the driver.                                             *)

LEMMA DriverInvStep == DriverInv /\ [DriverNext]_driverVars => DriverInv'
<1>1. DriverInv /\ UNCHANGED driverVars => DriverInv'
  <2> SUFFICES ASSUME DriverInv, UNCHANGED driverVars PROVE DriverInv'
    OBVIOUS
  <2>1. DriverTypeOK'
    BY DriverTypeStep DEF DriverInv
  <2>2. EdgesCounted'
    BY DEF driverVars, driverRegs, chipVars, DriverInv, EdgesCounted, toRamCs,
           processDone, csDone, transferLimit
  <2>3. ~enable' => Draining'
    BY DEF driverVars, driverRegs, chipVars, DriverInv, Draining, processDone,
           transferLimit
  <2>4. enable' => Bounded'
    BY DEF driverVars, driverRegs, chipVars, DriverInv, Bounded, transferLimit
  <2>5. enable' => (Selecting \/ InStep)'
    BY DEF driverVars, driverRegs, chipVars, DriverInv, Selecting, InStep
  <2> QED
    BY <2>1, <2>2, <2>3, <2>4, <2>5 DEF DriverInv
<1> QED
  BY <1>1, DriverInvFall400, DriverInvFall200, DriverInvFallShifted,
     DriverInvRise50, DriverInvClear DEF DriverNext

\* The registers keep their types and the three counters stay in step, in every
\* reachable state and for every length (hyperRamDriver.sv:35-174).
THEOREM DriverInvariance == DriverSpec => []DriverInv
BY DriverInvInit, DriverInvStep, PTL DEF DriverSpec

\* setupDone is never left over from the transaction before
\* (hyperRamDriver.sv:98-126).
THEOREM FreshSetupHolds == DriverSpec => []FreshSetup
<1>1. DriverInv => FreshSetup
  <2> SUFFICES ASSUME DriverInv, enable, setupDone
               PROVE  fastCountNegedge >= settingTime - 1
    BY DEF FreshSetup
  <2>1. DriverTypeOK /\ ckRamCounter >= 16
    <3>1. DriverTypeOK
      BY DEF DriverInv
    <3>2. ckRamCounter \in Nat
      BY <3>1, Counts DEF CountsAreNat
    <3> QED
      BY <3>1, <3>2 DEF setupDone
  <2>2. InStep
    BY <2>1 DEF DriverInv, Selecting
  <2> QED
    BY <2>1, <2>2 DEF InStep, DriverTypeOK
<1> QED
  BY <1>1, DriverInvariance, PTL

\* While a transaction runs its registers are left alone and its counters of
\* clock200 and toRamCk never go back.
LEMMA RunningStep ==
  ASSUME DriverInv, [DriverNext]_driverVars, enable, ~processDone
  PROVE  /\ UNCHANGED <<enable, rwMode, bytesToTransfer, totalTime>>
         /\ csCounter' \in {csCounter, csCounter + 1}
         /\ ckRamCounter' \in {ckRamCounter, ckRamCounter + 1}
<1>1. csCounter \in 0..2000 /\ ckRamCounter \in 0..2000
  BY CountsSmall
<1>2. (csCounter + 1) % 8192 = csCounter + 1 /\ (ckRamCounter + 1) % 2048 = ckRamCounter + 1
  BY <1>1
<1>3. CkRamEdge => ckRamCounter' \in {ckRamCounter, ckRamCounter + 1}
  BY <1>2 DEF CkRamEdge
<1>4. CASE Fall400
  BY <1>3, <1>4 DEF Fall400
<1>5. CASE Fall200
  BY <1>2, <1>3, <1>5 DEF Fall200, CsCounterEdge
<1>6. CASE FallShifted
  BY <1>3, <1>6 DEF FallShifted
<1>7. CASE Hold
  BY <1>3, <1>7 DEF Hold, Rise50, TotalTimeEdge
<1>8. CASE UNCHANGED driverVars
  BY <1>8 DEF driverVars, driverRegs
<1> QED
  BY <1>4, <1>5, <1>6, <1>7, <1>8 DEF DriverNext, Load, Raise, Clear, Settled

LEMMA RunningCount ==
  ASSUME DriverInv, enable, ~processDone
  PROVE  fastCountNegedge \in 0..2046 /\ transferLimit \in 34..2047
         /\ fastCountNegedge < transferLimit
<1>1. transferLimit \in 34..2047 /\ fastCountNegedge \in Nat
  <2>1. DriverTypeOK /\ Bounded
    BY DEF DriverInv
  <2>2. transferLimit \in 34..2047
    BY <2>1, LimitFits
  <2>3. fastCountNegedge \in Nat
    BY <2>1 DEF DriverTypeOK
  <2> QED
    BY <2>2, <2>3
<1> QED
  BY <1>1 DEF processDone

\* A byte time passes.
LEMMA ByteTime ==
  ASSUME DriverInv, enable, Fall400
  PROVE  /\ fastCountNegedge' = IF csDone THEN fastCountNegedge + 1 ELSE 0
         /\ slot % 2 = 0 /\ slot' % 2 = 1
<1>1. ~processDone
  BY DEF Fall400, To, Settled
<1>2. fastCountNegedge \in 0..2046
  BY <1>1, RunningCount
<1>3. (fastCountNegedge + 1) % 2048 = fastCountNegedge + 1
  BY <1>2
<1>4. slot % 2 = 0 /\ slot' % 2 = 1
  <2>1. DriverTypeOK /\ To({1, 3, 5, 7, 9, 11, 13, 15})
    BY DEF DriverInv, Fall400
  <2> QED
    BY <2>1, NextSlot
<1>8. CASE csDone
  BY <1>3, <1>4, <1>8 DEF Fall400, FastCountEdge
<1>9. CASE ~csDone
  BY <1>4, <1>9 DEF Fall400, FastCountEdge
<1> QED
  BY <1>8, <1>9

\* dataTransfering ends by processDone only (hyperRamDriver.sv:128-153).
THEOREM StopsWhenDoneHolds == DriverSpec => StopsWhenDone
<1>1. DriverInv /\ [DriverNext]_driverVars =>
        [enable /\ dataTransfering /\ ~dataTransfering' => processDone']_driverVars
  <2> SUFFICES ASSUME DriverInv, [DriverNext]_driverVars, enable, dataTransfering,
                      ~processDone'
               PROVE  dataTransfering'
    OBVIOUS
  <2>1. DriverTypeOK /\ DriverTypeOK'
    BY DriverTypeStep DEF DriverInv
  <2>n. CountsAreNat /\ CountsAreNat'
    BY <2>1, Counts, CountsNext
  <2>2. ~processDone /\ setupDone
    BY <2>1, <2>n DEF dataTransfering, processDone, transferLimit, CountsAreNat
  <2>3. rwMode' = rwMode /\ ckRamCounter' >= ckRamCounter
    <3>1. rwMode' = rwMode /\ ckRamCounter' \in {ckRamCounter, ckRamCounter + 1}
      BY <2>2, RunningStep
    <3>2. ckRamCounter \in Int
      BY <2>1, <2>n DEF CountsAreNat
    <3> QED
      BY <3>1, <3>2
  <2>4. setupDone'
    BY <2>1, <2>n, <2>2, <2>3 DEF setupDone, CountsAreNat
  <2>5. fastCountNegedge' < transferLimit'
    <3>1. fastCountNegedge' \in Int /\ totalTime' \in Int
      BY <2>1, <2>n DEF CountsAreNat
    <3>2. transferLimit' \in Int
      BY <3>1 DEF transferLimit
    <3> QED
      BY <3>1, <3>2 DEF processDone
  <2> QED
    BY <2>4, <2>5 DEF dataTransfering
<1> QED
  BY <1>1, DriverInvariance, PTL DEF StopsWhenDone, DriverSpec

\* The chip gets its clock edges in running transactions only, and the bytes
\* of the command with the first six (hyperRamDriver.sv:85-93, 177-184).
THEOREM CommandFirstHolds == DriverSpec => CommandFirst
<1>1. DriverInv /\ [DriverNext]_driverVars =>
        [chipEdges' > chipEdges =>
           /\ enable
           /\ chipEdges' \in 1..6 =>
                commandByte = chipEdges' /\ commandByte' = chipEdges']_driverVars
  <2> SUFFICES ASSUME DriverInv, [DriverNext]_driverVars, chipEdges' > chipEdges
               PROVE  /\ enable
                      /\ chipEdges' \in 1..6 =>
                           commandByte = chipEdges' /\ commandByte' = chipEdges'
    OBVIOUS
  <2>1. DriverTypeOK /\ DriverTypeOK' /\ DriverInv'
    BY DriverTypeStep, DriverInvStep DEF DriverInv
  <2>n. CountsAreNat /\ CountsAreNat'
    BY <2>1, Counts, CountsNext
  <2>2. chipEdges' > 0
    BY <2>1, <2>n DEF CountsAreNat
  <2>3. ~toRamCs' /\ fastCountNegedge' >= 2
    <3>1. EdgesCounted' /\ fastCountNegedge' \in Nat
      BY <2>1, <2>n DEF DriverInv, CountsAreNat
    <3>2. ASSUME toRamCs' \/ fastCountNegedge' < 2 PROVE FALSE
      <4>1. chipEdges' = 0
        BY <3>1, <3>2 DEF EdgesCounted
      <4> QED
        BY <2>2, <4>1
    <3> QED
      BY <3>1, <3>2
  <2>4. enable'
    BY <2>1, <2>3 DEF DriverInv, Draining, toRamCs
  <2>5. ~Clear /\ ~UNCHANGED driverVars
    BY <2>1, <2>n DEF Clear, driverVars, chipVars, CountsAreNat
  <2>6. enable /\ (Fall400 \/ Fall200 \/ FallShifted \/ Hold)
    <3>1. ~Load
      BY <2>4 DEF Load
    <3>2. ~Raise
      <4>1. Raise => fastCountNegedge' = 0
        BY RestedAtRise50 DEF Raise, Rise50
      <4> QED
        BY <4>1, <2>3
    <3> QED
      BY <2>4, <2>5, <3>1, <3>2 DEF DriverNext, Fall400, Fall200, FallShifted, Hold
  <2>7. ~processDone
    BY <2>6 DEF Fall400, Fall200, FallShifted, Hold, To, Settled
  <2>8. CASE Fall400
    <3>1. /\ fastCountNegedge' = IF csDone THEN fastCountNegedge + 1 ELSE 0
          /\ slot % 2 = 0 /\ slot' % 2 = 1
      BY <2>6, <2>8, ByteTime
    <3>2. csDone /\ fastCountNegedge' = fastCountNegedge + 1
      BY <2>3, <3>1
    <3>3. EdgesCounted /\ EdgesCounted' /\ fastCountNegedge \in Nat
      BY <2>1, <2>n DEF DriverInv, CountsAreNat
    <3>4. chipEdges' = fastCountNegedge - 1
      BY <2>3, <3>1, <3>2, <3>3 DEF EdgesCounted
    <3>5. chipEdges = fastCountNegedge - 1
      BY <2>3, <2>7, <3>1, <3>2, <3>3 DEF EdgesCounted, toRamCs
    <3> QED
      BY <3>3, <3>4, <3>5
  <2>9. CASE Fall200 \/ FallShifted \/ Hold
    <3>1. fastCountNegedge' = fastCountNegedge
      BY <2>9 DEF Fall200, FallShifted, Hold, Rise50
    <3>2. slot' % 2 = 0
      BY <2>9 DEF Fall200, FallShifted, Hold, To
    <3>3. chipEdges' = fastCountNegedge - 1
      <4>1. EdgesCounted' /\ fastCountNegedge' \in Nat
        BY <2>1, <2>n DEF DriverInv, CountsAreNat
      <4> QED
        BY <2>3, <3>1, <3>2, <4>1 DEF EdgesCounted
    <3> QED
      BY <2>1, <2>n, <2>6, <3>1, <3>3 DEF commandByte, CountsAreNat
  <2> QED
    BY <2>6, <2>8, <2>9
<1> QED
  BY <1>1, DriverInvariance, PTL DEF CommandFirst, DriverSpec

\* A transaction gives the chip exactly the clock edges of its command, latency
\* and data (hyperRamDriver.sv:62-81, 248-265).
THEOREM ExactEdgesHolds == DriverSpec => ExactEdges
<1>1. DriverInv /\ [DriverNext]_driverVars =>
        [enable /\ ~toRamCs /\ toRamCs' =>
           chipEdges = settingTime - 2 + bytesToTransfer
                         + (IF rwMode THEN 1 ELSE 0)]_driverVars
  <2> SUFFICES ASSUME DriverInv, [DriverNext]_driverVars, enable, ~toRamCs, toRamCs'
               PROVE  chipEdges = settingTime - 2 + bytesToTransfer
                                    + (IF rwMode THEN 1 ELSE 0)
    OBVIOUS
  <2>1. DriverTypeOK /\ DriverTypeOK' /\ ~processDone /\ csCounter >= 2
    BY DriverTypeStep DEF DriverInv, toRamCs, csDone
  <2>n. CountsAreNat /\ CountsAreNat'
    BY <2>1, Counts, CountsNext
  <2>2. /\ UNCHANGED <<enable, rwMode, bytesToTransfer, totalTime>>
        /\ csCounter' \in {csCounter, csCounter + 1}
    BY <2>1, RunningStep
  <2>3. csDone /\ csDone'
    BY <2>1, <2>n, <2>2 DEF csDone, CountsAreNat
  <2>4. processDone' /\ transferLimit' = transferLimit
    BY <2>2, <2>3 DEF toRamCs, transferLimit
  <2>5. fastCountNegedge' # fastCountNegedge
    BY <2>1, <2>4 DEF processDone
  <2>6. Fall400
    BY <2>1, <2>2, <2>5 DEF DriverNext, Fall200, FallShifted, Load, Raise, Hold, Clear,
       Rise50, Settled, driverVars, driverRegs
  <2>7. fastCountNegedge' = fastCountNegedge + 1 /\ slot % 2 = 0
    BY <2>3, <2>6, ByteTime
  <2>8. /\ fastCountNegedge \in 0..2046 /\ transferLimit \in 34..2047
        /\ fastCountNegedge < transferLimit
    BY <2>1, RunningCount
  <2>9. transferLimit = fastCountNegedge + 1
    BY <2>4, <2>7, <2>8 DEF processDone
  <2>10. chipEdges = fastCountNegedge - 1
    BY <2>7, <2>8, <2>9 DEF DriverInv, EdgesCounted
  <2>11. totalTime = 34 + bytesToTransfer /\ bytesToTransfer \in Nat
    BY <2>1, <2>n DEF DriverInv, Bounded, CountsAreNat
  <2>12. CASE rwMode
    BY <2>8, <2>9, <2>10, <2>11, <2>12 DEF transferLimit
  <2>13. CASE ~rwMode
    BY <2>8, <2>9, <2>10, <2>11, <2>13 DEF transferLimit
  <2> QED
    BY <2>12, <2>13
<1> QED
  BY <1>1, DriverInvariance, PTL DEF ExactEdges, DriverSpec

-----------------------------------------------------------------------------
(* The controller.                                                         *)

HIDE DEF Count11, Count13, timeToCs, settingTime, LongestRead
USE DEF RamWords, timeToCs, settingTime, OtherThanState

\* A group of registers that a step leaves alone keeps its types.
LEMMA PartsKept ==
  ASSUME TypeOK
  PROVE  /\ UNCHANGED userVars => UserTypeOK'
         /\ UNCHANGED portVars => PortTypeOK'
         /\ UNCHANGED queueVars => QueueTypeOK'
         /\ UNCHANGED fsmVars => FsmTypeOK'
<1>1. UserTypeOK /\ PortTypeOK /\ QueueTypeOK /\ FsmTypeOK
  BY DEF TypeOK
<1>2. UNCHANGED userVars => UserTypeOK'
  BY <1>1 DEF userVars, UserTypeOK
<1>3. UNCHANGED portVars => PortTypeOK'
  BY <1>1 DEF portVars, PortTypeOK
<1>4. UNCHANGED queueVars => QueueTypeOK'
  BY <1>1 DEF queueVars, QueueTypeOK
<1>5. UNCHANGED fsmVars => FsmTypeOK'
  BY <1>1 DEF fsmVars, FsmTypeOK
<1> QED
  BY <1>2, <1>3, <1>4, <1>5

\* What clk_50 does to the driver's inputs.
LEMMA FsmDrives ==
  ASSUME ControllerInv, SlotZero
  PROVE  DriverNext
<1>1. /\ enable \in BOOLEAN /\ (enable => fsmStateTransfer \in 4..6)
      /\ To({0}) /\ Rise50 /\ Fsm
  BY DEF ControllerInv, TypeOK, DriverTypeOK, StateMatchesDriver, SlotZero
<1>2. CASE UNCHANGED <<enable, rwMode, bytesToTransfer>>
  BY <1>1, <1>2 DEF DriverNext, Hold
<1>3. CASE ~processDone /\ LoadRegisters
  <2>1. ~enable /\ fsmStateTransfer = 3
    BY <1>1, <1>3 DEF LoadRegisters
  <2>2. dataOutFifoQueury.read \in BOOLEAN /\ dataOutFifoQueury.len \in Lengths
    BY <2>1 DEF ControllerInv, Handshake, Transaction
  <2>3. Load
    BY <1>1, <1>3, <2>1, <2>2 DEF Load, LoadRegisters
  <2> QED
    BY <2>3 DEF DriverNext
<1>4. CASE ~processDone /\ WaitSetup
  <2>1. CASE enable
    <3>1. enable' = enable
      BY <1>1, <1>4, <2>1, Zenon DEF WaitSetup
    <3> QED
      BY <1>2, <1>4, <3>1 DEF WaitSetup
  <2>2. CASE ~enable
    <3>1. bytesToTransfer \in Lengths
      BY <1>4 DEF ControllerInv, RegistersLoaded, WaitSetup
    <3>2. Raise
      BY <1>1, <1>4, <2>2, <3>1 DEF Raise, WaitSetup
    <3> QED
      BY <3>2 DEF DriverNext
  <2> QED
    BY <2>1, <2>2
<1> QED
  BY <1>1, <1>2, <1>3, <1>4
     DEF Fsm, InReset, Idle, RequestWord, EndRequest, OpenData, AwaitEnd, Recover

\* Every step of the controller is a step of the driver in its environment, or
\* leaves the driver alone.
LEMMA DriverStep == ControllerInv /\ [Next]_vars => [DriverNext]_driverVars
<1> SUFFICES ASSUME ControllerInv, [Next]_vars PROVE [DriverNext]_driverVars
  OBVIOUS
<1>1. CASE OddSlot \/ SlotTwoOfFour \/ SlotFourOrTwelve \/ SlotEight
  BY <1>1 DEF OddSlot, SlotTwoOfFour, SlotFourOrTwelve, SlotEight, DriverNext
<1>2. CASE SlotZero
  BY <1>2, FsmDrives
<1>3. CASE TransferEnd
  <2>1. CASE ~Settled
    BY <1>3, <2>1 DEF TransferEnd, DriverNext, Clear
  <2>2. CASE Settled
    <3>1. enable = FALSE /\ bytesToTransfer = 0
      <4>1. ~enable /\ bytesToTransfer = 0 /\ enable \in BOOLEAN
        BY <1>3, <2>2 DEF TransferEnd, Settled, ControllerInv, TypeOK, DriverTypeOK
      <4> QED
        BY <4>1, Zenon
    <3> QED
      BY <1>3, <3>1 DEF TransferEnd, driverVars, driverRegs, chipVars
  <2> QED
    BY <2>1, <2>2
<1>4. CASE Withdraw \/ (\E t \in Transaction : Present(t)) \/ UNCHANGED vars
  BY <1>4 DEF Withdraw, Present, vars, driverVars
<1> QED
  BY <1>1, <1>2, <1>3, <1>4 DEF Next, Clocks

-----------------------------------------------------------------------------
(* The invariant of the controller, conjunct by conjunct.                  *)

\* It holds at power-up.
LEMMA ControllerInvInit == Init => ControllerInv
<1> SUFFICES ASSUME Init PROVE ControllerInv
  OBVIOUS
<1>1. DriverInv /\ DriverTypeOK
  BY DriverInvInit DEF Init, DriverInv
<1>2. ~enable /\ fastCountNegedge = 0
  BY DEF Init, DriverInit
<1>3. TypeOK
  <2>1. /\ clockQueury \in BOOLEAN /\ clockQueuryTemp \in BOOLEAN
        /\ WreqFifoQuaury \in BOOLEAN /\ RreqFifoQueury \in BOOLEAN
        /\ clockReadFifoQueury \in BOOLEAN /\ WrenRamRead \in BOOLEAN
        /\ RreqFifoWrite \in BOOLEAN
    BY Zenon DEF Init
  <2>2. RamControlSeqFifo \in Seq(Transaction) /\ Len(RamControlSeqFifo) = 0
    BY DEF Init
  <2>3. controlRegRamDriver \in Command
    BY DEF Init, Command, NoCommand
  <2> QED
    BY <1>1, <2>1, <2>2, <2>3, FifoAssumption
       DEF Init, TypeOK, UserTypeOK, PortTypeOK, QueueTypeOK, FsmTypeOK, DataTypeOK,
           FifoAssumption
<1> QED
  BY <1>1, <1>2, <1>3
     DEF Init, ControllerInv, StateMatchesDriver, Handshake, RegistersLoaded,
         PortHolds

\* The driver's part.
LEMMA DriverInvNext == ControllerInv /\ [Next]_vars => DriverInv' /\ DriverTypeOK'
BY DriverStep, DriverInvStep DEF ControllerInv, DriverInv

\* In states 1 to 3 and while the driver is disabled and at rest.
LEMMA Between ==
  ASSUME ControllerInv
  PROVE  /\ ~enable /\ fsmStateTransfer # 0 =>
              fastCountNegedge = 0 /\ ckRamCounter = 0 /\ ~setupDone
         /\ enable => fsmStateTransfer \in 4..6
         /\ fsmStateTransfer \in 1..3 => ~processDone /\ ~enable
<1>1. DriverTypeOK /\ fsmStateTransfer \in 0..7
  BY DEF ControllerInv, TypeOK, FsmTypeOK
<1>2. enable => fsmStateTransfer \in 4..6
  BY DEF ControllerInv, StateMatchesDriver
<1>3. fsmStateTransfer \in 1..3 => ~processDone /\ ~enable
  BY <1>2 DEF ControllerInv, StateMatchesDriver
<1>4. ASSUME ~enable, fsmStateTransfer # 0
      PROVE  fastCountNegedge = 0 /\ ckRamCounter = 0 /\ ~setupDone
  <2>1. fastCountNegedge = 0
    BY <1>1, <1>4 DEF ControllerInv, StateMatchesDriver, DriverTypeOK
  <2>2. ckRamCounter = 0
    BY <1>4, <2>1 DEF ControllerInv, DriverInv, Draining
  <2> QED
    BY <2>1, <2>2 DEF setupDone
<1> QED
  BY <1>2, <1>3, <1>4

\* The word written to the queue, if any, is a transaction, and fits.
LEMMA WrittenWord ==
  ASSUME ControllerInv, PortRise50
  PROVE  /\ Written = <<>> \/ Written = <<request>>
         /\ Written # <<>> => /\ request \in Transaction
                              /\ Len(RamControlSeqFifo) < FifoDepth
<1>1. CASE /\ ~clockQueuryTemp /\ clockQueuryTemp' /\ WreqFifoQuaury
           /\ Len(RamControlSeqFifo) < FifoDepth
  <2>1. clockQueury /\ dataInputQueuryInput' = request
    BY <1>1, Zenon DEF PortRise50
  <2>2. request \in Transaction
    BY <2>1 DEF ControllerInv, PortHolds
  <2> QED
    BY <1>1, <2>1, <2>2 DEF Written
<1>2. CASE ~(/\ ~clockQueuryTemp /\ clockQueuryTemp' /\ WreqFifoQuaury
             /\ Len(RamControlSeqFifo) < FifoDepth)
  BY <1>2 DEF Written
<1> QED
  BY <1>1, <1>2

\* The queue after a rising edge of clk_50.
LEMMA QueueTypes ==
  ASSUME ControllerInv, PortRise50, QueueStep
  PROVE  /\ RamControlSeqFifo' \in Seq(Transaction)
         /\ Len(RamControlSeqFifo') <= FifoDepth
         /\ ~ReadsQueue => /\ UNCHANGED dataOutFifoQueury
                           /\ RamControlSeqFifo # <<>> => RamControlSeqFifo' # <<>>
         /\ ReadsQueue => dataOutFifoQueury' \in Transaction
         /\ emptyAtReadClock' \in BOOLEAN
         /\ ~emptyAtReadClock' => RamControlSeqFifo' # <<>>
<1> DEFINE q == RamControlSeqFifo
           Moved == /\ q' \in Seq(Transaction) /\ Len(q') <= FifoDepth
                    /\ ~ReadsQueue => /\ UNCHANGED dataOutFifoQueury
                                      /\ q # <<>> => q' # <<>>
                    /\ ReadsQueue => dataOutFifoQueury' \in Transaction
<1>1. q \in Seq(Transaction) /\ Len(q) <= FifoDepth /\ FifoDepth \in Nat \ {0}
  BY FifoAssumption DEF ControllerInv, TypeOK, QueueTypeOK, FifoAssumption
<1>2. /\ Written \in Seq(Transaction)
      /\ Len(Written) = 0 \/ (Len(Written) = 1 /\ Len(q) < FifoDepth)
  <2>1. Written = <<>> \/ Written = <<request>>
    BY WrittenWord
  <2>2. Written # <<>> => request \in Transaction /\ Len(q) < FifoDepth
    BY WrittenWord
  <2>3. CASE Written = <<>>
    BY <2>3
  <2>4. CASE Written # <<>>
    <3>1. /\ request \in Transaction /\ Len(q) < FifoDepth
          /\ Written = <<request>>
      BY <2>1, <2>2, <2>4
    <3>2. <<request>> \in Seq(Transaction) /\ Len(<<request>>) = 1
      BY <3>1
    <3> QED
      BY <3>1, <3>2
  <2> QED
    BY <2>3, <2>4
<1>3. ASSUME ReadsQueue PROVE Moved
  <2>1. q # <<>> /\ q' = Tail(q) \o Written /\ dataOutFifoQueury' = Head(q)
    BY <1>3 DEF ReadsQueue, QueueStep
  <2>2. /\ Tail(q) \in Seq(Transaction) /\ Len(Tail(q)) = Len(q) - 1
        /\ Head(q) \in Transaction
    BY <1>1, <2>1
  <2>3. q' \in Seq(Transaction) /\ Len(q') = Len(Tail(q)) + Len(Written)
    BY <1>2, <2>1, <2>2
  <2>4. Len(q') <= FifoDepth
    <3> HIDE DEF q
    <3>1. Len(q) \in Nat
      BY <1>1
    <3>2. CASE Len(Written) = 0
      BY <3>1, <3>2, <1>1, <2>2, <2>3
    <3>3. CASE Len(Written) = 1 /\ Len(q) < FifoDepth
      BY <3>1, <3>3, <1>1, <2>2, <2>3
    <3> QED
      BY <3>2, <3>3, <1>2
  <2> QED
    BY <1>3, <2>1, <2>2, <2>3, <2>4
<1>4. ASSUME ~ReadsQueue PROVE Moved
  <2>1. q' = q \o Written /\ UNCHANGED dataOutFifoQueury
    BY <1>4 DEF QueueStep
  <2>2. q' \in Seq(Transaction) /\ Len(q') = Len(q) + Len(Written)
    BY <1>1, <1>2, <2>1
  <2>3. Len(q) \in Nat /\ (Len(q) = 0 <=> q = <<>>) /\ (Len(q') = 0 <=> q' = <<>>)
    BY <1>1, <2>2
  <2>4. Len(q') <= FifoDepth /\ (q # <<>> => q' # <<>>)
    <3> HIDE DEF q
    <3>1. CASE Len(Written) = 0
      BY <3>1, <1>1, <2>2, <2>3
    <3>2. CASE Len(Written) = 1 /\ Len(q) < FifoDepth
      BY <3>2, <1>1, <2>2, <2>3
    <3> QED
      BY <3>1, <3>2, <1>2
  <2> QED
    BY <1>4, <2>1, <2>2, <2>4
<1>5. emptyAtReadClock' \in BOOLEAN /\ (~emptyAtReadClock' => q' # <<>>)
  <2>1. CASE ReadClock
    <3>1. emptyAtReadClock' = (q' = <<>>)
      BY <2>1 DEF QueueStep
    <3> QED
      BY <3>1
  <2>2. CASE ~ReadClock
    <3>1. emptyAtReadClock' = emptyAtReadClock
      BY <2>2 DEF QueueStep
    <3>2. ~emptyAtReadClock => q # <<>>
      BY DEF ControllerInv, Handshake
    <3>3. ~ReadsQueue /\ emptyAtReadClock \in BOOLEAN
      BY <2>2 DEF ReadsQueue, ControllerInv, TypeOK, QueueTypeOK
    <3> QED
      BY <1>4, <3>1, <3>2, <3>3
  <2> QED
    BY <2>1, <2>2
<1> QED
  BY <1>3, <1>4, <1>5

\* The data path's registers.
LEMMA DataTypes ==
  ASSUME TypeOK, Rise400 \/ UNCHANGED dataVars, Rise200 \/ UNCHANGED numInQueuryInfo
  PROVE  DataTypeOK'
<1>1. /\ adrWriteRamRead \in 0..4095 /\ moved \in Nat
      /\ numInQueuryInfo \in 0..(FifoDepth - 1)
  BY DEF TypeOK, DataTypeOK
<1>2. numInQueuryInfo' \in 0..(FifoDepth - 1)
  <2>1. Len(RamControlSeqFifo) \in Nat /\ FifoDepth \in Nat \ {0}
    BY FifoAssumption DEF TypeOK, QueueTypeOK, FifoAssumption
  <2>2. Len(RamControlSeqFifo) % FifoDepth \in 0..(FifoDepth - 1)
    BY <2>1
  <2> QED
    BY <1>1, <2>2 DEF Rise200
<1>3. adrWriteRamRead' \in 0..4095
  <2>1. adrWriteRamRead' \in {adrWriteRamRead, (adrWriteRamRead + 1) % 4096}
    BY DEF Rise400, dataVars
  <2>2. (adrWriteRamRead + 1) % 4096 \in 0..4095
    BY <1>1
  <2> QED
    BY <1>1, <2>1, <2>2
<1>5. moved' \in Nat
  <2>1. moved' \in {0, moved, moved + 1}
    BY DEF Rise400, dataVars
  <2> QED
    BY <1>1, <2>1
<1> QED
  BY <1>2, <1>3, <1>5 DEF DataTypeOK

\* A set-up that is over stays over while the transaction runs.
LEMMA SetupKept ==
  ASSUME ControllerInv, [Next]_vars, enable, ~processDone, setupDone
  PROVE  setupDone' /\ UNCHANGED <<enable, rwMode, bytesToTransfer>>
<1>1. DriverInv /\ DriverTypeOK /\ [DriverNext]_driverVars
  BY DriverStep DEF ControllerInv, DriverInv
<1>2. /\ UNCHANGED <<enable, rwMode, bytesToTransfer>>
      /\ ckRamCounter' \in {ckRamCounter, ckRamCounter + 1}
  BY <1>1, RunningStep
<1>3. ckRamCounter \in Nat
  BY <1>1 DEF DriverTypeOK
<1> QED
  BY <1>2, <1>3 DEF setupDone

\* The edges at which neither the state machine nor the port is clocked.
LEMMA EdgeFacts ==
  ASSUME OddSlot \/ SlotTwoOfFour \/ SlotFourOrTwelve \/ SlotEight
  PROVE  /\ UNCHANGED <<enable, rwMode, bytesToTransfer, totalTime, fsmVars,
                        queueVars, userVars, dataInputQueuryInput, clockQueuryTemp>>
         /\ Quiet
         /\ ~enable => fastCountNegedge' \in {0, fastCountNegedge}
         /\ Rise400 \/ UNCHANGED dataVars
         /\ Rise200 \/ UNCHANGED numInQueuryInfo
         /\ Fall50 \/ UNCHANGED WreqFifoQuaury
BY DEF OddSlot, SlotTwoOfFour, SlotFourOrTwelve, SlotEight, Fall400, Fall200,
       FallShifted, FastCountEdge, portVars

LEMMA ControllerInvEdge ==
  ASSUME ControllerInv, OddSlot \/ SlotTwoOfFour \/ SlotFourOrTwelve \/ SlotEight
  PROVE  ControllerInv'
<1>1. TypeOK /\ StateMatchesDriver /\ Handshake /\ RegistersLoaded /\ PortHolds
      /\ DriverTypeOK
  BY DEF ControllerInv, TypeOK
<1>2. DriverInv' /\ DriverTypeOK' /\ [Next]_vars
  BY DriverInvNext DEF Next, Clocks
<1>3. /\ UNCHANGED <<enable, rwMode, bytesToTransfer, totalTime>>
      /\ UNCHANGED <<fsmVars, queueVars, userVars, dataInputQueuryInput,
                     clockQueuryTemp>>
      /\ ~enable => fastCountNegedge' \in {0, fastCountNegedge}
      /\ Quiet
  BY EdgeFacts
<1>4. TypeOK'
  <2>1. WreqFifoQuaury' \in BOOLEAN
    <3>1. CASE Fall50
      <4>1. CASE clockQueury
        BY <3>1, <4>1, Zenon DEF Fall50
      <4>2. CASE ~clockQueury /\ clockQueuryTemp
        BY <3>1, <4>2, Zenon DEF Fall50
      <4>3. CASE ~clockQueury /\ ~clockQueuryTemp
        <5>1. WreqFifoQuaury' = WreqFifoQuaury
          BY <3>1, <4>3 DEF Fall50
        <5> QED
          BY <1>1, <5>1 DEF TypeOK, PortTypeOK
      <4> QED
        BY <4>1, <4>2, <4>3
    <3>2. CASE UNCHANGED WreqFifoQuaury
      BY <1>1, <3>2 DEF TypeOK, PortTypeOK
    <3> QED
      BY <3>1, <3>2, EdgeFacts
  <2>2. DataTypeOK'
    <3>1. /\ Rise400 \/ UNCHANGED dataVars
          /\ Rise200 \/ UNCHANGED numInQueuryInfo
      BY EdgeFacts
    <3> QED
      BY <1>1, <3>1, DataTypes
  <2>3. UserTypeOK' /\ QueueTypeOK' /\ FsmTypeOK'
    <3>1. UNCHANGED userVars /\ UNCHANGED queueVars /\ UNCHANGED fsmVars
      BY <1>3
    <3> QED
      BY <1>1, <3>1, PartsKept
  <2>4. PortTypeOK'
    <3>1. PortTypeOK /\ UNCHANGED <<dataInputQueuryInput, clockQueuryTemp>>
      BY <1>1, <1>3 DEF TypeOK
    <3> QED
      BY <2>1, <3>1 DEF PortTypeOK
  <2> QED
    BY <1>2, <2>2, <2>3, <2>4 DEF TypeOK
<1>5. UNCHANGED <<fsmStateTransfer, WrenRamRead, RreqFifoWrite, RreqFifoQueury,
                  clockReadFifoQueury, controlRegRamDriver, RamControlSeqFifo,
                  dataOutFifoQueury, emptyAtReadClock, clockQueury, request>>
  BY <1>3 DEF fsmVars, queueVars, userVars
<1>6. StateMatchesDriver'
  <2>1. fsmStateTransfer \in {5, 6} => enable' /\ setupDone'
    <3> SUFFICES ASSUME fsmStateTransfer \in {5, 6} PROVE enable' /\ setupDone'
      OBVIOUS
    <3>1. enable /\ setupDone
      BY <1>1 DEF StateMatchesDriver
    <3>2. ~processDone
      BY <1>3, <3>1 DEF Quiet, Cleared
    <3> QED
      BY <1>2, <1>3, <3>1, <3>2, SetupKept
  <2>2. ~enable /\ fastCountNegedge' > 0 => fsmStateTransfer = 0
    BY <1>1, <1>3 DEF StateMatchesDriver
  <2>3. fsmStateTransfer \in 1..3 => ~processDone'
    <3> SUFFICES ASSUME fsmStateTransfer \in 1..3 PROVE ~processDone'
      OBVIOUS
    <3>1. ~enable /\ fastCountNegedge = 0 /\ ~processDone
      BY Between
    <3>2. fastCountNegedge' = 0
      BY <1>3, <3>1
    <3> QED
      BY <1>3, <3>1, <3>2 DEF processDone, transferLimit
  <2> QED
    BY <1>1, <1>3, <1>5, <2>1, <2>2, <2>3 DEF StateMatchesDriver
<1>7. Handshake' /\ RegistersLoaded' /\ PortHolds'
  BY <1>1, <1>3, <1>5 DEF Handshake, RegistersLoaded, PortHolds
<1> QED
  BY <1>2, <1>4, <1>6, <1>7 DEF ControllerInv

LEMMA ControllerInvUser ==
  ASSUME ControllerInv,
         Withdraw \/ (\E t \in Transaction : Present(t)) \/ UNCHANGED vars
  PROVE  ControllerInv'
<1>1. TypeOK /\ StateMatchesDriver /\ Handshake /\ RegistersLoaded /\ PortHolds
  BY DEF ControllerInv
<1>2. DriverInv' /\ DriverTypeOK' /\ [Next]_vars
  BY DriverInvNext DEF Next
<1>3. UNCHANGED <<driverVars, portVars, queueVars, fsmVars, dataVars,
                  numInQueuryInfo>>
  BY DEF Withdraw, Present, vars
<1>4. /\ clockQueury' \in BOOLEAN /\ issued' \in 0..MaxRequests
      /\ request' \in Transaction \cup {PowerUpWord}
      /\ clockQueury' => request' \in Transaction
  <2>1. CASE Withdraw
    <3>1. clockQueury' = FALSE /\ UNCHANGED <<request, issued>>
      BY <2>1 DEF Withdraw
    <3>2. clockQueury' \in BOOLEAN /\ ~clockQueury'
      BY <3>1, Zenon
    <3> QED
      BY <1>1, <3>1, <3>2 DEF TypeOK, UserTypeOK
  <2>2. ASSUME NEW t \in Transaction, Present(t) PROVE <1>4!:
    <3>1. issued \in 0..MaxRequests /\ issued < MaxRequests /\ MaxRequests \in Nat
      BY <1>1, <2>2, FifoAssumption DEF TypeOK, UserTypeOK, Present, FifoAssumption
    <3>2. clockQueury' = TRUE /\ request' = t /\ issued' = issued + 1
      BY <2>2 DEF Present
    <3> QED
      BY <3>1, <3>2
  <2>3. CASE UNCHANGED vars
    BY <1>1, <2>3 DEF vars, userVars, TypeOK, UserTypeOK, PortHolds
  <2> QED
    BY <2>1, <2>2, <2>3
<1>5. TypeOK'
  <2>1. PortTypeOK' /\ QueueTypeOK' /\ FsmTypeOK'
    BY <1>1, <1>3, PartsKept
  <2>2. DataTypeOK'
    BY <1>1, <1>3, DataTypes
  <2>3. UserTypeOK'
    BY <1>4 DEF UserTypeOK
  <2> QED
    BY <1>2, <2>1, <2>2, <2>3 DEF TypeOK
<1>6. /\ setupDone' <=> setupDone
      /\ processDone' <=> processDone
  BY <1>3 DEF driverVars, driverRegs, setupDone, processDone, transferLimit
<1>7. UNCHANGED <<fsmStateTransfer, WrenRamRead, RreqFifoWrite, RreqFifoQueury,
                  clockReadFifoQueury, controlRegRamDriver, RamControlSeqFifo,
                  dataOutFifoQueury, emptyAtReadClock, enable, rwMode, bytesToTransfer,
                  fastCountNegedge>>
  BY <1>3 DEF fsmVars, queueVars, driverVars, driverRegs
<1>8. StateMatchesDriver'
  BY <1>1, <1>6, <1>7 DEF StateMatchesDriver
<1>9. Handshake' /\ RegistersLoaded' /\ PortHolds'
  BY <1>1, <1>4, <1>7 DEF Handshake, RegistersLoaded, PortHolds
<1> QED
  BY <1>2, <1>5, <1>8, <1>9 DEF ControllerInv

\* A transfer ends while a transaction runs or none does, never while the state
\* machine takes a word from the queue.
LEMMA ControllerInvTransferEnd ==
  ASSUME ControllerInv, TransferEnd
  PROVE  ControllerInv'
<1>1. TypeOK /\ StateMatchesDriver /\ Handshake /\ PortHolds
  BY DEF ControllerInv
<1>2. DriverInv' /\ DriverTypeOK' /\ [Next]_vars
  BY DriverInvNext DEF Next
<1>3. /\ UNCHANGED <<userVars, portVars, queueVars, dataVars, numInQueuryInfo,
                     RreqFifoQueury, clockReadFifoQueury, adrReadInfo>>
      /\ fsmStateTransfer' = 0 /\ controlRegRamDriver' = NoCommand
      /\ ~WrenRamRead' /\ ~RreqFifoWrite' /\ ~enable'
  BY DEF TransferEnd
<1>4. WrenRamRead' \in BOOLEAN /\ RreqFifoWrite' \in BOOLEAN
  BY Zenon DEF TransferEnd
<1>5. TypeOK'
  <2>1. UserTypeOK' /\ PortTypeOK' /\ QueueTypeOK'
    BY <1>1, <1>3, PartsKept
  <2>2. DataTypeOK'
    BY <1>1, <1>3, DataTypes
  <2>3. FsmTypeOK /\ NoCommand \in Command
    BY <1>1 DEF TypeOK, Command, NoCommand
  <2>4. FsmTypeOK'
    BY <1>3, <1>4, <2>3 DEF FsmTypeOK
  <2> QED
    BY <1>2, <2>1, <2>2, <2>4 DEF TypeOK
<1>6. StateMatchesDriver'
  BY <1>3 DEF StateMatchesDriver
<1>7. ~RreqFifoQueury /\ ~clockReadFifoQueury
  <2>1. fsmStateTransfer \notin 1..3
    BY Between DEF TransferEnd
  <2> QED
    BY <1>1, <2>1 DEF Handshake
<1>8. Handshake' /\ RegistersLoaded' /\ PortHolds'
  BY <1>1, <1>3, <1>7
     DEF Handshake, RegistersLoaded, PortHolds, userVars, queueVars
<1> QED
  BY <1>2, <1>5, <1>6, <1>8 DEF ControllerInv

\* The state machine's registers after a rising edge of clk_50.
LEMMA FsmTypes ==
  ASSUME ControllerInv, Fsm
  PROVE  FsmTypeOK'
<1>1. FsmTypeOK /\ rwMode \in BOOLEAN /\ adrWriteRamRead \in 0..(RamWords - 1)
  BY DEF TypeOK, ControllerInv, DriverTypeOK, DataTypeOK
<1>2. CASE InReset
  BY <1>1, <1>2 DEF InReset, fsmVars, FsmTypeOK
<1>3. CASE Idle
  BY <1>1, <1>3 DEF Idle, FsmTypeOK
<1>4. CASE RequestWord
  <2>1. fsmStateTransfer' \in 0..7
    BY <1>1, <1>4 DEF RequestWord
  <2>2. RreqFifoQueury' \in BOOLEAN /\ clockReadFifoQueury' \in BOOLEAN
    <3>1. CASE RreqFifoQueury
      BY <1>4, <3>1, Zenon DEF RequestWord
    <3>2. CASE ~RreqFifoQueury
      <4>1. RreqFifoQueury' = TRUE /\ clockReadFifoQueury' = clockReadFifoQueury
        BY <1>4, <3>2 DEF RequestWord
      <4>2. RreqFifoQueury' \in BOOLEAN
        BY <4>1, Zenon
      <4> QED
        BY <1>1, <4>1, <4>2 DEF FsmTypeOK
    <3> QED
      BY <3>1, <3>2
  <2> QED
    BY <1>1, <1>4, <2>1, <2>2 DEF RequestWord, FsmTypeOK
<1>5. CASE EndRequest
  <2>1. RreqFifoQueury' \in BOOLEAN /\ clockReadFifoQueury' \in BOOLEAN
    BY <1>5, Zenon DEF EndRequest
  <2> QED
    BY <1>1, <1>5, <2>1 DEF EndRequest, FsmTypeOK
<1>6. CASE LoadRegisters
  <2>1. dataOutFifoQueury \in Transaction
    BY <1>6 DEF LoadRegisters, ControllerInv, Handshake
  <2>2. controlRegRamDriver' \in Command
    BY <1>6, <2>1 DEF LoadRegisters, Transaction, Command
  <2> QED
    BY <1>1, <1>6, <2>2 DEF LoadRegisters, FsmTypeOK
<1>7. CASE WaitSetup
  BY <1>1, <1>7 DEF WaitSetup, FsmTypeOK
<1>8. CASE OpenData
  <2>1. RreqFifoWrite' \in BOOLEAN
    BY <1>8, Zenon DEF OpenData
  <2> QED
    BY <1>1, <1>8, <2>1 DEF OpenData, FsmTypeOK
<1>9. CASE AwaitEnd
  BY <1>1, <1>9 DEF AwaitEnd, FsmTypeOK
<1>10. CASE Recover
  BY <1>1, <1>10 DEF Recover, FsmTypeOK
<1> QED
  BY <1>2, <1>3, <1>4, <1>5, <1>6, <1>7, <1>8, <1>9, <1>10 DEF Fsm

\* A word is taken from the queue when state 1 is left, and at no other time.
LEMMA WhenRead ==
  ASSUME ControllerInv, SlotZero
  PROVE  /\ ReadsQueue <=> ~processDone /\ RequestWord /\ RreqFifoQueury
         /\ ReadsQueue => fsmStateTransfer = 1 /\ fsmStateTransfer' = 2
<1>1. /\ Fsm /\ Handshake /\ StateMatchesDriver
      /\ clockReadFifoQueury \in BOOLEAN
  BY DEF SlotZero, ControllerInv, TypeOK, FsmTypeOK
<1>2. CASE ~processDone /\ RequestWord
  <2>1. fsmStateTransfer = 1 /\ ~clockReadFifoQueury /\ RamControlSeqFifo # <<>>
    BY <1>1, <1>2 DEF RequestWord, Handshake
  <2>2. CASE RreqFifoQueury
    <3>1. clockReadFifoQueury' = TRUE /\ fsmStateTransfer' = 2
      BY <1>2, <2>2 DEF RequestWord
    <3> QED
      BY <1>2, <2>1, <2>2, <3>1 DEF ReadsQueue, ReadClock
  <2>3. CASE ~RreqFifoQueury
    BY <2>3 DEF ReadsQueue
  <2> QED
    BY <2>2, <2>3
<1>3. CASE ~(~processDone /\ RequestWord)
  <2>1. clockReadFifoQueury' = clockReadFifoQueury \/ ~clockReadFifoQueury'
    BY <1>1, <1>3 DEF Fsm, InReset, Idle, EndRequest, LoadRegisters, WaitSetup,
       OpenData, AwaitEnd, Recover, fsmVars
  <2> QED
    BY <1>3, <2>1 DEF ReadsQueue, ReadClock
<1> QED
  BY <1>2, <1>3

LEMMA ControllerInvSlotZero ==
  ASSUME ControllerInv, SlotZero
  PROVE  ControllerInv'
<1>1. TypeOK /\ DriverTypeOK /\ StateMatchesDriver /\ Handshake /\ RegistersLoaded
      /\ PortHolds
  BY DEF ControllerInv, TypeOK
<1>2. DriverInv' /\ DriverTypeOK' /\ [Next]_vars
  BY DriverInvNext DEF Next, Clocks
<1>3. /\ Quiet /\ To({0}) /\ PortRise50 /\ Fsm /\ QueueStep
      /\ Rise400 /\ Rise200 /\ Rise50 /\ UNCHANGED userVars
      /\ fastCountNegedge' = fastCountNegedge
  BY DEF SlotZero, Rise50
<1>4. /\ RamControlSeqFifo' \in Seq(Transaction)
      /\ Len(RamControlSeqFifo') <= FifoDepth
      /\ ~ReadsQueue => /\ UNCHANGED dataOutFifoQueury
                        /\ RamControlSeqFifo # <<>> => RamControlSeqFifo' # <<>>
      /\ ReadsQueue => dataOutFifoQueury' \in Transaction
      /\ emptyAtReadClock' \in BOOLEAN
      /\ ~emptyAtReadClock' => RamControlSeqFifo' # <<>>
      /\ flagsNeedReadClock' = flagsNeedReadClock
  BY <1>3, QueueTypes DEF QueueStep
<1>5. TypeOK'
  <2>1. PortTypeOK'
    <3>1. PortTypeOK /\ UserTypeOK
      BY <1>1 DEF TypeOK
    <3> QED
      BY <1>3, <3>1 DEF PortRise50, PortTypeOK, UserTypeOK
  <2>2. QueueTypeOK'
    <3>1. QueueTypeOK
      BY <1>1 DEF TypeOK
    <3> QED
      BY <1>4, <3>1 DEF QueueTypeOK
  <2>3. FsmTypeOK'
    BY <1>3, FsmTypes
  <2>4. DataTypeOK'
    BY <1>1, <1>3, DataTypes
  <2>5. UserTypeOK'
    BY <1>1, <1>3, PartsKept
  <2> QED
    BY <1>2, <2>1, <2>2, <2>3, <2>4, <2>5 DEF TypeOK
<1>6. PortHolds'
  BY <1>1, <1>3 DEF PortHolds, userVars
<1>7. /\ ReadsQueue => ~processDone /\ fsmStateTransfer = 1 /\ fsmStateTransfer' = 2
      /\ ~processDone /\ RequestWord /\ RreqFifoQueury => ReadsQueue
  BY WhenRead DEF RequestWord
<1>8. StateMatchesDriver' /\ Handshake' /\ RegistersLoaded'
  <2>1. CASE InReset
    <3>1. Cleared /\ UNCHANGED <<enable, rwMode, bytesToTransfer, fsmVars>>
      BY <1>3, <2>1 DEF InReset, Quiet
    <3> QED
      BY <1>1, <1>3, <1>4, <1>7, <3>1
         DEF Cleared, fsmVars, StateMatchesDriver, Handshake, RegistersLoaded
  <2>2. CASE ~processDone /\ Idle
    <3>1. ~enable
      BY <1>1, <2>2 DEF Idle, StateMatchesDriver
    <3>2. ~processDone'
      BY <1>3, <2>2, <3>1
         DEF Idle, Rise50, TotalTimeEdge, processDone, transferLimit
    <3>3. fastCountNegedge = 0
      BY <1>3, <2>2, <3>1, RestedAtRise50 DEF ControllerInv
    <3>4. ~emptyFlagFifoQueury => RamControlSeqFifo # <<>>
      BY <1>1 DEF emptyFlagFifoQueury, Handshake
    <3> QED
      BY <1>1, <1>3, <1>4, <1>7, <2>2, <3>1, <3>2, <3>3, <3>4
         DEF Idle, StateMatchesDriver, Handshake, RegistersLoaded
  <2>3. CASE ~processDone /\ RequestWord
    <3>1. ~enable /\ fsmStateTransfer = 1 /\ fastCountNegedge = 0
      BY <2>3, Between DEF RequestWord
    <3>2. ~processDone'
      BY <1>3, <2>3, <3>1
         DEF RequestWord, Rise50, TotalTimeEdge, processDone, transferLimit
    <3> QED
      BY <1>1, <1>3, <1>4, <1>7, <2>3, <3>1, <3>2
         DEF RequestWord, StateMatchesDriver, Handshake, RegistersLoaded
  <2>4. CASE ~processDone /\ EndRequest
    <3>1. ~enable /\ fsmStateTransfer = 2 /\ fastCountNegedge = 0
      BY <2>4, Between DEF EndRequest
    <3>2. ~processDone'
      BY <1>3, <2>4, <3>1
         DEF EndRequest, Rise50, TotalTimeEdge, processDone, transferLimit
    <3> QED
      BY <1>1, <1>3, <1>4, <1>7, <2>4, <3>1, <3>2
         DEF EndRequest, StateMatchesDriver, Handshake, RegistersLoaded
  <2>5. CASE ~processDone /\ LoadRegisters
    <3>1. ~enable /\ fsmStateTransfer = 3 /\ fastCountNegedge = 0
      BY <2>5, Between DEF LoadRegisters
    <3>2. dataOutFifoQueury \in Transaction
      BY <1>1, <3>1 DEF Handshake
    <3>3. bytesToTransfer' \in Lengths
          /\ controlRegRamDriver' \in [read : {rwMode'}, adr : Addresses]
      BY <2>5, <3>2 DEF LoadRegisters, Transaction
    <3> QED
      BY <1>1, <1>3, <1>4, <1>7, <2>5, <3>1, <3>3
         DEF LoadRegisters, StateMatchesDriver, Handshake, RegistersLoaded
  <2>6. CASE ~processDone /\ WaitSetup
    <3>1. fsmStateTransfer = 4 /\ fsmStateTransfer' \in {4, 5}
      BY <2>6 DEF WaitSetup
    <3>2. fsmStateTransfer' = 5 => setupDone'
      <4> SUFFICES ASSUME fsmStateTransfer' = 5 PROVE setupDone'
        OBVIOUS
      <4>1. setupDone
        BY <2>6 DEF WaitSetup
      <4>2. enable
        BY <3>1, <4>1, Between
      <4> QED
        BY <1>2, <2>6, <4>1, <4>2, SetupKept
    <3> QED
      BY <1>1, <1>3, <1>4, <1>7, <2>6, <3>1, <3>2
         DEF WaitSetup, StateMatchesDriver, Handshake, RegistersLoaded
  <2>7. CASE ~processDone /\ OpenData
    <3>1. fsmStateTransfer = 5 /\ fsmStateTransfer' = 6 /\ enable /\ setupDone
      BY <1>1, <2>7 DEF OpenData, StateMatchesDriver
    <3>2. setupDone'
      BY <1>2, <2>7, <3>1, SetupKept
    <3> QED
      BY <1>1, <1>3, <1>4, <1>7, <2>7, <3>1, <3>2
         DEF OpenData, StateMatchesDriver, Handshake, RegistersLoaded
  <2>8. CASE ~processDone /\ AwaitEnd
    <3>1. fsmStateTransfer = 6 /\ enable /\ setupDone
      BY <1>1, <2>8 DEF AwaitEnd, StateMatchesDriver
    <3>2. dataTransfering /\ fsmStateTransfer' = 6
      <4>1. transferLimit \in 34..2047 /\ fastCountNegedge < transferLimit
        BY <2>8, <3>1, RunningCount DEF ControllerInv
      <4> QED
        BY <2>8, <3>1, <4>1 DEF AwaitEnd, dataTransfering
    <3>3. setupDone'
      BY <1>2, <2>8, <3>1, SetupKept
    <3> QED
      BY <1>1, <1>3, <1>4, <1>7, <2>8, <3>1, <3>2, <3>3
         DEF AwaitEnd, StateMatchesDriver, Handshake, RegistersLoaded
  <2>9. CASE ~processDone /\ Recover
    <3>1. fsmStateTransfer' = 0 /\ ~enable
      BY <1>1, <2>9 DEF Recover, StateMatchesDriver
    <3> QED
      BY <1>1, <1>3, <1>4, <1>7, <2>9, <3>1
         DEF Recover, StateMatchesDriver, Handshake, RegistersLoaded
  <2> QED
    BY <1>3, <2>1, <2>2, <2>3, <2>4, <2>5, <2>6, <2>7, <2>8, <2>9 DEF Fsm
<1> QED
  BY <1>2, <1>5, <1>6, <1>8 DEF ControllerInv

LEMMA ControllerInvStep == ControllerInv /\ [Next]_vars => ControllerInv'
BY ControllerInvEdge, ControllerInvSlotZero, ControllerInvTransferEnd,
   ControllerInvUser DEF Next, Clocks

\* The state machine, the queue and the driver agree in every reachable state
\* (hyperRAMcontroller.sv:110-206).
THEOREM ControllerInvariance == Spec => []ControllerInv
BY ControllerInvInit, ControllerInvStep, PTL DEF Spec

\* The controller gives its driver the environment in which the theorems about
\* the driver hold (hyperRAMcontroller.sv:110-206, 251-279).
THEOREM ImplementsDriver == Spec => DriverSpec
<1>1. Init => DriverInit
  BY DEF Init
<1> QED
  BY <1>1, DriverStep, ControllerInvariance, PTL DEF Spec, DriverSpec

-----------------------------------------------------------------------------
(* The controller implements TransactionQueue.                             *)

\* Writing to the queue appends the request or nothing.
LEMMA WrittenIsAppended ==
  ASSUME ControllerInv, PortRise50, NEW q \in Seq(Transaction)
  PROVE  \/ q \o Written = q
         \/ /\ request \in Transaction /\ Len(RamControlSeqFifo) < FifoDepth
            /\ q \o Written = Append(q, request)
<1>1. CASE Written = <<>>
  <2>1. q \o <<>> = q
    OBVIOUS
  <2> QED
    BY <1>1, <2>1
<1>2. CASE Written # <<>>
  <2>1. /\ Written = <<request>> /\ request \in Transaction
        /\ Len(RamControlSeqFifo) < FifoDepth
    BY <1>2, WrittenWord
  <2>2. q \o <<request>> = Append(q, request)
    BY <2>1
  <2> QED
    BY <2>1, <2>2
<1> QED
  BY <1>1, <1>2

\* What runs, and when it may change.
LEMMA RunningKept ==
  ASSUME ControllerInv, SlotZero, ~ReadsQueue
  PROVE  running' = running
<1>1. /\ Quiet /\ Fsm /\ QueueStep /\ Handshake /\ StateMatchesDriver
      /\ fsmStateTransfer \in 0..7
  BY DEF SlotZero, ControllerInv, TypeOK, FsmTypeOK
<1>2. dataOutFifoQueury' = dataOutFifoQueury
  BY <1>1 DEF QueueStep
<1>3. CASE InReset
  BY <1>2, <1>3 DEF InReset, fsmVars, running
<1>4. CASE ~processDone /\ Idle
  BY <1>4 DEF Idle, running
<1>5. CASE ~processDone /\ RequestWord
  <2>1. fsmStateTransfer = 1 /\ fsmStateTransfer' = 1
    BY <1>5, WhenRead DEF RequestWord
  <2> QED
    BY <2>1 DEF running
<1>6. CASE ~processDone /\ EndRequest
  BY <1>2, <1>6 DEF EndRequest, running
<1>7. CASE ~processDone /\ LoadRegisters
  <2>1. fsmStateTransfer = 3 /\ fsmStateTransfer' = 4
    BY <1>7 DEF LoadRegisters
  <2>2. dataOutFifoQueury \in Transaction
    BY <1>1, <2>1 DEF Handshake
  <2>3. dataOutFifoQueury = [read |-> rwMode', adr |-> controlRegRamDriver'.adr,
                             len |-> bytesToTransfer']
    BY <1>7, <2>2 DEF LoadRegisters, Transaction
  <2> QED
    BY <2>1, <2>3 DEF running
<1>8. CASE ~processDone /\ (WaitSetup \/ OpenData)
  BY <1>8 DEF WaitSetup, OpenData, running
<1>9. CASE ~processDone /\ AwaitEnd
  <2>1. fsmStateTransfer = 6 /\ enable /\ setupDone
    BY <1>1, <1>9 DEF AwaitEnd, StateMatchesDriver
  <2>2. transferLimit \in 34..2047 /\ fastCountNegedge < transferLimit
    BY <1>9, <2>1, RunningCount DEF ControllerInv
  <2>3. fsmStateTransfer' = 6
    BY <1>9, <2>1, <2>2 DEF AwaitEnd, dataTransfering
  <2> QED
    BY <1>9, <2>1, <2>3 DEF AwaitEnd, running
<1>10. CASE ~processDone /\ Recover
  BY <1>1, <1>10 DEF Recover, running
<1> QED
  BY <1>1, <1>3, <1>4, <1>5, <1>6, <1>7, <1>8, <1>9, <1>10 DEF Fsm

LEMMA QueueStepRefines ==
  ControllerInv /\ [Next]_vars => [Queue!Next]_<<RamControlSeqFifo, running>>
<1> SUFFICES ASSUME ControllerInv, [Next]_vars
             PROVE  [Queue!Next]_<<RamControlSeqFifo, running>>
  OBVIOUS
<1>1. CASE OddSlot \/ SlotTwoOfFour \/ SlotFourOrTwelve \/ SlotEight
  <2>1. UNCHANGED <<rwMode, bytesToTransfer, fsmVars, queueVars>>
    BY <1>1, EdgeFacts
  <2> QED
    BY <2>1 DEF fsmVars, queueVars, running
<1>2. CASE Withdraw \/ (\E t \in Transaction : Present(t)) \/ UNCHANGED vars
  <2>1. UNCHANGED <<driverVars, fsmVars, queueVars>>
    BY <1>2 DEF Withdraw, Present, vars
  <2> QED
    BY <2>1 DEF driverVars, fsmVars, queueVars, running
<1>3. CASE TransferEnd
  <2>1. RamControlSeqFifo' = RamControlSeqFifo /\ running' = NoTransaction
    BY <1>3 DEF TransferEnd, queueVars, running
  <2> QED
    BY <2>1 DEF Queue!Next, Queue!Finish
<1>4. CASE SlotZero
  <2>1. PortRise50 /\ QueueStep /\ RamControlSeqFifo \in Seq(Transaction)
    BY <1>4 DEF SlotZero, ControllerInv, TypeOK, QueueTypeOK
  <2>2. CASE ReadsQueue
    <3>1. /\ RamControlSeqFifo # <<>>
          /\ RamControlSeqFifo' = Tail(RamControlSeqFifo) \o Written
          /\ dataOutFifoQueury' = Head(RamControlSeqFifo)
      BY <2>1, <2>2 DEF ReadsQueue, QueueStep
    <3>2. running = NoTransaction /\ running' = Head(RamControlSeqFifo)
      <4>1. fsmStateTransfer = 1 /\ fsmStateTransfer' = 2
        BY <1>4, <2>2, WhenRead
      <4> QED
        BY <3>1, <4>1 DEF running
    <3>3. Tail(RamControlSeqFifo) \in Seq(Transaction)
      BY <2>1, <3>1
    <3>4. CASE RamControlSeqFifo' = Tail(RamControlSeqFifo)
      BY <3>1, <3>2, <3>4 DEF Queue!Next, Queue!Start, Queue!Take
    <3>5. CASE /\ request \in Transaction /\ Len(RamControlSeqFifo) < FifoDepth
               /\ RamControlSeqFifo' = Append(Tail(RamControlSeqFifo), request)
      BY <3>1, <3>2, <3>5 DEF Queue!Next, Queue!StartAndAccept, Queue!Take
    <3> QED
      BY <2>1, <3>1, <3>3, <3>4, <3>5, WrittenIsAppended
  <2>3. CASE ~ReadsQueue
    <3>1. RamControlSeqFifo' = RamControlSeqFifo \o Written
      BY <2>1, <2>3 DEF QueueStep
    <3>2. running' = running
      BY <1>4, <2>3, RunningKept
    <3>3. CASE RamControlSeqFifo' = RamControlSeqFifo
      BY <3>2, <3>3
    <3>4. CASE /\ request \in Transaction /\ Len(RamControlSeqFifo) < FifoDepth
               /\ RamControlSeqFifo' = Append(RamControlSeqFifo, request)
      BY <3>2, <3>4 DEF Queue!Next, Queue!Accept, Queue!Enqueue
    <3> QED
      BY <2>1, <3>1, <3>3, <3>4, WrittenIsAppended
  <2> QED
    BY <2>2, <2>3
<1> QED
  BY <1>1, <1>2, <1>3, <1>4 DEF Next, Clocks

\* The transactions that enter the queue are run one at a time, in order, once
\* each, whatever the depth of the queue (hyperRAMcontroller.sv:110-206).
THEOREM RunsInOrderHolds == Spec => RunsInOrder
<1>1. Init => Queue!Init
  BY DEF Init, Queue!Init, running
<1> QED
  BY <1>1, QueueStepRefines, ControllerInvariance, PTL
     DEF Spec, RunsInOrder, Queue!Spec

-----------------------------------------------------------------------------
(* Bytes move in the data phase.                                           *)

\* In state 5 and 6 the command and the latency are over.
DataPhase == fsmStateTransfer \in {5, 6} => fastCountNegedge >= settingTime

LEMMA DataPhaseStep == ControllerInv /\ DataPhase /\ [Next]_vars => DataPhase'
<1> SUFFICES ASSUME ControllerInv, DataPhase, [Next]_vars, fsmStateTransfer' \in {5, 6}
             PROVE  fastCountNegedge' >= settingTime
  BY DEF DataPhase
<1>1. DriverInv /\ DriverTypeOK /\ DriverTypeOK' /\ StateMatchesDriver
  BY DriverInvNext DEF ControllerInv, DriverInv
<1>2. CASE OddSlot
  <2>1. fsmStateTransfer \in {5, 6} /\ Fall400
    BY <1>2 DEF OddSlot, fsmVars
  <2>2. enable /\ setupDone /\ fastCountNegedge >= 34
    BY <1>1, <2>1 DEF StateMatchesDriver, DataPhase
  <2>3. csDone
    <3>1. ~Selecting
      BY <1>1, <2>2 DEF Selecting, DriverTypeOK
    <3>2. InStep /\ csCounter \in Nat /\ fastCountNegedge \in Nat
      BY <1>1, <2>2, <3>1 DEF DriverInv, DriverTypeOK
    <3> QED
      BY <2>2, <3>2 DEF InStep, csDone
  <2>4. fastCountNegedge' = fastCountNegedge + 1
    BY <1>1, <2>1, <2>2, <2>3, ByteTime
  <2> QED
    BY <1>1, <2>2, <2>4 DEF DriverTypeOK
<1>3. CASE SlotTwoOfFour \/ SlotFourOrTwelve \/ SlotEight
  BY <1>3 DEF SlotTwoOfFour, SlotFourOrTwelve, SlotEight, Fall200, FallShifted,
              fsmVars, DataPhase
<1>4. CASE SlotZero
  <2>1. fastCountNegedge' = fastCountNegedge /\ Fsm /\ To({0}) /\ Quiet
    BY <1>4 DEF SlotZero, Rise50
  <2>2. CASE fsmStateTransfer \in {5, 6}
    BY <2>1, <2>2 DEF DataPhase
  <2>3. CASE fsmStateTransfer \notin {5, 6}
    <3>1. fsmStateTransfer = 4 /\ setupDone
      BY <2>1, <2>3 DEF Fsm, InReset, fsmVars, Idle, RequestWord, EndRequest,
         LoadRegisters, WaitSetup, OpenData, AwaitEnd, Recover
    <3>2. enable /\ ckRamCounter >= 16
      BY <1>1, <3>1, Between DEF setupDone, DriverTypeOK
    <3>3. slot % 4 = 3
      BY <1>1, <2>1, NextSlot
    <3>4. InStep
      BY <1>1, <3>2 DEF DriverInv, Selecting
    <3> QED
      BY <1>1, <2>1, <3>2, <3>3, <3>4 DEF InStep, DriverTypeOK
  <2> QED
    BY <2>2, <2>3
<1>5. CASE TransferEnd
  BY <1>5 DEF TransferEnd
<1>6. CASE Withdraw \/ (\E t \in Transaction : Present(t)) \/ UNCHANGED vars
  BY <1>6 DEF Withdraw, Present, vars, fsmVars, driverVars, driverRegs, DataPhase
<1> QED
  BY <1>2, <1>3, <1>4, <1>5, <1>6 DEF Next, Clocks

\* No byte leaves the write FIFO or enters the read RAM before the data of the
\* transaction are on the bus (hyperRAMcontroller.sv:171-203, 213-245).
THEOREM MovesInDataPhaseHolds == Spec => MovesInDataPhase
<1>1. Init => DataPhase
  BY DEF Init, DataPhase
<1>2. Spec => []DataPhase
  BY <1>1, DataPhaseStep, ControllerInvariance, PTL DEF Spec
<1>3. ControllerInv /\ DataPhase /\ [Next]_vars =>
        [moved' > moved => ~toRamCs /\ fastCountNegedge >= settingTime]_vars
  <2> SUFFICES ASSUME ControllerInv, DataPhase, [Next]_vars, moved' > moved
               PROVE  ~toRamCs /\ fastCountNegedge >= settingTime
    OBVIOUS
  <2>1. DriverInv /\ DriverTypeOK /\ StateMatchesDriver /\ moved \in Nat
    BY DEF ControllerInv, DriverInv, TypeOK, DataTypeOK
  <2>2. Rise400 /\ Quiet
    BY <2>1 DEF Next, Clocks, OddSlot, SlotTwoOfFour, SlotFourOrTwelve, SlotEight,
       SlotZero, TransferEnd, Withdraw, Present, vars, dataVars
  <2>3. WrenRamRead \/ RreqFifoWrite
    BY <2>1, <2>2 DEF Rise400
  <2>4. fsmStateTransfer = 6 /\ enable /\ fastCountNegedge >= settingTime
    BY <2>1, <2>3 DEF StateMatchesDriver, DataPhase
  <2>5. ~processDone
    BY <2>2, <2>4 DEF Quiet, Cleared
  <2>6. csDone
    <3>1. InStep
      BY <2>1, <2>4 DEF DriverInv, Selecting, DriverTypeOK
    <3> QED
      BY <2>1, <2>4, <3>1 DEF InStep, csDone, DriverTypeOK
  <2> QED
    BY <2>4, <2>5, <2>6 DEF toRamCs
<1> QED
  BY <1>2, <1>3, ControllerInvariance, PTL DEF Spec, MovesInDataPhase

-----------------------------------------------------------------------------
(* A user that is synchronous to clk_50.                                   *)

\* The write request is up before the rising edge that clocks the word in.
RequestUp == clockQueury /\ slot \in 8..15 => WreqFifoQuaury

LEMMA RequestUpStep ==
  ASSUME UserSlots = {0}
  PROVE  ControllerInv /\ RequestUp /\ [Next]_vars => RequestUp'
<1> SUFFICES ASSUME ControllerInv, RequestUp, [Next]_vars, clockQueury', slot' \in 8..15
             PROVE  WreqFifoQuaury'
  BY DEF RequestUp
<1>1. DriverTypeOK
  BY DEF ControllerInv, TypeOK
<1>2. CASE OddSlot \/ SlotTwoOfFour \/ SlotFourOrTwelve
  <2>1. UNCHANGED <<clockQueury, WreqFifoQuaury>>
    BY <1>2 DEF OddSlot, SlotTwoOfFour, SlotFourOrTwelve, userVars, portVars
  <2>2. slot' = (slot + 1) % 16 /\ slot \in 0..15 /\ slot' # 8
    <3>1. CASE OddSlot
      BY <1>1, <3>1 DEF OddSlot, Fall400, To, DriverTypeOK
    <3>2. CASE SlotTwoOfFour
      BY <1>1, <3>2 DEF SlotTwoOfFour, Fall200, To, DriverTypeOK
    <3>3. CASE SlotFourOrTwelve
      BY <1>1, <3>3 DEF SlotFourOrTwelve, FallShifted, To, DriverTypeOK
    <3> QED
      BY <1>2, <3>1, <3>2, <3>3
  <2>3. slot \in 8..15
    BY <2>2
  <2> QED
    BY <2>1, <2>3 DEF RequestUp
<1>3. CASE SlotEight
  BY <1>3 DEF SlotEight, Fall50, userVars
<1>4. CASE SlotZero
  BY <1>4 DEF SlotZero, To
<1>5. CASE TransferEnd
  BY <1>5 DEF TransferEnd, userVars, portVars, RequestUp
<1>6. CASE Withdraw \/ (\E t \in Transaction : Present(t))
  BY <1>6 DEF Withdraw, Present, driverVars
<1>7. CASE UNCHANGED vars
  BY <1>7 DEF vars, driverVars, userVars, portVars, RequestUp
<1> QED
  BY <1>2, <1>3, <1>4, <1>5, <1>6, <1>7 DEF Next, Clocks

\* A transaction held over a rising edge of clk_50 by a user that is itself
\* clocked by clk_50 enters the queue once, unless the queue is full
\* (hyperRAMcontroller.sv:54-88).
THEOREM PresentedIsQueuedHolds ==
  ASSUME UserSlots = {0}
  PROVE  Spec => PresentedIsQueued
<1> DEFINE q == RamControlSeqFifo
           rest == {q} \cup (IF q = <<>> THEN {} ELSE {Tail(q)})
<1>1. Init => RequestUp
  BY DEF Init, RequestUp
<1>2. Spec => []RequestUp
  BY <1>1, RequestUpStep, ControllerInvariance, PTL DEF Spec
<1>3. ControllerInv /\ RequestUp /\ [Next]_vars =>
        [LET left == {RamControlSeqFifo} \cup
                       (IF RamControlSeqFifo = <<>> THEN {} ELSE {Tail(RamControlSeqFifo)})
         IN IF /\ ~clockQueuryTemp /\ clockQueuryTemp'
               /\ Len(RamControlSeqFifo) < FifoDepth
            THEN RamControlSeqFifo' \in {Append(l, request) : l \in left}
            ELSE RamControlSeqFifo' \in left]_vars
  <2> SUFFICES ASSUME ControllerInv, RequestUp, [Next]_vars
               PROVE  IF ~clockQueuryTemp /\ clockQueuryTemp' /\ Len(q) < FifoDepth
                      THEN q' \in {Append(l, request) : l \in rest}
                      ELSE q' \in rest
    OBVIOUS
  <2>1. q \in Seq(Transaction) /\ DriverTypeOK
    BY DEF ControllerInv, TypeOK, QueueTypeOK
  <2>2. CASE SlotZero
    <3>1. PortRise50 /\ QueueStep /\ slot = 15
      BY <2>1, <2>2 DEF SlotZero, To, DriverTypeOK
    <3>2. \E l \in rest : l \in Seq(Transaction) /\ q' = l \o Written
      <4>1. CASE ReadsQueue
        <5>1. q # <<>> /\ q' = Tail(q) \o Written
          BY <3>1, <4>1 DEF QueueStep, ReadsQueue
        <5>2. Tail(q) \in Seq(Transaction) /\ Tail(q) \in rest
          BY <2>1, <5>1
        <5> QED
          BY <5>1, <5>2
      <4>2. CASE ~ReadsQueue
        BY <2>1, <3>1, <4>2 DEF QueueStep
      <4> QED
        BY <4>1, <4>2
    <3>3. PICK l \in rest : l \in Seq(Transaction) /\ q' = l \o Written
      BY <3>2
    <3>4. CASE ~clockQueuryTemp /\ clockQueuryTemp' /\ Len(q) < FifoDepth
      <4>1. clockQueury /\ WreqFifoQuaury
        BY <3>1, <3>4 DEF PortRise50, RequestUp
      <4>2. Written = <<request>>
        BY <3>1, <3>4, <4>1 DEF Written, PortRise50
      <4>3. l \o <<request>> = Append(l, request)
        BY <3>3
      <4> QED
        BY <3>3, <3>4, <4>2, <4>3
    <3>5. CASE ~(~clockQueuryTemp /\ clockQueuryTemp' /\ Len(q) < FifoDepth)
      <4>1. Written = <<>>
        BY <3>5 DEF Written
      <4>2. l \o <<>> = l
        BY <3>3
      <4> QED
        BY <3>3, <3>5, <4>1, <4>2
    <3> QED
      BY <3>4, <3>5
  <2>3. CASE ~SlotZero
    <3>1. q' = q /\ clockQueuryTemp' = clockQueuryTemp
      BY <2>3 DEF Next, Clocks, OddSlot, SlotTwoOfFour, SlotFourOrTwelve, SlotEight,
         TransferEnd, Withdraw, Present, vars, queueVars, portVars
    <3> QED
      BY <3>1
  <2> QED
    BY <2>2, <2>3
<1> QED
  BY <1>2, <1>3, ControllerInvariance, PTL DEF Spec, PresentedIsQueued

-----------------------------------------------------------------------------
(* The stall.                                                              *)

\* With a flag that needs the read clock, the state machine never leaves its idle
\* state, and the flag never sees an edge.
FlagWaits == flagsNeedReadClock =>
  emptyAtReadClock /\ fsmStateTransfer \in {0, 7} /\ ~clockReadFifoQueury

\* What the state machine does while the controller is stalled: nothing but recover.
LEMMA StalledFsm ==
  ASSUME DriverTypeOK, FlagWaits, Stalled, Fsm
  PROVE  /\ clockReadFifoQueury' = clockReadFifoQueury
         /\ enable' = enable /\ rwMode' = rwMode
         /\ flagsNeedReadClock => fsmStateTransfer' \in {0, 7}
<1>1. CASE InReset
  BY <1>1 DEF InReset, fsmVars, FlagWaits
<1>2. CASE ~InReset
  <2>1. ~processDone /\ (Idle \/ RequestWord \/ EndRequest \/ LoadRegisters \/ WaitSetup
                         \/ OpenData \/ AwaitEnd \/ Recover)
    BY <1>2 DEF Fsm
  <2>2. flagsNeedReadClock
    <3>1. totalTime = 0 /\ ~rwMode => processDone
      BY FastCountRange DEF processDone, transferLimit
    <3> QED
      BY <2>1, <3>1 DEF Stalled
  <2>3. emptyFlagFifoQueury /\ fsmStateTransfer \in {0, 7}
    BY <2>2 DEF FlagWaits, emptyFlagFifoQueury
  <2>4. Idle \/ Recover
    BY <2>1, <2>3
       DEF RequestWord, EndRequest, LoadRegisters, WaitSetup, OpenData, AwaitEnd
  <2> QED
    BY <2>3, <2>4 DEF Idle, Recover
<1> QED
  BY <1>1, <1>2

\* A stalled controller is stalled after the next step too, and has taken no word.
LEMMA StalledStep ==
  ASSUME DriverTypeOK, FlagWaits, Stalled, [Next]_vars
  PROVE  FlagWaits' /\ Stalled' /\ ~ReadsQueue
<1>1. CASE SlotZero
  <2>1. /\ Fsm /\ QueueStep /\ TotalTimeEdge
    BY <1>1 DEF SlotZero, Rise50
  <2>2. /\ clockReadFifoQueury' = clockReadFifoQueury
        /\ enable' = enable /\ rwMode' = rwMode
        /\ flagsNeedReadClock => fsmStateTransfer' \in {0, 7}
    BY <2>1, StalledFsm
  <2>3. ~ReadClock
    BY <2>2 DEF ReadClock
  <2>4. emptyAtReadClock' = emptyAtReadClock /\ flagsNeedReadClock' = flagsNeedReadClock
    BY <2>1, <2>3 DEF QueueStep
  <2>5. totalTime' = totalTime
    BY <2>1, <2>2 DEF TotalTimeEdge
  <2>6. FlagWaits'
    BY <2>2, <2>4 DEF FlagWaits
  <2>7. Stalled'
    BY <2>2, <2>4, <2>5 DEF Stalled
  <2> QED
    BY <2>3, <2>6, <2>7 DEF ReadsQueue
<1>2. CASE ~SlotZero
  <2>1. /\ UNCHANGED queueVars /\ UNCHANGED <<clockReadFifoQueury, rwMode, totalTime>>
        /\ fsmStateTransfer' \in {0, fsmStateTransfer}
    <3>1. CASE OddSlot \/ SlotTwoOfFour \/ SlotFourOrTwelve \/ SlotEight
      BY <1>2, <3>1 DEF OddSlot, SlotTwoOfFour, SlotFourOrTwelve, SlotEight, Fall400,
         Fall200, FallShifted, fsmVars
    <3>2. CASE TransferEnd
      BY <3>2 DEF TransferEnd, driverRegs
    <3>3. CASE Withdraw \/ \E t \in Transaction : Present(t)
      BY <3>3 DEF Withdraw, Present, driverVars, driverRegs, fsmVars
    <3>4. CASE UNCHANGED vars
      BY <3>4 DEF vars, driverVars, driverRegs, fsmVars
    <3> QED
      BY <1>2, <3>1, <3>2, <3>3, <3>4 DEF Next, Clocks
  <2>2. ~ReadClock
    BY <2>1 DEF ReadClock
  <2>3. FlagWaits'
    BY <2>1 DEF FlagWaits, queueVars
  <2>4. Stalled'
    BY <2>1 DEF Stalled, queueVars
  <2> QED
    BY <2>2, <2>3, <2>4 DEF ReadsQueue
<1> QED
  BY <1>1, <1>2

\* What FlagWaits says of a queue whose flag needs the read clock holds at power-up and
\* after every step.
LEMMA FlagWaitsStep == ASSUME DriverTypeOK, FlagWaits, [Next]_vars PROVE FlagWaits'
<1>1. CASE flagsNeedReadClock
  BY <1>1, StalledStep DEF Stalled
<1>2. CASE ~flagsNeedReadClock
  <2>1. flagsNeedReadClock' = flagsNeedReadClock
    BY DEF Next, Clocks, OddSlot, SlotTwoOfFour, SlotFourOrTwelve, SlotEight, SlotZero,
       QueueStep, TransferEnd, Withdraw, Present, vars, queueVars
  <2> QED
    BY <1>2, <2>1 DEF FlagWaits
<1> QED
  BY <1>1, <1>2

\* A stalled controller is stalled for ever and takes no word: neither the empty flag
\* that waits for a read clock nor the total of 0 that holds the state machine in reset
\* is ever changed (hyperRAMcontroller.sv:79-88, 110-127; hyperRamDriver.sv:61, 73-81).
THEOREM StallIsForEverHolds == Spec => StallIsForEver
<1>1. Init => FlagWaits
  BY DEF Init, FlagWaits
<1>2. DriverTypeOK /\ FlagWaits /\ [Next]_vars => FlagWaits'
  BY FlagWaitsStep
<1>3. DriverTypeOK /\ FlagWaits /\ [Next]_vars => [Stalled => Stalled' /\ ~ReadsQueue]_vars
  BY StalledStep
<1>4. ControllerInv => DriverTypeOK
  BY DEF ControllerInv, TypeOK
<1> QED
  BY <1>1, <1>2, <1>3, <1>4, ControllerInvariance, PTL DEF Spec, StallIsForEver

=============================================================================

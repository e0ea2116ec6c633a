----------------------------- MODULE SgdmaDriver_proofs -----------------------------
(***************************************************************************)
(* The driver of an SGDMA controller (SgdmaDriver), for every number of    *)
(* descriptors and every application that only makes transfers or only     *)
(* polls: a transfer that has found the controller at rest has it to       *)
(* itself until it runs it, and a transfer that waits returns the status   *)
(* of its own chain.  And the chains themselves under the data cache       *)
(* (DescriptorCache), for any lines and descriptors, and the bytes of one  *)
(* descriptor (SgdmaDescriptor), for any arguments.                        *)
(***************************************************************************)
EXTENDS SgdmaDriver, MCDescriptors, Integers, SequenceTheorems, TLAPS

Transferring == {"clear_read", "clear_write", "clear_status", "pointer", "run_read", "run_write"}
Prepared == {"busy"} \cup Transferring
Running == {"wait", "stop_read", "stop_write", "status_read"}
Writing == {"clear_write", "run_write", "change_write", "stop_write", "irq_write"}
Changing == {"change_read", "change_write"}
MainPlaces == {"idle", "status_clear"} \cup Prepared \cup Running \cup Changing
IsrPlaces == {"none", "irq_read", "irq_write", "callback"} \cup Prepared \cup Changing

DeviceTypes ==
  /\ control_reg \in SUBSET Control /\ error \in BOOLEAN /\ chain_completed_int \in BOOLEAN
  /\ csr_irq \in BOOLEAN /\ owned_by_hw \in BOOLEAN
  /\ descriptor_pointer \in Descriptors /\ next_desc \in Descriptors
  /\ desc_address_fifo \in Seq(Descriptors) /\ Len(desc_address_fifo) <= FifoWords
  /\ status_token \in {<<>>, <<TRUE>>, <<FALSE>>}
MemoryTypes == owned \in [Descriptors -> BOOLEAN] /\ failed \in [Descriptors -> BOOLEAN]
ApplicationTypes ==
  /\ callback \in BOOLEAN /\ tail \in Descriptors
  /\ use \in Applications /\ program \in Seq(Calls)
CpuTypes ==
  /\ pc \in [Contexts -> MainPlaces \cup IsrPlaces]
  /\ op \in [Contexts -> Calls \cup {"none"}]
  /\ reg \in [Contexts -> SUBSET (Control \cup {"ERROR"})]
  /\ desc \in [Contexts -> Seq(Descriptors)]
Types == DeviceTypes /\ MemoryTypes /\ ApplicationTypes /\ CpuTypes

\* The controller runs only while it has something to do.
EngineInv ==
  /\ run => busy
  /\ status_token # <<>> => desc_address_fifo # <<>>
  /\ chain_completed_int => "RUN" \in control_reg /\ ~busy

\* What the program and the handler may be in the middle of.
PlacesInv ==
  /\ pc["main"] \in MainPlaces /\ pc["isr"] \in IsrPlaces /\ op["isr"] # "sync"
  /\ \A c \in Contexts :
       /\ pc[c] \in Writing => reg[c] \subseteq Control
       /\ pc[c] \in Changing => op[c] \in {"start", "stop", "poll_on", "poll_off"}
       /\ pc[c] \in Prepared => op[c] \in {"async", "sync"} /\ desc[c] # <<>>
  /\ pc["main"] \in Running \cup {"status_clear"} => op["main"] = "sync"

\* A transfer has the controller at rest.
RestInv ==
  /\ \A c \in Contexts :
       /\ pc[c] \in Transferring => ~busy /\ ~run
       /\ pc[c] \in {"clear_status", "pointer", "run_read", "run_write"} => "RUN" \notin control_reg
  /\ pc["main"] \in Transferring => pc["isr"] = "none" /\ ~csr_irq

\* An application that makes transfers never polls,
TransfersInv ==
  TransfersOnly(use) =>
    /\ "DESC_POLL_EN" \notin control_reg
    /\ \A c \in Contexts : "DESC_POLL_EN" \notin reg[c]
    /\ \A k \in 1..Len(program) : program[k] \in Made(use)
    /\ \A c \in Contexts : pc[c] \in Changing => op[c] \in {"stop", "poll_off"}
    /\ use.callback # "none" => op["main"] # "sync"

\* and one that polls has made its transfer before the controller is started.
Fresh == /\ "RUN" \notin control_reg /\ "RUN" \notin reg["main"]
         /\ ~busy /\ ~csr_irq /\ pc["isr"] = "none"
PollsInv ==
  PollsOnly(use) =>
    /\ program \in {use.first, <<"async", "start">>, <<"start">>, <<>>}
    /\ program \in {use.first, <<"async", "start">>} => Fresh
    /\ program \in {use.first, <<"async", "start">>} /\ pc["main"] \in Changing => op["main"] = "poll_on"
    /\ pc["main"] \in Prepared => program = <<"start">> /\ Fresh
    /\ pc["isr"] \notin Prepared
    /\ op["main"] # "sync"

-----------------------------------------------------------------------------
(* Chains, and where no callback interferes.                               *)

\* s are descriptors one after another that end before e.
Chain(s, e) ==
  /\ s \in Seq(Descriptors) /\ Len(s) > 0
  /\ \A k \in 1..(Len(s) - 1) : s[k + 1] = next(s[k])
  /\ \A k, l \in 1..Len(s) : s[k] = s[l] => k = l
  /\ e = next(s[Len(s)]) /\ \A k \in 1..Len(s) : s[k] # e

\* The descriptors the controller has in hand and those it will fetch, up to the
\* first that it does not own.  Behind that there is another chain, or nothing yet.
Track(q) ==
  /\ Len(desc_address_fifo) <= Len(q)
  /\ \A k \in 1..Len(desc_address_fifo) : q[k] = desc_address_fifo[k] /\ owned[q[k]]
  /\ \A k, l \in 1..Len(q) : q[k] = q[l] => k = l
  /\ owned_by_hw =>
       /\ Len(desc_address_fifo) < Len(q) /\ q[Len(desc_address_fifo) + 1] = next_desc
       /\ \A k \in 1..(Len(q) - 1) : q[k + 1] = next(q[k]) /\ owned[q[k]]
       /\ ~owned[q[Len(q)]]
       /\ \/ q[Len(q)] = tail
          \/ owned[next(q[Len(q)])] /\ \A k \in 1..Len(q) : q[k] # next(q[Len(q)])
TrackInv == busy => \E q \in Seq(Descriptors) : Track(q)

\* The chain s is ready, and the controller keeps off it.
Apart(s) ==
  /\ \A k \in 1..Len(s) : owned[s[k]] /\ ~failed[s[k]]
  /\ \A k \in 1..Len(s), l \in 1..Len(desc_address_fifo) : desc_address_fifo[l] # s[k]
  /\ owned_by_hw => /\ \A k \in 1..Len(s) : next_desc # s[k]
                    /\ \A d \in Descriptors : next(d) = s[1] => ~owned[d]

\* Of the chain s the first j descriptors have been moved and k have been fetched.
Moved(s, j, k) ==
  /\ j <= k /\ Len(desc_address_fifo) = k - j
  /\ \A l \in 1..(k - j) : desc_address_fifo[l] = s[j + l]
  /\ \A l \in 1..Len(s) : owned[s[l]] <=> l > j
  /\ IF owned_by_hw THEN next_desc = (IF k < Len(s) THEN s[k + 1] ELSE tail) ELSE k = Len(s)
  /\ error <=> (\E l \in 1..j : failed[s[l]]) \/ status_token = <<TRUE>>

Quiet == TransfersOnly(use) /\ use.callback = "none"
own == desc["main"]

AloneInv ==
  /\ ~owned[tail]
  /\ \A c \in Contexts : pc[c] \in Writing => reg[c] = control_reg
  /\ pc["isr"] \in {"none", "irq_read", "irq_write", "callback"}
  /\ pc["main"] \in {"pointer", "run_read", "run_write"} => ~error
  /\ pc["main"] \in {"run_read", "run_write"} => descriptor_pointer = Head(own)
  /\ pc["main"] \in {"stop_read", "stop_write", "status_read", "status_clear"} => ~busy
  /\ pc["main"] \in {"status_read", "status_clear"} => "RUN" \notin control_reg

ChainInv ==
  /\ pc["main"] \in Prepared \cup Running \cup {"status_clear"} => Chain(own, tail)
  /\ pc["main"] \in Prepared => Apart(own)
  /\ pc["main"] \in Running => \E j, k \in 0..Len(own) : Moved(own, j, k)
  /\ SyncStatus

QuietInv == Quiet => AloneInv /\ TrackInv /\ ChainInv

BInv == Types /\ EngineInv /\ PlacesInv /\ RestInv /\ TransfersInv /\ PollsInv
SInv == BInv /\ QuietInv


-----------------------------------------------------------------------------
(* The ring and its chains.                                                *)

\* A transfer needs a descriptor, the one that ends its chain, and the end of the last.
LEMMA RingLarge == Ring \in Nat /\ Ring >= 3
BY DriverAssumption

\* The ring is passed at most once.
LEMMA ModOnce ==
  ASSUME NEW x \in 0..(2 * Ring - 1)
  PROVE  x % Ring = IF x < Ring THEN x ELSE x - Ring
<1>1. Ring \in Nat /\ Ring >= 2 /\ x \in Nat
  BY RingLarge
<1> QED
  BY <1>1, SMTT(30)

\* The descriptor that follows.
LEMMA NextOf ==
  ASSUME NEW d \in Descriptors
  PROVE  next(d) \in Descriptors /\ next(d) = IF d = Ring THEN 1 ELSE d + 1
<1>1. d % Ring = IF d < Ring THEN d ELSE d - Ring
  BY RingLarge, ModOnce DEF Descriptors
<1> QED
  BY <1>1, RingLarge DEF next, Descriptors

\* A descriptor follows one other.
LEMMA NextOnce ==
  ASSUME NEW d \in Descriptors, NEW e \in Descriptors
  PROVE  (next(d) = next(e) => d = e) /\ next(d) # d
BY NextOf, RingLarge DEF Descriptors

\* The descriptors behind t, as many as leave one between the last of them and t.
LEMMA ChainFrom ==
  ASSUME NEW t \in Descriptors, NEW n \in 1..(Ring - 2), NEW s, s = chain(next(t), n)
  PROVE  /\ Chain(s, next(s[n])) /\ Len(s) = n /\ s[1] = next(t)
         /\ next(s[n]) # t /\ \A k \in 1..n : s[k] # t
<1> DEFINE u == next(t)
<1>1. Ring \in Nat /\ Ring >= 2 /\ n \in Nat /\ n >= 1 /\ n <= Ring - 2 /\ u \in Nat /\ u >= 1 /\ u <= Ring
  BY RingLarge, NextOf DEF Descriptors
<1>2. s = [i \in 1..n |-> ((u + i - 2) % Ring) + 1]
  BY DEF chain
<1> HIDE DEF u
<1>3. \A i \in 1..n : s[i] = IF u + i - 1 <= Ring THEN u + i - 1 ELSE u + i - 1 - Ring
  <2> TAKE i \in 1..n
  <2> DEFINE x == u + i - 2
  <2>1. i \in Nat /\ x \in 0..(2 * Ring - 1)
    BY <1>1
  <2>2. s[i] = (x % Ring) + 1
    BY <1>2
  <2>3. x = u + i - 2
    OBVIOUS
  <2> HIDE DEF x
  <2>4. x % Ring = IF x < Ring THEN x ELSE x - Ring
    BY <2>1, ModOnce
  <2>5. s[i] = (IF x < Ring THEN x ELSE x - Ring) + 1
    BY <2>2, <2>4
  <2> QED
    BY <1>1, <2>1, <2>3, <2>5
<1>4. s \in Seq(Descriptors) /\ Len(s) = n
  <2>1. \A i \in 1..n : ((u + i - 2) % Ring) + 1 \in Descriptors
    BY <1>1, <1>2, <1>3 DEF Descriptors
  <2> QED
    BY <1>1, <1>2, <2>1
<1>5. \A k \in 1..n : s[k] \in Descriptors
  BY <1>1, <1>3 DEF Descriptors
<1>6. \A k \in 1..n : next(s[k]) = IF u + k <= Ring THEN u + k ELSE u + k - Ring
  <2> TAKE k \in 1..n
  <2>1. next(s[k]) = IF s[k] = Ring THEN 1 ELSE s[k] + 1
    BY <1>5, NextOf
  <2> QED
    BY <1>1, <1>3, <2>1
<1>7. t = IF u = 1 THEN Ring ELSE u - 1
  BY <1>1, NextOf DEF u, Descriptors
<1>8. \A k \in 1..(n - 1) : s[k + 1] = next(s[k])
  BY <1>1, <1>3, <1>6
<1>9. \A k, l \in 1..n : s[k] = s[l] => k = l
  BY <1>1, <1>3
<1>10. \A k \in 1..n : s[k] # next(s[n]) /\ s[k] # t
  BY <1>1, <1>3, <1>6, <1>7
<1>11. next(s[n]) # t /\ s[1] = u
  BY <1>1, <1>3, <1>6, <1>7
<1> QED
  BY <1>1, <1>4, <1>8, <1>9, <1>10, <1>11 DEF Chain, u

-----------------------------------------------------------------------------
(* What a write of the controller's registers does.                        *)

\* The control register: only a write of RUN can set the controller going.
LEMMA ControlWritten ==
  ASSUME DeviceTypes, EngineInv, NEW bits \in SUBSET Control, NEW x \in BOOLEAN,
         WriteControl(bits, x)
  PROVE  /\ DeviceTypes' /\ EngineInv'
         /\ control_reg' = bits /\ (csr_irq' => csr_irq)
         /\ UNCHANGED <<error, descriptor_pointer, desc_address_fifo, status_token>>
         /\ "RUN" \notin bits => ~run' /\ (busy' => busy)
         /\ "DESC_POLL_EN" \notin control_reg /\ ("RUN" \notin bits \/ bits = control_reg) =>
              UNCHANGED <<owned_by_hw, next_desc>>
         /\ bits = control_reg => run' = run
<1>1. /\ control_reg' = bits /\ csr_irq' = (csr_irq /\ ~x)
      /\ chain_completed_int' = (chain_completed_int /\ "RUN" \in bits)
      /\ error' = error /\ descriptor_pointer' = descriptor_pointer
      /\ desc_address_fifo' = desc_address_fifo /\ status_token' = status_token
  BY DEF WriteControl
<1> DEFINE rises == ~run /\ run'
           dropped == "RUN" \notin bits /\ "DESC_POLL_EN" \in control_reg
<1>2. /\ owned_by_hw' = (rises \/ (owned_by_hw /\ ~dropped))
      /\ next_desc' = IF rises \/ dropped THEN descriptor_pointer ELSE next_desc
  BY DEF WriteControl, LoadDescriptor
<1>3. bits = control_reg => run' = run
  BY <1>1 DEF run, EngineInv, DeviceTypes
<1>4. "RUN" \notin bits => ~run'
  BY <1>1 DEF run
<1>5. run' = (run' = TRUE)
  BY DEF run
<1>6. DeviceTypes'
  <2> HIDE DEF rises, dropped
  <2>1. owned_by_hw' \in BOOLEAN /\ next_desc' \in Descriptors
    BY <1>2 DEF DeviceTypes
  <2> QED
    BY <1>1, <2>1 DEF DeviceTypes
<1>7. run' => run \/ owned_by_hw'
  BY <1>2
<1>8. EngineInv'
  <2>1. run' => busy'
    <3>1. ASSUME run', ~rises
          PROVE  busy'
      <4>1. run /\ busy
        BY <3>1 DEF EngineInv
      <4>2. ~dropped
        BY <1>4, <3>1
      <4> QED
        BY <1>1, <1>2, <4>1, <4>2 DEF busy
    <3> QED
      BY <1>2, <3>1 DEF busy
  <2>2. status_token' # <<>> => desc_address_fifo' # <<>>
    BY <1>1 DEF EngineInv
  <2>3. ASSUME chain_completed_int'
        PROVE  "RUN" \in control_reg' /\ ~busy'
    <3>1. chain_completed_int /\ "RUN" \in bits
      BY <1>1, <2>3
    <3>2. ~rises /\ ~busy
      BY <2>3, <3>1 DEF run, EngineInv
    <3> QED
      BY <1>1, <1>2, <3>1, <3>2 DEF busy
  <2> QED
    BY <2>1, <2>2, <2>3 DEF EngineInv
<1>9. "RUN" \notin bits => (busy' => busy)
  BY <1>1, <1>2, <1>4 DEF busy
<1>10. "DESC_POLL_EN" \notin control_reg /\ ("RUN" \notin bits \/ bits = control_reg) =>
         owned_by_hw' = owned_by_hw /\ next_desc' = next_desc
  <2> SUFFICES ASSUME "DESC_POLL_EN" \notin control_reg, "RUN" \notin bits \/ bits = control_reg
               PROVE  owned_by_hw' = owned_by_hw /\ next_desc' = next_desc
    OBVIOUS
  <2>1. ~rises /\ ~dropped
    BY <1>3, <1>4
  <2> QED
    BY <1>2, <2>1 DEF DeviceTypes
<1> QED
  BY <1>1, <1>3, <1>4, <1>6, <1>8, <1>9, <1>10

\* The status register; where RUN is not set this does not set the controller going.
LEMMA StatusCleared ==
  ASSUME DeviceTypes, EngineInv, ClearStatus
  PROVE  /\ DeviceTypes' /\ EngineInv' /\ error' = FALSE
         /\ UNCHANGED <<control_reg, chain_completed_int, csr_irq, descriptor_pointer,
                        desc_address_fifo, status_token>>
         /\ "RUN" \notin control_reg => ~run' /\ busy' = busy /\ UNCHANGED <<owned_by_hw, next_desc>>
<1>1. /\ error' = FALSE
      /\ UNCHANGED <<control_reg, chain_completed_int, csr_irq, descriptor_pointer,
                     desc_address_fifo, status_token>>
      /\ owned_by_hw' = ((~run /\ run') \/ (owned_by_hw /\ ~FALSE))
      /\ next_desc' = IF ~run /\ run' THEN descriptor_pointer ELSE next_desc
  BY DEF ClearStatus, LoadDescriptor
<1>2. owned_by_hw' \in BOOLEAN /\ next_desc' \in Descriptors
  BY <1>1 DEF DeviceTypes
<1>3. DeviceTypes'
  BY <1>1, <1>2 DEF DeviceTypes
<1>4. run' => busy'
  <2>1. ASSUME run', run
        PROVE  busy'
    BY <1>1, <2>1 DEF EngineInv, busy
  <2> QED
    BY <1>1, <2>1 DEF busy
<1>5. chain_completed_int' => "RUN" \in control_reg' /\ ~busy'
  BY <1>1 DEF run, EngineInv, busy
<1>6. EngineInv'
  BY <1>1, <1>4, <1>5 DEF EngineInv
<1>7. ASSUME "RUN" \notin control_reg
      PROVE  ~run' /\ busy' = busy /\ owned_by_hw' = owned_by_hw /\ next_desc' = next_desc
  <2>1. ~run'
    BY <1>1, <1>7 DEF run
  <2>2. owned_by_hw' = owned_by_hw /\ next_desc' = next_desc
    BY <1>1, <2>1 DEF DeviceTypes
  <2> QED
    BY <1>1, <2>1, <2>2 DEF busy
<1> QED
  BY <1>1, <1>3, <1>6, <1>7

\* The next descriptor pointer, of a controller that does not run.
LEMMA PointerWritten ==
  ASSUME DeviceTypes, EngineInv, NEW d \in Descriptors, descriptor_pointer' = d,
         UNCHANGED <<control_reg, error, chain_completed_int, csr_irq, owned_by_hw,
                     next_desc, desc_address_fifo, status_token>>
  PROVE  DeviceTypes' /\ EngineInv' /\ run' = run /\ busy' = busy
BY DEF DeviceTypes, EngineInv, run, busy

\* Nothing of the controller.
LEMMA DeviceStill ==
  ASSUME DeviceTypes, EngineInv, UNCHANGED device
  PROVE  /\ DeviceTypes' /\ EngineInv' /\ run' = run /\ busy' = busy
         /\ UNCHANGED <<control_reg, error, chain_completed_int, csr_irq, descriptor_pointer,
                        owned_by_hw, next_desc, desc_address_fifo, status_token>>
BY DEF DeviceTypes, EngineInv, run, busy, device

-----------------------------------------------------------------------------
(* The steps of the controller.                                            *)

\* What the stream may flag.
LEMMA Failures == ASSUME use \in Applications PROVE use.failures \in BOOLEAN
BY DriverAssumption

\* The status that is waiting to be written back.
LEMMA FlagOf ==
  ASSUME DeviceTypes, status_token # <<>>
  PROVE  /\ Head(status_token) \in BOOLEAN /\ status_token = <<Head(status_token)>>
         /\ Head(status_token) = (status_token = <<TRUE>>)
<1>1. \A b : Head(<<b>>) = b
  OBVIOUS
<1>2. status_token = <<TRUE>> \/ status_token = <<FALSE>>
  BY DEF DeviceTypes
<1>3. <<TRUE>> # <<FALSE>>
  <2>1. Head(<<TRUE>>) = TRUE /\ Head(<<FALSE>>) = FALSE
    BY <1>1
  <2> QED
    BY <2>1
<1>4. CASE status_token = <<TRUE>>
  <2>1. Head(status_token) = TRUE
    BY <1>1, <1>4
  <2> QED
    BY <1>4, <2>1
<1>5. CASE status_token = <<FALSE>>
  <2>1. Head(status_token) = FALSE
    BY <1>1, <1>5
  <2> QED
    BY <1>3, <1>5, <2>1
<1> QED
  BY <1>2, <1>4, <1>5

\* The controller's steps keep its own invariant; they are taken when it is busy or polls.
LEMMA EngineStep ==
  ASSUME use \in Applications, DeviceTypes, MemoryTypes, EngineInv, Engine
  PROVE  /\ DeviceTypes' /\ MemoryTypes' /\ EngineInv'
         /\ UNCHANGED <<control_reg, callback, use, program, tail, pc, op, reg, desc>>
         /\ busy \/ ({"RUN", "DESC_POLL_EN"} \subseteq control_reg /\ Poll)
<1>1. CASE Fetch
  <2>1. /\ canFetch /\ owned_by_hw' = owned[next_desc] /\ next_desc' = next(next_desc)
        /\ desc_address_fifo' = IF owned[next_desc] THEN Append(desc_address_fifo, next_desc)
                                ELSE desc_address_fifo
        /\ descriptor_pointer' = IF "DESC_POLL_EN" \in control_reg THEN next_desc
                                 ELSE descriptor_pointer
        /\ chain_completed_int' = (chain_completed_int \/ (run /\ ~busy'))
        /\ UNCHANGED <<control_reg, error, csr_irq, status_token, owned, failed, callback, use, program,
                       tail, pc, op, reg, desc>>
    BY <1>1 DEF Fetch, CompleteChain, memoryVars, application, cpu
  <2>2. run /\ owned_by_hw /\ Len(desc_address_fifo) < 2 /\ ~chain_completed_int
    BY <2>1 DEF canFetch, run, FifoWords
  <2>3. desc_address_fifo \in Seq(Descriptors) /\ next_desc \in Descriptors /\ owned[next_desc] \in BOOLEAN
    BY DEF DeviceTypes, MemoryTypes
  <2>4. /\ Append(desc_address_fifo, next_desc) \in Seq(Descriptors)
        /\ Len(Append(desc_address_fifo, next_desc)) = Len(desc_address_fifo) + 1
        /\ Append(desc_address_fifo, next_desc) # <<>>
        /\ Len(desc_address_fifo) \in Nat
    BY <2>3
  <2>5. /\ desc_address_fifo' \in Seq(Descriptors) /\ Len(desc_address_fifo') <= 2
        /\ desc_address_fifo # <<>> => desc_address_fifo' # <<>>
    BY <2>1, <2>2, <2>3, <2>4
  <2>6. next_desc' \in Descriptors
    BY <2>1, <2>3, NextOf
  <2>7. chain_completed_int' = (run /\ ~busy')
    BY <2>1, <2>2
  <2>8. DeviceTypes' /\ MemoryTypes'
    BY <2>1, <2>3, <2>5, <2>6, <2>7 DEF DeviceTypes, MemoryTypes, FifoWords
  <2>9. run' => busy'
    BY <2>2, <2>7 DEF run
  <2>10. chain_completed_int' => "RUN" \in control_reg' /\ ~busy'
    BY <2>1, <2>7 DEF run
  <2>11. status_token' # <<>> => desc_address_fifo' # <<>>
    BY <2>1, <2>5 DEF EngineInv
  <2>12. EngineInv'
    BY <2>9, <2>10, <2>11 DEF EngineInv
  <2> QED
    BY <2>1, <2>2, <2>8, <2>12 DEF busy
<1>2. CASE Move
  <2>1. PICK bad \in {FALSE, use.failures} :
          /\ status_token' = <<bad>> /\ error' = (error \/ bad)
          /\ csr_irq' = (csr_irq \/ (bad /\ interruptsOn("IE_ERROR")))
    BY <1>2 DEF Move
  <2>2. /\ desc_address_fifo # <<>>
        /\ UNCHANGED <<control_reg, chain_completed_int, descriptor_pointer, owned_by_hw, next_desc,
                       desc_address_fifo, owned, failed, callback, use, program, tail, pc, op, reg, desc>>
    BY <1>2 DEF Move, memoryVars, application, cpu
  <2>3. bad \in BOOLEAN
    BY <2>1, Failures
  <2>4. DeviceTypes' /\ MemoryTypes'
    BY <2>1, <2>2, <2>3 DEF DeviceTypes, MemoryTypes
  <2>5. run' => run
    BY <2>1, <2>2 DEF run
  <2>6. busy' = busy /\ busy
    BY <2>2 DEF busy
  <2>7. EngineInv'
    BY <2>2, <2>5, <2>6 DEF EngineInv
  <2> QED
    BY <2>2, <2>4, <2>6, <2>7
<1>3. CASE WriteBack
  <2>1. /\ status_token # <<>> /\ status_token' = <<>>
        /\ desc_address_fifo' = Tail(desc_address_fifo)
        /\ owned' = [owned EXCEPT ![Head(desc_address_fifo)] = FALSE]
        /\ failed' = [failed EXCEPT ![Head(desc_address_fifo)] = Head(status_token)]
        /\ chain_completed_int' = (chain_completed_int \/ (run /\ ~busy'))
        /\ UNCHANGED <<control_reg, error, descriptor_pointer, owned_by_hw, next_desc,
                       callback, use, program, tail, pc, op, reg, desc>>
        /\ csr_irq' = (csr_irq \/ interruptsOn("IE_DESC_COMPLETED")
                         \/ (interruptsOn("IE_CHAIN_COMPLETED") /\ ~busy'))
    BY <1>3 DEF WriteBack, CompleteChain, application, cpu
  <2>2. desc_address_fifo # <<>> /\ busy /\ ~chain_completed_int
    BY <2>1 DEF EngineInv, busy
  <2>3. /\ desc_address_fifo' \in Seq(Descriptors) /\ Len(desc_address_fifo') <= 2
        /\ Head(desc_address_fifo) \in Descriptors
    BY <2>1, <2>2 DEF DeviceTypes, FifoWords
  <2>4. Head(status_token) \in BOOLEAN
    BY <2>1, FlagOf
  <2>5. csr_irq' \in BOOLEAN
    BY <2>1 DEF DeviceTypes
  <2>6. chain_completed_int' = (run /\ ~busy')
    BY <2>1, <2>2
  <2>7. DeviceTypes' /\ MemoryTypes'
    BY <2>1, <2>3, <2>4, <2>5, <2>6 DEF DeviceTypes, MemoryTypes, FifoWords
  <2>8. run' => busy'
    BY <2>1, <2>2, <2>6 DEF run
  <2>9. chain_completed_int' => "RUN" \in control_reg' /\ ~busy'
    BY <2>1, <2>6 DEF run
  <2>10. EngineInv'
    BY <2>1, <2>8, <2>9 DEF EngineInv
  <2> QED
    BY <2>1, <2>2, <2>7, <2>10
<1>4. CASE Poll
  <2>1. /\ {"RUN", "DESC_POLL_EN"} \subseteq control_reg /\ chain_completed_int' = FALSE
        /\ UNCHANGED <<control_reg, error, csr_irq, descriptor_pointer, desc_address_fifo, status_token,
                       owned, failed, callback, use, program, tail, pc, op, reg, desc>>
        /\ owned_by_hw' = ((~run /\ run') \/ (owned_by_hw /\ ~FALSE))
        /\ next_desc' = IF ~run /\ run' THEN descriptor_pointer ELSE next_desc
    BY <1>4 DEF Poll, LoadDescriptor, memoryVars, application, cpu
  <2>2. owned_by_hw' \in BOOLEAN /\ next_desc' \in Descriptors
    BY <2>1 DEF DeviceTypes
  <2>3. DeviceTypes' /\ MemoryTypes'
    BY <2>1, <2>2 DEF DeviceTypes, MemoryTypes
  <2>4. run' => busy'
    <3>1. ASSUME run', run
          PROVE  busy'
      BY <2>1, <3>1 DEF EngineInv, busy
    <3> QED
      BY <2>1, <3>1 DEF busy
  <2>5. EngineInv'
    BY <2>1, <2>4 DEF EngineInv
  <2> QED
    BY <1>4, <2>1, <2>3, <2>5
<1> QED
  BY <1>1, <1>2, <1>3, <1>4 DEF Engine

-----------------------------------------------------------------------------
(* The steps of the processor, as far as the controller is at rest.        *)

\* Where the program or the handler is and what it has read.
LEMMA PlaceChanged ==
  ASSUME CpuTypes, NEW c \in Contexts, NEW b \in MainPlaces \cup IsrPlaces, Goto(c, b)
  PROVE  /\ pc'[c] = b /\ \A e \in Contexts : e # c => pc'[e] = pc[e]
         /\ op' = op /\ desc' = desc /\ pc' \in [Contexts -> MainPlaces \cup IsrPlaces]
BY DEF Goto, CpuTypes

LEMMA ValueRead ==
  ASSUME CpuTypes, NEW c \in Contexts, NEW v \in SUBSET (Control \cup {"ERROR"}),
         reg' = [reg EXCEPT ![c] = v]
  PROVE  /\ reg'[c] = v /\ \A e \in Contexts : e # c => reg'[e] = reg[e]
         /\ reg' \in [Contexts -> SUBSET (Control \cup {"ERROR"})]
BY DEF CpuTypes

\* The control register is read to be changed.
Reads(c, a, b) ==
  /\ \/ a = "clear_read" /\ b = "clear_write"
     \/ a = "run_read" /\ b = "run_write"
     \/ a = "change_read" /\ b = "change_write"
     \/ a = "stop_read" /\ b = "stop_write" /\ c = "main"
     \/ a = "irq_read" /\ b = "irq_write" /\ c = "isr"
  /\ At(c, a) /\ Goto(c, b) /\ ReadControl(c)
  /\ UNCHANGED <<device, memoryVars, application>>

\* Reading changes nothing but the copy.
LEMMA ReadStep ==
  ASSUME BInv, NEW c \in Contexts, NEW a, NEW b, Reads(c, a, b)
  PROVE  BInv'
<1>1. /\ b \in MainPlaces \cup IsrPlaces /\ pc[c] = a
      /\ c = "main" => pc["isr"] = "none" /\ ~csr_irq
      /\ reg' = [reg EXCEPT ![c] = control_reg]
      /\ UNCHANGED device /\ UNCHANGED memoryVars
      /\ UNCHANGED <<callback, use, program, tail>>
  BY DEF Reads, MainPlaces, IsrPlaces, Prepared, Transferring, Running, Changing, At, ReadControl, application
<1>2. Types /\ DeviceTypes /\ MemoryTypes /\ ApplicationTypes /\ CpuTypes /\ EngineInv /\ PlacesInv
      /\ RestInv /\ TransfersInv /\ PollsInv /\ control_reg \in SUBSET (Control \cup {"ERROR"})
      /\ control_reg \in SUBSET Control
  BY DEF BInv, Types, DeviceTypes
<1>3. /\ pc'[c] = b /\ \A e \in Contexts : e # c => pc'[e] = pc[e]
      /\ op' = op /\ desc' = desc /\ pc' \in [Contexts -> MainPlaces \cup IsrPlaces]
  BY <1>1, <1>2, PlaceChanged DEF Reads
<1>4. /\ reg'[c] = control_reg /\ \A e \in Contexts : e # c => reg'[e] = reg[e]
      /\ reg' \in [Contexts -> SUBSET (Control \cup {"ERROR"})]
  BY <1>1, <1>2, ValueRead
<1>5. /\ DeviceTypes' /\ EngineInv' /\ run' = run /\ busy' = busy
      /\ control_reg' = control_reg /\ csr_irq' = csr_irq
  BY <1>1, <1>2, DeviceStill
<1>6. Types'
  BY <1>1, <1>2, <1>3, <1>4, <1>5 DEF Types, MemoryTypes, ApplicationTypes, CpuTypes, memoryVars
<1>7. \/ a = "clear_read" /\ b = "clear_write"
      \/ a = "run_read" /\ b = "run_write"
      \/ a = "change_read" /\ b = "change_write"
      \/ a = "stop_read" /\ b = "stop_write" /\ c = "main"
      \/ a = "irq_read" /\ b = "irq_write" /\ c = "isr"
  BY DEF Reads
<1> USE DEF MainPlaces, IsrPlaces, Prepared, Transferring, Running, Changing, Writing, Contexts
<1>8. PlacesInv'
  BY <1>1, <1>2, <1>3, <1>4, <1>7 DEF PlacesInv
<1>9. RestInv'
  BY <1>1, <1>2, <1>3, <1>5, <1>7 DEF RestInv
<1>10. TransfersInv'
  BY <1>1, <1>2, <1>3, <1>4, <1>5, <1>7 DEF TransfersInv
<1>11. PollsInv'
  BY <1>1, <1>2, <1>3, <1>4, <1>5, <1>7 DEF PollsInv, Fresh
<1> QED
  BY <1>5, <1>6, <1>8, <1>9, <1>10, <1>11 DEF BInv

\* The control register is written.
Writes(c, a, b, bits, x) ==
  /\ \/ a = "clear_write" /\ b = "clear_status" /\ bits = reg[c] \ {"RUN"} /\ reg' = reg
     \/ /\ a = "run_write" /\ b = (IF op[c] = "sync" THEN "wait" ELSE Returned(c))
        /\ bits = transferControl(c) /\ reg' = [reg EXCEPT ![c] = {}]
     \/ a = "change_write" /\ b = Returned(c) /\ bits = changed(c) /\ reg' = [reg EXCEPT ![c] = {}]
     \/ /\ a = "stop_write" /\ b = "status_read" /\ c = "main"
        /\ bits = reg[c] \ {"RUN"} /\ reg' = reg
     \/ /\ a = "irq_write" /\ b \in {"callback", "none"} /\ c = "isr"
        /\ bits = reg[c] /\ reg' = [reg EXCEPT ![c] = {}]
  /\ At(c, a) /\ Goto(c, b) /\ WriteControl(bits, x)
  /\ UNCHANGED <<memoryVars, application>>

\* The values that are written.
LEMMA Bits ==
  ASSUME BInv, NEW c \in Contexts, NEW a, NEW b, NEW bits, NEW x \in BOOLEAN, Writes(c, a, b, bits, x)
  PROVE  /\ bits \in SUBSET Control
         /\ TransfersOnly(use) => "DESC_POLL_EN" \notin bits
         /\ "RUN" \in bits => \/ a = "run_write"
                              \/ a = "change_write" /\ op[c] # "stop" /\ (op[c] = "start" \/ "RUN" \in reg[c])
                              \/ a = "irq_write"
<1>1. /\ pc[c] = a /\ Types /\ PlacesInv /\ TransfersInv /\ use \in Applications
      /\ use.control \in SUBSET Control
  BY DriverAssumption DEF BInv, Writes, At, Types, ApplicationTypes
<1>2. a \in Writing => reg[c] \subseteq Control
  BY <1>1 DEF PlacesInv
<1>3. a \in Writing
  BY DEF Writes, Writing
<1>4. TransfersOnly(use) => "DESC_POLL_EN" \notin reg[c] /\ "DESC_POLL_EN" \notin use.control
  BY <1>1 DEF TransfersInv, TransfersOnly
<1>5. CASE a = "change_write"
  <2>1. op[c] \in {"start", "stop", "poll_on", "poll_off"} /\ bits = changed(c)
    BY <1>1, <1>5 DEF PlacesInv, Changing, Writes
  <2>2. \/ op[c] = "start" /\ bits = reg[c] \cup {"RUN"}
        \/ op[c] = "stop" /\ bits = reg[c] \ {"RUN"}
        \/ op[c] = "poll_on" /\ bits = reg[c] \cup {"DESC_POLL_EN"}
        \/ op[c] = "poll_off" /\ bits = reg[c] \ {"DESC_POLL_EN"}
    BY <2>1 DEF changed
  <2>3. TransfersOnly(use) => op[c] \in {"stop", "poll_off"}
    BY <1>1, <1>5 DEF TransfersInv, Changing
  <2> QED
    BY <1>2, <1>3, <1>4, <1>5, <2>2, <2>3 DEF Control
<1>6. CASE a = "run_write"
  BY <1>1, <1>2, <1>3, <1>4, <1>6 DEF Writes, transferControl, Control
<1>7. CASE a \in {"clear_write", "stop_write", "irq_write"}
  BY <1>1, <1>2, <1>3, <1>4, <1>7 DEF Writes
<1> QED
  BY <1>3, <1>5, <1>6, <1>7 DEF Writing

\* The calls a polling application begins with.
LEMMA Programs ==
  ASSUME PollsOnly(use)
  PROVE  /\ use.first # <<"start">> /\ <<"async", "start">> # <<"start">> /\ use.first # <<>>
         /\ <<"async", "start">> # <<>> /\ <<"start">> # <<>> /\ use.first # <<"async", "start">>
         /\ Head(use.first) = "poll_on" /\ Tail(use.first) = <<"async", "start">>
         /\ Head(<<"async", "start">>) = "async" /\ Tail(<<"async", "start">>) = <<"start">>
         /\ Head(<<"start">>) = "start" /\ Tail(<<"start">>) = <<>>
<1>1. use.first = <<"poll_on", "async", "start">>
  BY DEF PollsOnly
<1>2. /\ Len(use.first) = 3 /\ Len(<<"async", "start">>) = 2 /\ Len(<<"start">>) = 1 /\ Len(<<>>) = 0
  BY <1>1
<1>3. Tail(use.first) = <<"async", "start">> /\ Tail(<<"async", "start">>) = <<"start">> /\ Tail(<<"start">>) = <<>>
  BY <1>1
<1>4. Head(use.first) = "poll_on" /\ Head(<<"async", "start">>) = "async" /\ Head(<<"start">>) = "start"
  BY <1>1
<1> QED
  BY <1>2, <1>3, <1>4

\* Only what starts a transfer, start, and a handler that writes back what it read set RUN.
LEMMA WriteStep ==
  ASSUME BInv, NEW c \in Contexts, NEW a, NEW b, NEW bits, NEW x \in BOOLEAN, Writes(c, a, b, bits, x)
  PROVE  BInv'
<1>1. /\ pc[c] = a
      /\ c = "main" => pc["isr"] = "none" /\ ~csr_irq
      /\ WriteControl(bits, x) /\ UNCHANGED memoryVars
      /\ UNCHANGED <<callback, use, program, tail>>
  BY DEF Writes, At, application
<1>2. \/ a = "clear_write" /\ b = "clear_status" /\ bits = reg[c] \ {"RUN"} /\ reg' = reg
      \/ /\ a = "run_write" /\ b \in {"wait", Returned(c)} /\ reg' = [reg EXCEPT ![c] = {}]
         /\ b = "wait" => op[c] = "sync"
      \/ a = "change_write" /\ b = Returned(c) /\ reg' = [reg EXCEPT ![c] = {}]
      \/ a = "stop_write" /\ b = "status_read" /\ c = "main" /\ reg' = reg
      \/ a = "irq_write" /\ b \in {"callback", "none"} /\ c = "isr" /\ reg' = [reg EXCEPT ![c] = {}]
  BY DEF Writes, Returned
<1>3. Types /\ DeviceTypes /\ MemoryTypes /\ ApplicationTypes /\ CpuTypes /\ EngineInv /\ PlacesInv
      /\ RestInv /\ TransfersInv /\ PollsInv
  BY DEF BInv, Types
<1>4. /\ bits \in SUBSET Control
      /\ TransfersOnly(use) => "DESC_POLL_EN" \notin bits
      /\ "RUN" \in bits => \/ a = "run_write"
                           \/ a = "change_write" /\ op[c] # "stop" /\ (op[c] = "start" \/ "RUN" \in reg[c])
                           \/ a = "irq_write"
  BY Bits
<1>5. c = "isr" => op[c] # "sync"
  BY <1>3 DEF PlacesInv
<1> USE DEF MainPlaces, IsrPlaces, Prepared, Transferring, Running, Changing, Writing, Contexts, Returned
<1>6. b \in MainPlaces \cup IsrPlaces
  BY <1>2
<1>7. /\ pc'[c] = b /\ \A e \in Contexts : e # c => pc'[e] = pc[e]
      /\ op' = op /\ desc' = desc /\ pc' \in [Contexts -> MainPlaces \cup IsrPlaces]
  <2> USE DEF MainPlaces, IsrPlaces, Contexts
  <2>1. Goto(c, b)
    BY DEF Writes
  <2> QED
    BY <1>3, <1>6, <2>1, PlaceChanged
<1>8. /\ reg'[c] \in {reg[c], {}} /\ \A e \in Contexts : e # c => reg'[e] = reg[e]
      /\ reg' \in [Contexts -> SUBSET (Control \cup {"ERROR"})]
  BY <1>2, <1>3, ValueRead DEF CpuTypes
<1>9. /\ DeviceTypes' /\ EngineInv'
      /\ control_reg' = bits /\ (csr_irq' => csr_irq)
      /\ "RUN" \notin bits => ~run' /\ (busy' => busy)
  BY <1>1, <1>3, <1>4, ControlWritten
<1>10. Types'
  BY <1>1, <1>3, <1>7, <1>8, <1>9 DEF Types, MemoryTypes, ApplicationTypes, CpuTypes, memoryVars
<1>11. PlacesInv'
  <2>1. pc'["main"] \in MainPlaces /\ pc'["isr"] \in IsrPlaces
    BY <1>2, <1>3, <1>5, <1>7 DEF PlacesInv
  <2>2. ASSUME NEW e \in Contexts
        PROVE  /\ pc'[e] \in Writing => reg'[e] \subseteq Control
               /\ pc'[e] \in Changing => pc[e] = pc'[e]
               /\ pc'[e] \in Prepared => pc[e] \in Prepared
               /\ pc'[e] \in Running \cup {"status_clear"} => pc[e] \in Running \cup {"status_clear"} \/ op[e] = "sync"
    BY <1>1, <1>2, <1>3, <1>7, <1>8 DEF PlacesInv
  <2> QED
    BY <1>3, <1>7, <2>1, <2>2 DEF PlacesInv
<1>12. RestInv'
  <2>1. pc["main"] \in Transferring => pc["isr"] = "none" /\ ~csr_irq
    BY <1>3 DEF RestInv
  <2>2. ASSUME NEW e \in Contexts, pc'[e] \in Transferring
        PROVE  e = c /\ a = "clear_write"
    BY <1>1, <1>2, <1>7, <2>1, <2>2
  <2>3. a = "clear_write" => ~busy /\ "RUN" \notin bits /\ (c = "main" => pc["isr"] = "none" /\ ~csr_irq)
    BY <1>1, <1>2, <1>3, <1>4 DEF RestInv
  <2>4. \A e \in Contexts : pc'[e] \in Transferring => ~busy' /\ ~run' /\ "RUN" \notin control_reg'
    BY <1>9, <2>2, <2>3
  <2>5. pc'["main"] \in Transferring => pc'["isr"] = "none" /\ ~csr_irq'
    BY <1>7, <1>9, <2>2, <2>3
  <2> HIDE DEF Prepared, Running, Changing, Writing, MainPlaces, IsrPlaces
  <2> QED
    BY <2>4, <2>5 DEF RestInv
<1>13. TransfersInv'
  BY <1>1, <1>2, <1>3, <1>4, <1>7, <1>8, <1>9 DEF TransfersInv
<1>14. PollsInv'
  <2> SUFFICES ASSUME PollsOnly(use)
               PROVE  PollsInv'
    BY <1>1 DEF PollsInv
  <2>1. /\ program \in {use.first, <<"async", "start">>, <<"start">>, <<>>}
        /\ program \in {use.first, <<"async", "start">>} => Fresh
        /\ program \in {use.first, <<"async", "start">>} /\ pc["main"] \in Changing => op["main"] = "poll_on"
        /\ pc["main"] \in Prepared => program = <<"start">> /\ Fresh
        /\ pc["isr"] \notin Prepared
        /\ op["main"] # "sync"
    BY <1>3 DEF PollsInv
  <2>2. ASSUME Fresh, program \in {use.first, <<"async", "start">>} \/ pc'["main"] \in Prepared
        PROVE  Fresh'
    <3>1. c = "main" /\ "RUN" \notin reg["main"]
      BY <1>1, <1>2, <2>2 DEF Fresh
    <3>2. a # "run_write"
      BY <1>1, <1>2, <1>7, <2>1, <2>2, <3>1, Programs
    <3>3. "RUN" \notin bits
      BY <1>1, <1>2, <1>4, <1>7, <2>1, <2>2, <3>1, <3>2
    <3> QED
      BY <1>7, <1>8, <1>9, <2>2, <3>1, <3>3 DEF Fresh
  <2>3. pc'["main"] \in Prepared => pc["main"] \in Prepared
    BY <1>1, <1>2, <1>7
  <2>4. pc'["main"] \in Changing => pc["main"] \in Changing
    BY <1>1, <1>2, <1>7
  <2>5. pc'["isr"] \notin Prepared
    BY <1>1, <1>2, <1>7, <2>1
  <2> QED
    BY <1>1, <1>7, <2>1, <2>2, <2>3, <2>4, <2>5 DEF PollsInv
<1> QED
  BY <1>9, <1>10, <1>11, <1>12, <1>13, <1>14 DEF BInv

\* A transfer looks whether the controller is busy, one that waits looks again, and the
\* handler is entered.
Looks(c, a, b) ==
  /\ \/ a = "busy" /\ b = "clear_read" /\ ~busy
     \/ a = "busy" /\ b = Returned(c) /\ busy
     \/ a = "wait" /\ b = "stop_read" /\ ~busy /\ c = "main"
  /\ At(c, a) /\ Goto(c, b) /\ UNCHANGED <<device, memoryVars, application, reg>>

\* A transfer goes on only at a controller at rest.
LEMMA LookStep ==
  ASSUME BInv, NEW c \in Contexts, NEW a, NEW b, Looks(c, a, b) \/ (Interrupt /\ c = "isr" /\ a = "none" /\ b = "irq_read")
  PROVE  BInv'
<1> USE DEF MainPlaces, IsrPlaces, Prepared, Transferring, Running, Changing, Writing, Contexts, Returned
<1>1. /\ b \in MainPlaces \cup IsrPlaces /\ pc[c] = a /\ Goto(c, b) /\ reg' = reg
      /\ UNCHANGED device /\ UNCHANGED memoryVars /\ UNCHANGED <<callback, use, program, tail>>
      /\ \/ a = "busy" /\ b = "clear_read" /\ ~busy /\ (c = "main" => pc["isr"] = "none" /\ ~csr_irq)
         \/ a = "busy" /\ b = Returned(c)
         \/ a = "wait" /\ b = "stop_read" /\ c = "main"
         \/ a = "none" /\ b = "irq_read" /\ c = "isr" /\ csr_irq
  BY DEF Looks, Interrupt, At, application
<1>2. Types /\ DeviceTypes /\ MemoryTypes /\ ApplicationTypes /\ CpuTypes /\ EngineInv /\ PlacesInv
      /\ RestInv /\ TransfersInv /\ PollsInv
  BY DEF BInv, Types
<1>3. /\ pc'[c] = b /\ \A e \in Contexts : e # c => pc'[e] = pc[e]
      /\ op' = op /\ desc' = desc /\ pc' \in [Contexts -> MainPlaces \cup IsrPlaces]
  BY <1>1, <1>2, PlaceChanged
<1>4. /\ DeviceTypes' /\ EngineInv' /\ run' = run /\ busy' = busy
      /\ control_reg' = control_reg /\ csr_irq' = csr_irq
  BY <1>1, <1>2, DeviceStill
<1>5. Types'
  BY <1>1, <1>2, <1>3, <1>4 DEF Types, MemoryTypes, ApplicationTypes, CpuTypes, memoryVars
<1>6. PlacesInv'
  BY <1>1, <1>2, <1>3 DEF PlacesInv
<1>7. RestInv'
  <2>1. ~busy => ~run
    BY <1>2 DEF EngineInv
  <2>2. pc["main"] \in Transferring => pc["isr"] = "none" /\ ~csr_irq
    BY <1>2 DEF RestInv
  <2> QED
    BY <1>1, <1>2, <1>3, <1>4, <2>1, <2>2 DEF RestInv
<1>8. TransfersInv'
  BY <1>1, <1>2, <1>3, <1>4 DEF TransfersInv
<1>9. PollsInv'
  BY <1>1, <1>2, <1>3, <1>4 DEF PollsInv, Fresh
<1> QED
  BY <1>4, <1>5, <1>6, <1>7, <1>8, <1>9 DEF BInv

\* The status register is cleared, read and cleared again, the descriptor pointer written.
LEMMA StatusStep ==
  ASSUME BInv, NEW c \in Contexts, NEW a, NEW b,
         \/ a = "clear_status" /\ b = "pointer" /\ ClearStatusReg(c)
         \/ a = "pointer" /\ b = "run_read" /\ WritePointer(c)
         \/ a = "status_read" /\ b = "status_clear" /\ c = "main" /\ StatusRead
         \/ a = "status_clear" /\ b = "idle" /\ c = "main" /\ StatusClear
  PROVE  BInv'
<1> USE DEF MainPlaces, IsrPlaces, Prepared, Transferring, Running, Changing, Writing, Contexts
<1>1. /\ b \in MainPlaces \cup IsrPlaces /\ At(c, a) /\ Goto(c, b)
      /\ UNCHANGED memoryVars /\ UNCHANGED <<callback, use, program, tail>>
      /\ \/ reg' = reg
         \/ c = "main" /\ reg' = [reg EXCEPT !["main"] = {}]
         \/ c = "main" /\ a = "status_read" /\ reg' = [reg EXCEPT !["main"] = {"ERROR"}]
  BY DEF ClearStatusReg, WritePointer, StatusRead, StatusClear, application
<1>2. Types /\ DeviceTypes /\ MemoryTypes /\ ApplicationTypes /\ CpuTypes /\ EngineInv /\ PlacesInv
      /\ RestInv /\ TransfersInv /\ PollsInv
  BY DEF BInv, Types
<1>3. /\ pc'[c] = b /\ \A e \in Contexts : e # c => pc'[e] = pc[e]
      /\ op' = op /\ desc' = desc /\ pc' \in [Contexts -> MainPlaces \cup IsrPlaces]
  BY <1>1, <1>2, PlaceChanged
<1>4. pc[c] = a /\ (c = "main" => pc["isr"] = "none" /\ ~csr_irq)
  BY <1>1 DEF At
<1>5. /\ reg'[c] \in {reg[c], {}, {"ERROR"}} /\ \A e \in Contexts : e # c => reg'[e] = reg[e]
      /\ reg' \in [Contexts -> SUBSET (Control \cup {"ERROR"})]
  BY <1>1, <1>2, ValueRead DEF CpuTypes
<1>6. /\ DeviceTypes' /\ EngineInv' /\ control_reg' = control_reg /\ csr_irq' = csr_irq
      /\ "RUN" \notin control_reg => ~run' /\ busy' = busy
  <2>1. CASE ClearStatusReg(c) \/ StatusClear
    <3>1. ClearStatus
      BY <2>1 DEF ClearStatusReg, StatusClear
    <3> QED
      BY <1>2, <3>1, StatusCleared
  <2>2. CASE WritePointer(c) /\ a = "pointer"
    <3>1. desc[c] # <<>>
      BY <1>2, <1>4, <2>2 DEF PlacesInv
    <3>2. desc[c] \in Seq(Descriptors)
      BY <1>2 DEF CpuTypes
    <3>3. Head(desc[c]) \in Descriptors
      BY <3>1, <3>2
    <3>4. "RUN" \notin control_reg => ~run
      BY DEF run
    <3> QED
      BY <1>2, <2>2, <3>3, <3>4, PointerWritten DEF WritePointer
  <2>3. CASE StatusRead
    <3>1. UNCHANGED device
      BY <2>3 DEF StatusRead
    <3>2. "RUN" \notin control_reg => ~run
      BY DEF run
    <3> QED
      BY <1>2, <3>1, <3>2, DeviceStill
  <2> QED
    BY <2>1, <2>2, <2>3
<1>7. Types'
  BY <1>1, <1>2, <1>3, <1>5, <1>6 DEF Types, MemoryTypes, ApplicationTypes, CpuTypes, memoryVars
<1>8. /\ a \in {"clear_status", "pointer"} \/ c = "main"
      /\ <<a, b>> \in {<<"clear_status", "pointer">>, <<"pointer", "run_read">>,
                       <<"status_read", "status_clear">>, <<"status_clear", "idle">>}
  OBVIOUS
<1>9. PlacesInv'
  BY <1>2, <1>3, <1>4, <1>5, <1>8 DEF PlacesInv
<1>10. RestInv'
  <2>1. pc["main"] \in Transferring => pc["isr"] = "none" /\ ~csr_irq
    BY <1>2 DEF RestInv
  <2>2. ASSUME NEW e \in Contexts, pc'[e] \in Transferring
        PROVE  e = c /\ a \in {"clear_status", "pointer"}
    BY <1>3, <1>4, <1>8, <2>1, <2>2
  <2>3. a \in {"clear_status", "pointer"} =>
          ~busy /\ "RUN" \notin control_reg /\ (c = "main" => pc["isr"] = "none" /\ ~csr_irq)
    BY <1>2, <1>4 DEF RestInv
  <2>4. \A e \in Contexts : pc'[e] \in Transferring => ~busy' /\ ~run' /\ "RUN" \notin control_reg'
    BY <1>6, <2>2, <2>3
  <2>5. pc'["main"] \in Transferring => pc'["isr"] = "none" /\ ~csr_irq'
    BY <1>3, <1>6, <2>2, <2>3
  <2> HIDE DEF Prepared, Running, Changing, Writing, MainPlaces, IsrPlaces
  <2> QED
    BY <2>4, <2>5 DEF RestInv
<1>11. TransfersInv'
  BY <1>1, <1>2, <1>3, <1>4, <1>5, <1>6, <1>8 DEF TransfersInv
<1>12. PollsInv'
  <2> SUFFICES ASSUME PollsOnly(use)
               PROVE  PollsInv'
    BY <1>1 DEF PollsInv
  <2>1. /\ program \in {use.first, <<"async", "start">>, <<"start">>, <<>>}
        /\ program \in {use.first, <<"async", "start">>} => Fresh
        /\ program \in {use.first, <<"async", "start">>} /\ pc["main"] \in Changing => op["main"] = "poll_on"
        /\ pc["main"] \in Prepared => program = <<"start">> /\ Fresh
        /\ pc["isr"] \notin Prepared
        /\ op["main"] # "sync"
    BY <1>2 DEF PollsInv
  <2>2. ASSUME Fresh
        PROVE  Fresh'
    <3>1. c = "main"
      BY <1>4, <1>8, <2>2 DEF Fresh
    <3>2. "RUN" \notin reg'["main"]
      BY <1>5, <2>2, <3>1 DEF Fresh
    <3> QED
      BY <1>3, <1>6, <2>2, <3>1, <3>2 DEF Fresh
  <2>3. a \in {"clear_status", "pointer"}
    BY <1>2, <1>4, <1>8, <2>1 DEF PlacesInv
  <2>4. pc'["main"] \in Prepared => pc["main"] \in Prepared
    BY <1>3, <1>4, <2>3
  <2>5. pc'["main"] \in Changing => pc["main"] \in Changing
    BY <1>3, <1>8
  <2>6. pc'["isr"] \notin Prepared
    BY <1>3, <1>4, <2>1, <2>3
  <2> QED
    BY <1>1, <1>3, <2>1, <2>2, <2>4, <2>5, <2>6 DEF PollsInv
<1> QED
  BY <1>6, <1>7, <1>9, <1>10, <1>11, <1>12 DEF BInv

-----------------------------------------------------------------------------
(* Calls, and the callback.                                                *)

\* The chain that is built, and what else becomes of the ring.
LEMMA Built ==
  ASSUME Types, NEW c \in Contexts, NEW n \in 1..(Ring - 2), BuildChain(c, n)
  PROVE  \E new \in Seq(Descriptors) :
           /\ Chain(new, tail') /\ new # <<>> /\ new[1] = next(tail) /\ tail' # tail
           /\ \A k \in 1..Len(new) : new[k] # tail
           /\ desc' = [desc EXCEPT ![c] = new]
           /\ busy => ~owned[tail'] /\ \A k \in 1..Len(new) : ~owned[new[k]]
           /\ tail' \in Descriptors /\ MemoryTypes'
           /\ \A d \in Descriptors :
                /\ owned'[d] <=> (\E k \in 1..Len(new) : d = new[k]) \/ (owned[d] /\ d # tail')
                /\ failed'[d] <=> failed[d] /\ \A k \in 1..Len(new) : d # new[k]
<1> DEFINE new == chain(next(tail), n)
           end == next(new[n])
<1>1. tail \in Descriptors
  BY DEF Types, ApplicationTypes
<1>2. /\ Chain(new, end) /\ Len(new) = n /\ new[1] = next(tail)
      /\ end # tail /\ \A k \in 1..n : new[k] # tail
  BY <1>1, ChainFrom
<1>3. n \in Nat /\ n >= 1
  BY RingLarge
<1> HIDE DEF new
<1>4. new \in Seq(Descriptors) /\ new # <<>> /\ new[n] \in Descriptors
  BY <1>2, <1>3 DEF Chain
<1>5. end \in Descriptors
  BY <1>4, NextOf
<1>6. /\ \A d \in {new[i] : i \in 1..n} \cup {end} : busy => ~owned[d] /\ d # tail
      /\ owned' = [d \in Descriptors |-> \/ \E i \in 1..n : d = new[i]
                                         \/ owned[d] /\ d # end]
      /\ failed' = [d \in Descriptors |->
                      failed[d] /\ \A i \in 1..n : d # new[i]]
      /\ tail' = end
      /\ desc' = [desc EXCEPT ![c] = new]
  BY DEF BuildChain, new
<1> HIDE DEF end
<1>7. busy => ~owned[end] /\ \A k \in 1..Len(new) : ~owned[new[k]]
  BY <1>2, <1>6
<1>8. \A d \in Descriptors : owned[d] \in BOOLEAN /\ failed[d] \in BOOLEAN
  BY DEF Types, MemoryTypes
<1>9. MemoryTypes'
  <2>1. \A d \in Descriptors : ((\E i \in 1..n : d = new[i]) \/ (owned[d] /\ d # end)) \in BOOLEAN
    OBVIOUS
  <2>2. owned' \in [Descriptors -> BOOLEAN]
    BY <1>6, <2>1
  <2>3. \A d \in Descriptors : (failed[d] /\ \A i \in 1..n : d # new[i]) \in BOOLEAN
    OBVIOUS
  <2>4. failed' \in [Descriptors -> BOOLEAN]
    BY <1>6, <2>3
  <2> QED
    BY <2>2, <2>4 DEF MemoryTypes
<1>10. \A d \in Descriptors : owned'[d] <=> (\E k \in 1..Len(new) : d = new[k]) \/ (owned[d] /\ d # end)
  BY <1>2, <1>6
<1>11. \A d \in Descriptors : failed'[d] <=> failed[d] /\ \A k \in 1..Len(new) : d # new[k]
  BY <1>2, <1>6
<1> QED
  BY <1>2, <1>4, <1>5, <1>6, <1>7, <1>9, <1>10, <1>11

\* What a call leaves of the program, and what it may be.
LEMMA Called ==
  ASSUME Types, TransfersInv, PollsInv, NEW o \in Calls, Call(o)
  PROVE  /\ At("main", "idle") /\ program' \in Seq(Calls)
         /\ TransfersOnly(use) => o \in Made(use) /\ \A k \in 1..Len(program') : program'[k] \in Made(use)
         /\ PollsOnly(use) =>
              \/ program = use.first /\ o = "poll_on" /\ program' = <<"async", "start">>
              \/ program = <<"async", "start">> /\ o = "async" /\ program' = <<"start">>
              \/ program = <<"start">> /\ o = "start" /\ program' = <<>>
              \/ program = <<>> /\ program' = <<>> /\ o \notin {"async", "sync"}
<1>1. /\ At("main", "idle")
      /\ IF program # <<>> THEN o = Head(program) /\ program' = Tail(program)
         ELSE o \in use.calls /\ program' = program
  BY DEF Call
<1>2. program \in Seq(Calls)
  BY DEF Types, ApplicationTypes
<1>3. program # <<>> => /\ Tail(program) \in Seq(Calls) /\ Len(Tail(program)) = Len(program) - 1
                        /\ Len(program) \in Nat /\ Len(program) > 0 /\ Head(program) = program[1]
                        /\ \A k \in 1..(Len(program) - 1) : Tail(program)[k] = program[k + 1]
  BY <1>2
<1>4. ASSUME TransfersOnly(use)
      PROVE  o \in Made(use) /\ \A k \in 1..Len(program') : program'[k] \in Made(use)
  <2>1. \A k \in 1..Len(program) : program[k] \in Made(use)
    BY <1>4 DEF TransfersInv
  <2>2. CASE program = <<>>
    BY <1>1, <2>1, <2>2 DEF Made
  <2>3. CASE program # <<>>
    <3>1. 1 \in 1..Len(program) /\ o = program[1]
      BY <1>1, <1>3, <2>3
    <3>2. o \in Made(use)
      BY <2>1, <3>1
    <3>3. ASSUME NEW k \in 1..Len(program')
          PROVE  program'[k] \in Made(use)
      <4>1. k + 1 \in 1..Len(program) /\ program'[k] = program[k + 1]
        BY <1>1, <1>3, <2>3
      <4> QED
        BY <2>1, <4>1
    <3> QED
      BY <3>2, <3>3
  <2> QED
    BY <2>2, <2>3
<1>5. ASSUME PollsOnly(use)
      PROVE  \/ program = use.first /\ o = "poll_on" /\ program' = <<"async", "start">>
             \/ program = <<"async", "start">> /\ o = "async" /\ program' = <<"start">>
             \/ program = <<"start">> /\ o = "start" /\ program' = <<>>
             \/ program = <<>> /\ program' = <<>> /\ o \notin {"async", "sync"}
  <2>1. program \in {use.first, <<"async", "start">>, <<"start">>, <<>>}
    BY <1>5 DEF PollsInv
  <2>2. use.calls \cap {"async", "sync"} = {}
    BY <1>5 DEF PollsOnly
  <2> QED
    BY <1>1, <1>5, <2>1, <2>2, Programs
<1> QED
  BY <1>1, <1>2, <1>3, <1>4, <1>5

\* A call finds no transfer under way.
LEMMA CallStep ==
  ASSUME BInv, NEW o \in Calls, Call(o)
  PROVE  BInv'
<1> USE DEF MainPlaces, IsrPlaces, Prepared, Transferring, Running, Changing, Writing, Contexts
<1>1. Types /\ DeviceTypes /\ MemoryTypes /\ ApplicationTypes /\ CpuTypes /\ EngineInv /\ PlacesInv
      /\ RestInv /\ TransfersInv /\ PollsInv
  BY DEF BInv, Types
<1>2. /\ At("main", "idle") /\ program' \in Seq(Calls)
      /\ TransfersOnly(use) => o \in Made(use) /\ \A k \in 1..Len(program') : program'[k] \in Made(use)
      /\ PollsOnly(use) =>
           \/ program = use.first /\ o = "poll_on" /\ program' = <<"async", "start">>
           \/ program = <<"async", "start">> /\ o = "async" /\ program' = <<"start">>
           \/ program = <<"start">> /\ o = "start" /\ program' = <<>>
           \/ program = <<>> /\ program' = <<>> /\ o \notin {"async", "sync"}
  BY <1>1, Called
<1>3. pc["main"] = "idle" /\ pc["isr"] = "none" /\ ~csr_irq
  BY <1>2 DEF At
<1>4. /\ UNCHANGED device /\ reg' = reg /\ use' = use
      /\ \/ o \in {"async", "sync"} /\ CallTransfer(o)
         \/ o \in {"start", "stop", "poll_on", "poll_off"} /\ CallChange(o)
         \/ o \in {"register", "unregister"} /\ CallRegister(o)
         \/ o = "append" /\ CallAppend
  BY DEF Call
<1>5. /\ DeviceTypes' /\ EngineInv' /\ run' = run /\ busy' = busy
      /\ control_reg' = control_reg /\ csr_irq' = csr_irq
  BY <1>1, <1>4, DeviceStill
<1>6. \/ /\ o \in {"async", "sync"} /\ op'["main"] = o /\ op'["isr"] = op["isr"] /\ pc'["main"] = "busy"
         /\ pc'["isr"] = "none" /\ desc'["main"] # <<>> /\ desc'["isr"] = desc["isr"]
      \/ /\ o \in {"start", "stop", "poll_on", "poll_off"} /\ op'["main"] = o /\ op'["isr"] = op["isr"]
         /\ pc'["main"] = "change_read" /\ pc'["isr"] = "none" /\ desc' = desc
      \/ /\ o \in {"register", "unregister", "append"} /\ UNCHANGED <<pc, op, desc>>
  <2>1. CASE o \in {"async", "sync"} /\ CallTransfer(o)
    <3>1. PICK n \in 1..(Ring - 2) : BuildChain("main", n)
      BY <2>1 DEF CallTransfer
    <3>2. PICK new \in Seq(Descriptors) : new # <<>> /\ desc' = [desc EXCEPT !["main"] = new]
      BY <1>1, <3>1, Built
    <3> QED
      BY <1>1, <1>3, <2>1, <3>2 DEF CallTransfer, Enter, entry, CpuTypes
  <2>2. CASE o \in {"start", "stop", "poll_on", "poll_off"} /\ CallChange(o)
    BY <1>1, <1>3, <2>2 DEF CallChange, Enter, entry, CpuTypes
  <2>3. CASE o \in {"register", "unregister"} /\ CallRegister(o)
    BY <2>3 DEF CallRegister
  <2>4. CASE o = "append" /\ CallAppend
    BY <2>4 DEF CallAppend
  <2> QED
    BY <1>4, <2>1, <2>2, <2>3, <2>4
<1>7. Types'
  <2>1. CASE o \in {"async", "sync"} /\ CallTransfer(o)
    <3>1. PICK n \in 1..(Ring - 2) : BuildChain("main", n)
      BY <2>1 DEF CallTransfer
    <3>2. PICK new \in Seq(Descriptors) :
             MemoryTypes' /\ tail' \in Descriptors /\ desc' = [desc EXCEPT !["main"] = new]
      BY <1>1, <3>1, Built
    <3> QED
      BY <1>1, <1>2, <1>4, <1>5, <2>1, <3>2
      DEF CallTransfer, Enter, entry, CpuTypes, ApplicationTypes, Types
  <2>2. CASE o \in {"start", "stop", "poll_on", "poll_off"} /\ CallChange(o)
    BY <1>1, <1>2, <1>4, <1>5, <2>2
    DEF CallChange, Enter, entry, CpuTypes, ApplicationTypes, MemoryTypes, Types, memoryVars
  <2>3. CASE o \in {"register", "unregister"} /\ CallRegister(o)
    BY <1>1, <1>2, <1>4, <1>5, <2>3 DEF CallRegister, CpuTypes, ApplicationTypes, MemoryTypes, Types, memoryVars
  <2>4. CASE o = "append" /\ CallAppend
    <3>1. next(tail) \in Descriptors /\ tail \in Descriptors
      BY <1>1, NextOf DEF ApplicationTypes
    <3>2. /\ owned' = [owned EXCEPT ![next(tail)] = FALSE, ![tail] = TRUE]
          /\ failed' = [failed EXCEPT ![tail] = FALSE] /\ tail' = next(tail)
          /\ UNCHANGED <<callback, pc, op, desc>>
      BY <2>4 DEF CallAppend, Construct
    <3>3. MemoryTypes'
      BY <1>1, <3>1, <3>2 DEF MemoryTypes
    <3> QED
      BY <1>1, <1>2, <1>4, <1>5, <3>1, <3>2, <3>3 DEF CpuTypes, ApplicationTypes, Types
  <2> QED
    BY <1>4, <2>1, <2>2, <2>3, <2>4
<1>8. PlacesInv'
  BY <1>1, <1>3, <1>4, <1>6 DEF PlacesInv
<1>9. RestInv'
  BY <1>1, <1>3, <1>5, <1>6 DEF RestInv
<1>10. TransfersInv'
  <2> SUFFICES ASSUME TransfersOnly(use)
               PROVE  TransfersInv'
    BY <1>4 DEF TransfersInv
  <2>1. o \notin {"start", "poll_on", "append"} /\ (o = "sync" => use.callback = "none")
    BY <1>2 DEF TransfersOnly
  <2> QED
    BY <1>1, <1>2, <1>3, <1>4, <1>5, <1>6, <2>1 DEF TransfersInv
<1>11. PollsInv'
  <2> SUFFICES ASSUME PollsOnly(use)
               PROVE  PollsInv'
    BY <1>4 DEF PollsInv
  <2>1. /\ program \in {use.first, <<"async", "start">>, <<"start">>, <<>>}
        /\ program \in {use.first, <<"async", "start">>} => Fresh
        /\ pc["isr"] \notin Prepared
        /\ op["main"] # "sync"
    BY <1>1 DEF PollsInv
  <2>2. Fresh => Fresh'
    BY <1>3, <1>4, <1>5, <1>6 DEF Fresh
  <2>3. CASE program = use.first /\ o = "poll_on" /\ program' = <<"async", "start">>
    BY <1>3, <1>4, <1>6, <2>1, <2>2, <2>3, Programs DEF PollsInv
  <2>4. CASE program = <<"async", "start">> /\ o = "async" /\ program' = <<"start">>
    BY <1>3, <1>4, <1>6, <2>1, <2>2, <2>4, Programs DEF PollsInv
  <2>5. CASE program = <<"start">> /\ o = "start" /\ program' = <<>>
    BY <1>3, <1>4, <1>6, <2>1, <2>5, Programs DEF PollsInv
  <2>6. CASE program = <<>> /\ program' = <<>> /\ o \notin {"async", "sync"}
    BY <1>3, <1>4, <1>6, <2>1, <2>6, Programs DEF PollsInv
  <2> QED
    BY <1>2, <2>3, <2>4, <2>5, <2>6
<1> QED
  BY <1>5, <1>7, <1>8, <1>9, <1>10, <1>11 DEF BInv

\* The callback may begin a transfer: the program is not in the middle of one.
LEMMA CallbackStep ==
  ASSUME BInv, Callback
  PROVE  BInv'
<1> USE DEF MainPlaces, IsrPlaces, Prepared, Transferring, Running, Changing, Writing, Contexts
<1>1. Types /\ DeviceTypes /\ MemoryTypes /\ ApplicationTypes /\ CpuTypes /\ EngineInv /\ PlacesInv
      /\ RestInv /\ TransfersInv /\ PollsInv
  BY DEF BInv, Types
<1>2. /\ pc["isr"] = "callback" /\ UNCHANGED device /\ UNCHANGED <<callback, use, program, reg>>
      /\ \/ Goto("isr", "none") /\ UNCHANGED memoryVars /\ UNCHANGED tail
         \/ use.callback = "async" /\ Enter("isr", "async") /\ BuildChain("isr", 1)
         \/ use.callback = "stop" /\ Enter("isr", "stop") /\ UNCHANGED memoryVars /\ UNCHANGED <<tail, desc>>
  BY DEF Callback, At
<1>3. /\ DeviceTypes' /\ EngineInv' /\ run' = run /\ busy' = busy
      /\ control_reg' = control_reg /\ csr_irq' = csr_irq
  BY <1>1, <1>2, DeviceStill
<1>4. /\ pc'["main"] = pc["main"] /\ op'["main"] = op["main"] /\ desc'["main"] = desc["main"]
      /\ \/ pc'["isr"] = "none" /\ op'["isr"] = op["isr"] /\ desc'["isr"] = desc["isr"]
         \/ use.callback = "async" /\ pc'["isr"] = "busy" /\ op'["isr"] = "async" /\ desc'["isr"] # <<>>
         \/ use.callback = "stop" /\ pc'["isr"] = "change_read" /\ op'["isr"] = "stop" /\ desc'["isr"] = desc["isr"]
      /\ Types'
  <2>1. CASE Goto("isr", "none") /\ UNCHANGED memoryVars /\ UNCHANGED tail
    BY <1>1, <1>2, <1>3, <2>1 DEF Goto, Types, MemoryTypes, ApplicationTypes, CpuTypes, memoryVars
  <2>2. CASE use.callback = "stop" /\ Enter("isr", "stop") /\ UNCHANGED memoryVars /\ UNCHANGED <<tail, desc>>
    BY <1>1, <1>2, <1>3, <2>2 DEF Enter, entry, Types, MemoryTypes, ApplicationTypes, CpuTypes, memoryVars, Calls
  <2>3. CASE use.callback = "async" /\ Enter("isr", "async") /\ BuildChain("isr", 1)
    <3>1. 1 \in 1..(Ring - 2)
      BY RingLarge
    <3>2. PICK new \in Seq(Descriptors) :
             new # <<>> /\ MemoryTypes' /\ tail' \in Descriptors /\ desc' = [desc EXCEPT !["isr"] = new]
      BY <1>1, <2>3, <3>1, Built
    <3> QED
      BY <1>1, <1>2, <1>3, <2>3, <3>2 DEF Enter, entry, Types, ApplicationTypes, CpuTypes, Calls
  <2> QED
    BY <1>2, <2>1, <2>2, <2>3
<1>5. PlacesInv'
  BY <1>1, <1>2, <1>4 DEF PlacesInv
<1>6. RestInv'
  BY <1>1, <1>2, <1>3, <1>4 DEF RestInv
<1>7. TransfersInv'
  BY <1>1, <1>2, <1>3, <1>4 DEF TransfersInv
<1>8. PollsInv'
  <2>1. PollsOnly(use) => use.callback # "async"
    BY DEF PollsOnly
  <2> QED
    BY <1>1, <1>2, <1>3, <1>4, <2>1 DEF PollsInv, Fresh
<1> QED
  BY <1>3, <1>4, <1>5, <1>6, <1>7, <1>8 DEF BInv

-----------------------------------------------------------------------------
(* The controller, and all the steps.                                      *)

\* The controller does not step while a transfer has it at rest.
LEMMA EngineRest ==
  ASSUME BInv, Engine
  PROVE  BInv'
<1> USE DEF Prepared, Transferring, Contexts
<1>1. Types /\ DeviceTypes /\ MemoryTypes /\ ApplicationTypes /\ CpuTypes /\ EngineInv /\ PlacesInv
      /\ RestInv /\ TransfersInv /\ PollsInv /\ use \in Applications
  BY DEF BInv, Types, ApplicationTypes
<1>2. /\ DeviceTypes' /\ MemoryTypes' /\ EngineInv'
      /\ UNCHANGED <<control_reg, callback, use, program, tail, pc, op, reg, desc>>
      /\ busy \/ {"RUN", "DESC_POLL_EN"} \subseteq control_reg
  BY <1>1, EngineStep
<1>3. Types'
  BY <1>1, <1>2 DEF Types, ApplicationTypes, CpuTypes
<1>4. PlacesInv'
  BY <1>1, <1>2 DEF PlacesInv
<1>5. ~(PollsOnly(use) /\ Fresh)
  BY <1>2 DEF Fresh
<1>6. ~(TransfersOnly(use) /\ ~busy)
  BY <1>1, <1>2 DEF TransfersInv
<1>7. \A c \in Contexts : pc[c] \notin Transferring
  <2> SUFFICES ASSUME NEW c \in Contexts, pc[c] \in Transferring
               PROVE  FALSE
    OBVIOUS
  <2>1. ~busy
    BY <1>1 DEF RestInv
  <2>2. PollsOnly(use)
    BY <1>1, <1>6, <2>1, ApplicationsAssumption
  <2> QED
    BY <1>1, <1>5, <2>2 DEF PollsInv
<1>8. RestInv'
  BY <1>2, <1>7 DEF RestInv
<1>9. TransfersInv'
  BY <1>1, <1>2 DEF TransfersInv
<1>10. PollsInv'
  BY <1>1, <1>2, <1>5 DEF PollsInv
<1> QED
  BY <1>2, <1>3, <1>4, <1>8, <1>9, <1>10 DEF BInv

\* A status register is cleared or read, or the descriptor pointer written.
Registers(c, a, b) ==
  \/ a = "clear_status" /\ b = "pointer" /\ ClearStatusReg(c)
  \/ a = "pointer" /\ b = "run_read" /\ WritePointer(c)
  \/ a = "status_read" /\ b = "status_clear" /\ c = "main" /\ StatusRead
  \/ a = "status_clear" /\ b = "idle" /\ c = "main" /\ StatusClear

\* The forms of the driver's steps.
LEMMA Forms ==
  ASSUME Driver
  PROVE  \/ \E c \in Contexts : \E a, b :
              \/ Reads(c, a, b)
              \/ \E bits : \E x \in BOOLEAN : Writes(c, a, b, bits, x)
              \/ Looks(c, a, b)
              \/ Interrupt /\ c = "isr" /\ a = "none" /\ b = "irq_read"
              \/ Registers(c, a, b)
         \/ Callback
<1> DEFINE Form(c, a, b) ==
              \/ Reads(c, a, b)
              \/ \E bits : \E x \in BOOLEAN : Writes(c, a, b, bits, x)
              \/ Looks(c, a, b)
              \/ Interrupt /\ c = "isr" /\ a = "none" /\ b = "irq_read"
              \/ Registers(c, a, b)
<1> SUFFICES (\E c \in Contexts : \E a, b : Form(c, a, b)) \/ Callback
  OBVIOUS
<1>1. ASSUME NEW c \in Contexts, Transfer(c)
      PROVE  \E a, b : Form(c, a, b)
  <2>1. CASE CheckBusy(c)
    <3>1. CASE busy
      <4>1. Looks(c, "busy", Returned(c))
        BY <2>1, <3>1 DEF CheckBusy, Looks
      <4> QED
        BY <4>1
    <3>2. CASE ~busy
      <4>1. Looks(c, "busy", "clear_read")
        BY <2>1, <3>2 DEF CheckBusy, Looks
      <4> QED
        BY <4>1
    <3> QED
      BY <3>1, <3>2
  <2>2. CASE ClearRunRead(c)
    <3>1. Reads(c, "clear_read", "clear_write")
      BY <2>2 DEF ClearRunRead, Reads
    <3> QED
      BY <3>1
  <2>3. CASE ClearRunWrite(c)
    <3>1. Writes(c, "clear_write", "clear_status", reg[c] \ {"RUN"}, FALSE)
      BY <2>3 DEF ClearRunWrite, Writes
    <3> QED
      BY <3>1
  <2>4. CASE ClearStatusReg(c)
    <3>1. Registers(c, "clear_status", "pointer")
      BY <2>4 DEF Registers
    <3> QED
      BY <3>1
  <2>5. CASE WritePointer(c)
    <3>1. Registers(c, "pointer", "run_read")
      BY <2>5 DEF Registers
    <3> QED
      BY <3>1
  <2>6. CASE RunRead(c)
    <3>1. Reads(c, "run_read", "run_write")
      BY <2>6 DEF RunRead, Reads
    <3> QED
      BY <3>1
  <2>7. CASE RunWrite(c)
    <3>1. Writes(c, "run_write", IF op[c] = "sync" THEN "wait" ELSE Returned(c), transferControl(c), FALSE)
      BY <2>7 DEF RunWrite, Writes
    <3> QED
      BY <3>1
  <2> QED
    BY <1>1, <2>1, <2>2, <2>3, <2>4, <2>5, <2>6, <2>7 DEF Transfer
<1>2. ASSUME NEW c \in Contexts, ChangeRead(c)
      PROVE  \E a, b : Form(c, a, b)
  <2>1. Reads(c, "change_read", "change_write")
    BY <1>2 DEF ChangeRead, Reads
  <2> QED
    BY <2>1
<1>3. ASSUME NEW c \in Contexts, ChangeWrite(c)
      PROVE  \E a, b : Form(c, a, b)
  <2>1. Writes(c, "change_write", Returned(c), changed(c), FALSE)
    BY <1>3 DEF ChangeWrite, Writes
  <2> QED
    BY <2>1
<1>4. CASE Wait
  <2>1. Looks("main", "wait", "stop_read")
    BY <1>4 DEF Wait, Looks
  <2> QED
    BY <2>1 DEF Contexts
<1>5. CASE StopRead
  <2>1. Reads("main", "stop_read", "stop_write")
    BY <1>5 DEF StopRead, Reads
  <2> QED
    BY <2>1 DEF Contexts
<1>6. CASE StopWrite
  <2>1. Writes("main", "stop_write", "status_read", reg["main"] \ {"RUN"}, FALSE)
    BY <1>6 DEF StopWrite, Writes
  <2> QED
    BY <2>1 DEF Contexts
<1>7. CASE StatusRead
  <2>1. Registers("main", "status_read", "status_clear")
    BY <1>7 DEF Registers
  <2> QED
    BY <2>1 DEF Contexts
<1>8. CASE StatusClear
  <2>1. Registers("main", "status_clear", "idle")
    BY <1>8 DEF Registers
  <2> QED
    BY <2>1 DEF Contexts
<1>9. CASE Interrupt
  <2>1. Form("isr", "none", "irq_read")
    BY <1>9
  <2> QED
    BY <2>1 DEF Contexts
<1>10. CASE IrqRead
  <2>1. Reads("isr", "irq_read", "irq_write")
    BY <1>10 DEF IrqRead, Reads
  <2> QED
    BY <2>1 DEF Contexts
<1>11. CASE IrqWrite
  <2>1. Writes("isr", "irq_write", IF callback THEN "callback" ELSE "none", reg["isr"], TRUE)
    BY <1>11 DEF IrqWrite, Writes
  <2> QED
    BY <2>1 DEF Contexts
<1> HIDE DEF Form
<1> QED
  BY <1>1, <1>2, <1>3, <1>4, <1>5, <1>6, <1>7, <1>8, <1>9, <1>10, <1>11 DEF Driver

\* Every step.
LEMMA StepRest ==
  ASSUME BInv, [Next]_vars
  PROVE  BInv'
<1>1. CASE Engine
  BY <1>1, EngineRest
<1>2. CASE Driver
  <2>1. CASE Callback
    BY <2>1, CallbackStep
  <2>2. ASSUME NEW c \in Contexts, NEW a, NEW b, Reads(c, a, b)
        PROVE  BInv'
    BY <2>2, ReadStep
  <2>3. ASSUME NEW c \in Contexts, NEW a, NEW b, NEW bits, NEW x \in BOOLEAN, Writes(c, a, b, bits, x)
        PROVE  BInv'
    BY <2>3, WriteStep
  <2>4. ASSUME NEW c \in Contexts, NEW a, NEW b,
               Looks(c, a, b) \/ (Interrupt /\ c = "isr" /\ a = "none" /\ b = "irq_read")
        PROVE  BInv'
    BY <2>4, LookStep
  <2>5. ASSUME NEW c \in Contexts, NEW a, NEW b, Registers(c, a, b)
        PROVE  BInv'
    BY <2>5, StatusStep DEF Registers
  <2> QED
    BY <1>2, <2>1, <2>2, <2>3, <2>4, <2>5, Forms
<1>3. ASSUME NEW o \in Calls, Call(o)
      PROVE  BInv'
  BY <1>3, CallStep
<1>4. CASE UNCHANGED vars
  <2>1. /\ UNCHANGED <<control_reg, error, chain_completed_int, csr_irq, descriptor_pointer,
                      owned_by_hw, next_desc, desc_address_fifo, status_token>>
        /\ UNCHANGED <<owned, failed, callback, use, program, tail, pc, op, reg, desc>>
    BY <1>4 DEF vars, device, memoryVars, application, cpu
  <2>2. Types'
    BY <2>1 DEF BInv, Types, DeviceTypes, MemoryTypes, ApplicationTypes, CpuTypes
  <2>3. run' = run /\ busy' = busy
    BY <2>1 DEF run, busy
  <2>4. EngineInv'
    BY <2>1, <2>3 DEF BInv, EngineInv
  <2>5. PlacesInv'
    BY <2>1 DEF BInv, PlacesInv
  <2>6. RestInv'
    BY <2>1, <2>3 DEF BInv, RestInv
  <2>7. TransfersInv'
    BY <2>1 DEF BInv, TransfersInv
  <2>8. PollsInv'
    BY <2>1, <2>3 DEF BInv, PollsInv, Fresh
  <2> QED
    BY <2>2, <2>4, <2>5, <2>6, <2>7, <2>8 DEF BInv
<1> QED
  BY <1>1, <1>2, <1>3, <1>4 DEF Next

\* The start.
LEMMA StartRest == Init => BInv
<1> SUFFICES ASSUME Init
             PROVE  BInv
  OBVIOUS
<1>1. use \in Applications /\ use.first \in Seq(Calls)
  BY DriverAssumption DEF Init
<1>2. Ring \in Descriptors /\ 1 \in Descriptors
  BY RingLarge DEF Descriptors
<1>3. pc["main"] = "idle" /\ pc["isr"] = "none" /\ pc \in [Contexts -> MainPlaces \cup IsrPlaces]
  BY DEF Init, Returned, Contexts, MainPlaces, IsrPlaces
<1>4. DeviceTypes
  <2>1. desc_address_fifo \in Seq(Descriptors) /\ Len(desc_address_fifo) = 0 /\ status_token = <<>>
    BY DEF Init
  <2>2. /\ control_reg \in SUBSET Control /\ error \in BOOLEAN /\ chain_completed_int \in BOOLEAN
        /\ csr_irq \in BOOLEAN /\ owned_by_hw \in BOOLEAN
        /\ descriptor_pointer \in Descriptors /\ next_desc \in Descriptors
    BY <1>2 DEF Init
  <2> QED
    BY <2>1, <2>2 DEF DeviceTypes, FifoWords
<1>5. Types
  <2>1. MemoryTypes
    BY DEF Init, MemoryTypes
  <2>2. ApplicationTypes
    BY <1>1, <1>2 DEF Init, ApplicationTypes
  <2>3. <<>> \in Seq(Descriptors)
    OBVIOUS
  <2>4. CpuTypes
    BY <1>3, <2>3 DEF Init, CpuTypes
  <2> QED
    BY <1>4, <2>1, <2>2, <2>4 DEF Types
<1>6. ~run /\ ~busy
  BY DEF Init, run, busy
<1>7. EngineInv
  BY <1>6 DEF Init, EngineInv
<1> USE DEF Prepared, Transferring, Running, Changing, Writing, Contexts
<1>8. PlacesInv
  BY <1>3 DEF Init, PlacesInv, MainPlaces, IsrPlaces
<1>9. RestInv
  BY <1>3 DEF Init, RestInv
<1>10. \A k \in 1..Len(program) : program[k] \in Made(use)
  BY DEF Init, Made
<1>11. TransfersInv
  BY <1>3, <1>10 DEF Init, TransfersInv
<1>12. PollsInv
  BY <1>3, <1>6 DEF Init, PollsInv, Fresh
<1> QED
  BY <1>5, <1>7, <1>8, <1>9, <1>11, <1>12 DEF BInv

-----------------------------------------------------------------------------
(* Where no callback starts anything: what the controller has in hand.     *)

\* The parts of the invariant.
LEMMA QuietFacts ==
  ASSUME SInv, Quiet
  PROVE  /\ Types /\ DeviceTypes /\ MemoryTypes /\ ApplicationTypes /\ CpuTypes /\ EngineInv
         /\ PlacesInv /\ RestInv /\ AloneInv /\ TrackInv /\ ChainInv
         /\ "DESC_POLL_EN" \notin control_reg
         /\ \A c \in Contexts : pc[c] \in Changing => op[c] \in {"stop", "poll_off"}
BY DEF SInv, BInv, Types, QuietInv, Quiet, TransfersInv

\* What the controller and the program have between them, when neither moves it.
LEMMA ChainKept ==
  ASSUME Types, TrackInv, ChainInv,
         UNCHANGED <<owned_by_hw, next_desc, desc_address_fifo, status_token, owned, failed, tail>>,
         desc'["main"] = desc["main"],
         pc'["main"] \in Prepared => pc["main"] \in Prepared,
         pc'["main"] \in Running => pc["main"] \in Running /\ error' = error,
         pc'["main"] = "status_clear" => pc["main"] = "status_clear" /\ reg'["main"] = reg["main"]
  PROVE  TrackInv' /\ ChainInv'
<1>1. busy' = busy
  BY DEF busy
<1>2. TrackInv'
  <2>1. \A q : Track(q) => Track(q)'
    BY DEF Track
  <2> QED
    BY <1>1, <2>1 DEF TrackInv
<1>3. Apart(own) => Apart(own)'
  BY DEF Apart, own
<1>4. own' = own
  BY DEF own
<1>5. ASSUME pc'["main"] \in Running
      PROVE  \E j, k \in 0..Len(own') : Moved(own, j, k)'
  <2>1. PICK j, k \in 0..Len(own) : Moved(own, j, k)
    BY <1>5 DEF ChainInv
  <2>2. /\ owned_by_hw' = owned_by_hw /\ next_desc' = next_desc /\ owned' = owned /\ failed' = failed
        /\ desc_address_fifo' = desc_address_fifo /\ status_token' = status_token /\ tail' = tail
        /\ error' = error
    BY <1>5
  <2>3. Moved(own, j, k)'
    <3>1. /\ j <= k /\ Len(desc_address_fifo) = k - j
          /\ \A l \in 1..(k - j) : desc_address_fifo[l] = own[j + l]
          /\ \A l \in 1..Len(own) : owned[own[l]] <=> l > j
          /\ IF owned_by_hw THEN next_desc = (IF k < Len(own) THEN own[k + 1] ELSE tail) ELSE k = Len(own)
          /\ error <=> (\E l \in 1..j : failed[own[l]]) \/ status_token = <<TRUE>>
      BY <2>1 DEF Moved
    <3>2. /\ j <= k /\ Len(desc_address_fifo') = k - j
          /\ \A l \in 1..(k - j) : desc_address_fifo'[l] = own'[j + l]
          /\ \A l \in 1..Len(own') : owned'[own'[l]] <=> l > j
      BY <1>4, <2>2, <3>1
    <3>3. IF owned_by_hw' THEN next_desc' = (IF k < Len(own') THEN own'[k + 1] ELSE tail') ELSE k = Len(own')
      BY <1>4, <2>2, <3>1
    <3>4. error' <=> (\E l \in 1..j : failed'[own'[l]]) \/ status_token' = <<TRUE>>
      BY <1>4, <2>2, <3>1
    <3> QED
      BY <3>2, <3>3, <3>4 DEF Moved
  <2> QED
    BY <1>4, <2>1, <2>3
<1>6. SyncStatus'
  BY DEF ChainInv, SyncStatus
<1> HIDE DEF own
<1> QED
  BY <1>2, <1>3, <1>4, <1>5, <1>6 DEF ChainInv

\* The controller's steps, but for what they do to the chain.
LEMMA EngineAlone ==
  ASSUME SInv, Quiet, Engine, ~owned'[tail]
  PROVE  AloneInv' /\ busy /\ pc["main"] \notin Transferring
         /\ pc["main"] \notin {"stop_read", "stop_write", "status_read", "status_clear"}
         /\ UNCHANGED <<control_reg, callback, use, program, tail, pc, op, reg, desc>>
<1>1. /\ UNCHANGED <<control_reg, callback, use, program, tail, pc, op, reg, desc>> /\ busy
      /\ use \in Applications
  BY EngineStep, QuietFacts DEF Types, ApplicationTypes
<1>2. pc["main"] \notin Transferring /\ pc["main"] \notin {"stop_read", "stop_write", "status_read", "status_clear"}
  BY <1>1, QuietFacts DEF RestInv, AloneInv, Contexts
<1> QED
  BY <1>1, <1>2, QuietFacts DEF AloneInv, Transferring

\* Fetching extends what is in hand by the next descriptor of the track, or ends there.
LEMMA FetchQuiet ==
  ASSUME SInv, Quiet, Fetch
  PROVE  QuietInv'
<1> DEFINE fifo == desc_address_fifo
           l == Len(fifo)
           d == next_desc
<1>1. /\ DeviceTypes /\ MemoryTypes /\ ApplicationTypes /\ CpuTypes /\ AloneInv /\ TrackInv /\ ChainInv
      /\ fifo \in Seq(Descriptors) /\ l \in Nat /\ d \in Descriptors
  <2>1. /\ DeviceTypes /\ MemoryTypes /\ ApplicationTypes /\ CpuTypes /\ AloneInv /\ TrackInv /\ ChainInv
    BY QuietFacts
  <2>2. fifo \in Seq(Descriptors) /\ d \in Descriptors
    BY <2>1 DEF DeviceTypes
  <2>3. l \in Nat
    BY <2>2
  <2> QED
    BY <2>1, <2>2, <2>3
<1>2. /\ owned_by_hw /\ busy /\ owned_by_hw' = owned[d] /\ next_desc' = next(d)
      /\ fifo' = IF owned[d] THEN Append(fifo, d) ELSE fifo
      /\ UNCHANGED <<error, status_token, owned, failed>>
  BY DEF Fetch, canFetch, busy, memoryVars
<1>3. /\ AloneInv' /\ pc["main"] \notin Transferring
      /\ pc["main"] \notin {"stop_read", "stop_write", "status_read", "status_clear"}
      /\ UNCHANGED <<control_reg, callback, use, program, tail, pc, op, reg, desc>>
  <2>1. Engine /\ ~owned'[tail]
    BY <1>1, <1>2 DEF Engine, AloneInv
  <2> QED
    BY <2>1, EngineAlone
<1>4. /\ Append(fifo, d) \in Seq(Descriptors) /\ Len(Append(fifo, d)) = l + 1
      /\ Append(fifo, d)[l + 1] = d /\ \A k \in 1..l : Append(fifo, d)[k] = fifo[k]
  BY <1>1
<1> HIDE DEF fifo, l, d
<1>5. TrackInv'
  <2>1. PICK q \in Seq(Descriptors) : Track(q)
    BY <1>1, <1>2 DEF TrackInv
  <2>2. /\ l <= Len(q) /\ \A k \in 1..l : q[k] = fifo[k] /\ owned[q[k]]
        /\ \A k, m \in 1..Len(q) : q[k] = q[m] => k = m
        /\ l < Len(q) /\ q[l + 1] = d
        /\ \A k \in 1..(Len(q) - 1) : q[k + 1] = next(q[k]) /\ owned[q[k]]
        /\ ~owned[q[Len(q)]]
        /\ \/ q[Len(q)] = tail
           \/ owned[next(q[Len(q)])] /\ \A k \in 1..Len(q) : q[k] # next(q[Len(q)])
    BY <1>2, <2>1 DEF Track, fifo, l, d
  <2>3. Len(q) \in Nat
    OBVIOUS
  <2>4. CASE owned[d]
    <3>1. l + 1 < Len(q) /\ Len(fifo') = l + 1
      BY <1>1, <1>2, <1>4, <2>2, <2>3, <2>4
    <3>2. \A k \in 1..(l + 1) : q[k] = fifo'[k] /\ owned[q[k]]
      BY <1>1, <1>2, <1>4, <2>2, <2>4
    <3>3. q[l + 2] = next(d)
      <4>1. l + 1 \in 1..(Len(q) - 1) /\ (l + 1) + 1 = l + 2
        BY <1>1, <2>3, <3>1
      <4> QED
        BY <2>2, <4>1
    <3>4. Track(q)'
      <4>1. (l + 1) + 1 = l + 2
        BY <1>1
      <4> QED
        BY <1>1, <1>2, <1>3, <2>2, <2>3, <3>1, <3>2, <3>3, <4>1 DEF Track, fifo
    <3> QED
      BY <3>4 DEF TrackInv
  <2>5. CASE ~owned[d]
    <3>1. fifo' = fifo /\ ~owned_by_hw'
      BY <1>2, <2>5
    <3>2. Len(fifo') = l
      BY <3>1 DEF l
    <3>3. Track(q)'
      BY <1>2, <2>2, <3>1, <3>2 DEF Track, fifo
    <3> QED
      BY <3>3 DEF TrackInv
  <2> QED
    BY <2>4, <2>5
<1>6. own' = own /\ own \in Seq(Descriptors)
  BY <1>1, <1>3 DEF own, CpuTypes, Contexts
<1>7. ASSUME pc["main"] \in Prepared
      PROVE  Apart(own)'
  <2>1. /\ \A k \in 1..Len(own) : owned[own[k]] /\ ~failed[own[k]]
        /\ \A k \in 1..Len(own), m \in 1..l : fifo[m] # own[k]
        /\ \A k \in 1..Len(own) : d # own[k]
        /\ \A e \in Descriptors : next(e) = own[1] => ~owned[e]
    BY <1>1, <1>2, <1>7 DEF ChainInv, Apart, fifo, l, d
  <2>2. Chain(own, tail)
    BY <1>1, <1>7 DEF ChainInv
  <2>3. \A k \in 1..Len(own), m \in 1..Len(fifo') : fifo'[m] # own[k]
    BY <1>1, <1>2, <1>4, <2>1 DEF l
  <2>4. ASSUME owned[d], NEW k \in 1..Len(own)
        PROVE  next(d) # own[k]
    <3>1. CASE k = 1
      BY <1>1, <2>1, <2>4, <3>1
    <3>2. CASE k # 1
      <4>1. k - 1 \in 1..(Len(own) - 1) /\ (k - 1) + 1 = k /\ k - 1 \in 1..Len(own)
        BY <1>6, <3>2
      <4>2. own[k] = next(own[k - 1]) /\ own[k - 1] \in Descriptors
        BY <1>6, <2>2, <4>1 DEF Chain
      <4> QED
        BY <1>1, <2>1, <4>1, <4>2, NextOnce
    <3> QED
      BY <3>1, <3>2
  <2> QED
    BY <1>2, <1>6, <2>1, <2>3, <2>4 DEF Apart, fifo
<1>8. ASSUME pc["main"] \in Running
      PROVE  \E j, k \in 0..Len(own) : Moved(own, j, k)'
  <2>1. PICK j, k \in 0..Len(own) : Moved(own, j, k)
    BY <1>1, <1>8 DEF ChainInv
  <2>2. Chain(own, tail)
    BY <1>1, <1>8 DEF ChainInv
  <2>3. /\ j <= k /\ l = k - j /\ \A m \in 1..(k - j) : fifo[m] = own[j + m]
        /\ \A m \in 1..Len(own) : owned[own[m]] <=> m > j
        /\ d = (IF k < Len(own) THEN own[k + 1] ELSE tail)
        /\ error <=> (\E m \in 1..j : failed[own[m]]) \/ status_token = <<TRUE>>
    BY <1>2, <2>1 DEF Moved, fifo, l, d
  <2>4. Len(own) \in Nat /\ j \in Nat /\ k \in Nat /\ k <= Len(own) /\ j <= Len(own)
    BY <1>6
  <2>5. CASE k < Len(own)
    <3>1. owned[d] /\ d = own[k + 1]
      BY <2>3, <2>4, <2>5
    <3>2. /\ Len(fifo') = (k + 1) - j
          /\ \A m \in 1..((k + 1) - j) : fifo'[m] = own[j + m]
      <4>1. fifo' = Append(fifo, d)
        BY <1>2, <3>1
      <4>2. l + 1 = (k + 1) - j /\ j + (l + 1) = k + 1
        BY <2>3, <2>4
      <4>3. ASSUME NEW m \in 1..((k + 1) - j)
            PROVE  fifo'[m] = own[j + m]
        <5>1. CASE m = l + 1
          BY <1>4, <3>1, <4>1, <4>2, <5>1
        <5>2. CASE m # l + 1
          <6>1. m \in 1..(k - j) /\ m \in 1..l
            BY <2>3, <2>4, <4>2, <5>2
          <6> QED
            BY <1>4, <2>3, <4>1, <6>1
        <5> QED
          BY <5>1, <5>2
      <4> QED
        BY <1>4, <4>1, <4>2, <4>3
    <3>3. next(d) = IF k + 1 < Len(own) THEN own[(k + 1) + 1] ELSE tail
      BY <2>2, <2>4, <2>5, <3>1 DEF Chain
    <3>4. k + 1 \in 0..Len(own) /\ j <= k + 1
      BY <2>3, <2>4, <2>5
    <3>5. Moved(own, j, k + 1)'
      BY <1>2, <1>3, <1>6, <2>3, <3>1, <3>2, <3>3, <3>4 DEF Moved, fifo
    <3> QED
      BY <3>4, <3>5
  <2>6. CASE k >= Len(own)
    <3>1. k = Len(own) /\ d = tail /\ ~owned[d]
      BY <1>1, <2>3, <2>4, <2>6 DEF AloneInv
    <3>2. fifo' = fifo /\ ~owned_by_hw' /\ Len(fifo') = k - j
      BY <1>2, <2>3, <3>1 DEF l
    <3>3. Moved(own, j, k)'
      BY <1>2, <1>3, <1>6, <2>3, <3>1, <3>2 DEF Moved, fifo
    <3> QED
      BY <3>3
  <2> QED
    BY <2>4, <2>5, <2>6
<1>9. SyncStatus'
  BY <1>3 DEF SyncStatus
<1>10. ChainInv'
  BY <1>1, <1>3, <1>6, <1>7, <1>8, <1>9 DEF ChainInv
<1> QED
  BY <1>3, <1>5, <1>10 DEF QuietInv, Quiet

\* The status of a descriptor says whether it failed.
LEMMA FlagValue ==
  ASSUME NEW b \in BOOLEAN
  PROVE  (<<b>> = <<TRUE>>) <=> b
<1>1. Head(<<TRUE>>) = TRUE /\ Head(<<FALSE>>) = FALSE
  <2>1. \A v : Head(<<v>>) = v
    OBVIOUS
  <2> QED
    BY <2>1
<1>2. CASE b = TRUE
  BY <1>2
<1>3. CASE b = FALSE
  <2>1. <<FALSE>> # <<TRUE>>
    BY <1>1
  <2> QED
    BY <1>3, <2>1
<1> QED
  BY <1>2, <1>3

\* Moving flags an error of the descriptor in hand only.
LEMMA MoveQuiet ==
  ASSUME SInv, Quiet, Move
  PROVE  QuietInv'
<1>1. PICK bad \in {FALSE, use.failures} : status_token' = <<bad>> /\ error' = (error \/ bad)
  BY DEF Move
<1>2. /\ DeviceTypes /\ CpuTypes /\ AloneInv /\ TrackInv /\ ChainInv /\ use \in Applications
  BY QuietFacts DEF ApplicationTypes
<1>3. bad \in BOOLEAN
  BY <1>1, <1>2, Failures
<1>4. /\ owned_by_hw' = owned_by_hw /\ next_desc' = next_desc /\ desc_address_fifo' = desc_address_fifo
      /\ owned' = owned /\ failed' = failed /\ status_token = <<>>
  BY DEF Move, memoryVars
<1>5. /\ AloneInv' /\ pc["main"] \notin {"stop_read", "stop_write", "status_read", "status_clear"}
      /\ UNCHANGED <<use, tail, pc, op, reg, desc>>
  <2>1. Engine /\ ~owned'[tail]
    BY <1>2, <1>4 DEF Engine, AloneInv
  <2> QED
    BY <2>1, EngineAlone
<1>6. busy' = busy
  BY <1>4 DEF busy
<1>7. TrackInv'
  <2>1. \A q : Track(q) => Track(q)'
    BY <1>4, <1>5 DEF Track
  <2> QED
    BY <1>2, <1>6, <2>1 DEF TrackInv
<1>8. own' = own
  BY <1>5 DEF own
<1>9. Apart(own) => Apart(own)'
  BY <1>4, <1>5 DEF Apart, own
<1>10. (status_token' = <<TRUE>>) <=> bad
  BY <1>1, <1>3, FlagValue
<1>11. status_token # <<TRUE>>
  <2>1. Len(<<TRUE>>) = 1 /\ Len(<<>>) = 0
    OBVIOUS
  <2> QED
    BY <1>4, <2>1
<1>12. ASSUME pc["main"] \in Running
       PROVE  \E j, k \in 0..Len(own) : Moved(own, j, k)'
  <2>1. PICK j, k \in 0..Len(own) : Moved(own, j, k)
    BY <1>2, <1>12 DEF ChainInv
  <2>2. /\ j <= k /\ Len(desc_address_fifo) = k - j
        /\ \A l \in 1..(k - j) : desc_address_fifo[l] = own[j + l]
        /\ \A l \in 1..Len(own) : owned[own[l]] <=> l > j
        /\ IF owned_by_hw THEN next_desc = (IF k < Len(own) THEN own[k + 1] ELSE tail) ELSE k = Len(own)
        /\ error <=> (\E l \in 1..j : failed[own[l]]) \/ status_token = <<TRUE>>
    BY <2>1 DEF Moved
  <2>3. /\ j <= k /\ Len(desc_address_fifo') = k - j
        /\ \A l \in 1..(k - j) : desc_address_fifo'[l] = own'[j + l]
        /\ \A l \in 1..Len(own') : owned'[own'[l]] <=> l > j
    BY <1>4, <1>8, <2>2
  <2>4. IF owned_by_hw' THEN next_desc' = (IF k < Len(own') THEN own'[k + 1] ELSE tail') ELSE k = Len(own')
    BY <1>4, <1>5, <1>8, <2>2
  <2>5. error' <=> (\E l \in 1..j : failed'[own'[l]]) \/ status_token' = <<TRUE>>
    BY <1>1, <1>4, <1>8, <1>10, <1>11, <2>2
  <2>6. Moved(own, j, k)'
    BY <2>3, <2>4, <2>5 DEF Moved
  <2> QED
    BY <2>6
<1>13. SyncStatus'
  BY <1>5 DEF SyncStatus
<1> HIDE DEF own
<1>14. ChainInv'
  BY <1>2, <1>5, <1>8, <1>9, <1>12, <1>13 DEF ChainInv
<1> QED
  BY <1>5, <1>7, <1>14 DEF QuietInv

\* Writing back takes the first descriptor off the track.
LEMMA WriteBackQuiet ==
  ASSUME SInv, Quiet, WriteBack
  PROVE  QuietInv'
<1> DEFINE fifo == desc_address_fifo
           l == Len(fifo)
           h == Head(fifo)
<1>1. /\ DeviceTypes /\ MemoryTypes /\ CpuTypes /\ AloneInv /\ TrackInv /\ ChainInv /\ EngineInv
  BY QuietFacts
<1>2. /\ status_token # <<>> /\ status_token' = <<>> /\ fifo' = Tail(fifo)
      /\ owned' = [owned EXCEPT ![h] = FALSE] /\ failed' = [failed EXCEPT ![h] = Head(status_token)]
      /\ UNCHANGED <<error, owned_by_hw, next_desc>>
  BY DEF WriteBack
<1>3. /\ fifo \in Seq(Descriptors) /\ fifo # <<>>
  BY <1>1, <1>2 DEF DeviceTypes, EngineInv
<1>4. /\ l \in Nat /\ l > 0 /\ h = fifo[1] /\ h \in Descriptors
      /\ fifo' \in Seq(Descriptors) /\ Len(fifo') = l - 1
      /\ \A k \in 1..(l - 1) : fifo'[k] = fifo[k + 1]
  BY <1>2, <1>3
<1>5. /\ ~owned'[h] /\ \A e \in Descriptors : e # h => owned'[e] = owned[e] /\ failed'[e] = failed[e]
      /\ failed'[h] = Head(status_token) /\ \A e \in Descriptors : owned'[e] => owned[e]
  BY <1>1, <1>2, <1>4 DEF MemoryTypes
<1>6. /\ AloneInv' /\ busy /\ pc["main"] \notin Transferring
      /\ pc["main"] \notin {"stop_read", "stop_write", "status_read", "status_clear"}
      /\ UNCHANGED <<control_reg, callback, use, program, tail, pc, op, reg, desc>>
  <2>1. ~owned'[tail]
    BY <1>1, <1>5, QuietFacts DEF AloneInv, ApplicationTypes
  <2>2. Engine
    BY DEF Engine
  <2> QED
    BY <2>1, <2>2, EngineAlone
<1> HIDE DEF fifo, l, h
<1>7. TrackInv'
  <2>1. PICK q \in Seq(Descriptors) : Track(q)
    BY <1>1, <1>6 DEF TrackInv
  <2>2. /\ l <= Len(q) /\ \A k \in 1..l : q[k] = fifo[k] /\ owned[q[k]]
        /\ \A k, m \in 1..Len(q) : q[k] = q[m] => k = m
        /\ owned_by_hw =>
             /\ l < Len(q) /\ q[l + 1] = next_desc
             /\ \A k \in 1..(Len(q) - 1) : q[k + 1] = next(q[k]) /\ owned[q[k]]
             /\ ~owned[q[Len(q)]]
             /\ \/ q[Len(q)] = tail
                \/ owned[next(q[Len(q)])] /\ \A k \in 1..Len(q) : q[k] # next(q[Len(q)])
    BY <2>1 DEF Track, fifo, l
  <2> DEFINE r == Tail(q)
  <2>3. /\ Len(q) \in Nat /\ Len(q) >= 1 /\ r \in Seq(Descriptors) /\ Len(r) = Len(q) - 1
        /\ \A k \in 1..(Len(q) - 1) : r[k] = q[k + 1]
        /\ \A k \in 1..Len(q) : q[k] \in Descriptors
    <3>1. Len(q) \in Nat /\ Len(q) >= 1
      BY <1>4, <2>2
    <3>2. q # <<>>
      BY <3>1
    <3> QED
      BY <3>1, <3>2
  <2> HIDE DEF r
  <2>4. q[1] = h /\ \A k \in 2..Len(q) : q[k] # h /\ owned'[q[k]] = owned[q[k]]
    <3>1. q[1] = h
      BY <1>4, <2>2
    <3>2. \A k \in 2..Len(q) : q[k] # q[1]
      BY <2>2, <2>3
    <3> QED
      BY <1>5, <2>3, <3>1, <3>2
  <2>5. l - 1 <= Len(r) /\ \A k \in 1..(l - 1) : r[k] = fifo'[k] /\ owned'[r[k]]
    <3>1. l - 1 <= Len(r)
      BY <1>4, <2>2, <2>3
    <3>2. ASSUME NEW k \in 1..(l - 1)
          PROVE  r[k] = fifo'[k] /\ owned'[r[k]]
      <4>1. k + 1 \in 1..l /\ k + 1 \in 2..Len(q) /\ k \in 1..(Len(q) - 1)
        BY <1>4, <2>2, <2>3
      <4> QED
        BY <1>4, <2>2, <2>3, <2>4, <4>1
    <3> QED
      BY <3>1, <3>2
  <2>6. \A k, m \in 1..Len(r) : r[k] = r[m] => k = m
    <3> TAKE k, m \in 1..Len(r)
    <3>1. k + 1 \in 1..Len(q) /\ m + 1 \in 1..Len(q) /\ r[k] = q[k + 1] /\ r[m] = q[m + 1]
      BY <2>3
    <3>2. q[k + 1] = q[m + 1] => k + 1 = m + 1
      BY <2>2, <3>1
    <3> QED
      BY <2>3, <3>1, <3>2
  <2>7. ASSUME owned_by_hw
        PROVE  /\ l - 1 < Len(r) /\ r[(l - 1) + 1] = next_desc
               /\ \A k \in 1..(Len(r) - 1) : r[k + 1] = next(r[k]) /\ owned'[r[k]]
               /\ ~owned'[r[Len(r)]]
               /\ \/ r[Len(r)] = tail
                  \/ owned'[next(r[Len(r)])] /\ \A k \in 1..Len(r) : r[k] # next(r[Len(r)])
    <3>1. /\ l < Len(q) /\ q[l + 1] = next_desc
          /\ \A k \in 1..(Len(q) - 1) : q[k + 1] = next(q[k]) /\ owned[q[k]]
          /\ ~owned[q[Len(q)]]
          /\ \/ q[Len(q)] = tail
             \/ owned[next(q[Len(q)])] /\ \A k \in 1..Len(q) : q[k] # next(q[Len(q)])
      BY <2>2, <2>7
    <3>2. l - 1 < Len(r) /\ r[(l - 1) + 1] = next_desc
      <4>1. (l - 1) + 1 = l /\ l \in 1..(Len(q) - 1)
        BY <1>4, <2>3, <3>1
      <4> QED
        BY <1>4, <2>3, <3>1, <4>1
    <3>3. ASSUME NEW k \in 1..(Len(r) - 1)
          PROVE  r[k + 1] = next(r[k]) /\ owned'[r[k]]
      <4>1. k \in 1..(Len(q) - 1) /\ k + 1 \in 1..(Len(q) - 1) /\ k + 1 \in 2..Len(q)
        BY <2>3
      <4>2. r[k] = q[k + 1] /\ r[k + 1] = q[(k + 1) + 1]
        BY <2>3, <4>1
      <4> QED
        BY <2>4, <3>1, <4>1, <4>2
    <3>4. r[Len(r)] = q[Len(q)] /\ Len(q) \in 2..Len(q) /\ Len(q) \in 1..Len(q)
      <4>1. Len(r) \in 1..(Len(q) - 1) /\ Len(r) + 1 = Len(q)
        BY <1>4, <2>3, <3>1
      <4> QED
        BY <2>3, <4>1
    <3>5. ~owned'[r[Len(r)]]
      BY <2>4, <3>1, <3>4
    <3>6. ASSUME owned[next(q[Len(q)])], \A k \in 1..Len(q) : q[k] # next(q[Len(q)])
          PROVE  owned'[next(r[Len(r)])] /\ \A k \in 1..Len(r) : r[k] # next(r[Len(r)])
      <4>1. next(q[Len(q)]) \in Descriptors /\ next(q[Len(q)]) # h
        BY <2>3, <2>4, <3>4, <3>6, NextOf
      <4>2. owned'[next(q[Len(q)])]
        BY <1>5, <3>6, <4>1
      <4>3. \A k \in 1..Len(r) : r[k] # next(q[Len(q)])
        <5> TAKE k \in 1..Len(r)
        <5>1. k + 1 \in 1..Len(q) /\ r[k] = q[k + 1]
          BY <2>3
        <5> QED
          BY <3>6, <5>1
      <4> QED
        BY <3>4, <4>2, <4>3
    <3> QED
      BY <3>1, <3>2, <3>3, <3>4, <3>5, <3>6
  <2>8. Len(fifo') = l - 1 /\ owned_by_hw' = owned_by_hw /\ next_desc' = next_desc /\ tail' = tail
    BY <1>2, <1>4, <1>6
  <2>9. Track(r)'
    BY <2>5, <2>6, <2>7, <2>8 DEF Track, fifo
  <2> QED
    BY <2>3, <2>9 DEF TrackInv
<1>8. own' = own /\ own \in Seq(Descriptors) /\ Len(own) \in Nat
  <2>1. own' = own /\ own \in Seq(Descriptors)
    BY <1>1, <1>6 DEF own, CpuTypes, Contexts
  <2> QED
    BY <2>1
<1>9. ASSUME pc["main"] \in Prepared
      PROVE  Apart(own)'
  <2>1. /\ \A k \in 1..Len(own) : owned[own[k]] /\ ~failed[own[k]]
        /\ \A k \in 1..Len(own), m \in 1..l : fifo[m] # own[k]
        /\ owned_by_hw => /\ \A k \in 1..Len(own) : next_desc # own[k]
                          /\ \A e \in Descriptors : next(e) = own[1] => ~owned[e]
    BY <1>1, <1>9 DEF ChainInv, Apart, fifo, l
  <2>2. \A k \in 1..Len(own) : own[k] # h /\ own[k] \in Descriptors
    BY <1>4, <1>8, <2>1
  <2>3. \A k \in 1..Len(own), m \in 1..(l - 1) : fifo'[m] # own[k]
    <3> TAKE k \in 1..Len(own), m \in 1..(l - 1)
    <3>1. m + 1 \in 1..l
      BY <1>4
    <3> QED
      BY <1>4, <2>1, <3>1
  <2>4. \A k \in 1..Len(own) : owned'[own[k]] /\ ~failed'[own[k]]
    BY <1>5, <2>1, <2>2
  <2>5. owned_by_hw' => /\ \A k \in 1..Len(own) : next_desc' # own[k]
                        /\ \A e \in Descriptors : next(e) = own[1] => ~owned'[e]
    BY <1>2, <1>5, <2>1
  <2> QED
    BY <1>4, <1>8, <2>3, <2>4, <2>5 DEF Apart, fifo
<1>10. ASSUME pc["main"] \in Running
       PROVE  \E j, k \in 0..Len(own) : Moved(own, j, k)'
  <2>1. PICK j, k \in 0..Len(own) : Moved(own, j, k)
    BY <1>1, <1>10 DEF ChainInv
  <2>2. Chain(own, tail)
    BY <1>1, <1>10 DEF ChainInv
  <2>3. /\ j <= k /\ l = k - j /\ \A m \in 1..(k - j) : fifo[m] = own[j + m]
        /\ \A m \in 1..Len(own) : owned[own[m]] <=> m > j
        /\ IF owned_by_hw THEN next_desc = (IF k < Len(own) THEN own[k + 1] ELSE tail) ELSE k = Len(own)
        /\ error <=> (\E m \in 1..j : failed[own[m]]) \/ status_token = <<TRUE>>
    BY <2>1 DEF Moved, fifo, l
  <2>4. j \in Nat /\ k \in Nat /\ k <= Len(own) /\ j < k /\ j + 1 \in 0..Len(own) /\ j + 1 \in 1..Len(own)
    BY <1>4, <1>8, <2>3
  <2>5. h = own[j + 1]
    BY <1>4, <2>3, <2>4
  <2>6. \A m \in 1..Len(own) : m # j + 1 => own[m] # h /\ own[m] \in Descriptors
    BY <1>8, <2>2, <2>4, <2>5 DEF Chain
  <2>7. j + 1 <= k /\ Len(fifo') = k - (j + 1) /\ \A m \in 1..(k - (j + 1)) : fifo'[m] = own[(j + 1) + m]
    <3>1. j + 1 <= k /\ Len(fifo') = k - (j + 1)
      BY <1>4, <2>3, <2>4
    <3>2. ASSUME NEW m \in 1..(k - (j + 1))
          PROVE  fifo'[m] = own[(j + 1) + m]
      <4>1. m \in 1..(l - 1) /\ m + 1 \in 1..(k - j) /\ j + (m + 1) = (j + 1) + m
        BY <1>4, <2>3, <2>4
      <4> QED
        BY <1>4, <2>3, <4>1
    <3> QED
      BY <3>1, <3>2
  <2>8. \A m \in 1..Len(own) : owned'[own[m]] <=> m > j + 1
    <3> TAKE m \in 1..Len(own)
    <3>1. CASE m = j + 1
      BY <1>5, <2>4, <2>5, <3>1
    <3>2. CASE m # j + 1
      <4>1. owned'[own[m]] = owned[own[m]]
        BY <1>5, <2>6, <3>2
      <4> QED
        BY <2>3, <2>4, <3>2, <4>1
    <3> QED
      BY <3>1, <3>2
  <2>9. (\E m \in 1..(j + 1) : failed'[own[m]]) <=> (\E m \in 1..j : failed[own[m]]) \/ failed'[h]
    <3>1. \A m \in 1..j : m \in 1..Len(own) /\ m # j + 1 /\ m \in 1..(j + 1) /\ failed'[own[m]] = failed[own[m]]
      BY <1>5, <2>4, <2>6
    <3>2. \A m \in 1..(j + 1) : m \in 1..j \/ m = j + 1
      BY <2>4
    <3>3. j + 1 \in 1..(j + 1)
      BY <2>4
    <3> QED
      BY <2>5, <3>1, <3>2, <3>3
  <2>10. failed'[h] <=> status_token = <<TRUE>>
    BY <1>1, <1>2, <1>5, FlagOf
  <2>11. status_token' # <<TRUE>>
    <3>1. Len(<<TRUE>>) = 1 /\ Len(<<>>) = 0
      OBVIOUS
    <3> QED
      BY <1>2, <3>1
  <2>12. error' <=> (\E m \in 1..(j + 1) : failed'[own[m]]) \/ status_token' = <<TRUE>>
    BY <1>2, <2>3, <2>9, <2>10, <2>11
  <2>13. IF owned_by_hw' THEN next_desc' = (IF k < Len(own) THEN own[k + 1] ELSE tail') ELSE k = Len(own)
    BY <1>2, <1>6, <2>3
  <2>14. Moved(own, j + 1, k)'
    BY <1>8, <2>7, <2>8, <2>12, <2>13 DEF Moved, fifo
  <2> QED
    BY <2>4, <2>14
<1>11. SyncStatus'
  BY <1>6 DEF SyncStatus
<1>12. ChainInv'
  BY <1>1, <1>6, <1>8, <1>9, <1>10, <1>11 DEF ChainInv
<1> QED
  BY <1>6, <1>7, <1>12 DEF QuietInv

\* It does not poll.
LEMMA EngineQuiet ==
  ASSUME SInv, Quiet, Engine
  PROVE  QuietInv'
<1>1. ~Poll
  BY QuietFacts DEF Poll
<1> QED
  BY <1>1, FetchQuiet, MoveQuiet, WriteBackQuiet DEF Engine

-----------------------------------------------------------------------------
(* Where no callback starts anything: the processor.                       *)

\* Reading.
LEMMA ReadQuiet ==
  ASSUME SInv, Quiet, NEW c \in Contexts, NEW a, NEW b, Reads(c, a, b)
  PROVE  QuietInv'
<1> USE DEF Prepared, Transferring, Running, Changing, Writing, Contexts
<1>1. /\ Types /\ DeviceTypes /\ CpuTypes /\ EngineInv /\ AloneInv /\ TrackInv /\ ChainInv
  BY QuietFacts
<1>2. /\ \/ a = "clear_read" /\ b = "clear_write"
         \/ a = "run_read" /\ b = "run_write"
         \/ a = "change_read" /\ b = "change_write"
         \/ a = "stop_read" /\ b = "stop_write" /\ c = "main"
         \/ a = "irq_read" /\ b = "irq_write" /\ c = "isr"
      /\ pc[c] = a /\ reg' = [reg EXCEPT ![c] = control_reg]
      /\ UNCHANGED device /\ UNCHANGED <<owned, failed, callback, use, program, tail>>
  BY DEF Reads, At, ReadControl, memoryVars, application
<1>3. /\ pc'[c] = b /\ \A e \in Contexts : e # c => pc'[e] = pc[e]
      /\ desc' = desc
  <2>1. b \in MainPlaces \cup IsrPlaces /\ Goto(c, b)
    BY <1>2 DEF Reads, MainPlaces, IsrPlaces
  <2> QED
    BY <1>1, <2>1, PlaceChanged
<1>4. reg'[c] = control_reg /\ \A e \in Contexts : e # c => reg'[e] = reg[e]
  BY <1>1, <1>2, ValueRead DEF DeviceTypes
<1>5. /\ busy' = busy
      /\ UNCHANGED <<control_reg, error, descriptor_pointer, owned_by_hw, next_desc,
                     desc_address_fifo, status_token>>
  BY <1>1, <1>2, DeviceStill
<1>6. AloneInv'
  BY <1>1, <1>2, <1>3, <1>4, <1>5 DEF AloneInv, own
<1>7. /\ pc'["main"] \in Prepared => pc["main"] \in Prepared
      /\ pc'["main"] \in Running => pc["main"] \in Running
      /\ pc'["main"] = "status_clear" => pc["main"] = "status_clear" /\ reg'["main"] = reg["main"]
  BY <1>2, <1>3, <1>4
<1>8. TrackInv' /\ ChainInv'
  BY <1>1, <1>2, <1>3, <1>5, <1>7, ChainKept
<1> QED
  BY <1>6, <1>8 DEF QuietInv

\* All writes of the control register but the one that starts a transfer.
LEMMA WriteQuiet ==
  ASSUME SInv, Quiet, NEW c \in Contexts, NEW a, NEW b, NEW bits, NEW x \in BOOLEAN,
         Writes(c, a, b, bits, x), a # "run_write"
  PROVE  QuietInv'
<1> USE DEF Prepared, Transferring, Running, Changing, Writing, Contexts
<1>1. /\ Types /\ DeviceTypes /\ CpuTypes /\ EngineInv /\ AloneInv /\ TrackInv /\ ChainInv
      /\ "DESC_POLL_EN" \notin control_reg
      /\ \A e \in Contexts : pc[e] \in Changing => op[e] \in {"stop", "poll_off"}
  BY QuietFacts
<1>2. /\ \/ a = "clear_write" /\ b = "clear_status" /\ bits = reg[c] \ {"RUN"} /\ reg' = reg
         \/ a = "change_write" /\ b = Returned(c) /\ bits = changed(c) /\ reg' = [reg EXCEPT ![c] = {}]
         \/ /\ a = "stop_write" /\ b = "status_read" /\ c = "main"
            /\ bits = reg[c] \ {"RUN"} /\ reg' = reg
         \/ /\ a = "irq_write" /\ b \in {"callback", "none"} /\ c = "isr"
            /\ bits = reg[c] /\ reg' = [reg EXCEPT ![c] = {}]
      /\ pc[c] = a /\ (c = "main" => pc["isr"] = "none") /\ WriteControl(bits, x)
      /\ UNCHANGED <<owned, failed, callback, use, program, tail>>
  BY DEF Writes, At, memoryVars, application
<1>3. /\ pc'[c] = b /\ \A e \in Contexts : e # c => pc'[e] = pc[e]
      /\ op' = op /\ desc' = desc
  <2>1. b \in MainPlaces \cup IsrPlaces /\ Goto(c, b)
    BY <1>2 DEF Writes, MainPlaces, IsrPlaces, Returned
  <2> QED
    BY <1>1, <2>1, PlaceChanged
<1>4. \A e \in Contexts : e # c => reg'[e] = reg[e]
  BY <1>2, <1>1, ValueRead DEF CpuTypes
<1>5. reg[c] = control_reg
  BY <1>1, <1>2 DEF AloneInv
<1>6. /\ "RUN" \notin bits \/ bits = control_reg
      /\ a = "irq_write" => bits = control_reg
      /\ a = "stop_write" => "RUN" \notin bits
  <2>1. CASE a = "change_write"
    <3>1. op[c] \in {"stop", "poll_off"} /\ bits = changed(c)
      BY <1>1, <1>2, <2>1
    <3>2. bits = reg[c] \ {"RUN"} \/ bits = reg[c] \ {"DESC_POLL_EN"}
      BY <3>1 DEF changed
    <3> QED
      BY <1>1, <1>5, <2>1, <3>2
  <2> QED
    BY <1>2, <1>5, <2>1
<1>7. bits \in SUBSET Control
  BY Bits DEF SInv
<1>8. /\ control_reg' = bits /\ busy' = busy
      /\ UNCHANGED <<error, descriptor_pointer, owned_by_hw, next_desc, desc_address_fifo, status_token>>
  <2>1. /\ control_reg' = bits
        /\ UNCHANGED <<error, descriptor_pointer, owned_by_hw, next_desc, desc_address_fifo, status_token>>
    BY <1>1, <1>2, <1>6, <1>7, ControlWritten
  <2> QED
    BY <2>1 DEF busy
<1>9. AloneInv'
  <2>1. ASSUME NEW e \in Contexts, pc'[e] \in Writing
        PROVE  reg'[e] = control_reg'
    <3>1. e # c /\ pc[e] \in Writing
      BY <1>2, <1>3, <2>1 DEF Returned
    <3>2. c = "isr" /\ a = "irq_write"
      BY <1>1, <1>2, <3>1 DEF AloneInv
    <3> QED
      BY <1>1, <1>4, <1>6, <1>8, <3>1, <3>2 DEF AloneInv
  <2>2. /\ pc'["isr"] \in {"none", "irq_read", "irq_write", "callback"}
        /\ pc'["main"] \in {"pointer", "run_read", "run_write"} => pc["main"] = pc'["main"]
        /\ pc'["main"] \in {"stop_read", "stop_write", "status_read", "status_clear"} =>
             pc["main"] \in {"stop_read", "stop_write", "status_read", "status_clear"}
        /\ pc'["main"] \in {"status_read", "status_clear"} =>
             "RUN" \notin bits \/ (pc["main"] = pc'["main"] /\ bits = control_reg)
    BY <1>1, <1>2, <1>3, <1>6 DEF AloneInv, Returned
  <2>3. own' = own
    BY <1>3 DEF own
  <2> HIDE DEF Writing
  <2> QED
    BY <1>1, <1>2, <1>8, <2>1, <2>2, <2>3 DEF AloneInv
<1>10. /\ pc'["main"] \in Prepared => pc["main"] \in Prepared
       /\ pc'["main"] \in Running => pc["main"] \in Running
       /\ pc'["main"] = "status_clear" => pc["main"] = "status_clear" /\ reg'["main"] = reg["main"]
  BY <1>2, <1>3, <1>4 DEF Returned
<1>11. TrackInv' /\ ChainInv'
  BY <1>1, <1>2, <1>3, <1>8, <1>10, ChainKept
<1> QED
  BY <1>9, <1>11 DEF QuietInv

\* The controller is started with the chain that has been prepared.
LEMMA RunQuiet ==
  ASSUME SInv, Quiet, NEW c \in Contexts, NEW a, NEW b, NEW bits, NEW x \in BOOLEAN,
         Writes(c, a, b, bits, x), a = "run_write"
  PROVE  QuietInv'
<1>1. /\ Types /\ DeviceTypes /\ MemoryTypes /\ ApplicationTypes /\ CpuTypes /\ EngineInv /\ RestInv
      /\ AloneInv /\ TrackInv /\ ChainInv
  BY QuietFacts
<1>2. /\ b = (IF op[c] = "sync" THEN "wait" ELSE Returned(c)) /\ bits = transferControl(c)
      /\ reg' = [reg EXCEPT ![c] = {}] /\ pc[c] = "run_write" /\ (c = "main" => pc["isr"] = "none")
      /\ WriteControl(bits, x) /\ UNCHANGED <<owned, failed, callback, use, program, tail>>
  BY DEF Writes, At, memoryVars, application
<1>3. c = "main"
  BY <1>1, <1>2 DEF AloneInv, Contexts
<1>4. b \in {"wait", "idle"} /\ pc["isr"] = "none"
  BY <1>2, <1>3 DEF Returned
<1>5. /\ pc'["main"] = b /\ pc'["isr"] = "none" /\ desc' = desc
  <2>1. b \in MainPlaces \cup IsrPlaces /\ Goto(c, b)
    BY <1>4 DEF Writes, MainPlaces, IsrPlaces, Running
  <2> QED
    BY <1>1, <1>3, <1>4, <2>1, PlaceChanged DEF Contexts
<1>6. /\ ~busy /\ ~run /\ "RUN" \notin control_reg /\ ~error /\ descriptor_pointer = Head(own)
  BY <1>1, <1>2, <1>3 DEF RestInv, AloneInv, Transferring, Contexts
<1>7. desc_address_fifo = <<>> /\ ~owned_by_hw /\ ~chain_completed_int /\ status_token = <<>>
  BY <1>1, <1>6 DEF busy, EngineInv
<1>8. "RUN" \in bits
  BY <1>2 DEF transferControl
<1>9. /\ control_reg' = bits /\ error' = error /\ desc_address_fifo' = <<>> /\ status_token' = <<>>
      /\ chain_completed_int' = (chain_completed_int /\ "RUN" \in bits)
      /\ owned_by_hw' = ((~run /\ run') \/ (owned_by_hw /\ ~("RUN" \notin bits /\ "DESC_POLL_EN" \in control_reg)))
      /\ next_desc' = IF (~run /\ run') \/ ("RUN" \notin bits /\ "DESC_POLL_EN" \in control_reg)
                      THEN descriptor_pointer ELSE next_desc
  BY <1>2, <1>7 DEF WriteControl, LoadDescriptor
<1>10. run'
  BY <1>6, <1>7, <1>8, <1>9 DEF run
<1>11. owned_by_hw' /\ next_desc' = Head(own) /\ ~error' /\ busy'
  BY <1>6, <1>9, <1>10 DEF busy
<1>12. /\ Chain(own, tail) /\ Apart(own) /\ ~owned[tail] /\ tail \in Descriptors
  BY <1>1, <1>2, <1>3 DEF ChainInv, AloneInv, ApplicationTypes, Prepared, Transferring
<1>13. /\ own \in Seq(Descriptors) /\ Len(own) \in Nat /\ Len(own) > 0 /\ Head(own) = own[1]
       /\ \A k \in 1..(Len(own) - 1) : own[k + 1] = next(own[k])
       /\ \A k, l \in 1..Len(own) : own[k] = own[l] => k = l
       /\ tail = next(own[Len(own)]) /\ \A k \in 1..Len(own) : own[k] # tail
       /\ \A k \in 1..Len(own) : owned[own[k]]
  <2>1. own \in Seq(Descriptors) /\ Len(own) > 0
    BY <1>12 DEF Chain
  <2>2. Len(own) \in Nat /\ Head(own) = own[1]
    BY <2>1
  <2> QED
    BY <1>12, <2>1, <2>2 DEF Chain, Apart
<1>14. own' = own
  BY <1>5 DEF own
<1>15. AloneInv'
  BY <1>1, <1>2, <1>4, <1>5, <1>12 DEF AloneInv, Writing, Contexts
<1>16. TrackInv'
  <2> DEFINE n == Len(own)
  <2>1. PICK q \in Seq(Descriptors) :
          Len(q) = n + 1 /\ q[n + 1] = tail /\ \A k \in 1..n : q[k] = own[k]
    <3>1. /\ Append(own, tail) \in Seq(Descriptors) /\ Len(Append(own, tail)) = n + 1
          /\ Append(own, tail)[n + 1] = tail /\ \A k \in 1..n : Append(own, tail)[k] = own[k]
      BY <1>12, <1>13
    <3> QED
      BY <3>1
  <2>2. \A k, l \in 1..Len(q) : q[k] = q[l] => k = l
    <3> TAKE k, l \in 1..Len(q)
    <3>1. (k \in 1..n \/ k = n + 1) /\ (l \in 1..n \/ l = n + 1)
      BY <1>13, <2>1
    <3> QED
      BY <1>13, <2>1, <3>1
  <2>3. ASSUME NEW k \in 1..(Len(q) - 1)
        PROVE  q[k + 1] = next(q[k]) /\ owned[q[k]]
    <3>1. k \in 1..n
      BY <1>13, <2>1
    <3>2. CASE k = n
      BY <1>13, <2>1, <3>1, <3>2
    <3>3. CASE k # n
      <4>1. k \in 1..(n - 1) /\ k + 1 \in 1..n
        BY <1>13, <3>1, <3>3
      <4> QED
        BY <1>13, <2>1, <3>1, <4>1
    <3> QED
      BY <3>2, <3>3
  <2>4. Len(desc_address_fifo') = 0 /\ 0 < Len(q) /\ q[0 + 1] = next_desc' /\ q[Len(q)] = tail
    <3>1. 1 \in 1..n /\ 0 + 1 = 1
      BY <1>13
    <3> QED
      BY <1>9, <1>11, <1>13, <2>1, <3>1
  <2>5. Track(q)'
    BY <1>2, <1>12, <2>2, <2>3, <2>4 DEF Track
  <2> QED
    BY <2>1, <2>5 DEF TrackInv
<1>17. Moved(own, 0, 0)'
  <2>1. \A l \in 1..Len(own) : owned[own[l]] <=> l > 0
    BY <1>13
  <2>2. next_desc' = (IF 0 < Len(own) THEN own[0 + 1] ELSE tail)
    BY <1>11, <1>13
  <2>3. Len(desc_address_fifo') = 0 - 0
    BY <1>9
  <2>4. status_token' # <<TRUE>>
    <3>1. Len(<<TRUE>>) = 1 /\ Len(<<>>) = 0
      OBVIOUS
    <3> QED
      BY <1>9, <3>1
  <2>5. ~(\E l \in 1..0 : failed'[own'[l]])
    OBVIOUS
  <2>6. error' <=> (\E l \in 1..0 : failed'[own'[l]]) \/ status_token' = <<TRUE>>
    <3> HIDE DEF own
    <3> QED
      BY <1>11, <2>4, <2>5
  <2>7. /\ \A l \in 1..Len(own') : owned'[own'[l]] <=> l > 0
        /\ next_desc' = (IF 0 < Len(own') THEN own'[0 + 1] ELSE tail')
        /\ \A l \in 1..(0 - 0) : desc_address_fifo'[l] = own'[0 + l]
        /\ 0 <= 0
    <3>1. 1..(0 - 0) = {}
      OBVIOUS
    <3> HIDE DEF own
    <3> QED
      BY <1>2, <1>14, <2>1, <2>2, <3>1
  <2> HIDE DEF own
  <2> QED
    BY <1>11, <2>3, <2>6, <2>7 DEF Moved
<1>18. ChainInv'
  <2>1. Chain(own', tail') /\ pc'["main"] \notin Prepared /\ pc'["main"] # "status_clear"
    BY <1>2, <1>4, <1>5, <1>12, <1>14 DEF Prepared, Transferring
  <2>2. \E j, k \in 0..Len(own') : Moved(own, j, k)'
    BY <1>13, <1>14, <1>17
  <2> HIDE DEF own
  <2> QED
    BY <2>1, <2>2 DEF ChainInv, SyncStatus
<1> QED
  BY <1>15, <1>16, <1>18 DEF QuietInv

\* Looking.
LEMMA LookQuiet ==
  ASSUME SInv, Quiet, NEW c \in Contexts, NEW a, NEW b,
         Looks(c, a, b) \/ (Interrupt /\ c = "isr" /\ a = "none" /\ b = "irq_read")
  PROVE  QuietInv'
<1> USE DEF Prepared, Transferring, Running, Changing, Writing, Contexts
<1>1. /\ Types /\ DeviceTypes /\ CpuTypes /\ EngineInv /\ AloneInv /\ TrackInv /\ ChainInv
  BY QuietFacts
<1>2. /\ \/ a = "busy" /\ b = "clear_read"
         \/ a = "busy" /\ b = Returned(c)
         \/ a = "wait" /\ b = "stop_read" /\ c = "main" /\ ~busy
         \/ a = "none" /\ b = "irq_read" /\ c = "isr"
      /\ pc[c] = a /\ Goto(c, b) /\ reg' = reg
      /\ UNCHANGED device /\ UNCHANGED <<owned, failed, callback, use, program, tail>>
  BY DEF Looks, Interrupt, At, memoryVars, application
<1>3. /\ pc'[c] = b /\ \A e \in Contexts : e # c => pc'[e] = pc[e]
      /\ desc' = desc
  <2>1. b \in MainPlaces \cup IsrPlaces
    BY <1>2 DEF Returned, MainPlaces, IsrPlaces
  <2> QED
    BY <1>1, <1>2, <2>1, PlaceChanged
<1>4. /\ busy' = busy
      /\ UNCHANGED <<control_reg, error, descriptor_pointer, owned_by_hw, next_desc,
                     desc_address_fifo, status_token>>
  BY <1>1, <1>2, DeviceStill
<1>5. AloneInv'
  BY <1>1, <1>2, <1>3, <1>4 DEF AloneInv, own, Returned
<1>6. /\ pc'["main"] \in Prepared => pc["main"] \in Prepared
      /\ pc'["main"] \in Running => pc["main"] \in Running
      /\ pc'["main"] = "status_clear" => pc["main"] = "status_clear" /\ reg'["main"] = reg["main"]
  BY <1>2, <1>3 DEF Returned
<1>7. TrackInv' /\ ChainInv'
  BY <1>1, <1>2, <1>3, <1>4, <1>6, ChainKept
<1> QED
  BY <1>5, <1>7 DEF QuietInv

\* The status that is read is that of the chain that has been moved.
LEMMA StatusOfChain ==
  ASSUME SInv, Quiet, StatusRead
  PROVE  QuietInv'
<1>1. /\ Types /\ DeviceTypes /\ MemoryTypes /\ CpuTypes /\ EngineInv /\ AloneInv /\ TrackInv /\ ChainInv
  BY QuietFacts
<1>2. /\ pc["main"] = "status_read" /\ pc["isr"] = "none" /\ Goto("main", "status_clear")
      /\ reg' = [reg EXCEPT !["main"] = IF error THEN {"ERROR"} ELSE {}]
      /\ UNCHANGED device /\ UNCHANGED <<owned, failed, callback, use, program, tail>>
  BY DEF StatusRead, At, memoryVars, application
<1>3. /\ pc'["main"] = "status_clear" /\ pc'["isr"] = "none" /\ desc' = desc
  <2>1. "status_clear" \in MainPlaces \cup IsrPlaces
    BY DEF MainPlaces
  <2> QED
    BY <1>1, <1>2, <2>1, PlaceChanged DEF Contexts
<1>4. reg'["main"] = IF error THEN {"ERROR"} ELSE {}
  BY <1>1, <1>2 DEF CpuTypes, Contexts
<1>5. /\ busy' = busy
      /\ UNCHANGED <<control_reg, error, descriptor_pointer, owned_by_hw, next_desc,
                     desc_address_fifo, status_token>>
  BY <1>1, <1>2, DeviceStill
<1>6. AloneInv'
  BY <1>1, <1>2, <1>3, <1>5 DEF AloneInv, Writing, Contexts
<1>7. TrackInv'
  <2>1. \A q : Track(q) => Track(q)'
    BY <1>2, <1>5 DEF Track
  <2> QED
    BY <1>1, <1>5, <2>1 DEF TrackInv
<1>8. own' = own /\ own \in Seq(Descriptors) /\ Len(own) \in Nat
  <2>1. own' = own /\ own \in Seq(Descriptors)
    BY <1>1, <1>3 DEF own, CpuTypes, Contexts
  <2> QED
    BY <2>1
<1>9. PICK j, k \in 0..Len(own) : Moved(own, j, k)
  BY <1>1, <1>2 DEF ChainInv, Running
<1>10. ~owned_by_hw /\ desc_address_fifo = <<>> /\ status_token = <<>>
  BY <1>1, <1>2 DEF AloneInv, busy, EngineInv
<1>11. /\ \A l \in 1..Len(own) : ~owned[own[l]]
       /\ error <=> \E l \in 1..Len(own) : failed[own[l]]
  <2>1. /\ j <= k /\ Len(desc_address_fifo) = k - j
        /\ \A l \in 1..Len(own) : owned[own[l]] <=> l > j
        /\ k = Len(own)
        /\ error <=> (\E l \in 1..j : failed[own[l]]) \/ status_token = <<TRUE>>
    BY <1>9, <1>10 DEF Moved
  <2>2. j = Len(own)
    BY <1>8, <1>10, <2>1
  <2>3. status_token # <<TRUE>>
    <3>1. Len(<<TRUE>>) = 1 /\ Len(<<>>) = 0
      OBVIOUS
    <3> QED
      BY <1>10, <3>1
  <2>4. error <=> \E l \in 1..Len(own) : failed[own[l]]
    BY <2>1, <2>2, <2>3
  <2>5. \A l \in 1..Len(own) : ~owned[own[l]]
    BY <1>8, <2>1, <2>2
  <2> QED
    BY <2>4, <2>5
<1>12. SyncStatus'
  <2> DEFINE chained == {desc["main"][i] : i \in 1..Len(desc["main"])}
  <2>1. /\ \A d \in chained : ~owned[d]
        /\ error <=> \E d \in chained : failed[d]
    BY <1>11 DEF own
  <2>2. reg'["main"] = {"ERROR"} <=> error
    BY <1>4
  <2>3. chained = {desc'["main"][i] : i \in 1..Len(desc'["main"])}
    BY <1>3
  <2> HIDE DEF chained
  <2>4. /\ \A d \in chained : ~owned'[d]
        /\ reg'["main"] = {"ERROR"} <=> \E d \in chained : failed'[d]
    BY <1>2, <2>1, <2>2
  <2> QED
    BY <2>3, <2>4 DEF SyncStatus
<1>13. ChainInv'
  <2>1. Chain(own, tail)
    BY <1>1, <1>2 DEF ChainInv, Running
  <2> QED
    BY <1>2, <1>3, <1>8, <1>12, <2>1 DEF ChainInv, Prepared, Transferring, Running
<1> QED
  BY <1>6, <1>7, <1>13 DEF QuietInv

\* The other registers.
LEMMA RegisterQuiet ==
  ASSUME SInv, Quiet, NEW c \in Contexts, NEW a, NEW b, Registers(c, a, b)
  PROVE  QuietInv'
<1> USE DEF Prepared, Transferring, Running, Changing, Writing, Contexts
<1>1. /\ Types /\ DeviceTypes /\ CpuTypes /\ EngineInv /\ RestInv /\ AloneInv /\ TrackInv /\ ChainInv
  BY QuietFacts
<1>2. CASE StatusRead
  BY <1>2, StatusOfChain
<1>3. CASE ~StatusRead
  <2>1. /\ \/ a = "clear_status" /\ b = "pointer" /\ ClearStatus /\ reg' = reg
           \/ /\ a = "pointer" /\ b = "run_read" /\ descriptor_pointer' = Head(desc[c]) /\ reg' = reg
              /\ UNCHANGED <<control_reg, error, chain_completed_int, csr_irq, owned_by_hw, next_desc,
                             desc_address_fifo, status_token>>
           \/ a = "status_clear" /\ b = "idle" /\ c = "main" /\ ClearStatus
      /\ pc[c] = a /\ (c = "main" => pc["isr"] = "none") /\ Goto(c, b)
      /\ UNCHANGED <<owned, failed, callback, use, program, tail>>
    BY <1>3 DEF Registers, ClearStatusReg, WritePointer, StatusClear, At, memoryVars, application
  <2>2. c = "main" /\ pc["isr"] = "none"
    BY <1>1, <2>1 DEF AloneInv
  <2>3. pc'["main"] = b /\ pc'["isr"] = "none" /\ desc' = desc
    <3>1. b \in MainPlaces \cup IsrPlaces
      BY <2>1 DEF MainPlaces
    <3> QED
      BY <1>1, <2>1, <2>2, <3>1, PlaceChanged
  <2>4. "RUN" \notin control_reg
    BY <1>1, <2>1, <2>2 DEF RestInv, AloneInv
  <2>5. /\ UNCHANGED <<control_reg, owned_by_hw, next_desc, desc_address_fifo, status_token>>
        /\ a = "clear_status" => error' = FALSE
        /\ a = "pointer" => error' = error /\ descriptor_pointer' = Head(own)
    <3>1. CASE ClearStatus /\ a # "pointer"
      BY <1>1, <2>1, <2>4, <3>1, StatusCleared
    <3>2. CASE a = "pointer"
      BY <2>1, <2>2, <3>2 DEF own
    <3> QED
      BY <2>1, <3>1, <3>2
  <2>6. own' = own
    BY <2>3 DEF own
  <2>7. AloneInv'
    <3> HIDE DEF own
    <3> QED
      BY <1>1, <2>1, <2>2, <2>3, <2>5, <2>6 DEF AloneInv
  <2>8. /\ pc'["main"] \in Prepared => pc["main"] \in Prepared
        /\ pc'["main"] \notin Running /\ pc'["main"] # "status_clear"
    BY <2>1, <2>2, <2>3
  <2>9. TrackInv' /\ ChainInv'
    BY <1>1, <2>1, <2>3, <2>5, <2>8, ChainKept
  <2> QED
    BY <2>7, <2>9 DEF QuietInv
<1> QED
  BY <1>2, <1>3

\* The callback starts nothing.
LEMMA CallbackQuiet ==
  ASSUME SInv, Quiet, Callback
  PROVE  QuietInv'
<1>1. /\ Types /\ DeviceTypes /\ CpuTypes /\ EngineInv /\ AloneInv /\ TrackInv /\ ChainInv
  BY QuietFacts
<1>2. /\ pc["isr"] = "callback" /\ Goto("isr", "none") /\ UNCHANGED device
      /\ UNCHANGED <<owned, failed, callback, use, program, tail, reg>>
  BY DEF Callback, At, Quiet, memoryVars
<1>3. /\ pc'["isr"] = "none" /\ pc'["main"] = pc["main"] /\ desc' = desc
  BY <1>1, <1>2, PlaceChanged DEF Contexts, IsrPlaces
<1>4. /\ busy' = busy
      /\ UNCHANGED <<control_reg, error, descriptor_pointer, owned_by_hw, next_desc,
                     desc_address_fifo, status_token>>
  BY <1>1, <1>2, DeviceStill
<1>5. AloneInv'
  BY <1>1, <1>2, <1>3, <1>4 DEF AloneInv, own, Writing, Contexts
<1>6. TrackInv' /\ ChainInv'
  BY <1>1, <1>2, <1>3, <1>4, ChainKept
<1> QED
  BY <1>5, <1>6 DEF QuietInv

\* A chain is made while the controller works on the one before.
LEMMA BuildQuiet ==
  ASSUME SInv, Quiet, NEW new \in Seq(Descriptors),
         Chain(new, tail'), new[1] = next(tail), tail' # tail, tail' \in Descriptors,
         \A k \in 1..Len(new) : new[k] # tail,
         busy => ~owned[tail'] /\ \A k \in 1..Len(new) : ~owned[new[k]],
         \A d \in Descriptors :
           /\ owned'[d] <=> (\E k \in 1..Len(new) : d = new[k]) \/ (owned[d] /\ d # tail')
           /\ failed'[d] <=> failed[d] /\ \A k \in 1..Len(new) : d # new[k],
         UNCHANGED <<owned_by_hw, next_desc, desc_address_fifo>>, own' = new
  PROVE  TrackInv' /\ Apart(own)' /\ ~owned'[tail'] /\ ~owned'[tail]
<1> DEFINE fifo == desc_address_fifo
           l == Len(fifo)
<1>1. /\ DeviceTypes /\ AloneInv /\ TrackInv /\ tail \in Descriptors /\ ~owned[tail]
      /\ fifo \in Seq(Descriptors)
  BY QuietFacts DEF ApplicationTypes, AloneInv, DeviceTypes
<1>2. l \in Nat /\ \A k \in 1..l : fifo[k] \in Descriptors
  BY <1>1
<1>3. /\ Len(new) \in Nat /\ Len(new) > 0 /\ \A k \in 1..Len(new) : new[k] \in Descriptors /\ new[k] # tail'
      /\ \A k \in 1..(Len(new) - 1) : new[k + 1] = next(new[k])
      /\ tail' = next(new[Len(new)])
  <2>1. Len(new) \in Nat /\ \A k \in 1..Len(new) : new[k] \in Descriptors
    OBVIOUS
  <2> QED
    BY <2>1 DEF Chain
<1>4. ~owned'[tail'] /\ ~owned'[tail]
  BY <1>1, <1>3
<1>5. \A k \in 1..Len(new) : owned'[new[k]] /\ ~failed'[new[k]]
  BY <1>3
<1>6. \A d \in Descriptors : busy /\ owned[d] => owned'[d] /\ \A k \in 1..Len(new) : new[k] # d
  OBVIOUS
<1>7. busy' = busy
  BY DEF busy
<1>8. ASSUME NEW q \in Seq(Descriptors), Track(q), busy
      PROVE  /\ Track(q)'
             /\ owned_by_hw => \A k \in 1..Len(new) : next_desc # new[k]
             /\ \A k \in 1..l : owned[fifo[k]]
  <2>1. /\ l <= Len(q) /\ \A k \in 1..l : q[k] = fifo[k] /\ owned[q[k]]
        /\ \A k, m \in 1..Len(q) : q[k] = q[m] => k = m
    BY <1>8 DEF Track
  <2>2. Len(q) \in Nat /\ \A k \in 1..Len(q) : q[k] \in Descriptors
    OBVIOUS
  <2>3. \A k \in 1..l : q[k] = fifo[k] /\ owned'[q[k]]
    BY <1>2, <1>6, <1>8, <2>1
  <2>4. CASE ~owned_by_hw
    <3>1. Track(q)'
      BY <2>1, <2>3, <2>4 DEF Track
    <3> QED
      BY <2>1, <2>4, <3>1
  <2>5. CASE owned_by_hw
    <3> DEFINE z == q[Len(q)]
    <3>1. /\ l < Len(q) /\ q[l + 1] = next_desc
          /\ \A k \in 1..(Len(q) - 1) : q[k + 1] = next(q[k]) /\ owned[q[k]]
          /\ ~owned[z]
          /\ \/ z = tail
             \/ owned[next(z)] /\ \A k \in 1..Len(q) : q[k] # next(z)
      BY <1>8, <2>5 DEF Track
    <3>2. z \in Descriptors /\ Len(q) \in 1..Len(q)
      BY <1>2, <2>2, <3>1
    <3>3. \A k \in 1..Len(new) : new[k] # z
      <4>1. CASE z = tail
        BY <4>1
      <4>2. CASE owned[next(z)]
        <5> SUFFICES ASSUME NEW k \in 1..Len(new), new[k] = z
                     PROVE  FALSE
          OBVIOUS
        <5>1. CASE k = Len(new)
          BY <1>3, <1>8, <4>2, <5>1
        <5>2. CASE k # Len(new)
          <6>1. k \in 1..(Len(new) - 1) /\ k + 1 \in 1..Len(new)
            BY <1>3, <5>2
          <6> QED
            BY <1>3, <1>8, <4>2, <6>1
        <5> QED
          BY <5>1, <5>2
      <4> QED
        BY <3>1, <4>1, <4>2
    <3>4. ~owned'[z]
      BY <3>1, <3>2, <3>3
    <3>5. \A k \in 1..(Len(q) - 1) : q[k + 1] = next(q[k]) /\ owned'[q[k]]
      <4>1. \A k \in 1..(Len(q) - 1) : k \in 1..Len(q)
        BY <2>2
      <4> QED
        BY <1>6, <1>8, <2>2, <3>1, <4>1
    <3>6. owned'[next(z)] /\ \A k \in 1..Len(q) : q[k] # next(z)
      <4>1. CASE z = tail
        <5>1. next(z) = new[1] /\ 1 \in 1..Len(new)
          BY <1>3, <4>1
        <5>2. ASSUME NEW k \in 1..Len(q)
              PROVE  q[k] # next(z)
          <6>1. CASE k = Len(q)
            BY <4>1, <5>1, <6>1
          <6>2. CASE k # Len(q)
            <7>1. k \in 1..(Len(q) - 1)
              BY <2>2, <6>2
            <7> QED
              BY <1>8, <3>1, <5>1, <7>1
          <6> QED
            BY <6>1, <6>2
        <5> QED
          BY <1>5, <5>1, <5>2
      <4>2. CASE owned[next(z)] /\ \A k \in 1..Len(q) : q[k] # next(z)
        <5>1. next(z) \in Descriptors
          BY <3>2, NextOf
        <5> QED
          BY <1>6, <1>8, <4>2, <5>1
      <4> QED
        BY <3>1, <4>1, <4>2
    <3>7. \A k \in 1..Len(new) : next_desc # new[k]
      <4>1. CASE l + 1 = Len(q)
        BY <3>1, <3>3, <4>1
      <4>2. CASE l + 1 # Len(q)
        <5>1. l + 1 \in 1..(Len(q) - 1) /\ l + 1 \in 1..Len(q)
          BY <1>2, <2>2, <3>1, <4>2
        <5> QED
          BY <1>6, <1>8, <2>2, <3>1, <5>1
      <4> QED
        BY <4>1, <4>2
    <3>8. Track(q)'
      BY <2>1, <2>3, <2>5, <3>1, <3>4, <3>5, <3>6 DEF Track
    <3> QED
      BY <2>1, <3>7, <3>8
  <2> QED
    BY <2>4, <2>5
<1>9. TrackInv'
  BY <1>1, <1>7, <1>8 DEF TrackInv
<1>10. Apart(own)'
  <2>1. \A k \in 1..Len(new), m \in 1..l : fifo[m] # new[k]
    <3>1. CASE busy
      <4>1. PICK q \in Seq(Descriptors) : Track(q)
        BY <1>1, <3>1 DEF TrackInv
      <4> QED
        BY <1>8, <3>1, <4>1
    <3>2. CASE ~busy
      <4>1. l = 0
        BY <3>2 DEF busy
      <4> QED
        BY <4>1
    <3> QED
      BY <3>1, <3>2
  <2>2. ASSUME owned_by_hw
        PROVE  \A k \in 1..Len(new) : next_desc # new[k]
    <3>1. busy
      BY <2>2 DEF busy
    <3>2. PICK q \in Seq(Descriptors) : Track(q)
      BY <1>1, <3>1 DEF TrackInv
    <3> QED
      BY <1>8, <2>2, <3>1, <3>2
  <2>3. \A d \in Descriptors : next(d) = new[1] => ~owned'[d]
    BY <1>1, <1>4, NextOnce
  <2> HIDE DEF own
  <2> QED
    BY <1>5, <2>1, <2>2, <2>3 DEF Apart
<1> QED
  BY <1>4, <1>9, <1>10

\* A call makes a chain or changes a bit.
LEMMA CallQuiet ==
  ASSUME SInv, Quiet, NEW o \in Calls, Call(o)
  PROVE  QuietInv'
<1> USE DEF Prepared, Transferring, Running, Changing, Writing, Contexts
<1>1. /\ Types /\ DeviceTypes /\ CpuTypes /\ EngineInv /\ AloneInv /\ TrackInv /\ ChainInv
      /\ TransfersInv /\ PollsInv
  BY QuietFacts DEF SInv, BInv
<1>2. At("main", "idle") /\ o \in Made(use)
  BY <1>1, Called DEF Quiet
<1>3. /\ pc["main"] = "idle" /\ pc["isr"] = "none" /\ o \notin {"start", "poll_on", "append"}
  BY <1>2 DEF At, Quiet, TransfersOnly
<1>4. /\ UNCHANGED device /\ reg' = reg /\ use' = use
      /\ \/ o \in {"async", "sync"} /\ CallTransfer(o)
         \/ o \notin {"async", "sync"} /\ (CallChange(o) \/ CallRegister(o))
  BY <1>3 DEF Call
<1>5. /\ busy' = busy
      /\ UNCHANGED <<control_reg, error, descriptor_pointer, owned_by_hw, next_desc,
                     desc_address_fifo, status_token>>
  BY <1>1, <1>4, DeviceStill
<1>6. CASE CallTransfer(o) /\ o \in {"async", "sync"}
  <2>1. PICK n \in 1..(Ring - 2) : BuildChain("main", n)
    BY <1>6 DEF CallTransfer
  <2>2. PICK new \in Seq(Descriptors) :
           /\ Chain(new, tail') /\ new # <<>> /\ new[1] = next(tail) /\ tail' # tail
           /\ \A k \in 1..Len(new) : new[k] # tail
           /\ desc' = [desc EXCEPT !["main"] = new]
           /\ busy => ~owned[tail'] /\ \A k \in 1..Len(new) : ~owned[new[k]]
           /\ tail' \in Descriptors /\ MemoryTypes'
           /\ \A d \in Descriptors :
                /\ owned'[d] <=> (\E k \in 1..Len(new) : d = new[k]) \/ (owned[d] /\ d # tail')
                /\ failed'[d] <=> failed[d] /\ \A k \in 1..Len(new) : d # new[k]
    BY <1>1, <2>1, Built
  <2>3. own' = new
    BY <1>1, <2>2 DEF own, CpuTypes
  <2>4. TrackInv' /\ Apart(own)' /\ ~owned'[tail'] /\ ~owned'[tail]
    BY <1>5, <2>2, <2>3, BuildQuiet
  <2>5. pc'["main"] = "busy" /\ pc'["isr"] = "none"
    BY <1>1, <1>3, <1>6 DEF CallTransfer, Enter, entry, CpuTypes
  <2>6. AloneInv'
    BY <2>4, <2>5 DEF AloneInv
  <2>7. ChainInv'
    <3> HIDE DEF own
    <3> QED
      BY <2>2, <2>3, <2>4, <2>5 DEF ChainInv, SyncStatus
  <2> QED
    BY <2>4, <2>6, <2>7 DEF QuietInv
<1>7. CASE o \notin {"async", "sync"} /\ (CallChange(o) \/ CallRegister(o))
  <2>1. /\ pc'["main"] \in {"change_read", "idle"} /\ pc'["isr"] = "none"
        /\ UNCHANGED <<owned, failed, tail, desc>>
    BY <1>1, <1>3, <1>7 DEF CallChange, CallRegister, Enter, entry, CpuTypes, memoryVars
  <2>2. AloneInv'
    BY <1>1, <1>5, <2>1 DEF AloneInv
  <2>3. TrackInv' /\ ChainInv'
    BY <1>1, <1>5, <2>1, ChainKept
  <2> QED
    BY <2>2, <2>3 DEF QuietInv
<1> QED
  BY <1>4, <1>6, <1>7

-----------------------------------------------------------------------------
(* The theorem.                                                            *)

\* Every step.
LEMMA StepQuiet ==
  ASSUME SInv, [Next]_vars
  PROVE  QuietInv'
<1>1. use' = use
  <2>1. CASE Engine
    BY <2>1, EngineStep DEF SInv, BInv, Types, ApplicationTypes
  <2>2. CASE Driver
    <3>1. CASE Callback
      BY <3>1 DEF Callback
    <3>2. ASSUME NEW c \in Contexts, NEW a, NEW b, Reads(c, a, b)
          PROVE  use' = use
      BY <3>2 DEF Reads, application
    <3>3. ASSUME NEW c \in Contexts, NEW a, NEW b, NEW bits, NEW x \in BOOLEAN, Writes(c, a, b, bits, x)
          PROVE  use' = use
      BY <3>3 DEF Writes, application
    <3>4. ASSUME NEW c \in Contexts, NEW a, NEW b, Looks(c, a, b) \/ Interrupt
          PROVE  use' = use
      BY <3>4 DEF Looks, Interrupt, application
    <3>5. ASSUME NEW c \in Contexts, NEW a, NEW b, Registers(c, a, b)
          PROVE  use' = use
      BY <3>5 DEF Registers, ClearStatusReg, WritePointer, StatusRead, StatusClear, application
    <3> QED
      BY <2>2, <3>1, <3>2, <3>3, <3>4, <3>5, Forms
  <2>3. ASSUME NEW o \in Calls, Call(o)
        PROVE  use' = use
    BY <2>3 DEF Call
  <2>4. CASE UNCHANGED vars
    BY <2>4 DEF vars, application
  <2> QED
    BY <2>1, <2>2, <2>3, <2>4 DEF Next
<1> SUFFICES ASSUME Quiet
             PROVE  QuietInv'
  BY <1>1 DEF QuietInv, Quiet
<1>2. CASE Engine
  BY <1>2, EngineQuiet
<1>3. CASE Driver
  <2>1. CASE Callback
    BY <2>1, CallbackQuiet
  <2>2. ASSUME NEW c \in Contexts, NEW a, NEW b, Reads(c, a, b)
        PROVE  QuietInv'
    BY <2>2, ReadQuiet
  <2>3. ASSUME NEW c \in Contexts, NEW a, NEW b, NEW bits, NEW x \in BOOLEAN, Writes(c, a, b, bits, x)
        PROVE  QuietInv'
    BY <2>3, WriteQuiet, RunQuiet
  <2>4. ASSUME NEW c \in Contexts, NEW a, NEW b,
               Looks(c, a, b) \/ (Interrupt /\ c = "isr" /\ a = "none" /\ b = "irq_read")
        PROVE  QuietInv'
    BY <2>4, LookQuiet
  <2>5. ASSUME NEW c \in Contexts, NEW a, NEW b, Registers(c, a, b)
        PROVE  QuietInv'
    BY <2>5, RegisterQuiet
  <2> QED
    BY <1>3, <2>1, <2>2, <2>3, <2>4, <2>5, Forms
<1>4. ASSUME NEW o \in Calls, Call(o)
      PROVE  QuietInv'
  BY <1>4, CallQuiet
<1>5. CASE UNCHANGED vars
  <2>1. /\ UNCHANGED <<control_reg, error, descriptor_pointer, owned_by_hw, next_desc,
                       desc_address_fifo, status_token>>
        /\ UNCHANGED <<owned, failed, callback, use, program, tail, pc, op, reg, desc>>
    BY <1>5 DEF vars, device, memoryVars, application, cpu
  <2>2. /\ Types /\ AloneInv /\ TrackInv /\ ChainInv
    BY QuietFacts
  <2>3. TrackInv' /\ ChainInv'
    BY <2>1, <2>2, ChainKept
  <2>4. own' = own /\ busy' = busy
    BY <2>1 DEF own, busy
  <2>5. AloneInv'
    BY <2>1, <2>2, <2>4 DEF AloneInv
  <2> QED
    BY <2>3, <2>5 DEF QuietInv
<1> QED
  BY <1>2, <1>3, <1>4, <1>5 DEF Next

\* The start.
LEMMA StartQuiet == Init => QuietInv
<1> SUFFICES ASSUME Init
             PROVE  QuietInv
  OBVIOUS
<1>1. pc["main"] = "idle" /\ pc["isr"] = "none"
  BY DEF Init, Returned, Contexts
<1>2. ~busy
  BY DEF Init, busy
<1>3. AloneInv
  BY <1>1, RingLarge DEF Init, AloneInv, Writing, Contexts, Descriptors
<1>4. TrackInv
  BY <1>2 DEF TrackInv
<1>5. ChainInv
  BY <1>1 DEF ChainInv, Prepared, Transferring, Running, SyncStatus
<1> QED
  BY <1>3, <1>4, <1>5 DEF QuietInv

\* The invariant says what the run checks.
LEMMA Whole == SInv => DriverInv
<1> SUFFICES ASSUME SInv
             PROVE  DriverInv
  OBVIOUS
<1>1. Types /\ DeviceTypes /\ MemoryTypes /\ ApplicationTypes /\ CpuTypes /\ PlacesInv /\ RestInv
      /\ TransfersInv /\ PollsInv
  BY DEF SInv, BInv, Types
<1>2. TypeOK
  BY <1>1 DEF TypeOK, DeviceTypes, MemoryTypes, ApplicationTypes, CpuTypes
<1>3. TransferAtRest
  BY <1>1 DEF TransferAtRest, RestInv, Transferring
<1>4. SyncStatus
  <2>1. CASE Quiet
    BY <2>1, QuietFacts DEF ChainInv
  <2>2. CASE ~Quiet
    <3>1. pc["main"] = "status_clear" => op["main"] = "sync"
      BY <1>1 DEF PlacesInv
    <3>2. op["main"] # "sync"
      BY <1>1, <2>2, ApplicationsAssumption DEF TransfersInv, PollsInv, Quiet, ApplicationTypes
    <3> QED
      BY <3>1, <3>2 DEF SyncStatus
  <2> QED
    BY <2>1, <2>2
<1> QED
  BY <1>2, <1>3, <1>4 DEF DriverInv

\* A transfer that has found the controller at rest has it to itself until it runs
\* it, and a transfer that waits returns the status of its own chain: however many
\* descriptors there are, and whatever an application of these two kinds does
\* (altera_avalon_sgdma.c:84-147, 176-224).
THEOREM TransfersOwn == Spec => []DriverInv
<1>1. Init => SInv
  BY StartRest, StartQuiet DEF SInv
<1>2. SInv /\ [Next]_vars => SInv'
  <2> SUFFICES ASSUME SInv, [Next]_vars
               PROVE  SInv'
    OBVIOUS
  <2>1. BInv'
    BY StepRest DEF SInv
  <2> QED
    BY <2>1, StepQuiet DEF SInv
<1> QED
  BY <1>1, <1>2, Whole, PTL DEF Spec

-----------------------------------------------------------------------------
(* Chains of descriptors in the memory and in the data cache, while         *)
(* controllers run and lines leave the cache at any time.                  *)

Linked ==
  /\ CacheAssumption /\ LayoutAssumption
  /\ ChainsAssumption /\ LinesAssumption

Building == place \in {"read_next", "release_next", "fill", "control", "flush"}
Filling == place \in {"control", "flush"}
Now == chains[serving][index]

CacheTypes ==
  /\ CacheTypeOK({0, 1})
  /\ place \in {"idle", "read_next", "release_next", "fill", "control", "flush", "start", "wait"}
  /\ serving \in Controllers
  /\ index \in Nat /\ 1 <= index /\ index < Len(chains[serving])
  /\ chains \in [Controllers -> UNION {Chains[c] : c \in Controllers}]
  /\ \A c \in Controllers : chains[c] \in Chains[c]
  /\ nextControl \in {0, 1} /\ given \in [Located -> {0, 1}]
  /\ running \subseteq Controllers
  /\ at \in [Controllers -> Nat]
  /\ \A c \in running : 1 <= at[c] /\ at[c] <= Len(chains[c])

\* Lines written in the cache are those of the neighbours and of the descriptor
\* that is being made.
DirtyLines ==
  \A l \in dirty : \/ \E a \in Neighbours : l = line(a)
                   \/ Filling /\ l = line(first(Now))
                   \/ place = "flush" /\ l = line(control(Now))

\* The last descriptor of a chain is never owned, in the memory or in the cache.
EndsReleased ==
  \A d \in Located \ Inner :
    memory[control(d)] = 0 /\ copy[control(d)] = 0

\* The addresses of a descriptor are in the memory unless it is being made.
AddressesThere ==
  \A d \in Inner :
    /\ \/ memory[first(d)] = given[d]
       \/ Filling /\ d = Now /\ line(first(d)) \in dirty
    /\ line(first(d)) \in present => copy[first(d)] = given[d]

\* A chain is made while its controller does not run, and is owned as far as it is
\* made; the descriptor that is flushed is owned in the cache or in the memory.
MadeInOrder ==
  /\ Building \/ place = "start" => serving \notin running
  /\ place = "flush" => IF line(control(Now)) \in dirty
                        THEN copy[control(Now)] = 1
                        ELSE memory[control(Now)] = 1
  /\ Building => \A k \in 1..(index - 1) : ownedByHw(chains[serving][k])
  /\ place = "start" => /\ index + 1 = Len(chains[serving])
                        /\ \A k \in 1..index : ownedByHw(chains[serving][k])

\* A controller that runs has the rest of its chain.
RestOwned ==
  \A c \in running : \A k \in at[c]..(Len(chains[c]) - 1) : ownedByHw(chains[c][k])

CacheInv ==
  /\ CacheTypes /\ DirtyLines /\ EndsReleased
  /\ AddressesThere /\ MadeInOrder /\ RestOwned

\* The two halves of descriptors lie apart, and so do the neighbours.
LEMMA CellFacts ==
  ASSUME Linked
  PROVE  /\ \A d \in Located :
              /\ first(d) \in Addresses /\ control(d) \in Addresses
              /\ first(d) # control(d)
         /\ \A d, e \in Located : d # e =>
              /\ first(d) # first(e) /\ first(d) # control(e)
              /\ control(d) # first(e) /\ control(d) # control(e)
         /\ \A a \in Neighbours :
              /\ a \in Addresses
              /\ \A d \in Located : a # first(d) /\ a # control(d)
         /\ Inner \subseteq Located
<1>1. Size \in Nat /\ Addresses \subseteq Nat
  BY DEF Linked, CacheAssumption, Addresses
<1>2. \A d \in Located : Address[d] \in Nat
  BY <1>1 DEF Linked, LayoutAssumption
<1> QED
  BY <1>1, <1>2 DEF Linked, LayoutAssumption, first, control, Inner

\* What shares no line with the control byte of a descriptor that is made.
LEMMA LineFacts ==
  ASSUME Linked, NEW d \in Inner
  PROVE  /\ \A e \in Inner \ {d} :
              /\ line(control(d)) # line(first(e))
              /\ line(control(d)) # line(control(e))
         /\ \A a \in Neighbours : line(control(d)) # line(a)
BY DEF Linked, LinesAssumption

\* The places of a chain.
LEMMA LinksFacts ==
  ASSUME Linked, NEW c \in Controllers, NEW links \in Chains[c]
  PROVE  /\ links \in Seq(Located) /\ Len(links) \in Nat /\ Len(links) > 1
         /\ \A k \in 1..Len(links) : links[k] \in Located
         /\ \A k \in 1..(Len(links) - 1) : links[k] \in Inner
         /\ links[Len(links)] \notin Inner
         /\ \A j, k \in 1..Len(links) : links[j] = links[k] => j = k
         /\ \A e \in Controllers \ {c} : \A others \in Chains[e] :
              \A j \in 1..Len(links), k \in 1..Len(others) : links[j] # others[k]
<1>1. /\ links \in Seq(Located) /\ Len(links) > 1
      /\ \A j, k \in 1..Len(links) : links[j] = links[k] => j = k
      /\ links[Len(links)] \notin Inner
      /\ \A e \in Controllers \ {c} : \A others \in Chains[e] :
           \A j \in 1..Len(links), k \in 1..Len(others) : links[j] # others[k]
  BY DEF Linked, ChainsAssumption
<1>2. Len(links) \in Nat /\ \A k \in 1..Len(links) : links[k] \in Located
  BY <1>1
<1>3. ASSUME NEW k \in 1..(Len(links) - 1) PROVE links[k] \in Inner
  <2>1. links[k] \in Located
    BY <1>2
  <2> QED  BY <2>1 DEF Inner
<1> QED  BY <1>1, <1>2, <1>3

\* The descriptor that is made.
LEMMA NowMade ==
  ASSUME Linked, CacheTypes
  PROVE  /\ Now \in Inner /\ Now \in Located /\ thisDesc = Now
         /\ nextDesc \in Located /\ nextDesc = chains[serving][index + 1]
         /\ Len(chains[serving]) \in Nat
<1>1. chains[serving] \in Chains[serving] /\ serving \in Controllers
      /\ index \in 1..(Len(chains[serving]) - 1) /\ index \in Nat /\ index < Len(chains[serving])
  BY LinksFacts DEF CacheTypes
<1>2. index + 1 \in 1..Len(chains[serving]) /\ Len(chains[serving]) \in Nat
  BY <1>1, LinksFacts
<1>3. Now \in Inner /\ nextDesc \in Located
  BY <1>1, <1>2, LinksFacts DEF Now, nextDesc
<1> QED  BY <1>2, <1>3, CellFacts DEF Now, thisDesc, nextDesc

-----------------------------------------------------------------------------
(* The operations of the cache.                                            *)

\* The cells of the cache.
LEMMA Shapes ==
  ASSUME CacheTypeOK({0, 1})
  PROVE  /\ DOMAIN memory = Addresses /\ DOMAIN copy = Addresses
         /\ \A a \in Addresses : memory[a] \in {0, 1} /\ copy[a] \in {0, 1}
         /\ \A a \in Addresses : line(a) \in Lines
         /\ dirty \subseteq present /\ present \subseteq Lines
BY DEF CacheTypeOK, Lines

LEMMA Dropped ==
  ASSUME CacheTypeOK({0, 1}), NEW L, Drop(L, TRUE)
  PROVE  /\ CacheTypeOK({0, 1})'
         /\ present' = present \ L /\ dirty' = dirty \ L
         /\ \A a \in Addresses :
              /\ line(a) \in L /\ line(a) \in dirty => memory'[a] = copy[a]
              /\ line(a) \notin L \/ line(a) \notin dirty => memory'[a] = memory[a]
              /\ line(a) \in L => copy'[a] = 0
              /\ line(a) \notin L => copy'[a] = copy[a]
BY DEF Drop, CacheTypeOK

LEMMA Loaded ==
  ASSUME CacheTypeOK({0, 1}), NEW a \in Addresses, Load(a)
  PROVE  /\ CacheTypeOK({0, 1})'
         /\ memory' = memory /\ dirty' = dirty /\ present' = present \cup {line(a)}
         /\ \A b \in Addresses :
              \/ copy'[b] = memory[b] /\ line(b) \notin present
              \/ copy'[b] = copy[b] /\ (line(b) \in present \/ line(b) \notin present')
BY Shapes DEF Load, CacheTypeOK, filled

LEMMA Stored ==
  ASSUME CacheTypeOK({0, 1}), NEW a \in Addresses, NEW v \in {0, 1},
         Store([b \in {a} |-> v])
  PROVE  /\ CacheTypeOK({0, 1})'
         /\ memory' = memory
         /\ dirty' = dirty \cup {line(a)} /\ present' = present \cup {line(a)}
         /\ copy'[a] = v
         /\ \A b \in Addresses \ {a} :
              \/ copy'[b] = memory[b] /\ line(b) \notin present
              \/ copy'[b] = copy[b] /\ (line(b) \in present \/ line(b) \notin present')
<1> DEFINE f == [b \in {a} |-> v]
<1>1. DOMAIN f = {a} /\ f[a] = v
  OBVIOUS
<1>2. {line(b) : b \in DOMAIN f} = {line(a)}
  BY <1>1
<1> HIDE DEF f
<1>3. Store(f)
  BY DEF f
<1>4. /\ present' = present \cup {line(a)} /\ dirty' = dirty \cup {line(a)}
      /\ copy' = [b \in Addresses |-> IF b \in {a} THEN f[b] ELSE filled({a})[b]]
      /\ memory' = memory
  BY <1>1, <1>2, <1>3 DEF Store
<1>5. \A b \in Addresses :
        filled({a})[b] = IF line(b) = line(a) /\ line(b) \notin present
                               THEN memory[b] ELSE copy[b]
  BY DEF filled
<1>6. \A b \in Addresses : filled({a})[b] \in {0, 1}
  BY <1>5, Shapes
<1>7. \A b \in Addresses : copy'[b] = IF b = a THEN v ELSE filled({a})[b]
  BY <1>1, <1>4
<1>8. copy' \in [Addresses -> {0, 1}]
  BY <1>1, <1>4, <1>6
<1> QED  BY <1>4, <1>5, <1>7, <1>8, Shapes DEF CacheTypeOK

LEMMA Uncached ==
  ASSUME CacheTypeOK({0, 1}), NEW a \in Addresses, StoreUncached(a, 0)
  PROVE  /\ CacheTypeOK({0, 1})'
         /\ present' = present /\ dirty' = dirty /\ copy' = copy
         /\ memory'[a] = 0
         /\ \A b \in Addresses \ {a} : memory'[b] = memory[b]
BY DEF StoreUncached, CacheTypeOK

\* A number is so many lines and the rest.
LEMMA LineOf ==
  ASSUME NEW L \in Nat, L > 0, NEW q \in Nat, NEW r \in Nat, r < L
  PROVE  (q * L + r) \div L = q /\ (q * L + r) % L = r
<1> DEFINE m == q * L + r
           p == m \div L
           s == m % L
<1>1. q * L \in Nat
  OBVIOUS
<1>2. m \in Nat
  BY <1>1
<1>3. p \in Int /\ s \in 0..(L - 1) /\ m = L * p + s
  BY <1>2, SMT
<1> HIDE DEF m, p, s
<1>4. L * (q - p) = s - r
  <2>1. q * L + r = L * p + s
    BY <1>3 DEF m
  <2>2. L * (q - p) = L * q - L * p
    BY <1>3
  <2>3. q * L = L * q
    OBVIOUS
  <2>4. L * q \in Int /\ L * p \in Int
    BY <1>3
  <2> QED  BY <1>3, <2>1, <2>2, <2>3, <2>4
<1>5. q - p = 0
  <2>1. PICK k \in Int : k = q - p
    BY <1>3
  <2>2. L * k = s - r /\ s - r < L /\ s - r > -L
    BY <1>3, <1>4, <2>1
  <2>3. k >= 1 => L * k >= L
    BY <2>1
  <2>4. k <= -1 => L * k <= -L
    BY <2>1
  <2> QED  BY <2>1, <2>2, <2>3, <2>4
<1>6. p = q
  BY <1>3, <1>5
<1>7. s = r
  BY <1>3, <1>4, <1>5
<1> QED  BY <1>6, <1>7 DEF p, s, m

\* The flush of two addresses takes both of their lines.
LEMMA BothFlushed ==
  ASSUME CacheAssumption, NEW a \in Nat
  PROVE  line(a) \in flushedLines(a, 2) /\ line(a + 1) \in flushedLines(a, 2)
<1>1. LineSize \in Nat /\ LineSize > 0
  BY DEF CacheAssumption
<1>2. PICK q \in Nat, r \in Nat : a = q * LineSize + r /\ r < LineSize
  <2>1. PICK q \in Int, r \in 0..(LineSize - 1) : a = q * LineSize + r
    <3>1. /\ a \div LineSize \in Int /\ a % LineSize \in 0..(LineSize - 1)
          /\ a = (a \div LineSize) * LineSize + (a % LineSize)
      BY <1>1, SMT
    <3> QED  BY <3>1
  <2>2. q < 0 => q * LineSize <= -LineSize
    BY <1>1
  <2> QED  BY <1>1, <2>1, <2>2
<1>3. a \div LineSize = q /\ a % LineSize = r
  BY <1>1, <1>2, LineOf
<1> DEFINE last == IF a % LineSize = 0 THEN rounds(2) ELSE rounds(2) + 1
<1>4. flushedLines(a, 2) = {line(a + (k - 1) * LineSize) : k \in 1..last}
  BY DEF flushedLines
<1>5. CASE LineSize = 1
  <2>1. rounds(2) = 2
    BY <1>5 DEF rounds
  <2>2. r = 0 /\ last = 2
    BY <1>2, <1>3, <1>5, <2>1
  <2>3. a + (1 - 1) * LineSize = a /\ a + (2 - 1) * LineSize = a + 1
    BY <1>5
  <2> HIDE DEF last
  <2>4. line(a + (1 - 1) * LineSize) \in flushedLines(a, 2)
    BY <1>4, <2>2
  <2>5. line(a + (2 - 1) * LineSize) \in flushedLines(a, 2)
    BY <1>4, <2>2
  <2> QED  BY <2>3, <2>4, <2>5
<1>6. CASE LineSize > 1
  <2>1. rounds(2) = 1
    <3>1. 2 + LineSize - 1 = 1 * LineSize + 1
      BY <1>1
    <3>2. (1 * LineSize + 1) \div LineSize = 1
      BY <1>1, <1>6, LineOf
    <3> QED  BY <3>1, <3>2 DEF rounds
  <2>2. last = (IF r = 0 THEN 1 ELSE 2) /\ 1 \in 1..last
    BY <1>3, <2>1
  <2> HIDE DEF last
  <2>3. line(a + (1 - 1) * LineSize) \in flushedLines(a, 2)
    BY <1>4, <2>2
  <2>4. a + (1 - 1) * LineSize = a
    BY <1>1
  <2>5. line(a) = q
    BY <1>3 DEF line
  <2>6. CASE r + 1 < LineSize
    <3>1. a + 1 = q * LineSize + (r + 1)
      BY <1>1, <1>2
    <3>2. line(a + 1) = q
      BY <1>1, <2>6, <3>1, LineOf DEF line
    <3> QED  BY <2>3, <2>4, <2>5, <3>2
  <2>7. CASE r + 1 = LineSize
    <3>1. a + 1 = (q + 1) * LineSize + 0
      BY <1>1, <1>2, <2>7
    <3>2. line(a + 1) = q + 1
      BY <1>1, <3>1, LineOf DEF line
    <3>3. 2 \in 1..last
      BY <1>6, <2>2, <2>7
    <3>4. line(a + (2 - 1) * LineSize) \in flushedLines(a, 2)
      BY <1>4, <3>3
    <3>5. a + (2 - 1) * LineSize = (q + 1) * LineSize + r
      BY <1>1, <1>2
    <3>6. line(a + (2 - 1) * LineSize) = q + 1
      BY <1>1, <1>2, <3>5, LineOf DEF line
    <3> QED  BY <2>3, <2>4, <3>2, <3>4, <3>6
  <2> QED  BY <1>1, <1>2, <2>6, <2>7
<1> QED  BY <1>1, <1>5, <1>6

-----------------------------------------------------------------------------
(* What a step of the cache leaves of the invariant.                       *)

\* The line with the control byte is dirty only while its descriptor is filled in.
LEMMA NotDirty ==
  ASSUME Linked, CacheTypes, DirtyLines, NEW d \in Inner,
         line(control(d)) \in dirty
  PROVE  Filling /\ d = Now
<1>1. Now \in Inner
  BY NowMade
<1>2. PICK l \in dirty : l = line(control(d))
  OBVIOUS
<1>3. \A a \in Neighbours : l # line(a)
  BY <1>2, LineFacts
<1>4. d # Now => l # line(first(Now)) /\ l # line(control(Now))
  BY <1>1, <1>2, LineFacts
<1> QED  BY <1>2, <1>3, <1>4 DEF DirtyLines, Filling

LEMMA DropKeeps ==
  ASSUME Linked, CacheInv, NEW L, Drop(L, TRUE)
  PROVE  /\ CacheTypeOK({0, 1})' /\ EndsReleased'
         /\ \A d \in Inner :
              /\ \/ memory'[first(d)] = given[d]
                 \/ Filling /\ d = Now /\ line(first(d)) \in dirty'
              /\ line(first(d)) \in present' => copy'[first(d)] = given[d]
         /\ \A d \in Located :
              \/ memory'[control(d)] = memory[control(d)]
              \/ Filling /\ d = Now
<1> USE DEF CacheInv, CacheTypes
<1>1. /\ CacheTypeOK({0, 1})'
      /\ present' = present \ L /\ dirty' = dirty \ L
      /\ \A a \in Addresses :
              /\ line(a) \in L /\ line(a) \in dirty => memory'[a] = copy[a]
              /\ line(a) \notin L \/ line(a) \notin dirty => memory'[a] = memory[a]
              /\ line(a) \in L => copy'[a] = 0
              /\ line(a) \notin L => copy'[a] = copy[a]
  BY Dropped
<1>2. dirty \subseteq present
  BY Shapes
<1>3. ASSUME NEW d \in Located \ Inner
      PROVE  memory'[control(d)] = 0 /\ copy'[control(d)] = 0
  <2>1. control(d) \in Addresses
    BY CellFacts
  <2>2. memory[control(d)] = 0 /\ copy[control(d)] = 0
    BY DEF EndsReleased
  <2> QED  BY <1>1, <2>1, <2>2
<1>4. ASSUME NEW d \in Inner
      PROVE  /\ \/ memory'[first(d)] = given[d]
                \/ Filling /\ d = Now /\ line(first(d)) \in dirty'
             /\ line(first(d)) \in present' => copy'[first(d)] = given[d]
  <2>1. first(d) \in Addresses
    BY CellFacts
  <2>2. /\ \/ memory[first(d)] = given[d]
           \/ Filling /\ d = Now /\ line(first(d)) \in dirty
        /\ line(first(d)) \in present => copy[first(d)] = given[d]
    BY DEF AddressesThere
  <2> QED  BY <1>1, <1>2, <2>1, <2>2
<1>5. ASSUME NEW d \in Located
      PROVE  \/ memory'[control(d)] = memory[control(d)]
             \/ Filling /\ d = Now
  <2>1. control(d) \in Addresses
    BY CellFacts
  <2>2. CASE d \in Inner
    BY <1>1, <2>1, <2>2, NotDirty
  <2>3. CASE d \notin Inner
    BY <1>3, <2>3 DEF EndsReleased
  <2> QED  BY <2>2, <2>3
<1>6. EndsReleased'
  BY <1>3 DEF EndsReleased
<1> QED  BY <1>1, <1>4, <1>5, <1>6

LEMMA UncachedKeeps ==
  ASSUME Linked, CacheInv, NEW x \in Located, StoreUncached(control(x), 0)
  PROVE  /\ CacheTypeOK({0, 1})' /\ EndsReleased'
         /\ present' = present /\ dirty' = dirty /\ copy' = copy
         /\ \A d \in Inner : memory'[first(d)] = memory[first(d)]
         /\ memory'[control(x)] = 0
         /\ \A d \in Located \ {x} :
              memory'[control(d)] = memory[control(d)]
<1> USE DEF CacheInv, CacheTypes
<1> DEFINE a == control(x)
<1>1. a \in Addresses
  BY CellFacts
<1>2. /\ CacheTypeOK({0, 1})'
      /\ present' = present /\ dirty' = dirty /\ copy' = copy
      /\ memory'[a] = 0
      /\ \A b \in Addresses \ {a} : memory'[b] = memory[b]
  BY <1>1, Uncached
<1>3. \A d \in Inner : memory'[first(d)] = memory[first(d)]
  BY <1>2, CellFacts
<1>4. \A d \in Located \ {x} : memory'[control(d)] = memory[control(d)]
  BY <1>2, CellFacts
<1>5. EndsReleased'
  BY <1>2, <1>4 DEF EndsReleased
<1> QED  BY <1>2, <1>3, <1>4, <1>5

LEMMA LoadKeeps ==
  ASSUME Linked, CacheInv, NEW a \in Addresses, Load(a)
  PROVE  /\ CacheTypeOK({0, 1})' /\ EndsReleased'
         /\ memory' = memory /\ dirty' = dirty
         /\ \A d \in Inner :
              line(first(d)) \in present' => copy'[first(d)] = given[d]
<1> USE DEF CacheInv, CacheTypes
<1>1. /\ CacheTypeOK({0, 1})'
      /\ memory' = memory /\ dirty' = dirty /\ present' = present \cup {line(a)}
      /\ \A b \in Addresses :
           \/ copy'[b] = memory[b] /\ line(b) \notin present
           \/ copy'[b] = copy[b] /\ (line(b) \in present \/ line(b) \notin present')
  BY Loaded
<1>2. EndsReleased'
  BY <1>1, CellFacts DEF EndsReleased
<1>3. ASSUME NEW d \in Inner, line(first(d)) \in present'
      PROVE  copy'[first(d)] = given[d]
  <2>1. first(d) \in Addresses /\ dirty \subseteq present
    BY CellFacts, Shapes
  <2> QED  BY <1>1, <1>3, <2>1 DEF AddressesThere
<1> QED  BY <1>1, <1>2, <1>3

LEMMA StoreKeeps ==
  ASSUME Linked, CacheInv, NEW a \in Addresses, NEW v \in {0, 1},
         Store([b \in {a} |-> v]),
         \A d \in Located \ Inner : control(d) # a
  PROVE  /\ CacheTypeOK({0, 1})' /\ EndsReleased'
         /\ memory' = memory /\ copy'[a] = v
         /\ dirty' = dirty \cup {line(a)} /\ present' = present \cup {line(a)}
         /\ \A d \in Inner :
              first(d) # a /\ line(first(d)) \in present'
                => copy'[first(d)] = given[d]
<1> USE DEF CacheInv, CacheTypes
<1>1. /\ CacheTypeOK({0, 1})'
      /\ memory' = memory
      /\ dirty' = dirty \cup {line(a)} /\ present' = present \cup {line(a)}
      /\ copy'[a] = v
      /\ \A b \in Addresses \ {a} :
           \/ copy'[b] = memory[b] /\ line(b) \notin present
           \/ copy'[b] = copy[b] /\ (line(b) \in present \/ line(b) \notin present')
  BY Stored
<1>2. EndsReleased'
  BY <1>1, CellFacts DEF EndsReleased
<1>3. ASSUME NEW d \in Inner, first(d) # a, line(first(d)) \in present'
      PROVE  copy'[first(d)] = given[d]
  <2>1. first(d) \in Addresses /\ dirty \subseteq present
    BY CellFacts, Shapes
  <2> QED  BY <1>1, <1>3, <2>1 DEF AddressesThere
<1> QED  BY <1>1, <1>2, <1>3

-----------------------------------------------------------------------------
(* The steps.                                                              *)

\* Descriptors at two places of chains are different.
LEMMA PlacesDiffer ==
  ASSUME Linked, CacheTypes, NEW c \in Controllers, NEW k \in 1..Len(chains[c])
  PROVE  /\ chains[c][k] \in Located
         /\ k < Len(chains[c]) => chains[c][k] \in Inner
         /\ k = Len(chains[c]) => chains[c][k] \notin Inner
         /\ \A e \in Controllers : \A j \in 1..Len(chains[e]) :
              chains[c][k] = chains[e][j] => c = e /\ j = k
         /\ Len(chains[c]) \in Nat
<1>1. chains[c] \in Chains[c]
  BY DEF CacheTypes
<1>2. /\ Len(chains[c]) \in Nat /\ Len(chains[c]) > 1
      /\ \A j \in 1..Len(chains[c]) : chains[c][j] \in Located
      /\ \A j \in 1..(Len(chains[c]) - 1) : chains[c][j] \in Inner
      /\ chains[c][Len(chains[c])] \notin Inner
      /\ \A i, j \in 1..Len(chains[c]) : chains[c][i] = chains[c][j] => i = j
  BY <1>1, LinksFacts
<1>3. ASSUME NEW e \in Controllers, e # c, NEW j \in 1..Len(chains[e])
      PROVE  chains[c][k] # chains[e][j]
  <2>1. chains[e] \in Chains[e]
    BY DEF CacheTypes
  <2> QED  BY <1>1, <1>3, <2>1, LinksFacts
<1> QED  BY <1>2, <1>3

\* The places that matter for MadeInOrder and RestOwned.
LEMMA Earlier ==
  ASSUME Linked, CacheInv, NEW k \in 1..index
  PROVE  /\ k \in 1..Len(chains[serving]) /\ chains[serving][k] \in Located
         /\ k # index => chains[serving][k] # Now
         /\ chains[serving][k] # nextDesc
<1>1. /\ index \in Nat /\ 1 <= index /\ index < Len(chains[serving]) /\ serving \in Controllers
      /\ Len(chains[serving]) \in Nat
  BY NowMade DEF CacheInv, CacheTypes
<1>2. k \in 1..Len(chains[serving]) /\ index \in 1..Len(chains[serving])
      /\ index + 1 \in 1..Len(chains[serving])
  BY <1>1
<1>3. k # index + 1
  BY <1>1
<1>4. chains[serving][k] # chains[serving][index + 1]
  BY <1>1, <1>2, <1>3, PlacesDiffer DEF CacheInv
<1>5. k # index => chains[serving][k] # chains[serving][index]
  BY <1>1, <1>2, PlacesDiffer DEF CacheInv
<1> QED  BY <1>1, <1>2, <1>4, <1>5, PlacesDiffer, NowMade DEF CacheInv, Now

LEMMA Later ==
  ASSUME Linked, CacheInv, NEW c \in running, NEW k \in at[c]..(Len(chains[c]) - 1)
  PROVE  /\ k \in 1..Len(chains[c]) /\ chains[c][k] \in Located
         /\ c \in Controllers
         /\ c # serving => chains[c][k] # Now /\ chains[c][k] # nextDesc
         /\ ownedByHw(chains[c][k])
<1>1. c \in Controllers /\ at[c] \in Nat /\ 1 <= at[c] /\ at[c] <= Len(chains[c])
  BY DEF CacheInv, CacheTypes
<1>2. Len(chains[c]) \in Nat
  BY <1>1, LinksFacts DEF CacheInv, CacheTypes
<1>3. k \in 1..Len(chains[c])
  BY <1>1, <1>2
<1>4. index \in 1..Len(chains[serving]) /\ index + 1 \in 1..Len(chains[serving])
      /\ serving \in Controllers
  <2>1. Len(chains[serving]) \in Nat
    BY NowMade DEF CacheInv
  <2>2. /\ index \in Nat /\ 1 <= index /\ index < Len(chains[serving])
        /\ serving \in Controllers
    BY NowMade DEF CacheInv, CacheTypes
  <2> QED  BY <2>1, <2>2
<1>5. c # serving => chains[c][k] # chains[serving][index] /\ chains[c][k] # chains[serving][index + 1]
  BY <1>1, <1>3, <1>4, PlacesDiffer DEF CacheInv
<1> QED  BY <1>1, <1>3, <1>5, PlacesDiffer, NowMade DEF CacheInv, Now, RestOwned

\* What a controller and the maker of its chain have stays where only the descriptor
\* in work changes.
LEMMA OwnedStays ==
  ASSUME Linked, CacheInv,
         \A d \in Located :
           \/ memory'[control(d)] = memory[control(d)]
           \/ Filling /\ d = Now
           \/ Building /\ d = nextDesc
  PROVE  /\ \A c \in running : \A k \in at[c]..(Len(chains[c]) - 1) :
              memory'[control(chains[c][k])] = 1
         /\ Building => \A k \in 1..(index - 1) : memory'[control(chains[serving][k])] = 1
         /\ place = "start" => \A k \in 1..index : memory'[control(chains[serving][k])] = 1
<1>1. ASSUME NEW c \in running, NEW k \in at[c]..(Len(chains[c]) - 1)
      PROVE  memory'[control(chains[c][k])] = 1
  <2>1. chains[c][k] \in Located /\ ownedByHw(chains[c][k])
    BY Later
  <2>2. (Building \/ Filling) => c # serving
    BY DEF CacheInv, MadeInOrder, Building, Filling
  <2>3. (Building \/ Filling) => chains[c][k] # Now /\ chains[c][k] # nextDesc
    BY <2>2, Later
  <2> QED  BY <2>1, <2>3 DEF ownedByHw
<1>2. ASSUME Building, NEW k \in 1..(index - 1)
      PROVE  memory'[control(chains[serving][k])] = 1
  <2>1. index \in Nat /\ k \in 1..index /\ k # index
    BY DEF CacheInv, CacheTypes
  <2>2. chains[serving][k] \in Located /\ chains[serving][k] # Now
        /\ chains[serving][k] # nextDesc
    BY <2>1, Earlier
  <2> QED  BY <1>2, <2>2 DEF CacheInv, MadeInOrder, ownedByHw
<1>3. ASSUME place = "start", NEW k \in 1..index
      PROVE  memory'[control(chains[serving][k])] = 1
  <2>1. chains[serving][k] \in Located
    BY Earlier
  <2>2. ~Building /\ ~Filling
    BY <1>3 DEF Building, Filling
  <2> QED  BY <1>3, <2>1, <2>2 DEF CacheInv, MadeInOrder, ownedByHw
<1> QED  BY <1>1, <1>2, <1>3

\* A line leaves the cache.
LEMMA AccessStep == ASSUME Linked, CacheInv, OtherAccess PROVE CacheInv'
<1>1. PICK l \in present : Drop({l}, TRUE)
  BY DEF OtherAccess, Evict
<1>2. UNCHANGED <<place, serving, index, chains, nextControl, given, running, at>>
  BY DEF OtherAccess, cpuVars, engineVars
<1>3. /\ CacheTypeOK({0, 1})' /\ EndsReleased'
      /\ \A d \in Inner :
              /\ \/ memory'[first(d)] = given[d]
                 \/ Filling /\ d = Now /\ line(first(d)) \in dirty'
              /\ line(first(d)) \in present' => copy'[first(d)] = given[d]
      /\ \A d \in Located :
              \/ memory'[control(d)] = memory[control(d)]
              \/ Filling /\ d = Now
  BY <1>1, DropKeeps
<1>4. Now' = Now /\ (Filling' <=> Filling) /\ (Building' <=> Building)
  BY <1>2 DEF Now, Filling, Building
<1>5. dirty' = dirty \ {l}
      /\ \A a \in Addresses :
              /\ line(a) = l /\ line(a) \in dirty => memory'[a] = copy[a]
              /\ line(a) # l \/ line(a) \notin dirty => memory'[a] = memory[a]
              /\ line(a) # l => copy'[a] = copy[a]
  <2>1. /\ dirty' = dirty \ {l}
        /\ \A a \in Addresses :
              /\ line(a) \in {l} /\ line(a) \in dirty => memory'[a] = copy[a]
              /\ line(a) \notin {l} \/ line(a) \notin dirty => memory'[a] = memory[a]
              /\ line(a) \notin {l} => copy'[a] = copy[a]
    BY <1>1, Dropped DEF CacheInv, CacheTypes
  <2> QED  BY <2>1
<1>6. CacheTypes'
  BY <1>2, <1>3 DEF CacheInv, CacheTypes
<1>7. DirtyLines'
  BY <1>2, <1>4, <1>5 DEF CacheInv, DirtyLines
<1>8. AddressesThere'
  BY <1>2, <1>3, <1>4 DEF AddressesThere
<1>9. MadeInOrder' /\ RestOwned'
  <2>1. /\ \A c \in running : \A k \in at[c]..(Len(chains[c]) - 1) :
              memory'[control(chains[c][k])] = 1
        /\ Building => \A k \in 1..(index - 1) : memory'[control(chains[serving][k])] = 1
        /\ place = "start" => \A k \in 1..index : memory'[control(chains[serving][k])] = 1
    BY <1>3, OwnedStays
  <2>2. place = "flush" => IF line(control(Now)) \in dirty'
                           THEN copy'[control(Now)] = 1
                           ELSE memory'[control(Now)] = 1
    <3>1. control(Now) \in Addresses
      BY NowMade, CellFacts DEF CacheInv
    <3> QED  BY <1>5, <3>1 DEF CacheInv, MadeInOrder
  <2>3. RestOwned'
    BY <1>2, <2>1 DEF RestOwned, ownedByHw
  <2>4. MadeInOrder'
    BY <1>2, <1>4, <2>1, <2>2 DEF CacheInv, MadeInOrder, ownedByHw
  <2> QED  BY <2>3, <2>4
<1> QED  BY <1>3, <1>6, <1>7, <1>8, <1>9 DEF CacheInv

\* The handler flushes all and begins the chain of a controller that has stopped.
LEMMA ChainStep ==
  ASSUME Linked, CacheInv, NEW c \in Controllers, StartChain(c) PROVE CacheInv'
<1>1. /\ place = "idle" /\ c \notin running
      /\ place' = "read_next" /\ serving' = c /\ index' = 1
      /\ Drop(Lines, TRUE)
      /\ UNCHANGED <<nextControl, given, running, at>>
  BY DEF StartChain, alt_dcache_flush_all, engineVars
<1>2. PICK links \in Chains[c] : chains' = [chains EXCEPT ![c] = links]
  BY DEF StartChain
<1>3. ~Filling /\ ~Building /\ ~Filling' /\ Building'
  BY <1>1 DEF Filling, Building
<1>4. /\ CacheTypeOK({0, 1})' /\ EndsReleased'
      /\ \A d \in Inner :
              /\ memory'[first(d)] = given[d]
              /\ line(first(d)) \in present' => copy'[first(d)] = given[d]
      /\ \A d \in Located : memory'[control(d)] = memory[control(d)]
  BY <1>1, <1>3, DropKeeps
<1>5. dirty' = {}
  BY <1>1, Dropped, Shapes DEF CacheInv, CacheTypes
<1>6. /\ chains' \in [Controllers -> UNION {Chains[e] : e \in Controllers}]
      /\ \A e \in Controllers : chains'[e] \in Chains[e]
      /\ chains'[c] = links
      /\ \A e \in running : chains'[e] = chains[e]
  BY <1>1, <1>2 DEF CacheInv, CacheTypes
<1>7. 1 < Len(chains'[serving'])
  BY <1>1, <1>6, LinksFacts
<1>8. CacheTypes'
  <2>1. /\ running' \subseteq Controllers
        /\ \A e \in running' : 1 <= at'[e] /\ at'[e] <= Len(chains'[e])
    BY <1>1, <1>6 DEF CacheInv, CacheTypes
  <2>2. /\ nextControl' \in {0, 1} /\ given' \in [Located -> {0, 1}]
        /\ at' \in [Controllers -> Nat]
    BY <1>1 DEF CacheInv, CacheTypes
  <2>3. index' \in Nat /\ 1 <= index' /\ index' < Len(chains'[serving'])
    BY <1>1, <1>7
  <2> QED  BY <1>1, <1>4, <1>6, <2>1, <2>2, <2>3 DEF CacheTypes
<1>9. DirtyLines' /\ AddressesThere'
  BY <1>1, <1>4, <1>5 DEF DirtyLines, AddressesThere
<1>10. RestOwned'
  <2>1. \A e \in running : \A k \in at[e]..(Len(chains[e]) - 1) :
              memory'[control(chains[e][k])] = 1
    BY <1>4, OwnedStays
  <2> QED  BY <1>1, <1>6, <2>1 DEF RestOwned, ownedByHw
<1>11. MadeInOrder'
  BY <1>1 DEF MadeInOrder
<1> QED  BY <1>4, <1>8, <1>9, <1>10, <1>11 DEF CacheInv

\* The control byte of the next descriptor is read through the cache.
LEMMA ReadNextStep == ASSUME Linked, CacheInv, ReadNext PROVE CacheInv'
<1>1. /\ place = "read_next" /\ place' = "release_next"
      /\ nextControl' = seen(control(nextDesc))
      /\ Load(control(nextDesc))
      /\ UNCHANGED <<serving, chains, index, given, running, at>>
  BY DEF ReadNext, engineVars
<1>2. nextDesc \in Located /\ control(nextDesc) \in Addresses
  BY NowMade, CellFacts DEF CacheInv
<1>3. /\ CacheTypeOK({0, 1})' /\ EndsReleased'
      /\ memory' = memory /\ dirty' = dirty
      /\ \A d \in Inner :
           line(first(d)) \in present' => copy'[first(d)] = given[d]
  BY <1>1, <1>2, LoadKeeps
<1>4. nextControl' \in {0, 1}
  BY <1>1, <1>2, Shapes DEF seen, CacheInv, CacheTypes
<1>5. ~Filling /\ Building
  BY <1>1 DEF Filling, Building
<1>6. CacheTypes'
  BY <1>1, <1>3, <1>4 DEF CacheInv, CacheTypes
<1>7. DirtyLines' /\ AddressesThere'
  BY <1>1, <1>3, <1>5 DEF CacheInv, DirtyLines, AddressesThere, Filling
<1>8. RestOwned' /\ MadeInOrder'
  BY <1>1, <1>3, <1>5 DEF CacheInv, RestOwned, MadeInOrder, ownedByHw, Building
<1> QED  BY <1>3, <1>6, <1>7, <1>8 DEF CacheInv

\* It is written past the cache.
LEMMA ReleaseNextStep == ASSUME Linked, CacheInv, ReleaseNext PROVE CacheInv'
<1>1. /\ place = "release_next" /\ place' = "fill"
      /\ StoreUncached(control(nextDesc), 0)
      /\ UNCHANGED <<serving, chains, index, nextControl, given, running, at>>
  BY DEF ReleaseNext, engineVars
<1>2. nextDesc \in Located
  BY NowMade DEF CacheInv
<1>3. /\ CacheTypeOK({0, 1})' /\ EndsReleased'
      /\ present' = present /\ dirty' = dirty /\ copy' = copy
      /\ \A d \in Inner : memory'[first(d)] = memory[first(d)]
      /\ \A d \in Located \ {nextDesc} :
           memory'[control(d)] = memory[control(d)]
  BY <1>1, <1>2, UncachedKeeps
<1>4. ~Filling /\ Building /\ Building'
  BY <1>1 DEF Filling, Building
<1>5. CacheTypes'
  BY <1>1, <1>3 DEF CacheInv, CacheTypes
<1>6. DirtyLines' /\ AddressesThere'
  BY <1>1, <1>3, <1>4 DEF CacheInv, DirtyLines, AddressesThere, Filling
<1>7. /\ \A c \in running : \A k \in at[c]..(Len(chains[c]) - 1) :
           memory'[control(chains[c][k])] = 1
      /\ \A k \in 1..(index - 1) : memory'[control(chains[serving][k])] = 1
  BY <1>3, <1>4, OwnedStays
<1>8. RestOwned' /\ MadeInOrder'
  BY <1>1, <1>4, <1>7 DEF CacheInv, RestOwned, MadeInOrder, ownedByHw, Building
<1> QED  BY <1>3, <1>5, <1>6, <1>8 DEF CacheInv

\* The addresses are stored in the cache.
LEMMA FillStep == ASSUME Linked, CacheInv, Fill PROVE CacheInv'
<1>1. /\ place = "fill" /\ place' = "control"
      /\ given' = [given EXCEPT ![thisDesc] = 1 - @]
      /\ Store([b \in {first(thisDesc)} |-> 1 - given[thisDesc]])
      /\ UNCHANGED <<serving, chains, index, nextControl, running, at>>
  BY DEF Fill, engineVars
<1>2. Now \in Inner /\ Now \in Located /\ thisDesc = Now
  BY NowMade DEF CacheInv
<1>3. PICK a, v : a = first(Now) /\ v = 1 - given[Now]
  OBVIOUS
<1>4. v \in {0, 1} /\ a \in Addresses
  <2>1. given[Now] \in {0, 1}
    BY <1>2 DEF CacheInv, CacheTypes
  <2> QED  BY <1>2, <1>3, <2>1, CellFacts
<1>5. /\ given' \in [Located -> {0, 1}] /\ given'[Now] = v
      /\ \A d \in Inner : d # Now => given'[d] = given[d]
  BY <1>1, <1>2, <1>3, <1>4, CellFacts DEF CacheInv, CacheTypes
<1>6. Store([b \in {a} |-> v])
  BY <1>1, <1>2, <1>3
<1>7. /\ \A d \in Located : control(d) # a
      /\ \A d \in Inner : d # Now => first(d) # a
  BY <1>2, <1>3, CellFacts
<1>8. /\ CacheTypeOK({0, 1})' /\ EndsReleased'
      /\ memory' = memory /\ copy'[a] = v
      /\ dirty' = dirty \cup {line(a)}
      /\ \A d \in Inner :
           first(d) # a /\ line(first(d)) \in present'
             => copy'[first(d)] = given[d]
  BY <1>4, <1>6, <1>7, StoreKeeps
<1>9. ~Filling /\ Building /\ Filling' /\ Building' /\ Now' = Now
  BY <1>1 DEF Filling, Building, Now
<1>10. CacheTypes'
  BY <1>1, <1>5, <1>8 DEF CacheInv, CacheTypes
<1>11. DirtyLines'
  BY <1>1, <1>3, <1>8, <1>9 DEF CacheInv, DirtyLines
<1>12. AddressesThere'
  <2>1. ASSUME NEW d \in Inner, d # Now
        PROVE  /\ memory'[first(d)] = given'[d]
               /\ line(first(d)) \in present' => copy'[first(d)] = given'[d]
    BY <1>5, <1>7, <1>8, <1>9, <2>1 DEF CacheInv, AddressesThere
  <2>2. /\ line(first(Now)) \in dirty'
        /\ copy'[first(Now)] = given'[Now]
    BY <1>3, <1>5, <1>8
  <2> QED  BY <1>9, <2>1, <2>2 DEF AddressesThere
<1>13. RestOwned' /\ MadeInOrder'
  BY <1>1, <1>8, <1>9 DEF CacheInv, RestOwned, MadeInOrder, ownedByHw
<1> QED  BY <1>8, <1>10, <1>11, <1>12, <1>13 DEF CacheInv

\* And then the control byte.
LEMMA SetControlStep == ASSUME Linked, CacheInv, SetControl PROVE CacheInv'
<1>1. /\ place = "control" /\ place' = "flush"
      /\ Store([b \in {control(thisDesc)} |-> 1])
      /\ UNCHANGED <<serving, chains, index, nextControl, given, running, at>>
  BY DEF SetControl, engineVars
<1>2. Now \in Inner /\ Now \in Located /\ thisDesc = Now
  BY NowMade DEF CacheInv
<1>3. PICK a : a = control(Now)
  OBVIOUS
<1>4. /\ a \in Addresses
      /\ \A d \in Located \ Inner : control(d) # a
      /\ \A d \in Inner : first(d) # a
  BY <1>2, <1>3, CellFacts
<1>5. Store([b \in {a} |-> 1])
  BY <1>1, <1>2, <1>3
<1>6. /\ CacheTypeOK({0, 1})' /\ EndsReleased'
      /\ memory' = memory /\ copy'[a] = 1
      /\ dirty' = dirty \cup {line(a)}
      /\ \A d \in Inner :
           line(first(d)) \in present' => copy'[first(d)] = given[d]
  BY <1>4, <1>5, StoreKeeps
<1>7. Filling /\ Building /\ Filling' /\ Building' /\ Now' = Now
  BY <1>1 DEF Filling, Building, Now
<1>8. CacheTypes'
  BY <1>1, <1>6 DEF CacheInv, CacheTypes
<1>9. DirtyLines' /\ AddressesThere'
  BY <1>1, <1>3, <1>6, <1>7 DEF CacheInv, DirtyLines, AddressesThere
<1>10. RestOwned' /\ MadeInOrder'
  BY <1>1, <1>3, <1>6, <1>7 DEF CacheInv, RestOwned, MadeInOrder, ownedByHw
<1> QED  BY <1>6, <1>8, <1>9, <1>10 DEF CacheInv

\* Both lines of the descriptor are flushed, and with them its control byte.
LEMMA FlushStep == ASSUME Linked, CacheInv, Flush PROVE CacheInv'
<1>1. /\ place = "flush" /\ nextControl' = 0
      /\ Drop(flushedLines(first(thisDesc), 2), TRUE)
      /\ UNCHANGED <<serving, chains, given, running, at>>
      /\ \/ place' = "read_next" /\ index' = index + 1 /\ index + 1 < Len(chains[serving])
         \/ place' = "start" /\ index' = index /\ ~(index + 1 < Len(chains[serving]))
  BY DEF Flush, alt_dcache_flush, engineVars
<1>2. Now \in Inner /\ Now \in Located /\ thisDesc = Now
  BY NowMade DEF CacheInv
<1>3. PICK L : L = flushedLines(first(Now), 2)
  OBVIOUS
<1>4. line(first(Now)) \in L /\ line(control(Now)) \in L
  <2>1. first(Now) \in Nat /\ CacheAssumption
    <3>1. first(Now) \in Addresses
      BY <1>2, CellFacts
    <3>2. Addresses \subseteq Nat
      BY DEF Linked, CacheAssumption, Addresses
    <3> QED  BY <3>1, <3>2 DEF Linked
  <2>2. control(Now) = first(Now) + 1
    BY DEF control, first
  <2> QED  BY <1>3, <2>1, <2>2, BothFlushed
<1>5. Drop(L, TRUE)
  BY <1>1, <1>2, <1>3
<1>6. Filling /\ Building /\ ~Filling'
  BY <1>1 DEF Filling, Building
<1>7. /\ dirty' = dirty \ L
      /\ \A a \in Addresses :
              /\ line(a) \in L /\ line(a) \in dirty => memory'[a] = copy[a]
              /\ line(a) \notin L \/ line(a) \notin dirty => memory'[a] = memory[a]
  BY <1>5, Dropped DEF CacheInv, CacheTypes
<1>8. /\ CacheTypeOK({0, 1})' /\ EndsReleased'
      /\ \A d \in Inner :
              /\ \/ memory'[first(d)] = given[d]
                 \/ Filling /\ d = Now /\ line(first(d)) \in dirty'
              /\ line(first(d)) \in present' => copy'[first(d)] = given[d]
      /\ \A d \in Located :
              \/ memory'[control(d)] = memory[control(d)]
              \/ Filling /\ d = Now
  BY <1>5, DropKeeps
<1>9. /\ index \in Nat /\ 1 <= index /\ index < Len(chains[serving]) /\ Len(chains[serving]) \in Nat
      /\ \A c \in Controllers : Len(chains[c]) \in Nat
  BY NowMade, LinksFacts DEF CacheInv, CacheTypes
<1>10. CacheTypes'
  <2>1. index' \in Nat /\ 1 <= index' /\ index' < Len(chains'[serving'])
    BY <1>1, <1>9
  <2> QED  BY <1>1, <1>8, <2>1 DEF CacheInv, CacheTypes
<1>11. DirtyLines'
  BY <1>1, <1>4, <1>6, <1>7 DEF CacheInv, DirtyLines, Filling
<1>12. AddressesThere'
  BY <1>1, <1>4, <1>7, <1>8 DEF AddressesThere
<1>13. memory'[control(Now)] = 1
  <2>1. control(Now) \in Addresses
    BY <1>2, CellFacts
  <2> QED  BY <1>1, <1>4, <1>7, <2>1 DEF CacheInv, MadeInOrder
<1>14. /\ \A c \in running : \A k \in at[c]..(Len(chains[c]) - 1) :
              memory'[control(chains[c][k])] = 1
       /\ \A k \in 1..(index - 1) : memory'[control(chains[serving][k])] = 1
  BY <1>6, <1>8, OwnedStays
<1>15. \A k \in 1..index : memory'[control(chains[serving][k])] = 1
  BY <1>9, <1>13, <1>14 DEF Now
<1>16. RestOwned'
  BY <1>1, <1>14 DEF RestOwned, ownedByHw
<1>17. MadeInOrder'
  <2>1. serving' \notin running' /\ place' # "flush"
    BY <1>1, <1>6 DEF CacheInv, MadeInOrder
  <2>2. Building' => \A k \in 1..(index' - 1) : memory'[control(chains'[serving'][k])] = 1
    BY <1>1, <1>9, <1>15 DEF Building
  <2>3. place' = "start" => /\ index' + 1 = Len(chains'[serving'])
                            /\ \A k \in 1..index' : memory'[control(chains'[serving'][k])] = 1
    BY <1>1, <1>9, <1>15
  <2> QED  BY <2>1, <2>2, <2>3 DEF MadeInOrder, ownedByHw
<1> QED  BY <1>8, <1>10, <1>11, <1>12, <1>16, <1>17 DEF CacheInv

\* The controller is started with the whole chain.
LEMMA StartStep == ASSUME Linked, CacheInv, Start PROVE CacheInv'
<1>1. /\ place = "start" /\ place' \in {"wait", "idle"}
      /\ running' = running \cup {serving} /\ at' = [at EXCEPT ![serving] = 1]
      /\ UNCHANGED <<memory, present, dirty, copy, serving, index, chains, nextControl, given>>
  BY DEF Start, cacheVars
<1>2. ~Filling /\ ~Building /\ ~Filling' /\ ~Building'
  BY <1>1 DEF Filling, Building
<1>3. Len(chains[serving]) \in Nat /\ index \in Nat /\ index + 1 = Len(chains[serving])
      /\ serving \in Controllers
  BY <1>1, NowMade DEF CacheInv, CacheTypes, MadeInOrder
<1>4. at' \in [Controllers -> Nat] /\ at'[serving] = 1
      /\ \A c \in running : c # serving => at'[c] = at[c]
  BY <1>1, <1>3 DEF CacheInv, CacheTypes
<1>5. CacheTypes'
  <2>1. \A c \in running' : 1 <= at'[c] /\ at'[c] <= Len(chains'[c])
    BY <1>1, <1>3, <1>4 DEF CacheInv, CacheTypes
  <2>2. CacheTypeOK({0, 1})'
    BY <1>1 DEF CacheInv, CacheTypes, CacheTypeOK
  <2> QED  BY <1>1, <1>3, <1>4, <2>1, <2>2 DEF CacheInv, CacheTypes
<1>6. DirtyLines' /\ EndsReleased' /\ AddressesThere'
  BY <1>1, <1>2 DEF CacheInv, DirtyLines, EndsReleased, AddressesThere
<1>7. MadeInOrder'
  BY <1>1, <1>2 DEF MadeInOrder
<1>8. RestOwned'
  <2>1. ASSUME NEW c \in running', NEW k \in at'[c]..(Len(chains'[c]) - 1)
        PROVE  memory'[control(chains'[c][k])] = 1
    <3>1. CASE c = serving
      <4>1. k \in 1..index
        BY <1>1, <1>3, <1>4, <3>1
      <4> QED  BY <1>1, <3>1, <4>1 DEF CacheInv, MadeInOrder, ownedByHw
    <3>2. CASE c # serving
      BY <1>1, <1>4, <3>2 DEF CacheInv, RestOwned, ownedByHw
    <3> QED  BY <3>1, <3>2
  <2> QED  BY <2>1 DEF RestOwned, ownedByHw
<1> QED  BY <1>5, <1>6, <1>7, <1>8 DEF CacheInv

LEMMA WaitStep == ASSUME Linked, CacheInv, WaitForChain PROVE CacheInv'
<1>1. /\ place = "wait" /\ place' = "idle"
      /\ UNCHANGED <<memory, present, dirty, copy, serving, index, chains, nextControl, given,
                     running, at>>
  BY DEF WaitForChain, cacheVars, engineVars
<1>2. ~Filling /\ ~Building /\ ~Filling' /\ ~Building'
  BY <1>1 DEF Filling, Building
<1> QED
  BY <1>1, <1>2 DEF CacheInv, CacheTypes, CacheTypeOK, DirtyLines, EndsReleased,
                    AddressesThere, MadeInOrder, RestOwned, ownedByHw

\* Another variable is stored in a line it shares.
LEMMA OtherStep == ASSUME Linked, CacheInv, OtherStore PROVE CacheInv'
<1>1. PICK a \in Neighbours : Store([b \in {a} |-> 0])
  BY DEF OtherStore
<1>2. /\ place = "idle"
      /\ UNCHANGED <<place, serving, index, chains, nextControl, given, running, at>>
  BY DEF OtherStore, cpuVars, engineVars
<1>3. /\ a \in Addresses
      /\ \A d \in Located : a # first(d) /\ a # control(d)
      /\ Inner \subseteq Located
  BY CellFacts
<1>4. /\ CacheTypeOK({0, 1})' /\ EndsReleased'
      /\ memory' = memory /\ dirty' = dirty \cup {line(a)}
      /\ \A d \in Inner :
           first(d) # a /\ line(first(d)) \in present'
             => copy'[first(d)] = given[d]
  BY <1>1, <1>3, StoreKeeps
<1>5. ~Filling /\ ~Building /\ ~Filling' /\ ~Building'
  BY <1>2 DEF Filling, Building
<1>6. CacheTypes'
  BY <1>2, <1>4 DEF CacheInv, CacheTypes
<1>7. DirtyLines'
  BY <1>2, <1>4, <1>5 DEF CacheInv, DirtyLines
<1>8. AddressesThere'
  BY <1>2, <1>3, <1>4, <1>5 DEF CacheInv, AddressesThere
<1>9. MadeInOrder' /\ RestOwned'
  BY <1>2, <1>4, <1>5 DEF CacheInv, MadeInOrder, RestOwned, ownedByHw
<1> QED  BY <1>4, <1>6, <1>7, <1>8, <1>9 DEF CacheInv

\* What a controller looks at: its descriptor is owned, or the last of its chain.
LEMMA Looked ==
  ASSUME Linked, CacheInv, NEW c \in running
  PROVE  /\ current(c) = chains[c][at[c]] /\ current(c) \in Located
         /\ at[c] \in 1..Len(chains[c]) /\ Len(chains[c]) \in Nat /\ c \in Controllers
         /\ ownedByHw(current(c)) <=> at[c] # Len(chains[c])
         /\ ownedByHw(current(c)) => current(c) \in Inner
<1>1. /\ c \in Controllers /\ at[c] \in Nat /\ 1 <= at[c] /\ at[c] <= Len(chains[c])
      /\ chains[c] \in Chains[c]
  BY DEF CacheInv, CacheTypes
<1>2. Len(chains[c]) \in Nat
  BY <1>1, LinksFacts
<1>3. at[c] \in 1..Len(chains[c])
  BY <1>1, <1>2
<1>4. /\ chains[c][at[c]] \in Located
      /\ at[c] < Len(chains[c]) => chains[c][at[c]] \in Inner
      /\ at[c] = Len(chains[c]) => chains[c][at[c]] \notin Inner
  BY <1>1, <1>3, PlacesDiffer DEF CacheInv
<1>5. at[c] # Len(chains[c]) => ownedByHw(chains[c][at[c]])
  BY <1>1, <1>2 DEF CacheInv, RestOwned
<1>6. at[c] = Len(chains[c]) => ~ownedByHw(chains[c][at[c]])
  BY <1>4 DEF CacheInv, EndsReleased, ownedByHw
<1> QED  BY <1>1, <1>2, <1>3, <1>4, <1>5, <1>6 DEF current

\* The descriptor of a controller that runs is not in work.
LEMMA LookedNot ==
  ASSUME Linked, CacheInv, NEW c \in running, NEW e \in Controllers,
         NEW k \in 1..Len(chains[e]), chains[e][k] = current(c)
  PROVE  e = c /\ k = at[c]
BY Looked, PlacesDiffer DEF CacheInv

\* A controller gives its descriptor back.
LEMMA GivenBack ==
  ASSUME Linked, CacheInv, NEW c \in running,
         StoreUncached(control(current(c)), 0),
         UNCHANGED <<place, serving, index, chains, nextControl, given>>
  PROVE  /\ CacheTypeOK({0, 1})' /\ EndsReleased' /\ DirtyLines' /\ AddressesThere'
         /\ (\A e \in running' : e \in running) => MadeInOrder'
         /\ \A e \in running : \A k \in at[e]..(Len(chains[e]) - 1) :
              e # c \/ k # at[c] => memory'[control(chains[e][k])] = 1
<1>1. current(c) \in Located /\ c \in Controllers
  BY Looked
<1>2. /\ CacheTypeOK({0, 1})' /\ EndsReleased'
      /\ present' = present /\ dirty' = dirty /\ copy' = copy
      /\ \A d \in Inner : memory'[first(d)] = memory[first(d)]
      /\ \A d \in Located \ {current(c)} :
           memory'[control(d)] = memory[control(d)]
  BY <1>1, UncachedKeeps
<1>3. Now' = Now /\ (Filling' <=> Filling) /\ (Building' <=> Building)
  BY DEF Now, Filling, Building
<1>4. DirtyLines' /\ AddressesThere'
  BY <1>2, <1>3 DEF CacheInv, DirtyLines, AddressesThere
<1>5. ASSUME NEW e \in running, NEW k \in at[e]..(Len(chains[e]) - 1), e # c \/ k # at[c]
      PROVE  memory'[control(chains[e][k])] = 1
  <2>1. /\ k \in 1..Len(chains[e]) /\ chains[e][k] \in Located
        /\ e \in Controllers /\ ownedByHw(chains[e][k])
    BY Later
  <2>2. chains[e][k] # current(c)
    BY <1>5, <2>1, LookedNot
  <2> QED  BY <1>2, <2>1, <2>2 DEF ownedByHw
<1>6. ASSUME NEW k \in 1..index, Building \/ place = "start"
      PROVE  /\ chains[serving][k] \in Located
             /\ memory'[control(chains[serving][k])] = memory[control(chains[serving][k])]
  <2>1. k \in 1..Len(chains[serving]) /\ chains[serving][k] \in Located
    BY Earlier
  <2>2. serving # c /\ serving \in Controllers
    BY <1>6 DEF CacheInv, CacheTypes, MadeInOrder
  <2>3. chains[serving][k] # current(c)
    BY <2>1, <2>2, LookedNot
  <2> QED  BY <1>2, <2>1, <2>3
<1>7. ASSUME \A e \in running' : e \in running
      PROVE  MadeInOrder'
  <2>1. index \in Nat /\ 1 <= index
    BY DEF CacheInv, CacheTypes
  <2>2. place = "flush" => memory'[control(Now)] = memory[control(Now)]
    BY <1>6, <2>1 DEF Building, Now
  <2>3. Building => \A k \in 1..(index - 1) : memory'[control(chains[serving][k])] = 1
    BY <1>6, <2>1 DEF CacheInv, MadeInOrder, ownedByHw
  <2>4. place = "start" => \A k \in 1..index : memory'[control(chains[serving][k])] = 1
    BY <1>6 DEF CacheInv, MadeInOrder, ownedByHw
  <2> QED  BY <1>2, <1>3, <1>7, <2>2, <2>3, <2>4 DEF CacheInv, MadeInOrder, ownedByHw
<1> QED  BY <1>2, <1>4, <1>5, <1>7

\* It goes on, fails or comes to the end.
LEMMA ProcessStep ==
  ASSUME Linked, CacheInv, NEW c \in Controllers, Process(c) PROVE CacheInv'
<1>1. /\ c \in running /\ ownedByHw(current(c))
      /\ StoreUncached(control(current(c)), 0)
      /\ at' = [at EXCEPT ![c] = @ + 1]
      /\ UNCHANGED <<place, serving, index, chains, nextControl, given, running>>
  BY DEF Process, cpuVars
<1>2. /\ CacheTypeOK({0, 1})' /\ EndsReleased' /\ DirtyLines' /\ AddressesThere'
      /\ MadeInOrder'
      /\ \A e \in running : \A k \in at[e]..(Len(chains[e]) - 1) :
           e # c \/ k # at[c] => memory'[control(chains[e][k])] = 1
  BY <1>1, GivenBack
<1>3. at[c] \in Nat /\ at[c] \in 1..Len(chains[c]) /\ Len(chains[c]) \in Nat /\ at[c] # Len(chains[c])
  BY <1>1, Looked
<1>4. at' \in [Controllers -> Nat] /\ at'[c] = at[c] + 1
      /\ \A e \in running : e # c => at'[e] = at[e]
  <2>1. at \in [Controllers -> Nat] /\ running \subseteq Controllers
    BY DEF CacheInv, CacheTypes
  <2> QED  BY <1>1, <1>3, <2>1
<1>5. CacheTypes'
  <2>1. \A e \in running' : 1 <= at'[e] /\ at'[e] <= Len(chains'[e])
    BY <1>1, <1>3, <1>4 DEF CacheInv, CacheTypes
  <2> QED  BY <1>1, <1>2, <1>4, <2>1 DEF CacheInv, CacheTypes
<1>6. RestOwned'
  <2>1. ASSUME NEW e \in running, NEW k \in at'[e]..(Len(chains[e]) - 1)
        PROVE  memory'[control(chains[e][k])] = 1
    <3>1. CASE e = c
      <4>1. k \in at[e]..(Len(chains[e]) - 1) /\ k # at[c]
        BY <1>3, <1>4, <3>1
      <4> QED  BY <1>2, <4>1
    <3>2. CASE e # c
      BY <1>2, <1>4, <3>2
    <3> QED  BY <3>1, <3>2
  <2> QED  BY <1>1, <2>1 DEF RestOwned, ownedByHw
<1> QED  BY <1>2, <1>5, <1>6 DEF CacheInv

LEMMA FailStep ==
  ASSUME Linked, CacheInv, NEW c \in Controllers, Fail(c) PROVE CacheInv'
<1>1. /\ c \in running
      /\ StoreUncached(control(current(c)), 0)
      /\ running' = running \ {c}
      /\ UNCHANGED <<place, serving, index, chains, nextControl, given, at>>
  BY DEF Fail, cpuVars
<1>2. /\ CacheTypeOK({0, 1})' /\ EndsReleased' /\ DirtyLines' /\ AddressesThere'
      /\ MadeInOrder'
      /\ \A e \in running : \A k \in at[e]..(Len(chains[e]) - 1) :
           e # c \/ k # at[c] => memory'[control(chains[e][k])] = 1
  BY <1>1, GivenBack
<1>3. CacheTypes'
  BY <1>1, <1>2 DEF CacheInv, CacheTypes
<1>4. RestOwned'
  BY <1>1, <1>2 DEF RestOwned, ownedByHw
<1> QED  BY <1>2, <1>3, <1>4 DEF CacheInv

LEMMA CompleteStep ==
  ASSUME Linked, CacheInv, NEW c \in Controllers, Complete(c) PROVE CacheInv'
<1>1. /\ running' = running \ {c}
      /\ UNCHANGED <<memory, present, dirty, copy, place, serving, index, chains, nextControl,
                     given, at>>
  BY DEF Complete, cacheVars, cpuVars
<1>2. Now' = Now /\ (Filling' <=> Filling) /\ (Building' <=> Building)
  BY <1>1 DEF Now, Filling, Building
<1>3. CacheTypes'
  BY <1>1 DEF CacheInv, CacheTypes, CacheTypeOK
<1>4. DirtyLines' /\ EndsReleased' /\ AddressesThere'
  BY <1>1, <1>2 DEF CacheInv, DirtyLines, EndsReleased, AddressesThere
<1>5. MadeInOrder' /\ RestOwned'
  BY <1>1, <1>2 DEF CacheInv, MadeInOrder, RestOwned, ownedByHw
<1> QED  BY <1>3, <1>4, <1>5 DEF CacheInv

\* The start and every step.
LEMMA CacheStart == ASSUME Linked, ChainsInit PROVE CacheInv
<1>1. /\ memory = [a \in Addresses |-> 0] /\ copy = [a \in Addresses |-> 0]
      /\ present = {} /\ dirty = {}
      /\ place = "idle" /\ serving \in Controllers /\ index = 1 /\ nextControl = 0
      /\ chains \in [Controllers -> UNION {Chains[c] : c \in Controllers}]
      /\ \A c \in Controllers : chains[c] \in Chains[c]
      /\ given = [d \in Located |-> 0]
      /\ running = {} /\ at = [c \in Controllers |-> 1]
  BY DEF ChainsInit, CacheInit
<1>2. 1 < Len(chains[serving])
  BY <1>1, LinksFacts
<1>3. CacheTypes
  BY <1>1, <1>2 DEF CacheTypes, CacheTypeOK
<1>4. DirtyLines /\ MadeInOrder /\ RestOwned
  BY <1>1 DEF DirtyLines, MadeInOrder, RestOwned, Building
<1>5. EndsReleased /\ AddressesThere
  BY <1>1, CellFacts DEF EndsReleased, AddressesThere
<1> QED  BY <1>3, <1>4, <1>5 DEF CacheInv

LEMMA CacheSame == ASSUME CacheInv, UNCHANGED chainVars PROVE CacheInv'
<1>1. UNCHANGED <<memory, present, dirty, copy, place, serving, index, chains, nextControl,
                  given, running, at>>
  BY DEF chainVars, cacheVars
<1>2. Now' = Now /\ (Filling' <=> Filling) /\ (Building' <=> Building)
  BY <1>1 DEF Now, Filling, Building
<1>3. CacheTypes' /\ DirtyLines' /\ EndsReleased'
  BY <1>1, <1>2 DEF CacheInv, CacheTypes, CacheTypeOK, DirtyLines, EndsReleased
<1>4. AddressesThere' /\ MadeInOrder' /\ RestOwned'
  BY <1>1, <1>2 DEF CacheInv, AddressesThere, MadeInOrder, RestOwned, ownedByHw
<1> QED  BY <1>3, <1>4 DEF CacheInv

LEMMA CacheStep == ASSUME Linked, CacheInv, [ChainsNext]_(chainVars) PROVE CacheInv'
<1>1. CASE Cpu
  BY <1>1, ChainStep, ReadNextStep, ReleaseNextStep, FillStep, SetControlStep, FlushStep,
     StartStep, WaitStep DEF Cpu
<1>2. CASE OtherStore
  BY <1>2, OtherStep
<1>3. CASE OtherAccess
  BY <1>3, AccessStep
<1>4. CASE \E c \in Controllers : Process(c) \/ Fail(c) \/ Complete(c)
  BY <1>4, ProcessStep, FailStep, CompleteStep
<1>5. CASE UNCHANGED chainVars
  BY <1>5, CacheSame
<1> QED  BY <1>1, <1>2, <1>3, <1>4, <1>5 DEF ChainsNext

\* The invariant says what the run checks.
LEMMA CompleteWhenOwned == ASSUME Linked, CacheInv PROVE ChainsTypeOK /\ OwnedComplete
<1>1. ASSUME NEW c \in running, ownedByHw(current(c))
      PROVE  memory[first(current(c))] = given[current(c)]
  <2>1. current(c) \in Inner
    BY <1>1, Looked
  <2>2. ~(Filling /\ current(c) = Now)
    <3>1. index \in 1..Len(chains[serving]) /\ serving \in Controllers
      <4>1. Len(chains[serving]) \in Nat
        BY NowMade DEF CacheInv
      <4> QED  BY <4>1 DEF CacheInv, CacheTypes
    <3>2. current(c) = Now => serving = c
      BY <3>1, LookedNot DEF Now
    <3> QED  BY <3>2 DEF CacheInv, MadeInOrder, Filling, Building
  <2> QED  BY <2>1, <2>2 DEF CacheInv, AddressesThere
<1>2. OwnedComplete
  BY <1>1 DEF OwnedComplete
<1>3. index \in 1..Len(chains[serving]) /\ \A c \in running : at[c] \in 1..Len(chains[c])
  <2>1. Len(chains[serving]) \in Nat
    BY NowMade DEF CacheInv
  <2>2. index \in 1..Len(chains[serving])
    BY <2>1 DEF CacheInv, CacheTypes
  <2>3. \A c \in running : at[c] \in 1..Len(chains[c])
    BY Looked
  <2> QED  BY <2>2, <2>3
<1>4. ChainsTypeOK
  BY <1>3 DEF CacheInv, CacheTypes, ChainsTypeOK
<1> QED  BY <1>2, <1>4

\* Only a descriptor that is made becomes owned.
LEMMA ReleasedStays ==
  ASSUME Linked, CacheInv, [ChainsNext]_(chainVars),
         NEW d \in Located, ~ownedByHw(d), ownedByHw(d)'
  PROVE  place \in {"control", "flush"} /\ d = thisDesc
<1>1. memory[control(d)] # 1 /\ memory'[control(d)] = 1
  BY DEF ownedByHw
<1>2. ASSUME NEW L, Drop(L, TRUE)
      PROVE  Filling /\ d = Now
  BY <1>1, <1>2, DropKeeps
<1>3. ASSUME NEW x \in Located, StoreUncached(control(x), 0)
      PROVE  FALSE
  BY <1>1, <1>3, UncachedKeeps
<1>4. memory' # memory
  BY <1>1
<1>5. nextDesc \in Located
  BY NowMade DEF CacheInv
<1>6. \A c \in running : current(c) \in Located
  BY Looked
<1>7. CASE Cpu
  <2>1. CASE \E c \in Controllers : StartChain(c)
    BY <1>2, <2>1 DEF StartChain, alt_dcache_flush_all, Filling
  <2>2. CASE ReleaseNext
    BY <1>3, <1>5, <2>2 DEF ReleaseNext
  <2>3. CASE Flush
    BY <1>2, <2>3, NowMade DEF Flush, alt_dcache_flush, Filling, CacheInv
  <2>4. CASE ReadNext \/ Fill \/ SetControl \/ Start \/ WaitForChain
    BY <1>4, <2>4 DEF ReadNext, Fill, SetControl, Start, WaitForChain,
                      Load, Store, cacheVars
  <2> QED  BY <1>7, <2>1, <2>2, <2>3, <2>4 DEF Cpu
<1>8. CASE OtherStore
  BY <1>4, <1>8 DEF OtherStore, Store
<1>9. CASE OtherAccess
  BY <1>2, <1>9, NowMade DEF OtherAccess, Evict, Filling, CacheInv
<1>10. ASSUME NEW c \in Controllers, Process(c) \/ Fail(c) \/ Complete(c)
       PROVE  FALSE
  BY <1>3, <1>4, <1>6, <1>10 DEF Process, Fail, Complete, cacheVars
<1>11. CASE UNCHANGED chainVars
  BY <1>4, <1>11 DEF chainVars, cacheVars
<1> QED  BY <1>7, <1>8, <1>9, <1>10, <1>11 DEF ChainsNext

\* A controller stops where its chain ends, or at an error.
LEMMA StopsAtEnd ==
  ASSUME Linked, CacheInv, [ChainsNext]_(chainVars), NEW c \in running \ running'
  PROVE  at[c] = Len(chains[c]) \/ ownedByHw(current(c))
BY Looked

\* With the linker's word that the line of a descriptor's control byte holds nothing
\* else that is stored in the cache, and chains of any length for any number of
\* controllers: a descriptor that has been released is owned again only when it is
\* made anew, a controller that runs finds every descriptor of its chain owned, with
\* its new addresses, and leaves it at the end or at an error only, whenever lines
\* leave the cache (altera_avalon_sgdma.c:658-717, alt_dcache_flush).
THEOREM ChainsWhole == PartSpec => ChainsOfFirmware
<1> Linked
  BY CacheAssumption, LayoutAssumption, ChainsAssumption, LinesAssumption DEF Linked
<1> DEFINE partVars == <<part, chainVars, layoutVars>>
<1>1. PartInit => CacheInv
  BY CacheStart DEF PartInit
<1>2. [PartNext]_partVars => [ChainsNext]_(chainVars)
  BY DEF PartNext
<1>3. CacheInv /\ [PartNext]_partVars => CacheInv'
  BY <1>2, CacheStep
<1>4. CacheInv => ChainsTypeOK /\ OwnedComplete
  BY CompleteWhenOwned
<1>5. CacheInv /\ [PartNext]_partVars =>
        [\A d \in Located :
           ~ownedByHw(d) /\ ownedByHw(d)' => place \in {"control", "flush"} /\ d = thisDesc]_(chainVars)
  BY <1>2, ReleasedStays
<1>6. CacheInv /\ [PartNext]_partVars =>
        [\A c \in running \ running' :
           at[c] = Len(chains[c]) \/ ownedByHw(current(c))]_(chainVars)
  BY <1>2, StopsAtEnd
<1> QED
  BY <1>1, <1>3, <1>4, <1>5, <1>6, PTL
     DEF PartSpec, ChainsOfFirmware, ChainsKept, StaysReleased,
         ChainWhole

-----------------------------------------------------------------------------
(* The bytes of a descriptor, as the driver stores them and as the           *)
(* controller reads them.                                                    *)

FieldOffsets == <<0, 4, 8, 12, 16, 20, 24, 26, 27, 28, 30, 31>>

\* The fields and their sizes.
LEMMA Sizes ==
  /\ DOMAIN Layout!Fields = 1..12
  /\ \A i \in 1..12 :
       Layout!sizeof[Layout!Fields[i]] =
         IF i \in {7, 10} THEN 2 ELSE IF i \in {8, 9, 11, 12} THEN 1 ELSE 4
BY DEF Layout!Fields, Layout!sizeof

\* The recursion that defines the offsets has this solution only.
LEMMA OffsetsAre ==
  Layout!offset = FieldOffsets
<1> DEFINE step(f) == [i \in DOMAIN Layout!Fields |->
             IF i = 1 THEN 0 ELSE f[i - 1] + Layout!sizeof[Layout!Fields[i - 1]]]
<1>1. ASSUME NEW f, f = step(f)
      PROVE  f = FieldOffsets
  <2>1. DOMAIN f = 1..12
    BY <1>1, Sizes
  <2>2. f[1] = 0 /\ \A i \in 2..12 : f[i] = f[i - 1] + Layout!sizeof[Layout!Fields[i - 1]]
    BY <1>1, Sizes
  <2>3. \A i \in 2..12 : f[i] = f[i - 1] + (IF i - 1 \in {7, 10} THEN 2
                                         ELSE IF i - 1 \in {8, 9, 11, 12} THEN 1 ELSE 4)
    BY <2>2, Sizes
  <2>4. /\ f[1] = 0 /\ f[2] = 4 /\ f[3] = 8 /\ f[4] = 12 /\ f[5] = 16 /\ f[6] = 20 /\ f[7] = 24
    BY <2>2, <2>3
  <2>5. f[8] = 26 /\ f[9] = 27 /\ f[10] = 28 /\ f[11] = 30 /\ f[12] = 31
    BY <2>3, <2>4
  <2>6. f = [i \in 1..12 |-> f[i]]
    BY <1>1, Sizes
  <2>7. FieldOffsets = [i \in 1..12 |-> FieldOffsets[i]]
    BY DEF FieldOffsets
  <2> QED
    BY <2>4, <2>5, <2>6, <2>7 DEF FieldOffsets
<1>2. FieldOffsets = step(FieldOffsets)
  BY Sizes DEF FieldOffsets
<1> QED
  BY <1>1, <1>2 DEF Layout!offset

Place(k) ==
  CHOOSE j \in DOMAIN Layout!Fields :
    k \in Layout!offset[j]..(Layout!offset[j] + Layout!sizeof[Layout!Fields[j]] - 1)

\* The field that each byte belongs to.
LEMMA Placed ==
  \A k \in 0..31 :
    Place(k) = IF k < 4 THEN 1 ELSE IF k < 8 THEN 2 ELSE IF k < 12 THEN 3 ELSE IF k < 16 THEN 4
               ELSE IF k < 20 THEN 5 ELSE IF k < 24 THEN 6 ELSE IF k < 26 THEN 7
               ELSE IF k = 26 THEN 8 ELSE IF k = 27 THEN 9 ELSE IF k < 30 THEN 10
               ELSE IF k = 30 THEN 11 ELSE 12
<1> DEFINE width(j) == IF j \in {7, 10} THEN 2 ELSE IF j \in {8, 9, 11, 12} THEN 1 ELSE 4
<1>1. \A k : Place(k) = CHOOSE j \in 1..12 : k \in FieldOffsets[j]..(FieldOffsets[j] + width(j) - 1)
  BY OffsetsAre, Sizes DEF Place
<1>2. \A j \in 1..12 : FieldOffsets[j] =
       IF j = 1 THEN 0 ELSE IF j = 2 THEN 4 ELSE IF j = 3 THEN 8 ELSE IF j = 4 THEN 12
       ELSE IF j = 5 THEN 16 ELSE IF j = 6 THEN 20 ELSE IF j = 7 THEN 24 ELSE IF j = 8 THEN 26
       ELSE IF j = 9 THEN 27 ELSE IF j = 10 THEN 28 ELSE IF j = 11 THEN 30 ELSE 31
  BY DEF FieldOffsets
<1> QED
  BY <1>1, <1>2

\* The two bytes the driver names in the next descriptor and in the check.
LEMMA StatusAndControl ==
  Layout!offsetof("status") = 30 /\ Layout!offsetof("control") = 31
<1>1. Layout!offsetof("status") = FieldOffsets[11]
  BY OffsetsAre DEF Layout!offsetof, Layout!Fields
<1>2. Layout!offsetof("control") = FieldOffsets[12]
  BY OffsetsAre DEF Layout!offsetof, Layout!Fields
<1> QED
  BY <1>1, <1>2 DEF FieldOffsets

\* Shifts by bytes and by bits.
LEMMA Powers ==
  /\ 256^0 = 1 /\ 256^1 = 256 /\ 256^2 = 65536 /\ 256^3 = 16777216
  /\ 2^0 = 1 /\ 2^1 = 2 /\ 2^2 = 4 /\ 2^3 = 8 /\ 2^4 = 16 /\ 2^5 = 32 /\ 2^6 = 64 /\ 2^7 = 128
OBVIOUS

\* The controller's word is the sum of its bytes.
LEMMA NumberIs ==
  ASSUME NEW from \in {0, 8, 16, 24}, NEW n \in {2, 4},
         \A k \in from..(from + n - 1) : bytes[k] \in 0..255
  PROVE  Layout!Number(from, n) =
           IF n = 2 THEN bytes[from] + bytes[from + 1] * 256
           ELSE bytes[from] + bytes[from + 1] * 256 + bytes[from + 2] * 65536
                            + bytes[from + 3] * 16777216
<1> DEFINE step(f) == [k \in 0..n |-> IF k = 0 THEN 0 ELSE f[k - 1] + bytes[from + k - 1] * 256^(k - 1)]
           sum == CHOOSE f : f = step(f)
           b1 == bytes[from]
           b2 == b1 + bytes[from + 1] * 256
           b3 == b2 + bytes[from + 2] * 65536
           b4 == b3 + bytes[from + 3] * 16777216
           made == IF n = 2 THEN <<b1, b2>> ELSE <<b1, b2, b3, b4>>
           full == [k \in 0..n |-> IF k = 0 THEN 0 ELSE made[k]]
<1>1. full = step(full)
  <2>1. ASSUME NEW k \in 0..n
        PROVE  full[k] = step(full)[k]
    <3>1. CASE k = 0
      BY <3>1
    <3>2. CASE k = 1
      <4>1. from + k - 1 = from /\ k - 1 = 0 /\ full[0] = 0 /\ full[1] = bytes[from]
        BY <3>2
      <4>2. bytes[from] \in 0..255
        OBVIOUS
      <4>3. step(full)[k] = full[0] + bytes[from] * 256^0
        BY <3>2, <4>1
      <4> HIDE DEF full, step
      <4> QED  BY <3>2, <4>1, <4>2, <4>3, Powers
    <3>3. CASE k = 2
      BY <3>3, Powers
    <3>4. CASE k = 3
      BY <3>4, Powers
    <3>5. CASE k = 4
      BY <3>5, Powers
    <3> QED  BY <3>1, <3>2, <3>3, <3>4, <3>5
  <2>2. DOMAIN full = 0..n /\ DOMAIN step(full) = 0..n
    OBVIOUS
  <2> HIDE DEF made
  <2> QED  BY <2>1, <2>2
<1>2. sum = step(sum)
  <2> HIDE DEF step, full
  <2> QED  BY <1>1
<1>3. sum[0] = 0
  <2> HIDE DEF sum
  <2>1. 0 \in 0..n
    OBVIOUS
  <2> QED  BY <1>2, <2>1
<1>4. \A k \in 1..n : sum[k] = sum[k - 1] + bytes[from + k - 1] * 256^(k - 1)
  <2> HIDE DEF sum
  <2> QED  BY <1>2
<1>5. sum[1] = bytes[from]
  <2>1. 1 \in 1..n /\ bytes[from] \in 0..255 /\ 1 - 1 = 0 /\ from + 1 - 1 = from
    OBVIOUS
  <2> HIDE DEF sum
  <2>2. sum[1] = sum[1 - 1] + bytes[from + 1 - 1] * 256^(1 - 1)
    BY <1>4, <2>1
  <2> QED  BY <1>3, <2>1, <2>2, Powers
<1>6. sum[2] = bytes[from] + bytes[from + 1] * 256
  <2>1. 2 \in 1..n /\ 2 - 1 = 1 /\ from + 2 - 1 = from + 1
    OBVIOUS
  <2> HIDE DEF sum
  <2>2. sum[2] = sum[2 - 1] + bytes[from + 2 - 1] * 256^(2 - 1)
    BY <1>4, <2>1
  <2> QED  BY <1>5, <2>1, <2>2, Powers
<1>7. n = 4 => sum[3] = bytes[from] + bytes[from + 1] * 256 + bytes[from + 2] * 65536
  <2> SUFFICES ASSUME n = 4
               PROVE  sum[3] = bytes[from] + bytes[from + 1] * 256 + bytes[from + 2] * 65536
    OBVIOUS
  <2>1. 3 \in 1..n /\ 256^2 = 65536
    OBVIOUS
  <2> HIDE DEF sum
  <2> QED  BY <1>6, <1>4, <2>1
<1>8. n = 4 => sum[4] = bytes[from] + bytes[from + 1] * 256 + bytes[from + 2] * 65536
                            + bytes[from + 3] * 16777216
  <2> SUFFICES ASSUME n = 4
               PROVE  sum[4] = bytes[from] + bytes[from + 1] * 256 + bytes[from + 2] * 65536
                                 + bytes[from + 3] * 16777216
    OBVIOUS
  <2>1. 4 \in 1..n /\ 256^3 = 16777216
    OBVIOUS
  <2> HIDE DEF sum
  <2> QED  BY <1>7, <1>4, <2>1
<1>9. Layout!Number(from, n) = sum[n]
  BY DEF Layout!Number
<1> HIDE DEF sum
<1> QED  BY <1>6, <1>8, <1>9

\* The bytes of a number.
LEMMA ByteIs ==
  ASSUME NEW v \in Nat
  PROVE  /\ Layout!byte(v, 0) = v % 256
         /\ Layout!byte(v, 1) = (v \div 256) % 256
         /\ Layout!byte(v, 2) = (v \div 65536) % 256
         /\ Layout!byte(v, 3) = (v \div 16777216) % 256
BY SMT, Powers DEF Layout!byte

LEMMA ByteRange ==
  ASSUME NEW v \in Nat, NEW k \in 0..3
  PROVE  Layout!byte(v, k) \in 0..255
<1>1. /\ v % 256 \in 0..255 /\ (v \div 256) % 256 \in 0..255
      /\ (v \div 65536) % 256 \in 0..255 /\ (v \div 16777216) % 256 \in 0..255
  BY SMT
<1>2. k = 0 \/ k = 1 \/ k = 2 \/ k = 3
  OBVIOUS
<1>3. /\ Layout!byte(v, 0) \in 0..255 /\ Layout!byte(v, 1) \in 0..255
      /\ Layout!byte(v, 2) \in 0..255 /\ Layout!byte(v, 3) \in 0..255
  BY <1>1, SMT, Powers DEF Layout!byte
<1> QED
  BY <1>2, <1>3

\* A word of four bytes, and one of two, is the sum of its bytes.
LEMMA WordBytes ==
  ASSUME NEW v, Layout!Word(v)
  PROVE  /\ v \in Nat
         /\ v = Layout!byte(v, 0) + Layout!byte(v, 1) * 256
                + Layout!byte(v, 2) * 65536 + Layout!byte(v, 3) * 16777216
<1>1. v \in Nat /\ v \div 16777216 \in 0..255
  BY SMT, Powers DEF Layout!Word, Layout!Bytes
<1>2. v = (v % 256) + ((v \div 256) % 256) * 256 + ((v \div 65536) % 256) * 65536
            + ((v \div 16777216) % 256) * 16777216
  BY <1>1, SMT
<1>3. /\ Layout!byte(v, 0) = v % 256
      /\ Layout!byte(v, 1) = (v \div 256) % 256
      /\ Layout!byte(v, 2) = (v \div 65536) % 256
      /\ Layout!byte(v, 3) = (v \div 16777216) % 256
  BY <1>1, ByteIs, SMT
<1> QED
  BY <1>1, <1>2, <1>3, SMT

LEMMA HalfBytes ==
  ASSUME NEW v, Layout!HalfWord(v)
  PROVE  v \in Nat /\ v = Layout!byte(v, 0) + Layout!byte(v, 1) * 256
<1>1. v \in Nat /\ v \div 256 \in 0..255
  BY DEF Layout!HalfWord, Layout!Bytes
<1>2. v = (v % 256) + ((v \div 256) % 256) * 256
  BY <1>1, SMT
<1>3. Layout!byte(v, 0) = v % 256 /\ Layout!byte(v, 1) = (v \div 256) % 256
  BY <1>1, ByteIs, SMT
<1> QED
  BY <1>1, <1>2, <1>3

\* The widths of all that a constructor is given.
LEMMA WidthFacts ==
  ASSUME Layout!WidthsAssumption
  PROVE  /\ \A x \in ReadAddresses \cup WriteAddresses \cup {0, NextAddress} : Layout!Word(x)
         /\ \A n \in Lengths \cup {0} : Layout!HalfWord(n)
         /\ \A c \in Channels \cup {0} : c \in 0..255
<1>1. Layout!Word(0) /\ Layout!HalfWord(0)
  BY SMT, Powers DEF Layout!Word, Layout!HalfWord, Layout!Bytes
<1>2. \A x \in ReadAddresses \cup WriteAddresses \cup {0, NextAddress} : Layout!Word(x)
  BY <1>1 DEF Layout!WidthsAssumption
<1>3. \A n \in Lengths \cup {0} : Layout!HalfWord(n)
  BY <1>1 DEF Layout!WidthsAssumption
<1>4. \A c \in Channels \cup {0} : c \in 0..255
  BY SMT DEF Layout!WidthsAssumption, Layout!Bytes
<1> QED
  BY <1>2, <1>3, <1>4

\* What a call of a constructor is given.
Given(r) ==
  /\ Layout!Word(r.read_addr) /\ Layout!Word(r.write_addr)
  /\ Layout!HalfWord(r.length) /\ r.channel \in 0..255
  /\ r.generate_eop \in BOOLEAN /\ r.read_fixed \in BOOLEAN /\ r.write_fixed_or_sop \in BOOLEAN

\* What the constructors make of their arguments.
LEMMA GivenIs ==
  ASSUME Layout!WidthsAssumption,
         NEW x \in ReadAddresses \cup {0}, NEW w \in WriteAddresses \cup {0},
         NEW n \in Lengths \cup {0}, NEW c \in Channels \cup {0},
         NEW f \in BOOLEAN, NEW g \in BOOLEAN, NEW h \in BOOLEAN
  PROVE  Given([read_addr |-> x, write_addr |-> w, length |-> n, generate_eop |-> f,
                read_fixed |-> g, write_fixed_or_sop |-> h, channel |-> c])
<1> DEFINE r == [read_addr |-> x, write_addr |-> w, length |-> n, generate_eop |-> f,
                 read_fixed |-> g, write_fixed_or_sop |-> h, channel |-> c]
<1>1. /\ r.read_addr = x /\ r.write_addr = w /\ r.length = n /\ r.channel = c
      /\ r.generate_eop = f /\ r.read_fixed = g /\ r.write_fixed_or_sop = h
  OBVIOUS
<1>2. Layout!Word(x) /\ Layout!Word(w) /\ Layout!HalfWord(n) /\ c \in 0..255
  BY WidthFacts
<1> HIDE DEF r
<1> SUFFICES Given(r)
  BY DEF r
<1> QED
  BY <1>1, <1>2 DEF Given

LEMMA RequestIs ==
  ASSUME Layout!WidthsAssumption
  PROVE  /\ Given(Layout!NoRequest)
         /\ \A r \in Layout!Requests : Given(r)
<1> USE DEF Layout!mem_to_mem, Layout!stream_to_mem, Layout!mem_to_stream
<1>1. Given(Layout!NoRequest)
  BY GivenIs DEF Layout!NoRequest
<1>2. ASSUME NEW x \in ReadAddresses, NEW w \in WriteAddresses, NEW n \in Lengths,
             NEW f \in BOOLEAN, NEW g \in BOOLEAN
      PROVE  Given(Layout!mem_to_mem(x, w, n, f, g))
  BY GivenIs
<1>3. ASSUME NEW w \in WriteAddresses, NEW n \in Lengths, NEW f \in BOOLEAN
      PROVE  Given(Layout!stream_to_mem(w, n, f))
  BY GivenIs
<1>4. ASSUME NEW x \in ReadAddresses, NEW n \in Lengths, NEW f \in BOOLEAN, NEW g \in BOOLEAN,
             NEW h \in BOOLEAN, NEW c \in Channels
      PROVE  Given(Layout!mem_to_stream(x, n, f, g, h, c))
  BY GivenIs
<1> HIDE DEF Layout!mem_to_mem, Layout!stream_to_mem, Layout!mem_to_stream
<1> QED
  BY <1>1, <1>2, <1>3, <1>4 DEF Layout!Requests

\* The control byte and its bits.
LEMMA ControlIs ==
  ASSUME NEW r, Given(r), NEW b, b = Layout!controlByte(r)
  PROVE  /\ b \in 128..255
         /\ Layout!has(b, 0) = r.generate_eop
         /\ Layout!has(b, 1) = r.read_fixed
         /\ Layout!has(b, 2) = r.write_fixed_or_sop
         /\ Layout!ChannelPassed(Layout!channelField(b), r.channel)
<1> DEFINE c == r.channel % 16
           e == IF r.generate_eop THEN 1 ELSE 0
           f == IF r.read_fixed THEN 2 ELSE 0
           w == IF r.write_fixed_or_sop THEN 4 ELSE 0
<1>1. c \in 0..15 /\ e \in {0, 1} /\ f \in {0, 2} /\ w \in {0, 4}
  BY SMT DEF Given
<1>2. b = 128 + e + f + w + c * 8
  BY <1>1, Powers DEF Layout!controlByte, Layout!flag, Layout!bit
<1>3. /\ Layout!has(b, 0) <=> b % 2 = 1
      /\ Layout!has(b, 1) <=> (b \div 2) % 2 = 1
      /\ Layout!has(b, 2) <=> (b \div 4) % 2 = 1
      /\ (b \div Layout!bit(3)) = b \div 8
  BY <1>1, <1>2, Powers DEF Layout!has, Layout!bit
<1>4. /\ e = 1 <=> r.generate_eop
      /\ f = 2 <=> r.read_fixed
      /\ w = 4 <=> r.write_fixed_or_sop
  OBVIOUS
<1> HIDE DEF c, e, f, w
<1>5. /\ b % 2 = e /\ (b \div 2) % 2 = f \div 2 /\ (b \div 4) % 2 = w \div 4 /\ b \div 8 = 16 + c
      /\ b \in 128..255
  BY <1>1, <1>2
<1>6. /\ (b % 2 = 1) <=> e = 1
      /\ ((b \div 2) % 2 = 1) <=> f = 2
      /\ ((b \div 4) % 2 = 1) <=> w = 4
      /\ (b \div 8) % 16 = c
  BY <1>1, <1>5
<1>7. c = r.channel % 16
  BY DEF c
<1>8. /\ Layout!has(b, 0) <=> r.generate_eop
      /\ Layout!has(b, 1) <=> r.read_fixed
      /\ Layout!has(b, 2) <=> r.write_fixed_or_sop
  BY <1>3, <1>4, <1>6
<1>9. /\ r.generate_eop \in BOOLEAN /\ r.read_fixed \in BOOLEAN /\ r.write_fixed_or_sop \in BOOLEAN
      /\ \A k \in 0..2 : Layout!has(b, k) \in BOOLEAN
  BY DEF Given, Layout!has
<1>10. /\ Layout!has(b, 0) = r.generate_eop
       /\ Layout!has(b, 1) = r.read_fixed
       /\ Layout!has(b, 2) = r.write_fixed_or_sop
  BY <1>8, <1>9
<1>11. Layout!ChannelPassed(Layout!channelField(b), r.channel)
  <2>1. Layout!channelField(b) = r.channel % 16
    BY <1>3, <1>6, <1>7 DEF Layout!channelField
  <2>2. ASSUME NEW a \in 0..255
        PROVE  Layout!ChannelPassed(a % 16, a)
    <3>1. a \in 0..15 => a % 16 = a
      OBVIOUS
    <3>2. CASE a \notin 0..15
      <4>1. a \in Int /\ a >= 16 /\ a <= 255
        BY <3>2
      <4>2. a = (a % 16) + (a \div 16) * 16
        BY <4>1, SMT
      <4>3. a \div 16 >= 1 /\ a \div 16 <= 15 /\ a \div 16 \in Int
        BY <4>1, SMT
      <4>4. a \div 16 \in 1..15
        BY <4>3
      <4> QED
        BY <3>2, <4>2, <4>4 DEF Layout!ChannelPassed
    <3> QED
      BY <3>1, <3>2 DEF Layout!ChannelPassed
  <2> QED
    BY <2>1, <2>2 DEF Given
<1> QED
  BY <1>5, <1>10, <1>11

\* Who owns a descriptor is the highest bit.
LEMMA BitSeven ==
  ASSUME NEW b \in 0..255
  PROVE  Layout!has(b, 7) = (b >= 128)
<1>1. (b \div 128) % 2 = 1 <=> b >= 128
  OBVIOUS
<1> QED
  BY <1>1, Powers DEF Layout!has, Layout!bit

\* Field by field, the bytes of a structure.
LEMMA StructIs ==
  ASSUME NEW values, NEW k \in 0..31
  PROVE  Layout!Struct(values)[k] =
           Layout!byte(values[Layout!Fields[Place(k)]], k - Layout!offset[Place(k)])
BY DEF Layout!Struct, Layout!Offsets, Place

\* A descriptor that has just been made.
LEMMA MadeIs ==
  ASSUME Layout!WidthsAssumption, NEW r, Given(r), NEW m, m = Layout!Constructed(r)
  PROVE  /\ m \in [0..31 -> 0..255]
         /\ \A k \in 0..3 : m[k] = Layout!byte(r.read_addr, k)
         /\ \A k \in 0..3 : m[8 + k] = Layout!byte(r.write_addr, k)
         /\ \A k \in 0..3 : m[16 + k] = Layout!byte(NextAddress, k)
         /\ \A k \in 0..1 : m[24 + k] = Layout!byte(r.length, k)
         /\ m[30] = 0 /\ m[31] = Layout!controlByte(r)
<1> DEFINE values ==
      [read_addr |-> r.read_addr, read_addr_pad |-> 0,
       write_addr |-> r.write_addr, write_addr_pad |-> 0,
       next |-> NextAddress, next_pad |-> 0,
       bytes_to_transfer |-> r.length, read_burst |-> 0, write_burst |-> 0,
       actual_bytes_transferred |-> 0, status |-> Layout!clearedStatus,
       control |-> Layout!controlByte(r)]
      value(j) == values[Layout!Fields[j]]
<1>1. /\ value(1) = r.read_addr /\ value(2) = 0 /\ value(3) = r.write_addr /\ value(4) = 0
      /\ value(5) = NextAddress /\ value(6) = 0 /\ value(7) = r.length
      /\ value(8) = 0 /\ value(9) = 0 /\ value(10) = 0 /\ value(11) = 0
      /\ value(12) = Layout!controlByte(r)
  BY DEF Layout!Fields, Layout!clearedStatus
<1>2. m = Layout!Struct(values)
  BY DEF Layout!Constructed
<1>3. DOMAIN m = 0..31 /\ m = [k \in 0..31 |-> m[k]]
  BY <1>2 DEF Layout!Struct, Layout!Offsets
<1>4. ASSUME NEW k \in 0..31
      PROVE  m[k] = Layout!byte(value(Place(k)), k - FieldOffsets[Place(k)])
  <2> HIDE DEF values
  <2> QED  BY <1>2, StructIs, OffsetsAre
<1> HIDE DEF value, values
<1>5. /\ FieldOffsets[1] = 0 /\ FieldOffsets[2] = 4 /\ FieldOffsets[3] = 8 /\ FieldOffsets[4] = 12
      /\ FieldOffsets[5] = 16 /\ FieldOffsets[6] = 20 /\ FieldOffsets[7] = 24
      /\ FieldOffsets[8] = 26 /\ FieldOffsets[9] = 27 /\ FieldOffsets[10] = 28
      /\ FieldOffsets[11] = 30 /\ FieldOffsets[12] = 31
  BY DEF FieldOffsets
<1>6. ASSUME NEW k \in 0..3
      PROVE  /\ m[k] = Layout!byte(r.read_addr, k)
             /\ m[4 + k] = Layout!byte(0, k)
             /\ m[8 + k] = Layout!byte(r.write_addr, k)
             /\ m[12 + k] = Layout!byte(0, k)
             /\ m[16 + k] = Layout!byte(NextAddress, k)
             /\ m[20 + k] = Layout!byte(0, k)
  <2>1. /\ Place(k) = 1 /\ Place(4 + k) = 2 /\ Place(8 + k) = 3 /\ Place(12 + k) = 4
        /\ Place(16 + k) = 5 /\ Place(20 + k) = 6
    BY Placed
  <2>2. /\ k - 0 = k /\ 4 + k - 4 = k /\ 8 + k - 8 = k /\ 12 + k - 12 = k /\ 16 + k - 16 = k
        /\ 20 + k - 20 = k
    OBVIOUS
  <2>3. /\ k \in 0..31 /\ 4 + k \in 0..31 /\ 8 + k \in 0..31 /\ 12 + k \in 0..31 /\ 16 + k \in 0..31
        /\ 20 + k \in 0..31
    OBVIOUS
  <2> QED
    BY <1>1, <1>4, <1>5, <2>1, <2>2, <2>3
<1>7. ASSUME NEW k \in 0..1
      PROVE  m[24 + k] = Layout!byte(r.length, k) /\ m[28 + k] = Layout!byte(0, k)
  <2>1. Place(24 + k) = 7 /\ Place(28 + k) = 10
    BY Placed
  <2>2. 24 + k - 24 = k /\ 28 + k - 28 = k /\ 24 + k \in 0..31 /\ 28 + k \in 0..31
    OBVIOUS
  <2> QED
    BY <1>1, <1>4, <1>5, <2>1, <2>2
<1>8. /\ m[26] = Layout!byte(0, 0) /\ m[27] = Layout!byte(0, 0)
      /\ m[30] = Layout!byte(0, 0)
      /\ m[31] = Layout!byte(Layout!controlByte(r), 0)
  <2>1. Place(26) = 8 /\ Place(27) = 9 /\ Place(30) = 11 /\ Place(31) = 12
    BY Placed
  <2>2. 26 - 26 = 0 /\ 27 - 27 = 0 /\ 30 - 30 = 0 /\ 31 - 31 = 0
    OBVIOUS
  <2>3. 26 \in 0..31 /\ 27 \in 0..31 /\ 30 \in 0..31 /\ 31 \in 0..31
    OBVIOUS
  <2> QED
    BY <1>1, <1>4, <1>5, <2>1, <2>2, <2>3
<1>9. /\ r.read_addr \in Nat /\ r.write_addr \in Nat /\ NextAddress \in Nat /\ r.length \in Nat
      /\ Layout!controlByte(r) \in 128..255
  BY ControlIs, WidthFacts DEF Given, Layout!Word, Layout!HalfWord
<1>10. Layout!byte(0, 0) = 0 /\ \A b \in 0..255 : Layout!byte(b, 0) = b
  BY ByteIs
<1>11. ASSUME NEW k \in 0..31
       PROVE  m[k] \in 0..255
  <2>1. /\ k \in 0..3 \/ \E i \in 0..3 : k \in {4 + i, 8 + i, 12 + i, 16 + i, 20 + i}
        \/ \E i \in 0..1 : k \in {24 + i, 28 + i}
        \/ k \in {26, 27, 30, 31}
    OBVIOUS
  <2>2. \A v \in Nat, i \in 0..3 : Layout!byte(v, i) \in 0..255
    BY ByteRange
  <2> QED
    BY <1>6, <1>7, <1>8, <1>9, <1>10, <2>1, <2>2
<1>12. m \in [0..31 -> 0..255]
  BY <1>3, <1>11
<1>13. m[30] = 0 /\ m[31] = Layout!controlByte(r)
  <2>1. Layout!controlByte(r) \in 0..255
    BY <1>9
  <2> QED  BY <1>8, <1>10, <2>1
<1> QED
  BY <1>6, <1>7, <1>12, <1>13

\* A descriptor that is made, and has not been reported on, is as its constructor
\* left it; what is reported is in its status; a check that has begun is of a
\* descriptor that stays until it ends.
LayoutInv ==
  /\ bytes \in [0..31 -> 0..255] /\ nextMemory \in [0..31 -> 0..255]
  /\ Given(request)
  /\ stage \in {"free", "released", "made", "fetched", "done"}
  /\ check.at \in {"none", "control", "returned"}
  /\ command.control \in 0..255
  /\ token.status \in {0, 1, 128, 129}
  /\ stage \in {"made", "fetched"} => bytes = Layout!Constructed(request)
  /\ stage = "done" => bytes[30] = token.status
  /\ check.at # "none" => stage \in {"made", "fetched", "done"}
  /\ Layout!DecodedAsAsked /\ Layout!ErrorIsOwn /\ Layout!ZeroMeansDone

\* A descriptor that is released loses 128 from its last byte, or nothing.
LEMMA ReleasedIs ==
  ASSUME NEW m \in [0..31 -> 0..255]
  PROVE  /\ Layout!released(m) \in [0..31 -> 0..255]
         /\ \A k \in 0..31 : Layout!released(m)[k] # m[k] =>
              k = 31 /\ Layout!released(m)[k] = m[k] - 128
<1> DEFINE n == Layout!released(m)
<1>1. n = [m EXCEPT ![31] = m[31] % 128]
  <2>1. Layout!bit(7) = 128 /\ Layout!offsetof("control") = 31
    BY StatusAndControl, Powers DEF Layout!bit
  <2>2. n = [m EXCEPT ![Layout!offsetof("control")] = @ % Layout!bit(7)]
    BY DEF Layout!released
  <2> QED  BY <2>1, <2>2
<1>2. m[31] \in 0..255
  OBVIOUS
<1>3. m[31] % 128 \in 0..255 /\ (m[31] % 128 # m[31] => m[31] % 128 = m[31] - 128)
  BY <1>2
<1> HIDE DEF n
<1>4. /\ n \in [0..31 -> 0..255]
      /\ \A k \in 0..31 : n[k] # m[k] => k = 31 /\ n[k] = m[k] - 128
  BY <1>1, <1>3
<1> QED
  BY <1>4 DEF n

\* What has been asked and read stays while nobody asks or reads.
LEMMA Unasked ==
  ASSUME UNCHANGED <<request, stage, command>>, Given(request), Layout!DecodedAsAsked
  PROVE  /\ Given(request)' /\ Layout!DecodedAsAsked'
         /\ Layout!Constructed(request)' = Layout!Constructed(request)
<1>1. Given(request)'
  BY DEF Given
<1>2. Layout!DecodedAsAsked'
  BY DEF Layout!DecodedAsAsked, Layout!has, Layout!bit, Layout!ChannelPassed,
     Layout!channelField
<1>3. Layout!Constructed(request)' = Layout!Constructed(request)
  BY DEF Layout!Constructed
<1> QED
  BY <1>1, <1>2, <1>3

\* The start and every step.
LEMMA LayoutStart == ASSUME Layout!WidthsAssumption, Layout!Init PROVE LayoutInv
<1>1. bytes \in [0..31 -> 0..255] /\ nextMemory \in [0..31 -> 0..255]
  BY DEF Layout!Init, Layout!Offsets
<1>2. Given(request)
  BY RequestIs DEF Layout!Init
<1>3. /\ stage = "free" /\ check.at = "none" /\ command.control = 0 /\ token.status = 0
  BY DEF Layout!Init, Layout!NoCommand
<1>4. Layout!DecodedAsAsked /\ Layout!ErrorIsOwn /\ Layout!ZeroMeansDone
  BY <1>3 DEF Layout!DecodedAsAsked, Layout!ErrorIsOwn, Layout!ZeroMeansDone
<1>5. 0 \in 0..255
  OBVIOUS
<1> QED
  BY <1>1, <1>2, <1>3, <1>4, <1>5 DEF LayoutInv

LEMMA ReleaseStep ==
  ASSUME Layout!WidthsAssumption, LayoutInv, Layout!Release PROVE LayoutInv'
<1>1. Given(request')
  BY RequestIs DEF Layout!Release
<1>2. nextMemory' \in [0..31 -> 0..255]
  BY ReleasedIs DEF Layout!Release, LayoutInv
<1> QED
  BY <1>1, <1>2 DEF Layout!Release, LayoutInv, Given, Layout!DecodedAsAsked,
     Layout!ErrorIsOwn, Layout!ZeroMeansDone

LEMMA ConstructStep ==
  ASSUME Layout!WidthsAssumption, LayoutInv, Layout!construct_descriptor_burst
  PROVE  LayoutInv'
<1>1. /\ Given(request) /\ bytes' = Layout!Constructed(request)
      /\ stage = "released" /\ stage' = "made"
      /\ UNCHANGED <<nextMemory, request, command, token, check>>
  BY DEF LayoutInv, Layout!construct_descriptor_burst
<1>2. bytes' \in [0..31 -> 0..255]
  BY <1>1, MadeIs
<1>3. check.at = "none"
  BY <1>1 DEF LayoutInv
<1>4. Layout!Constructed(request)' = Layout!Constructed(request)
  BY <1>1 DEF Layout!Constructed
<1> QED
  BY <1>1, <1>2, <1>3, <1>4 DEF LayoutInv, Given, Layout!DecodedAsAsked,
     Layout!ErrorIsOwn, Layout!ZeroMeansDone

LEMMA FetchStep ==
  ASSUME Layout!WidthsAssumption, LayoutInv, Layout!Fetch PROVE LayoutInv'
<1>1. /\ Given(request) /\ bytes = Layout!Constructed(request)
      /\ stage = "made" /\ stage' = "fetched" /\ command' = Layout!Decoded
      /\ UNCHANGED <<bytes, nextMemory, request, token, check>>
  BY DEF LayoutInv, Layout!Fetch
<1>2. /\ bytes \in [0..31 -> 0..255]
      /\ \A k \in 0..3 : bytes[k] = Layout!byte(request.read_addr, k)
      /\ \A k \in 0..3 : bytes[8 + k] = Layout!byte(request.write_addr, k)
      /\ \A k \in 0..3 : bytes[16 + k] = Layout!byte(NextAddress, k)
      /\ \A k \in 0..1 : bytes[24 + k] = Layout!byte(request.length, k)
      /\ bytes[30] = 0 /\ bytes[31] = Layout!controlByte(request)
  BY <1>1, MadeIs
<1>3. \A k \in 0..31 : bytes[k] \in 0..255
  BY <1>2
<1>4. /\ Layout!Word(request.read_addr) /\ Layout!Word(request.write_addr)
      /\ Layout!Word(NextAddress) /\ Layout!HalfWord(request.length)
  BY <1>1, WidthFacts DEF Given
<1>5. /\ bytes[0] = Layout!byte(request.read_addr, 0)
      /\ bytes[1] = Layout!byte(request.read_addr, 1)
      /\ bytes[2] = Layout!byte(request.read_addr, 2)
      /\ bytes[3] = Layout!byte(request.read_addr, 3)
      /\ bytes[8] = Layout!byte(request.write_addr, 0)
      /\ bytes[9] = Layout!byte(request.write_addr, 1)
      /\ bytes[10] = Layout!byte(request.write_addr, 2)
      /\ bytes[11] = Layout!byte(request.write_addr, 3)
  <2>1. 8 + 0 = 8 /\ 8 + 1 = 9 /\ 8 + 2 = 10 /\ 8 + 3 = 11
    OBVIOUS
  <2> QED  BY <1>2, <2>1
<1>6. /\ bytes[16] = Layout!byte(NextAddress, 0)
      /\ bytes[17] = Layout!byte(NextAddress, 1)
      /\ bytes[18] = Layout!byte(NextAddress, 2)
      /\ bytes[19] = Layout!byte(NextAddress, 3)
      /\ bytes[24] = Layout!byte(request.length, 0)
      /\ bytes[25] = Layout!byte(request.length, 1)
  <2>1. 16 + 0 = 16 /\ 16 + 1 = 17 /\ 16 + 2 = 18 /\ 16 + 3 = 19 /\ 24 + 0 = 24 /\ 24 + 1 = 25
    OBVIOUS
  <2> QED  BY <1>2, <2>1
<1>7. /\ Layout!Number(0, 4) =
           bytes[0] + bytes[0 + 1] * 256 + bytes[0 + 2] * 65536 + bytes[0 + 3] * 16777216
      /\ Layout!Number(8, 4) =
           bytes[8] + bytes[8 + 1] * 256 + bytes[8 + 2] * 65536 + bytes[8 + 3] * 16777216
      /\ Layout!Number(16, 4) =
           bytes[16] + bytes[16 + 1] * 256 + bytes[16 + 2] * 65536 + bytes[16 + 3] * 16777216
      /\ Layout!Number(24, 2) = bytes[24] + bytes[24 + 1] * 256
  BY <1>3, NumberIs, SMT
<1>8. /\ Layout!Number(0, 4) = request.read_addr
      /\ Layout!Number(8, 4) = request.write_addr
  BY <1>4, <1>5, <1>7, WordBytes, SMT
<1>9. /\ Layout!Number(16, 4) = NextAddress
      /\ Layout!Number(24, 2) = request.length
  BY <1>4, <1>6, <1>7, WordBytes, HalfBytes, SMT
<1>10. /\ command'.read_address = request.read_addr
       /\ command'.write_address = request.write_addr
       /\ command'.next_desc = NextAddress
       /\ command'.bytes_to_transfer = request.length
       /\ command'.control = Layout!controlByte(request)
  BY <1>1, <1>2, <1>8, <1>9 DEF Layout!Decoded
<1>11. /\ command'.control \in 128..255
       /\ Layout!has(command'.control, 0) = request.generate_eop
       /\ Layout!has(command'.control, 1) = request.read_fixed
       /\ Layout!has(command'.control, 2) = request.write_fixed_or_sop
       /\ Layout!ChannelPassed(Layout!channelField(command'.control), request.channel)
  BY <1>1, <1>10, ControlIs
<1>12. Layout!DecodedAsAsked'
  BY <1>1, <1>10, <1>11 DEF Layout!DecodedAsAsked, Layout!has, Layout!bit,
     Layout!ChannelPassed, Layout!channelField
<1>13. command'.control \in 0..255
  BY <1>11
<1>14. Layout!Constructed(request)' = Layout!Constructed(request)
  BY <1>1 DEF Layout!Constructed
<1>15. Layout!ErrorIsOwn' /\ Layout!ZeroMeansDone'
  BY <1>1 DEF LayoutInv, Layout!ErrorIsOwn, Layout!ZeroMeansDone
<1> QED
  BY <1>1, <1>12, <1>13, <1>14, <1>15 DEF LayoutInv, Given

LEMMA WriteBackStep ==
  ASSUME LayoutInv, Layout!WriteBack PROVE LayoutInv'
<1>1. /\ stage = "fetched" /\ stage' = "done"
      /\ UNCHANGED <<nextMemory, request, command, check>>
      /\ bytes' = [bytes EXCEPT ![28] = Layout!byte(token'.actual, 0),
                                ![29] = Layout!byte(token'.actual, 1),
                                ![30] = token'.status,
                                ![31] = command.control % Layout!bit(7)]
  BY DEF Layout!WriteBack
<1>2. token'.status \in {0, 1, 128, 129} /\ token'.actual \in Nat
  BY Powers DEF Layout!WriteBack, Layout!Tokens, Layout!bit
<1>3. /\ Layout!byte(token'.actual, 0) \in 0..255
      /\ Layout!byte(token'.actual, 1) \in 0..255
  BY <1>2, ByteRange
<1>4. command.control % Layout!bit(7) \in 0..255
  <2>1. command.control \in 0..255 /\ Layout!bit(7) = 128
    BY Powers DEF LayoutInv, Layout!bit
  <2> QED  BY <2>1
<1>5. bytes \in [0..31 -> 0..255]
  BY DEF LayoutInv
<1>6. bytes' \in [0..31 -> 0..255] /\ bytes'[30] = token'.status
  <2>1. token'.status \in 0..255
    BY <1>2
  <2>2. DOMAIN bytes' = 0..31 /\ bytes' = [k \in 0..31 |-> bytes'[k]]
    BY <1>1, <1>5
  <2>3. ASSUME NEW k \in 0..31 \ {28, 29, 30, 31}
        PROVE  bytes'[k] = bytes[k]
    BY <1>1, <1>5
  <2>4. /\ bytes'[28] = Layout!byte(token'.actual, 0)
        /\ bytes'[29] = Layout!byte(token'.actual, 1)
        /\ bytes'[30] = token'.status
        /\ bytes'[31] = command.control % Layout!bit(7)
    BY <1>1, <1>5
  <2>5. \A k \in 0..31 : bytes'[k] \in 0..255
    BY <1>3, <1>4, <1>5, <2>1, <2>3, <2>4
  <2> QED  BY <2>2, <2>4, <2>5
<1>7. Layout!DecodedAsAsked'
  <2>1. Layout!ChannelPassed(Layout!channelField(command.control), request.channel)
    BY <1>1 DEF LayoutInv, Layout!DecodedAsAsked
  <2>2. Layout!ChannelPassed(Layout!channelField(command.control), request.channel)'
    BY <1>1, <2>1 DEF Layout!ChannelPassed, Layout!channelField, Layout!bit
  <2> QED
    BY <1>1, <2>2 DEF LayoutInv, Layout!DecodedAsAsked, Layout!has, Layout!bit
<1>8. Layout!ErrorIsOwn' /\ Layout!ZeroMeansDone'
  BY <1>1 DEF LayoutInv, Layout!ErrorIsOwn, Layout!ZeroMeansDone
<1> QED
  BY <1>1, <1>2, <1>6, <1>7, <1>8 DEF LayoutInv, Given

LEMMA ReadStatusStep ==
  ASSUME Layout!WidthsAssumption, LayoutInv, Layout!ReadStatus PROVE LayoutInv'
<1>1. /\ stage \in {"made", "fetched", "done"}
      /\ check' = IF Layout!errorBits(bytes[30])
                  THEN [at |-> "returned", result |-> Layout!EIO]
                  ELSE [at |-> "control", result |-> Layout!NoError]
      /\ UNCHANGED <<bytes, nextMemory, request, stage, command, token>>
  BY StatusAndControl DEF Layout!ReadStatus
<1>2. stage # "done" => bytes[30] = 0
  <2>1. stage # "done" => bytes = Layout!Constructed(request) /\ Given(request)
    BY <1>1 DEF LayoutInv
  <2> QED  BY <2>1, MadeIs
<1>3. ~Layout!errorBits(0) /\ ~Layout!errorBits(128)
  BY Powers DEF Layout!errorBits, Layout!has, Layout!bit
<1>4. CASE Layout!errorBits(bytes[30])
  <2>1. stage = "done" /\ bytes[30] = token.status
    BY <1>1, <1>2, <1>3, <1>4 DEF LayoutInv
  <2>2. token.status \in {1, 129}
    BY <2>1, <1>3, <1>4 DEF LayoutInv
  <2>3. token.status % Layout!bit(7) # 0
    BY <2>2, Powers DEF Layout!bit
  <2>4. Layout!ErrorIsOwn' /\ Layout!ZeroMeansDone'
    BY <1>1, <2>1, <2>3 DEF Layout!ErrorIsOwn, Layout!ZeroMeansDone, Layout!bit
  <2>5. check'.at = "returned"
    BY <1>1, <1>4
  <2> QED
    BY <1>1, <2>1, <2>4, <2>5, Unasked DEF LayoutInv
<1>5. CASE ~Layout!errorBits(bytes[30])
  <2>1. check'.at = "control"
    BY <1>1, <1>5
  <2>2. Layout!ErrorIsOwn' /\ Layout!ZeroMeansDone'
    BY <2>1 DEF Layout!ErrorIsOwn, Layout!ZeroMeansDone
  <2> QED
    BY <1>1, <2>1, <2>2, Unasked DEF LayoutInv
<1> QED
  BY <1>4, <1>5

LEMMA ReadControlStep ==
  ASSUME Layout!WidthsAssumption, LayoutInv, Layout!ReadControl PROVE LayoutInv'
<1>1. /\ check.at = "control"
      /\ check' = [at |-> "returned",
                   result |-> IF Layout!ownedByHw(bytes[31])
                              THEN Layout!EINPROGRESS ELSE Layout!NoError]
      /\ UNCHANGED <<bytes, nextMemory, request, stage, command, token>>
  BY StatusAndControl DEF Layout!ReadControl
<1>2. stage \in {"made", "fetched", "done"}
  BY <1>1 DEF LayoutInv
<1>3. stage # "done" => Layout!ownedByHw(bytes[31])
  <2> SUFFICES ASSUME stage # "done"
               PROVE  Layout!ownedByHw(bytes[31])
    OBVIOUS
  <2>1. bytes = Layout!Constructed(request) /\ Given(request)
    BY <1>2 DEF LayoutInv
  <2>2. bytes[31] = Layout!controlByte(request)
    BY <2>1, MadeIs
  <2>3. bytes[31] \in 128..255
    BY <2>1, <2>2, ControlIs
  <2>4. bytes[31] \in 0..255 /\ bytes[31] >= 128
    BY <2>3
  <2>5. Layout!has(bytes[31], 7)
    BY <2>4, BitSeven
  <2> QED
    BY <2>5 DEF Layout!ownedByHw
<1>4. Layout!EINPROGRESS # Layout!NoError /\ Layout!EINPROGRESS # Layout!EIO
      /\ Layout!NoError # Layout!EIO
  BY DEF Layout!EINPROGRESS, Layout!NoError, Layout!EIO
<1>5. check'.at = "returned" /\ check'.result # Layout!EIO
      /\ (check'.result = Layout!NoError => stage = "done")
  BY <1>1, <1>3, <1>4
<1>6. Layout!ErrorIsOwn' /\ Layout!ZeroMeansDone'
  BY <1>1, <1>5 DEF Layout!ErrorIsOwn, Layout!ZeroMeansDone, Layout!NoError,
     Layout!EIO
<1> QED
  BY <1>1, <1>2, <1>5, <1>6, Unasked DEF LayoutInv

LEMMA ReturnStep == ASSUME LayoutInv, Layout!Return PROVE LayoutInv'
<1>1. check'.at = "none" /\ UNCHANGED <<bytes, nextMemory, request, stage, command, token>>
  BY DEF Layout!Return
<1>2. Layout!ErrorIsOwn' /\ Layout!ZeroMeansDone'
  BY <1>1 DEF Layout!ErrorIsOwn, Layout!ZeroMeansDone
<1> QED
  BY <1>1, <1>2, Unasked DEF LayoutInv

LEMMA LayoutSame == ASSUME LayoutInv, UNCHANGED Layout!vars PROVE LayoutInv'
<1>1. UNCHANGED <<bytes, nextMemory, request, stage, command, token, check>>
  BY DEF Layout!vars
<1>2. Layout!ErrorIsOwn' /\ Layout!ZeroMeansDone'
  BY <1>1 DEF LayoutInv, Layout!ErrorIsOwn, Layout!ZeroMeansDone
<1> QED
  BY <1>1, <1>2, Unasked DEF LayoutInv

LEMMA LayoutStep ==
  ASSUME Layout!WidthsAssumption, LayoutInv, [Layout!Next]_(Layout!vars)
  PROVE  LayoutInv'
BY ReleaseStep, ConstructStep, FetchStep, WriteBackStep, ReadStatusStep, ReadControlStep,
   ReturnStep, LayoutSame DEF Layout!Next

\* Only the release changes the next descriptor.
LEMMA NextKept ==
  ASSUME LayoutInv, [Layout!Next]_(Layout!vars)
  PROVE  \A k \in Layout!Offsets : nextMemory'[k] # nextMemory[k] =>
           k = 31 /\ nextMemory'[k] = nextMemory[k] - Layout!bit(7)
<1>1. Layout!bit(7) = 128 /\ Layout!Offsets = 0..31
  BY Powers DEF Layout!bit, Layout!Offsets
<1>2. CASE Layout!Release
  <2>1. nextMemory \in [0..31 -> 0..255] /\ nextMemory' = Layout!released(nextMemory)
    BY <1>2 DEF Layout!Release, LayoutInv
  <2>2. \A k \in 0..31 : nextMemory'[k] # nextMemory[k] =>
          k = 31 /\ nextMemory'[k] = nextMemory[k] - 128
    BY <2>1, ReleasedIs
  <2> QED  BY <1>1, <2>2
<1>3. CASE nextMemory' = nextMemory
  BY <1>3
<1> QED
  BY <1>2, <1>3 DEF Layout!Next, Layout!vars, Layout!construct_descriptor_burst,
     Layout!Fetch, Layout!WriteBack, Layout!ReadStatus,
     Layout!ReadControl, Layout!Return

\* The invariant says what the run checks.
LEMMA LayoutWhole ==
  ASSUME LayoutInv
  PROVE  /\ Layout!TypeOK /\ Layout!DecodedAsAsked
         /\ Layout!ErrorIsOwn /\ Layout!ZeroMeansDone
<1>1. token.status \in 0..255
  BY DEF LayoutInv
<1>2. Layout!TypeOK
  BY <1>1 DEF LayoutInv, Given, Layout!TypeOK, Layout!Offsets, Layout!Bytes
<1> QED
  BY <1>2 DEF LayoutInv

\* The driver and the controller mean the same by every byte of a descriptor, for
\* any addresses of 32 bits and lengths of 16: what the controller reads is what the
\* constructor was asked for, with a channel from 0 to 15 as it is, and of one from 16
\* to 255 the lower four bits, every other field being as asked; an error the check tells is of this use of
\* the descriptor, success means that the controller is done with it, and the next
\* descriptor loses its owner's bit only (altera_avalon_sgdma.c:503-527, 662-709).
THEOREM BytesMeant == PartSpec => BytesOfDescriptor
<1> Layout!WidthsAssumption
  BY ArgumentsAssumption
<1> DEFINE partVars == <<part, chainVars, layoutVars>>
<1>1. PartInit => LayoutInv
  BY LayoutStart DEF PartInit
<1>2. [PartNext]_partVars => [Layout!Next]_(Layout!vars)
  BY DEF PartNext, layoutVars, Layout!vars
<1>3. LayoutInv /\ [PartNext]_partVars => LayoutInv'
  BY <1>2, LayoutStep
<1>4. LayoutInv => Layout!TypeOK /\ Layout!DecodedAsAsked
                   /\ Layout!ErrorIsOwn /\ Layout!ZeroMeansDone
  BY LayoutWhole
<1>5. LayoutInv /\ [PartNext]_partVars =>
        [\A k \in Layout!Offsets : nextMemory'[k] # nextMemory[k] =>
           k = 31 /\ nextMemory'[k] = nextMemory[k] - Layout!bit(7)]_(Layout!vars)
  BY <1>2, NextKept
<1> QED
  BY <1>1, <1>3, <1>4, <1>5, PTL
     DEF PartSpec, BytesOfDescriptor, Layout!BytesAgree,
         Layout!NextOnlyReleased
=============================================================================

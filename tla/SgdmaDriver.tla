------------------------------- MODULE SgdmaDriver -------------------------------
(***************************************************************************)
(* The whole driver of one scatter-gather DMA controller                   *)
(* (altera_avalon_sgdma.c): transfers with and without waiting, start,     *)
(* stop, polling, callbacks and the interrupt handler.  Its functions read *)
(* the control register and write it back with no lock, from a program and *)
(* from the interrupt handler's callback; the controller steps between any *)
(* two accesses.  The descriptors form a ring, each naming the next.       *)
(*                                                                         *)
(* The controller is that of module Sgdma with what the firmware does not  *)
(* use: the interrupt sources, polling, and long chains.                   *)
(***************************************************************************)
EXTENDS Naturals, Sequences

CONSTANTS
  Ring,             \* descriptors
  Applications      \* the applications there may be, each with
                    \*   first     the calls it begins with, in order
                    \*   calls     the calls it makes afterwards
                    \*   callback  what its callback calls: "none", "async" or "stop"
                    \*   control   the control bits it registers with its callback
                    \*   failures  whether its stream may flag an error

Control == {"IE_ERROR", "IE_DESC_COMPLETED", "IE_CHAIN_COMPLETED", "IE_GLOBAL",
            "RUN", "STOP_DMA_ER", "DESC_POLL_EN"}
Calls == {"async", "sync", "start", "stop", "poll_on", "poll_off",
          "register", "unregister", "append"}

ASSUME DriverAssumption ==
  /\ Ring \in Nat \ 0..2      \* a chain, the descriptor that ends it and the last end
  /\ Applications \subseteq
       [first : Seq(Calls), calls : SUBSET Calls, callback : {"none", "async", "stop"},
        control : SUBSET Control, failures : BOOLEAN]

\* The applications the driver is right for.  One makes transfers, and waits for
\* them only where no callback starts or stops another; `start' and the polling
\* set the controller going for what no transfer has prepared.  The other has one
\* chain, which is polled.
Made(app) == app.calls \cup {app.first[i] : i \in 1..Len(app.first)}
TransfersOnly(app) ==
  /\ Made(app) \cap {"start", "poll_on", "append"} = {} /\ "DESC_POLL_EN" \notin app.control
  /\ "sync" \in Made(app) => app.callback = "none"
PollsOnly(app) ==
  /\ app.first = <<"poll_on", "async", "start">> /\ app.calls \cap {"async", "sync"} = {}
  /\ app.callback # "async"

ASSUME ApplicationsAssumption == \A app \in Applications : TransfersOnly(app) \/ PollsOnly(app)

VARIABLES
  control_reg, error, chain_completed_int, csr_irq, descriptor_pointer,
  owned_by_hw, next_desc, desc_address_fifo, status_token,
  owned, failed,          \* the descriptors in memory
  callback,               \* dev->callback and dev->chain_control
  use,                    \* the application there is, which stays
  program, tail,          \* its calls to make, the end of its chain
  pc, op, reg, desc       \* of the program and of the interrupt handler

device == <<control_reg, error, chain_completed_int, csr_irq,
            descriptor_pointer, owned_by_hw, next_desc, desc_address_fifo,
            status_token>>
memoryVars == <<owned, failed>>
application == <<callback, use, program, tail>>
cpu == <<pc, op, reg, desc>>
vars == <<device, memoryVars, application, cpu>>

Contexts == {"main", "isr"}
Descriptors == 1..Ring
next(d) == (d % Ring) + 1
FifoWords == 2

-----------------------------------------------------------------------------
(* The controller.                                                         *)

run == /\ "RUN" \in control_reg
       /\ ~("STOP_DMA_ER" \in control_reg /\ error)
       /\ ~chain_completed_int

busy == owned_by_hw \/ desc_address_fifo # <<>>

canFetch == run /\ owned_by_hw /\ Len(desc_address_fifo) < FifoWords

interruptsOn(source) == run /\ {"IE_GLOBAL", source} \subseteq control_reg

\* A rising edge of run loads an owned descriptor that names the first of the
\* chain; clearing RUN while polling drops the descriptor that is loaded.
LoadDescriptor(cleared) ==
  LET rises == ~run /\ run'
      dropped == cleared /\ "DESC_POLL_EN" \in control_reg
  IN  /\ owned_by_hw' = (rises \/ (owned_by_hw /\ ~dropped))
      /\ next_desc' = IF rises \/ dropped THEN descriptor_pointer ELSE next_desc

WriteControl(bits, clearInterrupt) ==
  /\ control_reg' = bits
  /\ chain_completed_int' = (chain_completed_int /\ "RUN" \in bits)
  /\ csr_irq' = (csr_irq /\ ~clearInterrupt)
  /\ UNCHANGED <<error, descriptor_pointer, desc_address_fifo, status_token>>
  /\ LoadDescriptor("RUN" \notin bits)

ClearStatus ==
  /\ error' = FALSE
  /\ UNCHANGED <<control_reg, chain_completed_int, csr_irq, descriptor_pointer,
                 desc_address_fifo, status_token>>
  /\ LoadDescriptor(FALSE)

CompleteChain == chain_completed_int' = (chain_completed_int \/ (run /\ ~busy'))

Fetch ==
  /\ canFetch
  /\ owned_by_hw' = owned[next_desc]
  /\ next_desc' = next(next_desc)
  /\ desc_address_fifo' = IF owned[next_desc]
                          THEN Append(desc_address_fifo, next_desc)
                          ELSE desc_address_fifo
  /\ descriptor_pointer' = IF "DESC_POLL_EN" \in control_reg THEN next_desc
                           ELSE descriptor_pointer
  /\ CompleteChain
  /\ UNCHANGED <<control_reg, error, csr_irq, status_token, memoryVars, application, cpu>>

\* The bytes of a descriptor are moved; the stream may flag an error.
Move ==
  /\ ~canFetch /\ desc_address_fifo # <<>> /\ status_token = <<>>
  /\ \E bad \in {FALSE, use.failures} :
       /\ status_token' = <<bad>>
       /\ error' = (error \/ bad)
       /\ csr_irq' = (csr_irq \/ (bad /\ interruptsOn("IE_ERROR")))
  /\ UNCHANGED <<control_reg, chain_completed_int, descriptor_pointer,
                 owned_by_hw, next_desc, desc_address_fifo, memoryVars, application, cpu>>

\* The end of a chain interrupts only where a descriptor has been written back
\* since the last one.
WriteBack ==
  /\ status_token # <<>>
  /\ LET d == Head(desc_address_fifo)
     IN  /\ owned' = [owned EXCEPT ![d] = FALSE]
         /\ failed' = [failed EXCEPT ![d] = Head(status_token)]
  /\ desc_address_fifo' = Tail(desc_address_fifo)
  /\ status_token' = <<>>
  /\ UNCHANGED <<control_reg, error, descriptor_pointer, owned_by_hw, next_desc,
                 application, cpu>>
  /\ CompleteChain
  /\ csr_irq' = (csr_irq \/ interruptsOn("IE_DESC_COMPLETED")
                   \/ (interruptsOn("IE_CHAIN_COMPLETED") /\ ~busy'))

\* The polling counter runs out: the descriptor the last chain ended at is
\* read again.
Poll ==
  /\ {"RUN", "DESC_POLL_EN"} \subseteq control_reg
  /\ chain_completed_int /\ ~busy
  /\ chain_completed_int' = FALSE
  /\ UNCHANGED <<control_reg, error, csr_irq, descriptor_pointer,
                 desc_address_fifo, status_token, memoryVars, application, cpu>>
  /\ LoadDescriptor(FALSE)

Engine == Fetch \/ Move \/ WriteBack \/ Poll

-----------------------------------------------------------------------------
(* The processor: a pending interrupt comes before the program's next      *)
(* access, and its handler is not interrupted.                             *)

At(c, place) ==
  /\ pc[c] = place
  /\ c = "main" => pc["isr"] = "none" /\ ~csr_irq

Goto(c, place) == pc' = [pc EXCEPT ![c] = place] /\ UNCHANGED <<op, desc>>

ReadControl(c) == reg' = [reg EXCEPT ![c] = control_reg]

Returned(c) == IF c = "main" THEN "idle" ELSE "none"

-----------------------------------------------------------------------------
(* do_async_transfer and do_sync_transfer, in the context c.               *)

\* mutant: the transfer does not look whether the controller is busy
CheckNothing(c) ==
  /\ At(c, "busy") /\ Goto(c, "clear_read")
  /\ UNCHANGED <<device, memoryVars, application, reg>>

\* The one returns -EBUSY, the other waits.
CheckBusy(c) ==
  /\ At(c, "busy")
  /\ IF busy THEN op[c] = "async" /\ Goto(c, Returned(c))
     ELSE Goto(c, "clear_read")
  /\ UNCHANGED <<device, memoryVars, application, reg>>

ClearRunRead(c) ==
  /\ At(c, "clear_read") /\ Goto(c, "clear_write") /\ ReadControl(c)
  /\ UNCHANGED <<device, memoryVars, application>>

\* mutant: the run bit stays set
ClearRunKept(c) ==
  /\ At(c, "clear_write") /\ Goto(c, "clear_status")
  /\ WriteControl(reg[c], FALSE)
  /\ UNCHANGED <<memoryVars, application, reg>>

ClearRunWrite(c) ==
  /\ At(c, "clear_write") /\ Goto(c, "clear_status")
  /\ WriteControl(reg[c] \ {"RUN"}, FALSE)
  /\ UNCHANGED <<memoryVars, application, reg>>

ClearStatusReg(c) ==
  /\ At(c, "clear_status") /\ Goto(c, "pointer") /\ ClearStatus
  /\ UNCHANGED <<memoryVars, application, reg>>

WritePointer(c) ==
  /\ At(c, "pointer") /\ Goto(c, "run_read")
  /\ descriptor_pointer' = Head(desc[c])
  /\ UNCHANGED <<control_reg, error, chain_completed_int, csr_irq, owned_by_hw,
                 next_desc, desc_address_fifo, status_token, memoryVars, application, reg>>

RunRead(c) ==
  /\ At(c, "run_read") /\ Goto(c, "run_write") /\ ReadControl(c)
  /\ UNCHANGED <<device, memoryVars, application>>

transferControl(c) ==
  LET bits == reg[c] \cup {"RUN", "STOP_DMA_ER"}
  IN  IF op[c] = "sync" THEN bits
      ELSE IF callback THEN bits \cup use.control
      ELSE bits \ {"IE_GLOBAL"}

RunWrite(c) ==
  /\ At(c, "run_write")
  /\ Goto(c, IF op[c] = "sync" THEN "wait" ELSE Returned(c))
  /\ WriteControl(transferControl(c), FALSE)
  /\ reg' = [reg EXCEPT ![c] = {}]
  /\ UNCHANGED <<memoryVars, application>>

Wait ==
  /\ At("main", "wait") /\ ~busy /\ Goto("main", "stop_read")
  /\ UNCHANGED <<device, memoryVars, application, reg>>

StopRead ==
  /\ At("main", "stop_read") /\ Goto("main", "stop_write") /\ ReadControl("main")
  /\ UNCHANGED <<device, memoryVars, application>>

StopWrite ==
  /\ At("main", "stop_write") /\ Goto("main", "status_read")
  /\ WriteControl(reg["main"] \ {"RUN"}, FALSE)
  /\ UNCHANGED <<memoryVars, application, reg>>

StatusRead ==
  /\ At("main", "status_read") /\ Goto("main", "status_clear")
  /\ reg' = [reg EXCEPT !["main"] = IF error THEN {"ERROR"} ELSE {}]
  /\ UNCHANGED <<device, memoryVars, application>>

StatusClear ==
  /\ At("main", "status_clear") /\ Goto("main", "idle") /\ ClearStatus
  /\ reg' = [reg EXCEPT !["main"] = {}]
  /\ UNCHANGED <<memoryVars, application>>

Transfer(c) ==
  \/ CheckBusy(c) \/ ClearRunRead(c) \/ ClearRunWrite(c) \/ ClearStatusReg(c)
  \/ WritePointer(c) \/ RunRead(c) \/ RunWrite(c)

-----------------------------------------------------------------------------
(* start, stop, enable_desc_poll and disable_desc_poll: one bit is read,   *)
(* changed and written back.                                               *)

changed(c) ==
  CASE op[c] = "start"    -> reg[c] \cup {"RUN"}
    [] op[c] = "stop"     -> reg[c] \ {"RUN"}
    [] op[c] = "poll_on"  -> reg[c] \cup {"DESC_POLL_EN"}
    [] op[c] = "poll_off" -> reg[c] \ {"DESC_POLL_EN"}

ChangeRead(c) ==
  /\ At(c, "change_read") /\ Goto(c, "change_write") /\ ReadControl(c)
  /\ UNCHANGED <<device, memoryVars, application>>

ChangeWrite(c) ==
  /\ At(c, "change_write") /\ Goto(c, Returned(c))
  /\ WriteControl(changed(c), FALSE)
  /\ reg' = [reg EXCEPT ![c] = {}]
  /\ UNCHANGED <<memoryVars, application>>

-----------------------------------------------------------------------------
(* Descriptors and calls.                                                  *)

\* construct_descriptor_burst: the next descriptor is released first.
Construct(ownedBefore, d) ==
  [ownedBefore EXCEPT ![next(d)] = FALSE, ![d] = TRUE]

\* n descriptors from d on.
chain(d, n) == [i \in 1..n |-> ((d + i - 2) % Ring) + 1]

\* The descriptors a transfer that has been called is going to run.
prepared == IF pc["main"] \in {"idle", "wait"} THEN {}
            ELSE {desc["main"][i] : i \in DOMAIN desc["main"]}

\* The application makes a chain of n descriptors beyond its last one; it
\* keeps off descriptors that are in use.
BuildChain(c, n) ==
  LET new == chain(next(tail), n)
      end == next(new[n])
  IN  /\ \A d \in {new[i] : i \in 1..n} \cup {end} :
           /\ busy => ~owned[d] /\ d # tail
           /\ d \notin prepared
      /\ owned' = [d \in Descriptors |-> \/ \E i \in 1..n : d = new[i]
                                         \/ owned[d] /\ d # end]
      /\ failed' = [d \in Descriptors |->
                      failed[d] /\ \A i \in 1..n : d # new[i]]
      /\ tail' = end
      /\ desc' = [desc EXCEPT ![c] = new]

entry(o) == IF o \in {"async", "sync"} THEN "busy" ELSE "change_read"

Enter(c, o) ==
  /\ pc' = [pc EXCEPT ![c] = entry(o)]
  /\ op' = [op EXCEPT ![c] = o]

CallTransfer(o) ==
  /\ Enter("main", o)
  /\ \E n \in 1..(Ring - 2) : BuildChain("main", n)
  /\ UNCHANGED callback

CallChange(o) == Enter("main", o) /\ UNCHANGED <<memoryVars, callback, tail, desc>>

CallRegister(o) ==
  /\ callback' = (o = "register")
  /\ UNCHANGED <<memoryVars, tail, pc, op, desc>>

\* One more descriptor at the end of the chain that is polled.
CallAppend ==
  /\ ~owned[tail] /\ ~owned[next(tail)]
  /\ owned' = Construct(owned, tail)
  /\ failed' = [failed EXCEPT ![tail] = FALSE]
  /\ tail' = next(tail)
  /\ UNCHANGED <<callback, pc, op, desc>>

Call(o) ==
  /\ At("main", "idle")
  /\ IF program # <<>> THEN o = Head(program) /\ program' = Tail(program)
     ELSE o \in use.calls /\ UNCHANGED program
  /\ \/ o \in {"async", "sync"} /\ CallTransfer(o)
     \/ o \in {"start", "stop", "poll_on", "poll_off"} /\ CallChange(o)
     \/ o \in {"register", "unregister"} /\ CallRegister(o)
     \/ o = "append" /\ CallAppend
  /\ UNCHANGED <<device, reg, use>>

-----------------------------------------------------------------------------
(* alt_avalon_sgdma_irq and the callback.                                  *)

Interrupt ==
  /\ csr_irq /\ pc["isr"] = "none"
  /\ Goto("isr", "irq_read")
  /\ UNCHANGED <<device, memoryVars, application, reg>>

IrqRead ==
  /\ At("isr", "irq_read") /\ Goto("isr", "irq_write") /\ ReadControl("isr")
  /\ UNCHANGED <<device, memoryVars, application>>

IrqWrite ==
  /\ At("isr", "irq_write")
  /\ Goto("isr", IF callback THEN "callback" ELSE "none")
  /\ WriteControl(reg["isr"], TRUE)
  /\ reg' = [reg EXCEPT !["isr"] = {}]
  /\ UNCHANGED <<memoryVars, application>>

\* It may start the next transfer, whose chain it makes, or stop the engine.
Callback ==
  /\ At("isr", "callback")
  /\ \/ use.callback # "stop" /\ Goto("isr", "none") /\ UNCHANGED <<memoryVars, tail>>
     \/ use.callback = "async" /\ Enter("isr", "async") /\ BuildChain("isr", 1)
     \/ use.callback = "stop" /\ Enter("isr", "stop")
                              /\ UNCHANGED <<memoryVars, tail, desc>>
  /\ UNCHANGED <<device, callback, use, program, reg>>

Driver ==
  \/ \E c \in Contexts : Transfer(c) \/ ChangeRead(c) \/ ChangeWrite(c)
  \/ Wait \/ StopRead \/ StopWrite \/ StatusRead \/ StatusClear
  \/ Interrupt \/ IrqRead \/ IrqWrite \/ Callback

-----------------------------------------------------------------------------
\* After alt_avalon_sgdma_init: reset twice, halted, no interrupt enabled.
Init ==
  /\ control_reg = {} /\ error = FALSE /\ chain_completed_int = FALSE
  /\ csr_irq = FALSE /\ descriptor_pointer = 1 /\ owned_by_hw = FALSE
  /\ next_desc = 1 /\ desc_address_fifo = <<>> /\ status_token = <<>>
  /\ owned = [d \in Descriptors |-> FALSE]
  /\ failed = [d \in Descriptors |-> FALSE]
  /\ callback = FALSE /\ use \in Applications /\ program = use.first /\ tail = Ring
  /\ pc = [c \in Contexts |-> Returned(c)]
  /\ op = [c \in Contexts |-> "none"]
  /\ reg = [c \in Contexts |-> {}]
  /\ desc = [c \in Contexts |-> <<>>]

Next == Engine \/ Driver \/ \E o \in Calls : Call(o)

\* The controller moves on its own, functions that are called return, and a
\* program with its first calls to make makes them.
Fairness ==
  /\ WF_vars(Engine) /\ WF_vars(Driver)
  /\ WF_vars(program # <<>> /\ \E o \in Calls : Call(o))

Spec == Init /\ [][Next]_vars /\ Fairness

-----------------------------------------------------------------------------
(* Properties.                                                             *)

TypeOK ==
  /\ control_reg \subseteq Control
  /\ {error, chain_completed_int, csr_irq, owned_by_hw, callback}
       \subseteq BOOLEAN
  /\ {descriptor_pointer, next_desc, tail} \subseteq Descriptors
  /\ desc_address_fifo \in Seq(Descriptors)
  /\ Len(desc_address_fifo) <= FifoWords
  /\ status_token \in {<<>>, <<TRUE>>, <<FALSE>>}
  /\ {owned, failed} \subseteq [Descriptors -> BOOLEAN]
  /\ \A c \in Contexts : reg[c] \subseteq Control \cup {"ERROR"}

\* Once a transfer has found the controller at rest it stays at rest until the
\* transfer runs it, whatever the interrupt handler does: pointer and status
\* are changed under no engine (altera_avalon_sgdma.c:90-108, 182-199).
TransferAtRest ==
  \A c \in Contexts :
    pc[c] \in {"clear_read", "clear_write", "clear_status", "pointer",
               "run_read", "run_write"} => ~busy /\ ~run

\* What do_sync_transfer returns is the status of its own chain: an error is
\* one of a descriptor of this chain, and without one all of it has been moved
\* (altera_avalon_sgdma.c:159-160).
SyncStatus ==
  pc["main"] = "status_clear" =>
    LET own == {desc["main"][i] : i \in 1..Len(desc["main"])}
    IN  /\ reg["main"] = {"ERROR"} <=> \E d \in own : failed[d]
        /\ reg["main"] = {} => \A d \in own : ~owned[d]

\* The controller comes to rest, the status and the descriptors belong to the
\* transfer that waits for them.
DriverInv == TypeOK /\ TransferAtRest /\ SyncStatus

\* "If a callback is registered, all non-blocking SGDMA transfers will enable
\* interrupts that will cause the callback to be executed": when the chain is
\* done, or an error has stopped it (altera_avalon_sgdma.c:430-431).
CalledBack ==
  (pc["main"] = "run_write" /\ op["main"] = "async" /\ callback)
    ~> (pc["isr"] = "callback" /\ (error \/ ~busy))

\* A descriptor made ready while the controller polls is moved
\* (altera_avalon_sgdma.c:590-591).
PolledMoved == \A d \in Descriptors : owned[d] ~> ~owned[d]

\* Transfers end: an application that only starts transfers is called back after
\* each, and one that polls has every descriptor moved that it appends.
TransfersEnd ==
  /\ use.calls \subseteq {"async"} => CalledBack
  /\ use.calls = {"append"} /\ ~use.failures => PolledMoved
=============================================================================

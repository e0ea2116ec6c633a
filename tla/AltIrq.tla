---------------------------------- MODULE AltIrq ----------------------------------
(***************************************************************************)
(* Exceptions and interrupts of the HAL on the processor's internal        *)
(* controller: the table of handlers, enabling and disabling one interrupt *)
(* or all, the dispatch loop alt_irq_handler, handlers that let more       *)
(* important interrupts in (alt_irq_interruptible), and instructions that  *)
(* raise exceptions.  The processor takes a pending interrupt before its   *)
(* next instruction whenever PIE is set; what it interrupts stays on the   *)
(* stack.  The lower number is the more important one.                     *)
(***************************************************************************)
EXTENDS Integers, Sequences, FiniteSets

CONSTANTS
  ALT_NIRQ,     \* interrupts
  Nested,       \* those whose handlers are interruptible
  Registered,   \* those registered at the start
  Faulty,       \* those whose handlers have an instruction that raises an exception
  Unknown       \* numbers beyond the table the program passes

Irqs == 0..(ALT_NIRQ - 1)

ASSUME IrqAssumption ==
  /\ ALT_NIRQ \in Nat \ {0}
  /\ Nested \subseteq Irqs /\ Registered \subseteq Irqs /\ Faulty \subseteq Irqs
  /\ Unknown \subseteq Nat \ Irqs

VARIABLES
  pie, ienable,         \* of the processor
  irq,                  \* lines that are raised
  alt_irq,              \* the table: handler and context of each interrupt
  alt_irq_active, alt_priority_mask,
  alt_instruction_exception_handler,    \* one is registered
  stack                 \* the program and the handlers it is interrupted by

vars == <<pie, ienable, irq, alt_irq, alt_irq_active, alt_priority_mask,
          alt_instruction_exception_handler, stack>>
tables == <<alt_irq, alt_instruction_exception_handler>>
masks == <<alt_irq_active, alt_priority_mask>>

\* status: PIE when the frame, or the function it calls, was entered; id: of the
\* interrupt that is served; old: alt_irq_interruptible's result; call, arg: the
\* function that is called; fault: its instruction raises an exception.
Frame == [pc |-> "idle", id |-> -1, old |-> {}, call |-> "none", arg |-> -1,
          status |-> FALSE, fault |-> "none"]
NoEntry == [handler |-> FALSE, context |-> FALSE]
Entry == [handler |-> TRUE, context |-> TRUE]

least(S) == CHOOSE i \in S : \A j \in S : i <= j
alt_irq_pending == irq \cap ienable
Interrupted == pie /\ alt_irq_pending # {}

top == stack[Len(stack)]
Top(frame) == stack' = [stack EXCEPT ![Len(stack)] = frame]
Goto(place) == Top([top EXCEPT !.pc = place])
At(place) == ~Interrupted /\ top.pc = place /\ top.fault # "raised"
Popped == SubSeq(stack, 1, Len(stack) - 1)

below(id) == {i \in Irqs : i < id}

-----------------------------------------------------------------------------
(* Entry: interrupts, instructions that raise exceptions.                  *)

Raise(i) ==
  /\ i \notin irq
  /\ irq' = irq \cup {i}
  /\ UNCHANGED <<pie, ienable, tables, masks, stack>>

Entered(frames) ==
  /\ stack' = Append(frames, [Frame EXCEPT !.pc = "entry", !.status = pie])
  /\ pie' = FALSE
  /\ UNCHANGED <<ienable, irq, tables, masks>>

Take == Interrupted /\ Entered(stack)

\* An instruction of the program or of a handler; one that is re-issued raises
\* its exception again.
Fault ==
  /\ \/ top.pc = "idle"
     \/ top.pc = "body" /\ top.id \in Faulty /\ top.fault # "skipped"
  /\ ~Interrupted
  /\ Entered([stack EXCEPT ![Len(stack)].fault = "raised"])

Dispatches == top.status /\ alt_irq_pending # {}

\* The common entry takes a pending interrupt for its reason, whatever it is.
Enter ==
  /\ At("entry")
  /\ Goto(IF Dispatches THEN "pending" ELSE "exception")
  /\ UNCHANGED <<pie, ienable, irq, tables, masks>>

\* Without a handler the processor breaks into the debugger or hangs.
Exception(skips) ==
  /\ At("exception")
  /\ IF alt_instruction_exception_handler
     THEN /\ stack' = [Popped EXCEPT ![Len(stack) - 1].fault =
                         IF ~skips THEN @ ELSE IF Len(stack) = 2 THEN "none" ELSE "skipped"]
          /\ pie' = top.status
     ELSE Goto("hung") /\ UNCHANGED pie
  /\ UNCHANGED <<ienable, irq, tables, masks>>

-----------------------------------------------------------------------------
(* alt_irq_handler.                                                        *)

\* With no bit set the inner loop goes on for ever.
Pending ==
  /\ At("pending")
  /\ IF alt_irq_pending = {} THEN Goto("lost")
     ELSE Top([top EXCEPT !.pc = "isr", !.id = least(alt_irq_pending)])
  /\ UNCHANGED <<pie, ienable, irq, tables, masks>>

Again ==
  /\ At("again")
  /\ IF alt_irq_pending = {} THEN stack' = Popped /\ pie' = top.status
     ELSE /\ Top([Frame EXCEPT !.pc = "isr", !.id = least(alt_irq_pending),
                               !.status = top.status])
          /\ UNCHANGED pie
  /\ UNCHANGED <<ienable, irq, tables, masks>>

-----------------------------------------------------------------------------
(* A handler, and alt_irq_interruptible and alt_irq_non_interruptible.     *)

Isr ==
  /\ At("isr")
  /\ Goto(IF top.id \in Nested THEN "lower_mask" ELSE "body")
  /\ UNCHANGED <<pie, ienable, irq, tables, masks>>

LowerMask ==
  /\ At("lower_mask")
  /\ Top([top EXCEPT !.pc = "lower_ienable", !.old = alt_priority_mask])
  /\ alt_priority_mask' = below(top.id)
  /\ UNCHANGED <<pie, ienable, irq, tables, alt_irq_active>>

LowerIenable ==
  /\ At("lower_ienable") /\ Goto("open")
  /\ ienable' = alt_irq_active \cap alt_priority_mask
  /\ UNCHANGED <<pie, irq, tables, masks>>

Open ==
  /\ At("open") /\ Goto("body")
  /\ pie' = TRUE
  /\ UNCHANGED <<ienable, irq, tables, masks>>

\* The interrupt condition is cleared.
Body ==
  /\ At("body")
  /\ Top([top EXCEPT !.pc = (IF top.id \in Nested THEN "close" ELSE "again"),
                     !.fault = "none"])
  /\ irq' = irq \ {top.id}
  /\ UNCHANGED <<pie, ienable, tables, masks>>

Close ==
  /\ At("close") /\ Goto("restore_mask")
  /\ pie' = FALSE
  /\ UNCHANGED <<ienable, irq, tables, masks>>

\* mutant: the mask stays as this handler has set it
restoredNot(old) == alt_priority_mask

restored(old) == old

RestoreMask ==
  /\ At("restore_mask") /\ Goto("restore_ienable")
  /\ alt_priority_mask' = restored(top.old)
  /\ UNCHANGED <<pie, ienable, irq, tables, alt_irq_active>>

RestoreIenable ==
  /\ At("restore_ienable") /\ Goto("again")
  /\ ienable' = restored(top.old) \cap alt_irq_active
  /\ UNCHANGED <<pie, irq, tables, masks>>

-----------------------------------------------------------------------------
(* alt_ic_isr_register, alt_ic_irq_enable and alt_ic_irq_disable.  The     *)
(* calls the first makes of the others disable interrupts that are         *)
(* disabled already and add nothing.                                       *)

\* mutant: interrupts stay enabled
offNot == pie

off == FALSE

\* An interrupt the table has no entry for is refused.  The program enables
\* interrupts that have a handler.
Call(f, id) ==
  /\ At("idle") /\ (id \in Irqs \/ f \in {"enable", "disable"})
  /\ f = "enable" /\ id \in Irqs => alt_irq[id].handler
  /\ Top([top EXCEPT !.pc = "read", !.call = f, !.arg = id])
  /\ UNCHANGED <<pie, ienable, irq, tables, masks>>

\* alt_instruction_exception_register
RegisterException(present) ==
  /\ At("idle") /\ alt_instruction_exception_handler' = present
  /\ UNCHANGED <<pie, ienable, irq, alt_irq, masks, stack>>

ReadStatus ==
  /\ At("read") /\ Top([top EXCEPT !.pc = "off", !.status = pie])
  /\ UNCHANGED <<pie, ienable, irq, tables, masks>>

DisableAll ==
  /\ At("off")
  /\ Goto(IF top.call \in {"register", "unregister"} THEN "handler" ELSE "active")
  /\ pie' = off
  /\ UNCHANGED <<ienable, irq, tables, masks>>

StoreHandler ==
  /\ At("handler") /\ Goto("context")
  /\ alt_irq' = [alt_irq EXCEPT ![top.arg].handler = (top.call = "register")]
  /\ UNCHANGED <<pie, ienable, irq, alt_instruction_exception_handler, masks>>

StoreContext ==
  /\ At("context") /\ Goto("active")
  /\ alt_irq' = [alt_irq EXCEPT ![top.arg].context = (top.call = "register")]
  /\ UNCHANGED <<pie, ienable, irq, alt_instruction_exception_handler, masks>>

\* The bits beyond the last interrupt are not implemented.
StoreActive ==
  /\ At("active") /\ Goto("ienable")
  /\ alt_irq_active' = IF top.call \in {"register", "enable"}
                       THEN alt_irq_active \cup ({top.arg} \cap Irqs)
                       ELSE alt_irq_active \ {top.arg}
  /\ UNCHANGED <<pie, ienable, irq, tables, alt_priority_mask>>

WriteIenable ==
  /\ At("ienable") /\ Goto("restore")
  /\ ienable' = alt_irq_active
  /\ UNCHANGED <<pie, irq, tables, masks>>

EnableAll ==
  /\ At("restore")
  /\ Top(Frame)
  /\ pie' = top.status
  /\ UNCHANGED <<ienable, irq, tables, masks>>

Step == \/ Enter \/ \E skips \in BOOLEAN : Exception(skips)
        \/ Pending \/ Again \/ Isr \/ LowerMask \/ LowerIenable \/ Open \/ Body
        \/ Close \/ RestoreMask \/ RestoreIenable \/ ReadStatus \/ DisableAll
        \/ StoreHandler \/ StoreContext \/ StoreActive \/ WriteIenable \/ EnableAll

Init ==
  /\ pie = TRUE
  /\ ienable = Registered /\ alt_irq_active = Registered
  /\ irq = {}
  /\ alt_irq = [i \in Irqs |-> IF i \in Registered THEN Entry ELSE NoEntry]
  /\ alt_priority_mask = Irqs
  /\ alt_instruction_exception_handler = FALSE
  /\ stack = <<Frame>>

Next ==
  \/ \E i \in Irqs : Raise(i)
  \/ Take \/ Fault \/ Step
  \/ \E f \in {"register", "unregister", "enable", "disable"},
        id \in Irqs \cup Unknown : Call(f, id)
  \/ \E present \in BOOLEAN : RegisterException(present)

\* The processor runs: it takes interrupts, and what it has begun it goes on with.
Spec == Init /\ [][Next]_vars /\ WF_vars(Step) /\ WF_vars(Take)

-----------------------------------------------------------------------------
(* Properties.                                                             *)

Handlers == 2..Len(stack)

TypeOK ==
  /\ {pie, alt_instruction_exception_handler} \subseteq BOOLEAN
  /\ {ienable, irq, alt_irq_active, alt_priority_mask} \subseteq SUBSET Irqs
  /\ \A i \in Irqs : alt_irq[i] \in [handler : BOOLEAN, context : BOOLEAN]
  /\ stack # <<>> /\ stack[1].id = -1
  /\ \A k \in Handlers : stack[k].id \in Irqs \cup {-1}

\* "Interrupts are disabled while the handler tables are updated to ensure that
\* an interrupt doesn't occur while the tables are in an inconsistant state"
\* (alt_iic_isr_register.c:83-87): a handler that is called is a registered one
\* and gets its own context.
OwnContext == top.pc = "isr" => alt_irq[top.id] = Entry

\* "It is used to allow higer priority interrupts to interrupt the current ISR"
\* (alt_legacy_irq.h:104-106): each handler on the stack is more important than
\* those it interrupts.
HigherOnly ==
  \A j, k \in Handlers : j < k /\ stack[j].id # -1 /\ stack[k].id # -1 =>
    stack[k].id < stack[j].id

\* When the handlers have returned, the interrupts that are enabled are those
\* the program has enabled (alt_legacy_irq.h:152-160).
Restored ==
  Len(stack) = 1 =>
    /\ alt_priority_mask = Irqs
    /\ top.pc # "ienable" => ienable = alt_irq_active
    /\ top.pc \in {"idle", "read"} => pie

\* What the exception handler is given is an instruction's exception, never an
\* interrupt (alt_irq_entry.S), and the loop that looks for the number of an
\* interrupt ends (alt_irq_handler.c:119-121).
Attributed ==
  /\ \A k \in Handlers : stack[k].pc \in {"exception", "hung"} =>
       stack[k - 1].fault = "raised"
  /\ top.pc # "lost"

IrqInv == TypeOK /\ OwnContext /\ HigherOnly /\ Restored /\ Attributed

\* An enabled interrupt is served once those that are more important are quiet,
\* whatever the program calls meanwhile and however often an instruction is
\* re-issued (alt_irq_handler.c:116-128); unless an exception has no handler, or
\* an instruction of a service routine is re-issued for ever.
Served ==
  \A i \in Irqs :
    (<>[](/\ i \in alt_irq_active /\ top.pc # "hung"
          /\ \A k \in Handlers : stack[k].fault # "raised"
          /\ \A j \in below(i) : j \notin irq))
      => []<>(i \notin irq)
=============================================================================

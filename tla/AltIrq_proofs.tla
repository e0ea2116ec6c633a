------------------------------ MODULE AltIrq_proofs ------------------------------
(***************************************************************************)
(* Interrupts of the HAL (AltIrq), for every number of interrupts, every   *)
(* choice of interruptible handlers and any nesting of them: each handler  *)
(* is a registered one with its own context, is more important than those  *)
(* it interrupts, and the enables and the mask are restored behind it.     *)
(***************************************************************************)
EXTENDS MCAltIrq, WellFoundedInduction, TLAPS

ProgramPlaces == {"idle", "read", "off", "handler", "context", "active", "ienable", "restore"}
HandlerPlaces == {"entry", "exception", "hung", "pending", "isr", "lower_mask", "lower_ienable",
                  "open", "body", "close", "restore_mask", "restore_ienable", "again"}
Calls == {"register", "unregister", "enable", "disable"}
Frames == [pc : ProgramPlaces \cup HandlerPlaces, id : Irqs \cup {-1}, old : SUBSET Irqs,
           call : Calls \cup {"none"}, arg : Irqs \cup Unknown \cup {-1}, status : BOOLEAN,
           fault : {"none", "raised", "skipped"}]

\* What is let through while frame k runs with its interrupts on.
Mask(s, k) == IF k = 1 THEN Irqs
              ELSE IF s[k].id \in Nested THEN below(s[k].id)
              ELSE IF k = 2 THEN Irqs ELSE below(s[k - 1].id)

\* Places of a handler's frame.
Unserved == {"entry", "exception", "hung", "pending"}
Excepted == {"entry", "exception", "hung"}
Lets(f) == f.id \in Nested /\ f.pc \in {"body", "close"}
MaskLowered(f) == Lets(f) \/ f.pc \in {"lower_ienable", "open", "restore_mask"}
EnablesLowered(f) == Lets(f) \/ f.pc \in {"open", "restore_mask", "restore_ienable"}

\* A frame of the program: from the second half of alt_irq_disable_all on it has
\* been entered with PIE set.
Program(f) ==
  /\ f.pc \in ProgramPlaces /\ f.id = -1
  /\ f.pc \notin {"idle", "read"} => f.status
  /\ f.pc # "idle" => f.call # "none"
  /\ f.pc \in {"handler", "context"} => f.call \in {"register", "unregister"}
  /\ f.pc # "idle" /\ f.call \in {"register", "unregister"} => f.arg \in Irqs
  /\ f.fault \in {"none", "raised"} /\ (f.fault = "raised" => f.pc = "idle")

\* A frame of a handler: it has a number once it serves an interrupt.
Handler(f) ==
  /\ f.pc \in HandlerPlaces
  /\ (f.id = -1) <=> (f.pc \in Unserved)
  /\ f.pc \in {"lower_mask", "lower_ienable", "open", "close", "restore_mask", "restore_ienable"}
       => f.id \in Nested
  /\ f.fault # "none" => f.pc = "body"

\* A frame that is interrupted lets interrupts in, or its instruction has
\* raised an exception.
Below(s, k) ==
  IF k = 1 THEN s[1].pc \in {"idle", "read", "off"} /\ s[2].status
  ELSE /\ s[k].pc \in {"body", "close"}
       /\ \/ s[k].id \in Nested /\ s[k + 1].status
          \/ /\ s[k].id \notin Nested /\ s[k].fault = "raised" /\ ~s[k + 1].status
             /\ k + 1 = Len(s) /\ s[k + 1].pc \in Excepted

\* What alt_irq_interruptible has returned is what was let through below.
OldMask(s, k) == MaskLowered(s[k]) \/ s[k].pc = "restore_ienable" => s[k].old = Mask(s, k - 1)

\* The later of two frames is the more important.
Higher(s, j, k) == j < k /\ s[j].id # -1 /\ s[k].id # -1 => s[k].id < s[j].id

\* The stack.
Shape(s) ==
  /\ s \in Seq(Frames) /\ Len(s) # 0
  /\ Program(s[1])
  /\ \A k \in 2..Len(s) : Handler(s[k])
  /\ \A k \in 1..(Len(s) - 1) : Below(s, k)
  /\ \A k \in 2..Len(s) : OldMask(s, k)
  /\ \A j, k \in 2..Len(s) : Higher(s, j, k)

\* The masks and PIE while the program runs,
ProgramTop ==
  /\ alt_priority_mask = Irqs
  /\ stack[1].pc # "ienable" => ienable = alt_irq_active
  /\ pie = (stack[1].pc \in {"idle", "read", "off"})

\* and while a handler runs; and what its place tells of the frame below it.
HandlerTop(s, k) ==
  /\ alt_priority_mask = IF MaskLowered(s[k]) THEN below(s[k].id) ELSE Mask(s, k - 1)
  /\ ienable = alt_irq_active \cap (IF EnablesLowered(s[k]) THEN below(s[k].id) ELSE Mask(s, k - 1))
  /\ pie = Lets(s[k])
  /\ s[k].pc = "entry" => s[k - 1].fault = "raised" \/ (s[k].status /\ irq \cap ienable # {})
  /\ s[k].pc \in {"exception", "hung"} => s[k - 1].fault = "raised"
  /\ s[k].pc = "pending" => irq \cap ienable # {}
  /\ s[k].pc = "isr" => alt_irq[s[k].id] = Entry

\* The table is whole except where the program is changing it, and whoever is
\* active is in it.
TablesWhole(table, active, f) ==
  /\ \A i \in Irqs : table[i] \in {Entry, NoEntry} \/ (f.pc = "context" /\ f.arg = i)
  /\ \A i \in active :
       table[i] = Entry \/ (f.call = "unregister" /\ f.arg = i /\ f.pc \in {"context", "active"})
  /\ f.pc = "context" => table[f.arg].handler = (f.call = "register")
  /\ f.pc = "active" /\ f.call = "register" => table[f.arg] = Entry
  /\ f.pc # "idle" /\ f.call = "enable" /\ f.arg \in Irqs => table[f.arg] = Entry

Types ==
  /\ pie \in BOOLEAN /\ alt_instruction_exception_handler \in BOOLEAN
  /\ ienable \subseteq Irqs /\ irq \subseteq Irqs
  /\ alt_irq_active \subseteq Irqs /\ alt_priority_mask \subseteq Irqs
  /\ alt_irq \in [Irqs -> [handler : BOOLEAN, context : BOOLEAN]]

IInv ==
  /\ Types
  /\ Shape(stack)
  /\ Len(stack) = 1 => ProgramTop
  /\ Len(stack) > 1 => HandlerTop(stack, Len(stack))
  /\ TablesWhole(alt_irq, alt_irq_active, stack[1])

-----------------------------------------------------------------------------
(* The stack.                                                              *)

\* The top frame changes; what is below it and let through there does not.
LEMMA Changed ==
  ASSUME NEW s, Shape(s), NEW n \in Nat, n = Len(s), NEW f \in Frames,
         n = 1 => Program(f),
         n > 1 => Handler(f),
         n > 1 => f.status = s[n].status,
         n > 1 => (s[n].pc \in Excepted => f.pc \in Excepted \/ f.status),
         n > 1 => (MaskLowered(f) \/ f.pc = "restore_ienable" => f.old = Mask(s, n - 1)),
         f.id = -1 \/ f.id = s[n].id \/ (\A j \in 2..(n - 1) : s[j].id # -1 => f.id < s[j].id),
         NEW t, t \in Seq(Frames), Len(t) = n, t[n] = f, \A k \in 1..(n - 1) : t[k] = s[k]
  PROVE  Shape(t) /\ \A k \in 1..(n - 1) : Mask(t, k) = Mask(s, k)
<1>1. s \in Seq(Frames) /\ n \in Nat /\ n > 0
  BY DEF Shape
<1>2. t \in Seq(Frames) /\ Len(t) = n /\ t[n] = f
  BY <1>1
<1>3. \A k \in 1..(n - 1) : t[k] = s[k]
  BY <1>1
<1>4. ASSUME NEW k \in 1..(n - 1) PROVE Mask(t, k) = Mask(s, k)
  <2>1. t[k] = s[k] /\ (k # 1 => t[k - 1] = s[k - 1])
    BY <1>1, <1>3
  <2> QED
    BY <2>1 DEF Mask
<1>5. Program(t[1])
  <2>1. CASE n = 1
    BY <1>2, <2>1
  <2>2. CASE n > 1
    BY <1>3, <2>2 DEF Shape
  <2> QED
    BY <1>1, <2>1, <2>2
<1>6. ASSUME NEW k \in 2..n PROVE Handler(t[k])
  <2>1. CASE k = n
    BY <1>2, <2>1
  <2>2. CASE k < n
    BY <1>1, <1>3, <2>2 DEF Shape
  <2> QED
    BY <2>1, <2>2
<1>7. ASSUME NEW k \in 1..(n - 1) PROVE Below(t, k)
  <2>0. Below(s, k)
    BY DEF Shape
  <2>1. t[k] = s[k]
    BY <1>3
  <2>2. CASE k < n - 1
    <3>1. t[k + 1] = s[k + 1]
      BY <1>3, <2>2
    <3>2. k = 1 => t[2] = s[2]
      BY <3>1
    <3> QED
      BY <2>0, <2>1, <2>2, <3>1, <3>2, <1>2 DEF Below
  <2>3. CASE k = n - 1
    <3>1. t[k + 1] = f /\ s[k + 1] = s[n]
      BY <1>2, <2>3
    <3>2. f.status = s[n].status /\ (s[n].pc \in Excepted => f.pc \in Excepted \/ f.status)
      BY <2>3
    <3>3. k = 1 => t[2] = f /\ s[2] = s[n]
      BY <3>1
    <3> QED
      BY <2>0, <2>1, <3>1, <3>2, <3>3, <1>2, <2>3 DEF Below
  <2> QED
    BY <2>2, <2>3
<1>8. ASSUME NEW k \in 2..n PROVE OldMask(t, k)
  <2>0. k - 1 \in 1..(n - 1)
    BY <1>1
  <2>1. Mask(t, k - 1) = Mask(s, k - 1)
    BY <2>0, <1>4
  <2>2. CASE k = n
    BY <1>2, <2>1, <2>2 DEF OldMask
  <2>3. CASE k < n
    <3>1. OldMask(s, k) /\ t[k] = s[k]
      BY <1>3, <2>3 DEF Shape
    <3> QED
      BY <3>1, <2>1 DEF OldMask
  <2> QED
    BY <2>2, <2>3
<1>9. ASSUME NEW j \in 2..n, NEW k \in 2..n PROVE Higher(t, j, k)
  <2>1. Higher(s, j, k)
    BY DEF Shape
  <2>2. CASE k < n
    <3>1. t[k] = s[k] /\ (j < k => t[j] = s[j])
      BY <1>3, <2>2
    <3> QED
      BY <2>1, <3>1 DEF Higher
  <2>3. CASE k = n
    <3>1. t[k] = f /\ s[k] = s[n] /\ (j < k => t[j] = s[j])
      BY <1>2, <1>3, <2>3
    <3> QED
      BY <2>1, <3>1, <2>3 DEF Higher
  <2> QED
    BY <2>2, <2>3
<1> QED
  BY <1>1, <1>2, <1>3, <1>4, <1>5, <1>6, <1>7, <1>8, <1>9 DEF Shape

\* The processor enters the exception code above a frame.
LEMMA Pushed ==
  ASSUME NEW s, Shape(s), NEW n \in Nat, n = Len(s), NEW f \in Frames,
         f.pc = "entry", f.id = -1, f.fault = "none",
         n = 1 => s[1].pc \in {"idle", "read", "off"} /\ f.status,
         n > 1 => s[n].pc \in {"body", "close"},
         n > 1 => \/ s[n].id \in Nested /\ f.status
                  \/ s[n].id \notin Nested /\ s[n].fault = "raised" /\ ~f.status,
         NEW t, t \in Seq(Frames), Len(t) = n + 1, t[n + 1] = f, \A k \in 1..n : t[k] = s[k]
  PROVE  Shape(t) /\ \A k \in 1..n : Mask(t, k) = Mask(s, k)
<1>1. s \in Seq(Frames) /\ n > 0
  BY DEF Shape
<1>2. t \in Seq(Frames) /\ Len(t) = n + 1 /\ t[n + 1] = f
  BY <1>1
<1>3. \A k \in 1..n : t[k] = s[k]
  BY <1>1
<1>4. \A k \in 1..n : Mask(t, k) = Mask(s, k)
  BY <1>1, <1>3 DEF Mask
<1>5. Program(t[1])
  BY <1>1, <1>3 DEF Shape
<1>6. ASSUME NEW k \in 2..(n + 1) PROVE Handler(t[k])
  <2>1. CASE k = n + 1
    BY <1>2, <2>1 DEF Handler, HandlerPlaces, Unserved
  <2>2. CASE k < n + 1
    BY <1>1, <1>3, <2>2 DEF Shape
  <2> QED
    BY <2>1, <2>2
<1>7. ASSUME NEW k \in 1..n PROVE Below(t, k)
  <2>1. t[k] = s[k]
    BY <1>3
  <2>2. CASE k < n
    <3>1. t[k + 1] = s[k + 1]
      BY <1>3, <2>2
    <3>2. k = 1 => t[2] = s[2]
      BY <3>1
    <3>3. Below(s, k)
      BY <2>2 DEF Shape
    <3>4. CASE k = 1
      BY <3>2, <3>3, <3>4, <2>1 DEF Below
    <3>5. CASE k > 1 /\ s[k].id \in Nested
      BY <3>1, <3>3, <3>5, <2>1 DEF Below
    <3>6. CASE k > 1 /\ s[k].id \notin Nested
      <4>1. k + 1 = n /\ s[n].pc \in Excepted
        BY <3>3, <3>6 DEF Below
      <4> QED
        BY <4>1, <2>2, <3>6 DEF Excepted
    <3> QED
      BY <3>4, <3>5, <3>6
  <2>3. CASE k = n
    <3>1. t[k + 1] = f /\ k + 1 = Len(t)
      BY <1>2, <2>3
    <3>2. k = 1 => t[2] = f
      BY <3>1
    <3> QED
      BY <1>1, <2>1, <2>3, <3>1, <3>2 DEF Below, Excepted
  <2> QED
    BY <2>2, <2>3
<1>8. ASSUME NEW k \in 2..(n + 1) PROVE OldMask(t, k)
  <2>1. Mask(t, k - 1) = Mask(s, k - 1)
    BY <1>4
  <2>2. CASE k = n + 1
    BY <1>2, <2>1, <2>2 DEF OldMask, MaskLowered, Lets
  <2>3. CASE k < n + 1
    <3>1. OldMask(s, k) /\ t[k] = s[k]
      BY <1>3, <2>3 DEF Shape
    <3> QED
      BY <3>1, <2>1 DEF OldMask
  <2> QED
    BY <2>2, <2>3
<1>9. ASSUME NEW j \in 2..(n + 1), NEW k \in 2..(n + 1) PROVE Higher(t, j, k)
  <2>2. CASE k < n + 1
    <3>1. t[k] = s[k] /\ (j < k => t[j] = s[j])
      BY <1>3, <2>2
    <3>2. j < k => Higher(s, j, k)
      BY <2>2 DEF Shape
    <3> QED
      BY <3>1, <3>2 DEF Higher
  <2>3. CASE k = n + 1
    BY <1>2, <2>3 DEF Higher
  <2> QED
    BY <2>2, <2>3
<1> QED
  BY <1>1, <1>2, <1>3, <1>4, <1>5, <1>6, <1>7, <1>8, <1>9 DEF Shape

\* The top frame is left.
LEMMA PoppedShape ==
  ASSUME NEW s, Shape(s), NEW n \in Nat, n = Len(s), n > 1,
         NEW t, t \in Seq(Frames), Len(t) = n - 1, \A k \in 1..(n - 1) : t[k] = s[k]
  PROVE  Shape(t) /\ \A k \in 1..(n - 1) : Mask(t, k) = Mask(s, k)
<1>1. s \in Seq(Frames)
  BY DEF Shape
<1>2. t \in Seq(Frames) /\ Len(t) = n - 1
  BY <1>1
<1>3. \A k \in 1..(n - 1) : t[k] = s[k]
  BY <1>1
<1>4. \A k \in 1..(n - 1) : Mask(t, k) = Mask(s, k)
  BY <1>1, <1>3 DEF Mask
<1>5. Program(t[1]) /\ \A k \in 2..(n - 1) : Handler(t[k])
  BY <1>3 DEF Shape
<1>7. ASSUME NEW k \in 1..(n - 2) PROVE Below(t, k)
  <2>1. t[k] = s[k] /\ t[k + 1] = s[k + 1] /\ (k = 1 => t[2] = s[2])
    BY <1>3
  <2>2. Below(s, k)
    BY DEF Shape
  <2> QED
    BY <2>1, <2>2 DEF Below
<1>8. ASSUME NEW k \in 2..(n - 1) PROVE OldMask(t, k)
  <2>1. Mask(t, k - 1) = Mask(s, k - 1) /\ t[k] = s[k] /\ OldMask(s, k)
    BY <1>3, <1>4 DEF Shape
  <2> QED
    BY <2>1 DEF OldMask
<1>9. ASSUME NEW j \in 2..(n - 1), NEW k \in 2..(n - 1) PROVE Higher(t, j, k)
  <2>1. Higher(s, j, k) /\ t[j] = s[j] /\ t[k] = s[k]
    BY <1>3 DEF Shape
  <2> QED
    BY <2>1 DEF Higher
<1>10. 1..(Len(t) - 1) = 1..(n - 2) /\ 2..Len(t) = 2..(n - 1) /\ Len(t) # 0
  BY <1>2
<1> QED
  BY <1>2, <1>3, <1>4, <1>5, <1>7, <1>8, <1>9, <1>10 DEF Shape
-----------------------------------------------------------------------------
(* Where the frames are.                                                   *)

\* The top frame is the program's or a handler's, by its place.
LEMMA Places ==
  ASSUME IInv
  PROVE  /\ stack \in Seq(Frames) /\ Len(stack) \in Nat /\ Len(stack) > 0
         /\ top = stack[Len(stack)] /\ top \in Frames
         /\ top.pc \in HandlerPlaces => Len(stack) > 1
         /\ top.pc \in ProgramPlaces => Len(stack) = 1
         /\ Len(stack) > 1 => /\ Handler(top) /\ HandlerTop(stack, Len(stack))
                              /\ OldMask(stack, Len(stack)) /\ Below(stack, Len(stack) - 1)
         /\ Len(stack) = 1 => Program(top) /\ ProgramTop /\ TablesWhole(alt_irq, alt_irq_active, top)
         /\ Shape(stack) /\ Types
<1>1. stack \in Seq(Frames) /\ Len(stack) \in Nat /\ Len(stack) > 0
  BY DEF IInv, Shape
<1>2. top = stack[Len(stack)] /\ top \in Frames
  BY <1>1 DEF top
<1>3. Len(stack) > 1 => /\ Handler(top) /\ HandlerTop(stack, Len(stack))
                        /\ OldMask(stack, Len(stack)) /\ Below(stack, Len(stack) - 1)
  BY <1>1, <1>2 DEF IInv, Shape
<1>4. Len(stack) = 1 => Program(top) /\ ProgramTop /\ TablesWhole(alt_irq, alt_irq_active, top)
  BY <1>1, <1>2 DEF IInv, Shape
<1>0. ProgramPlaces \cap HandlerPlaces = {}
  BY DEF ProgramPlaces, HandlerPlaces
<1>7. Len(stack) = 1 \/ Len(stack) > 1
  <2>1. \A m \in Nat : m > 0 => m = 1 \/ m > 1
    OBVIOUS
  <2> QED
    BY <1>1, <2>1
<1>5. top.pc \in HandlerPlaces => Len(stack) > 1
  <2>1. CASE Len(stack) = 1
    BY <1>0, <1>4, <2>1 DEF Program
  <2>2. CASE Len(stack) > 1
    BY <2>2
  <2> QED
    BY <1>7, <2>1, <2>2
<1>6. top.pc \in ProgramPlaces => Len(stack) = 1
  <2>1. CASE Len(stack) = 1
    BY <2>1
  <2>2. CASE Len(stack) > 1
    BY <1>0, <1>3, <2>2 DEF Handler
  <2> QED
    BY <1>7, <2>1, <2>2
<1> QED
  BY <1>1, <1>2, <1>3, <1>4, <1>5, <1>6 DEF IInv

\* A handler's frame goes on, with the mask, the enables and PIE of its place.
LEMMA HandlerStep ==
  ASSUME IInv, NEW n \in Nat, n = Len(stack), n > 1, NEW f \in Frames, Top(f), Handler(f),
         f.status = top.status,
         top.pc \in Excepted => f.pc \in Excepted \/ f.status,
         MaskLowered(f) \/ f.pc = "restore_ienable" => f.old = Mask(stack, n - 1),
         f.id = -1 \/ f.id = top.id \/ (\A j \in 2..(n - 1) : stack[j].id # -1 => f.id < stack[j].id),
         Types', UNCHANGED <<alt_irq, alt_irq_active>>,
         alt_priority_mask' = IF MaskLowered(f) THEN below(f.id) ELSE Mask(stack, n - 1),
         ienable' = alt_irq_active \cap (IF EnablesLowered(f) THEN below(f.id)
                                                              ELSE Mask(stack, n - 1)),
         pie' = Lets(f),
         f.pc = "entry" => stack[n - 1].fault = "raised" \/ (f.status /\ irq' \cap ienable' # {}),
         f.pc \in {"exception", "hung"} => stack[n - 1].fault = "raised",
         f.pc = "pending" => irq' \cap ienable' # {},
         f.pc = "isr" => alt_irq[f.id] = Entry
  PROVE  IInv'
<1>1. top = stack[n] /\ Shape(stack)
  BY Places
<1>2. stack' = [stack EXCEPT ![n] = f]
  BY DEF Top
<1>3. /\ stack' \in Seq(Frames) /\ Len(stack') = n /\ stack'[n] = f
      /\ \A k \in 1..(n - 1) : stack'[k] = stack[k]
  BY <1>1, <1>2 DEF Shape
<1>8. Shape(stack') /\ \A k \in 1..(n - 1) : Mask(stack', k) = Mask(stack, k)
  <2>1. f.status = stack[n].status /\ (stack[n].pc \in Excepted => f.pc \in Excepted \/ f.status)
    BY <1>1
  <2>2. f.id = -1 \/ f.id = stack[n].id
        \/ (\A j \in 2..(n - 1) : stack[j].id # -1 => f.id < stack[j].id)
    BY <1>1
  <2>3. n = 1 => Program(f)
    OBVIOUS
  <2> HIDE DEF top
  <2> QED
    BY <1>1, <1>3, <2>1, <2>2, <2>3, Changed
<1>4. stack'[n - 1] = stack[n - 1] /\ Mask(stack', n - 1) = Mask(stack, n - 1)
  BY <1>3, <1>8
<1>5. stack'[1] = stack[1]
  BY <1>3
<1>6. HandlerTop(stack, Len(stack))'
  BY <1>3, <1>4 DEF HandlerTop
<1>7. TablesWhole(alt_irq', alt_irq_active', stack'[1])
  <2>1. TablesWhole(alt_irq, alt_irq_active, stack[1])
    BY DEF IInv
  <2> QED
    BY <1>5, <2>1 DEF TablesWhole
<1> QED
  BY <1>3, <1>6, <1>7, <1>8 DEF IInv

\* A set of numbers that is not empty has a least one.
LEMMA Least ==
  ASSUME NEW S, S \subseteq Nat, S # {}
  PROVE  least(S) \in S
<1> DEFINE R == OpToRel(<, Nat)
<1>1. IsWellFoundedOn(R, Nat)
  BY NatLessThanWellFounded
<1>2. \A x, y \in Nat : x < y => <<x, y>> \in R
  BY DEF OpToRel
<1> HIDE DEF R
<1>3. PICK x \in S : \A y \in S : ~(<<y, x>> \in R)
  BY <1>1, WFMin
<1>4. ASSUME NEW y \in S PROVE x <= y
  <2>1. x \in Nat /\ y \in Nat /\ ~(<<y, x>> \in R)
    BY <1>3
  <2>2. ~(y < x)
    BY <2>1, <1>2
  <2> QED
    BY <2>1, <2>2
<1> QED
  BY <1>4 DEF least

\* What the invariant says of a handler's frame.
LEMMA ServingFrame ==
  ASSUME IInv, top.pc \in HandlerPlaces, NEW n, n = Len(stack)
  PROVE  /\ n \in Nat /\ n > 1 /\ top = stack[n] /\ top \in Frames /\ Handler(top) /\ Types
         /\ alt_priority_mask = IF MaskLowered(top) THEN below(top.id) ELSE Mask(stack, n - 1)
         /\ ienable = alt_irq_active \cap (IF EnablesLowered(top) THEN below(top.id)
                                                                ELSE Mask(stack, n - 1))
         /\ pie = Lets(top)
         /\ MaskLowered(top) \/ top.pc = "restore_ienable" => top.old = Mask(stack, n - 1)
         /\ top.pc = "entry" => stack[n - 1].fault = "raised" \/ (top.status /\ irq \cap ienable # {})
         /\ top.pc \in {"exception", "hung"} => stack[n - 1].fault = "raised"
         /\ top.pc = "pending" => irq \cap ienable # {}
         /\ top.pc = "isr" => alt_irq[top.id] = Entry
         /\ Below(stack, n - 1)
<1>1. n \in Nat /\ n > 1 /\ top = stack[n] /\ top \in Frames /\ Handler(top) /\ Types
  BY Places
<1>2. HandlerTop(stack, n) /\ OldMask(stack, n) /\ Below(stack, n - 1)
  BY <1>1, Places
<1>3. /\ alt_priority_mask = IF MaskLowered(top) THEN below(top.id) ELSE Mask(stack, n - 1)
      /\ ienable = alt_irq_active \cap (IF EnablesLowered(top) THEN below(top.id)
                                                             ELSE Mask(stack, n - 1))
      /\ pie = Lets(top)
  BY <1>1, <1>2 DEF HandlerTop
<1>4. /\ top.pc = "entry" => stack[n - 1].fault = "raised" \/ (top.status /\ irq \cap ienable # {})
      /\ top.pc \in {"exception", "hung"} => stack[n - 1].fault = "raised"
      /\ top.pc = "pending" => irq \cap ienable # {}
      /\ top.pc = "isr" => alt_irq[top.id] = Entry
  BY <1>1, <1>2 DEF HandlerTop
<1>5. MaskLowered(top) \/ top.pc = "restore_ienable" => top.old = Mask(stack, n - 1)
  BY <1>1, <1>2 DEF OldMask
<1> QED
  BY <1>1, <1>2, <1>3, <1>4, <1>5

\* A handler's frame that serves an interrupt goes on with it.
LEMMA ServingStep ==
  ASSUME IInv, NEW n \in Nat, n = Len(stack), n > 1, NEW f \in Frames, Top(f), Handler(f),
         f.status = top.status, f.id = top.id,
         top.pc \notin Excepted, f.pc \notin Unserved, f.pc # "isr",
         MaskLowered(f) \/ f.pc = "restore_ienable" => f.old = Mask(stack, n - 1),
         Types', UNCHANGED <<alt_irq, alt_irq_active>>,
         alt_priority_mask' = IF MaskLowered(f) THEN below(f.id) ELSE Mask(stack, n - 1),
         ienable' = alt_irq_active \cap (IF EnablesLowered(f) THEN below(f.id)
                                                              ELSE Mask(stack, n - 1)),
         pie' = Lets(f)
  PROVE  IInv'
<1>1. top.pc \in Excepted => f.pc \in Excepted \/ f.status
  OBVIOUS
<1>2. f.id = -1 \/ f.id = top.id \/ (\A j \in 2..(n - 1) : stack[j].id # -1 => f.id < stack[j].id)
  OBVIOUS
<1>3. /\ f.pc = "entry" => stack[n - 1].fault = "raised" \/ (f.status /\ irq' \cap ienable' # {})
      /\ f.pc \in {"exception", "hung"} => stack[n - 1].fault = "raised"
      /\ f.pc = "pending" => irq' \cap ienable' # {}
      /\ f.pc = "isr" => alt_irq[f.id] = Entry
  BY DEF Unserved
<1> QED
  BY <1>1, <1>2, <1>3, HandlerStep

\* alt_irq_handler calls the handler.
LEMMA IsrStep ==
  ASSUME IInv, Isr
  PROVE  IInv'
<1> DEFINE n == Len(stack)
           f == [top EXCEPT !.pc = IF top.id \in Nested THEN "lower_mask" ELSE "body"]
<1>1. top.pc = "isr"
  BY DEF Isr, At
<1>2. /\ n \in Nat /\ n > 1 /\ top \in Frames /\ Handler(top) /\ Types
      /\ alt_priority_mask = IF MaskLowered(top) THEN below(top.id) ELSE Mask(stack, n - 1)
      /\ ienable = alt_irq_active \cap (IF EnablesLowered(top) THEN below(top.id)
                                                             ELSE Mask(stack, n - 1))
      /\ pie = Lets(top)
      /\ MaskLowered(top) \/ top.pc = "restore_ienable" => top.old = Mask(stack, n - 1)
  BY <1>1, ServingFrame DEF HandlerPlaces
<1>3. /\ Top(f) /\ UNCHANGED <<alt_irq, alt_irq_active, alt_instruction_exception_handler>>
      /\ UNCHANGED <<pie, ienable, irq, alt_priority_mask>>
  BY <1>1 DEF Isr, Goto, tables, masks, restored
<1>4. /\ f \in Frames /\ f.status = top.status /\ f.id = top.id
      /\ f.pc = IF top.id \in Nested THEN "lower_mask" ELSE "body"
      /\ f.old = top.old /\ f.fault = top.fault
  BY <1>1, <1>2 DEF Frames, HandlerPlaces
<1>5. Handler(f) /\ top.pc \notin Excepted /\ f.pc \notin Unserved /\ f.pc # "isr"
  BY <1>1, <1>2, <1>4 DEF Handler, HandlerPlaces, Unserved, Excepted
<1>6. Types'
  BY <1>2, <1>3 DEF Types, below
<1>7. pie' = Lets(f)
  BY <1>1, <1>2, <1>3, <1>4 DEF Lets, Handler
<1>8. alt_priority_mask' = IF MaskLowered(f) THEN below(f.id) ELSE Mask(stack, n - 1)
  BY <1>1, <1>2, <1>3, <1>4 DEF Lets, MaskLowered, Handler
<1>9. ienable' = alt_irq_active \cap (IF EnablesLowered(f) THEN below(f.id) ELSE Mask(stack, n - 1))
  BY <1>1, <1>2, <1>3, <1>4 DEF Lets, MaskLowered, EnablesLowered, Handler
<1>10. MaskLowered(f) \/ f.pc = "restore_ienable" => f.old = Mask(stack, n - 1)
  BY <1>1, <1>2, <1>3, <1>4 DEF Lets, MaskLowered, Handler
<1> HIDE DEF n, f
<1> QED
  BY <1>2, <1>3, <1>4, <1>5, <1>6, <1>7, <1>8, <1>9, <1>10, ServingStep DEF n

\* alt_irq_interruptible: the mask, the enables, then PIE.
LEMMA LowerMaskStep ==
  ASSUME IInv, LowerMask
  PROVE  IInv'
<1> DEFINE n == Len(stack)
           f == [top EXCEPT !.pc = "lower_ienable", !.old = alt_priority_mask]
<1>1. top.pc = "lower_mask"
  BY DEF LowerMask, At
<1>2. /\ n \in Nat /\ n > 1 /\ top \in Frames /\ Handler(top) /\ Types
      /\ alt_priority_mask = IF MaskLowered(top) THEN below(top.id) ELSE Mask(stack, n - 1)
      /\ ienable = alt_irq_active \cap (IF EnablesLowered(top) THEN below(top.id)
                                                             ELSE Mask(stack, n - 1))
      /\ pie = Lets(top)
      /\ MaskLowered(top) \/ top.pc = "restore_ienable" => top.old = Mask(stack, n - 1)
  BY <1>1, ServingFrame DEF HandlerPlaces
<1>3. /\ Top(f) /\ UNCHANGED <<alt_irq, alt_irq_active, alt_instruction_exception_handler>>
      /\ UNCHANGED <<pie, ienable, irq>> /\ alt_priority_mask' = below(top.id)
  BY <1>1 DEF LowerMask, Goto, tables, masks, restored
<1>4. /\ f \in Frames /\ f.status = top.status /\ f.id = top.id
      /\ f.pc = "lower_ienable"
      /\ f.old = alt_priority_mask /\ f.fault = top.fault
  BY <1>1, <1>2 DEF Frames, HandlerPlaces, Types
<1>5. Handler(f) /\ top.pc \notin Excepted /\ f.pc \notin Unserved /\ f.pc # "isr"
  BY <1>1, <1>2, <1>4 DEF Handler, HandlerPlaces, Unserved, Excepted
<1>6. Types'
  BY <1>2, <1>3 DEF Types, below
<1>7. pie' = Lets(f)
  BY <1>1, <1>2, <1>3, <1>4 DEF Lets, Handler
<1>8. alt_priority_mask' = IF MaskLowered(f) THEN below(f.id) ELSE Mask(stack, n - 1)
  BY <1>1, <1>2, <1>3, <1>4 DEF Lets, MaskLowered, Handler
<1>9. ienable' = alt_irq_active \cap (IF EnablesLowered(f) THEN below(f.id) ELSE Mask(stack, n - 1))
  BY <1>1, <1>2, <1>3, <1>4 DEF Lets, MaskLowered, EnablesLowered, Handler
<1>10. MaskLowered(f) \/ f.pc = "restore_ienable" => f.old = Mask(stack, n - 1)
  BY <1>1, <1>2, <1>3, <1>4 DEF Lets, MaskLowered, Handler
<1> HIDE DEF n, f
<1> QED
  BY <1>2, <1>3, <1>4, <1>5, <1>6, <1>7, <1>8, <1>9, <1>10, ServingStep DEF n

\* The enables.
LEMMA LowerIenableStep ==
  ASSUME IInv, LowerIenable
  PROVE  IInv'
<1> DEFINE n == Len(stack)
           f == [top EXCEPT !.pc = "open"]
<1>1. top.pc = "lower_ienable"
  BY DEF LowerIenable, At
<1>2. /\ n \in Nat /\ n > 1 /\ top \in Frames /\ Handler(top) /\ Types
      /\ alt_priority_mask = IF MaskLowered(top) THEN below(top.id) ELSE Mask(stack, n - 1)
      /\ ienable = alt_irq_active \cap (IF EnablesLowered(top) THEN below(top.id)
                                                             ELSE Mask(stack, n - 1))
      /\ pie = Lets(top)
      /\ MaskLowered(top) \/ top.pc = "restore_ienable" => top.old = Mask(stack, n - 1)
  BY <1>1, ServingFrame DEF HandlerPlaces
<1>3. /\ Top(f) /\ UNCHANGED <<alt_irq, alt_irq_active, alt_instruction_exception_handler>>
      /\ UNCHANGED <<pie, irq, alt_priority_mask>> /\ ienable' = alt_irq_active \cap alt_priority_mask
  BY <1>1 DEF LowerIenable, Goto, tables, masks, restored
<1>4. /\ f \in Frames /\ f.status = top.status /\ f.id = top.id
      /\ f.pc = "open"
      /\ f.old = top.old /\ f.fault = top.fault
  BY <1>1, <1>2 DEF Frames, HandlerPlaces
<1>5. Handler(f) /\ top.pc \notin Excepted /\ f.pc \notin Unserved /\ f.pc # "isr"
  BY <1>1, <1>2, <1>4 DEF Handler, HandlerPlaces, Unserved, Excepted
<1>6. Types'
  BY <1>2, <1>3 DEF Types, below
<1>7. pie' = Lets(f)
  BY <1>1, <1>2, <1>3, <1>4 DEF Lets, Handler
<1>8. alt_priority_mask' = IF MaskLowered(f) THEN below(f.id) ELSE Mask(stack, n - 1)
  BY <1>1, <1>2, <1>3, <1>4 DEF Lets, MaskLowered, Handler
<1>9. ienable' = alt_irq_active \cap (IF EnablesLowered(f) THEN below(f.id) ELSE Mask(stack, n - 1))
  BY <1>1, <1>2, <1>3, <1>4 DEF Lets, MaskLowered, EnablesLowered, Handler
<1>10. MaskLowered(f) \/ f.pc = "restore_ienable" => f.old = Mask(stack, n - 1)
  BY <1>1, <1>2, <1>3, <1>4 DEF Lets, MaskLowered, Handler
<1> HIDE DEF n, f
<1> QED
  BY <1>2, <1>3, <1>4, <1>5, <1>6, <1>7, <1>8, <1>9, <1>10, ServingStep DEF n

\* PIE.
LEMMA OpenStep ==
  ASSUME IInv, Open
  PROVE  IInv'
<1> DEFINE n == Len(stack)
           f == [top EXCEPT !.pc = "body"]
<1>1. top.pc = "open"
  BY DEF Open, At
<1>2. /\ n \in Nat /\ n > 1 /\ top \in Frames /\ Handler(top) /\ Types
      /\ alt_priority_mask = IF MaskLowered(top) THEN below(top.id) ELSE Mask(stack, n - 1)
      /\ ienable = alt_irq_active \cap (IF EnablesLowered(top) THEN below(top.id)
                                                             ELSE Mask(stack, n - 1))
      /\ pie = Lets(top)
      /\ MaskLowered(top) \/ top.pc = "restore_ienable" => top.old = Mask(stack, n - 1)
  BY <1>1, ServingFrame DEF HandlerPlaces
<1>3. /\ Top(f) /\ UNCHANGED <<alt_irq, alt_irq_active, alt_instruction_exception_handler>>
      /\ UNCHANGED <<ienable, irq, alt_priority_mask>> /\ pie' = TRUE
  BY <1>1 DEF Open, Goto, tables, masks, restored
<1>4. /\ f \in Frames /\ f.status = top.status /\ f.id = top.id
      /\ f.pc = "body"
      /\ f.old = top.old /\ f.fault = top.fault
  BY <1>1, <1>2 DEF Frames, HandlerPlaces
<1>5. Handler(f) /\ top.pc \notin Excepted /\ f.pc \notin Unserved /\ f.pc # "isr"
  BY <1>1, <1>2, <1>4 DEF Handler, HandlerPlaces, Unserved, Excepted
<1>6. Types'
  BY <1>2, <1>3 DEF Types, below
<1>7. pie' = Lets(f)
  BY <1>1, <1>2, <1>3, <1>4 DEF Lets, Handler
<1>8. alt_priority_mask' = IF MaskLowered(f) THEN below(f.id) ELSE Mask(stack, n - 1)
  BY <1>1, <1>2, <1>3, <1>4 DEF Lets, MaskLowered, Handler
<1>9. ienable' = alt_irq_active \cap (IF EnablesLowered(f) THEN below(f.id) ELSE Mask(stack, n - 1))
  BY <1>1, <1>2, <1>3, <1>4 DEF Lets, MaskLowered, EnablesLowered, Handler
<1>10. MaskLowered(f) \/ f.pc = "restore_ienable" => f.old = Mask(stack, n - 1)
  BY <1>1, <1>2, <1>3, <1>4 DEF Lets, MaskLowered, Handler
<1> HIDE DEF n, f
<1> QED
  BY <1>2, <1>3, <1>4, <1>5, <1>6, <1>7, <1>8, <1>9, <1>10, ServingStep DEF n

\* The handler serves its device.
LEMMA BodyStep ==
  ASSUME IInv, Body
  PROVE  IInv'
<1> DEFINE n == Len(stack)
           f == [top EXCEPT !.pc = (IF top.id \in Nested THEN "close" ELSE "again"), !.fault = "none"]
<1>1. top.pc = "body"
  BY DEF Body, At
<1>2. /\ n \in Nat /\ n > 1 /\ top \in Frames /\ Handler(top) /\ Types
      /\ alt_priority_mask = IF MaskLowered(top) THEN below(top.id) ELSE Mask(stack, n - 1)
      /\ ienable = alt_irq_active \cap (IF EnablesLowered(top) THEN below(top.id)
                                                             ELSE Mask(stack, n - 1))
      /\ pie = Lets(top)
      /\ MaskLowered(top) \/ top.pc = "restore_ienable" => top.old = Mask(stack, n - 1)
  BY <1>1, ServingFrame DEF HandlerPlaces
<1>3. /\ Top(f) /\ UNCHANGED <<alt_irq, alt_irq_active, alt_instruction_exception_handler>>
      /\ UNCHANGED <<pie, ienable, alt_priority_mask>> /\ irq' = irq \ {top.id}
  BY <1>1 DEF Body, Goto, tables, masks, restored
<1>4. /\ f \in Frames /\ f.status = top.status /\ f.id = top.id
      /\ f.pc = IF top.id \in Nested THEN "close" ELSE "again"
      /\ f.old = top.old /\ f.fault = "none"
  BY <1>1, <1>2 DEF Frames, HandlerPlaces
<1>5. Handler(f) /\ top.pc \notin Excepted /\ f.pc \notin Unserved /\ f.pc # "isr"
  BY <1>1, <1>2, <1>4 DEF Handler, HandlerPlaces, Unserved, Excepted
<1>6. Types'
  BY <1>2, <1>3 DEF Types, below
<1>7. pie' = Lets(f)
  BY <1>1, <1>2, <1>3, <1>4 DEF Lets, Handler
<1>8. alt_priority_mask' = IF MaskLowered(f) THEN below(f.id) ELSE Mask(stack, n - 1)
  BY <1>1, <1>2, <1>3, <1>4 DEF Lets, MaskLowered, Handler
<1>9. ienable' = alt_irq_active \cap (IF EnablesLowered(f) THEN below(f.id) ELSE Mask(stack, n - 1))
  BY <1>1, <1>2, <1>3, <1>4 DEF Lets, MaskLowered, EnablesLowered, Handler
<1>10. MaskLowered(f) \/ f.pc = "restore_ienable" => f.old = Mask(stack, n - 1)
  BY <1>1, <1>2, <1>3, <1>4 DEF Lets, MaskLowered, Handler
<1> HIDE DEF n, f
<1> QED
  BY <1>2, <1>3, <1>4, <1>5, <1>6, <1>7, <1>8, <1>9, <1>10, ServingStep DEF n

\* alt_irq_non_interruptible: PIE, the mask, then the enables.
LEMMA CloseStep ==
  ASSUME IInv, Close
  PROVE  IInv'
<1> DEFINE n == Len(stack)
           f == [top EXCEPT !.pc = "restore_mask"]
<1>1. top.pc = "close"
  BY DEF Close, At
<1>2. /\ n \in Nat /\ n > 1 /\ top \in Frames /\ Handler(top) /\ Types
      /\ alt_priority_mask = IF MaskLowered(top) THEN below(top.id) ELSE Mask(stack, n - 1)
      /\ ienable = alt_irq_active \cap (IF EnablesLowered(top) THEN below(top.id)
                                                             ELSE Mask(stack, n - 1))
      /\ pie = Lets(top)
      /\ MaskLowered(top) \/ top.pc = "restore_ienable" => top.old = Mask(stack, n - 1)
  BY <1>1, ServingFrame DEF HandlerPlaces
<1>3. /\ Top(f) /\ UNCHANGED <<alt_irq, alt_irq_active, alt_instruction_exception_handler>>
      /\ UNCHANGED <<ienable, irq, alt_priority_mask>> /\ pie' = FALSE
  BY <1>1 DEF Close, Goto, tables, masks, restored
<1>4. /\ f \in Frames /\ f.status = top.status /\ f.id = top.id
      /\ f.pc = "restore_mask"
      /\ f.old = top.old /\ f.fault = top.fault
  BY <1>1, <1>2 DEF Frames, HandlerPlaces
<1>5. Handler(f) /\ top.pc \notin Excepted /\ f.pc \notin Unserved /\ f.pc # "isr"
  BY <1>1, <1>2, <1>4 DEF Handler, HandlerPlaces, Unserved, Excepted
<1>6. Types'
  BY <1>2, <1>3 DEF Types, below
<1>7. pie' = Lets(f)
  BY <1>1, <1>2, <1>3, <1>4 DEF Lets, Handler
<1>8. alt_priority_mask' = IF MaskLowered(f) THEN below(f.id) ELSE Mask(stack, n - 1)
  BY <1>1, <1>2, <1>3, <1>4 DEF Lets, MaskLowered, Handler
<1>9. ienable' = alt_irq_active \cap (IF EnablesLowered(f) THEN below(f.id) ELSE Mask(stack, n - 1))
  BY <1>1, <1>2, <1>3, <1>4 DEF Lets, MaskLowered, EnablesLowered, Handler
<1>10. MaskLowered(f) \/ f.pc = "restore_ienable" => f.old = Mask(stack, n - 1)
  BY <1>1, <1>2, <1>3, <1>4 DEF Lets, MaskLowered, Handler
<1> HIDE DEF n, f
<1> QED
  BY <1>2, <1>3, <1>4, <1>5, <1>6, <1>7, <1>8, <1>9, <1>10, ServingStep DEF n

\* The mask the handler was entered with.
LEMMA RestoreMaskStep ==
  ASSUME IInv, RestoreMask
  PROVE  IInv'
<1> DEFINE n == Len(stack)
           f == [top EXCEPT !.pc = "restore_ienable"]
<1>1. top.pc = "restore_mask"
  BY DEF RestoreMask, At
<1>2. /\ n \in Nat /\ n > 1 /\ top \in Frames /\ Handler(top) /\ Types
      /\ alt_priority_mask = IF MaskLowered(top) THEN below(top.id) ELSE Mask(stack, n - 1)
      /\ ienable = alt_irq_active \cap (IF EnablesLowered(top) THEN below(top.id)
                                                             ELSE Mask(stack, n - 1))
      /\ pie = Lets(top)
      /\ MaskLowered(top) \/ top.pc = "restore_ienable" => top.old = Mask(stack, n - 1)
  BY <1>1, ServingFrame DEF HandlerPlaces
<1>3. /\ Top(f) /\ UNCHANGED <<alt_irq, alt_irq_active, alt_instruction_exception_handler>>
      /\ UNCHANGED <<pie, ienable, irq>> /\ alt_priority_mask' = top.old
  BY <1>1 DEF RestoreMask, Goto, tables, masks, restored
<1>4. /\ f \in Frames /\ f.status = top.status /\ f.id = top.id
      /\ f.pc = "restore_ienable"
      /\ f.old = top.old /\ f.fault = top.fault
  BY <1>1, <1>2 DEF Frames, HandlerPlaces
<1>5. Handler(f) /\ top.pc \notin Excepted /\ f.pc \notin Unserved /\ f.pc # "isr"
  BY <1>1, <1>2, <1>4 DEF Handler, HandlerPlaces, Unserved, Excepted
<1>6. Types'
  BY <1>2, <1>3, <1>1 DEF Frames, Types
<1>7. pie' = Lets(f)
  BY <1>1, <1>2, <1>3, <1>4 DEF Lets, Handler
<1>8. alt_priority_mask' = IF MaskLowered(f) THEN below(f.id) ELSE Mask(stack, n - 1)
  BY <1>1, <1>2, <1>3, <1>4 DEF Lets, MaskLowered, Handler
<1>9. ienable' = alt_irq_active \cap (IF EnablesLowered(f) THEN below(f.id) ELSE Mask(stack, n - 1))
  BY <1>1, <1>2, <1>3, <1>4 DEF Lets, MaskLowered, EnablesLowered, Handler
<1>10. MaskLowered(f) \/ f.pc = "restore_ienable" => f.old = Mask(stack, n - 1)
  BY <1>1, <1>2, <1>3, <1>4 DEF Lets, MaskLowered, Handler
<1> HIDE DEF n, f
<1> QED
  BY <1>2, <1>3, <1>4, <1>5, <1>6, <1>7, <1>8, <1>9, <1>10, ServingStep DEF n

\* Its enables.
LEMMA RestoreIenableStep ==
  ASSUME IInv, RestoreIenable
  PROVE  IInv'
<1> DEFINE n == Len(stack)
           f == [top EXCEPT !.pc = "again"]
<1>1. top.pc = "restore_ienable"
  BY DEF RestoreIenable, At
<1>2. /\ n \in Nat /\ n > 1 /\ top \in Frames /\ Handler(top) /\ Types
      /\ alt_priority_mask = IF MaskLowered(top) THEN below(top.id) ELSE Mask(stack, n - 1)
      /\ ienable = alt_irq_active \cap (IF EnablesLowered(top) THEN below(top.id)
                                                             ELSE Mask(stack, n - 1))
      /\ pie = Lets(top)
      /\ MaskLowered(top) \/ top.pc = "restore_ienable" => top.old = Mask(stack, n - 1)
  BY <1>1, ServingFrame DEF HandlerPlaces
<1>3. /\ Top(f) /\ UNCHANGED <<alt_irq, alt_irq_active, alt_instruction_exception_handler>>
      /\ UNCHANGED <<pie, irq, alt_priority_mask>> /\ ienable' = top.old \cap alt_irq_active
  BY <1>1 DEF RestoreIenable, Goto, tables, masks, restored
<1>4. /\ f \in Frames /\ f.status = top.status /\ f.id = top.id
      /\ f.pc = "again"
      /\ f.old = top.old /\ f.fault = top.fault
  BY <1>1, <1>2 DEF Frames, HandlerPlaces
<1>5. Handler(f) /\ top.pc \notin Excepted /\ f.pc \notin Unserved /\ f.pc # "isr"
  BY <1>1, <1>2, <1>4 DEF Handler, HandlerPlaces, Unserved, Excepted
<1>6. Types'
  BY <1>2, <1>3 DEF Types, below
<1>7. pie' = Lets(f)
  BY <1>1, <1>2, <1>3, <1>4 DEF Lets, Handler
<1>8. alt_priority_mask' = IF MaskLowered(f) THEN below(f.id) ELSE Mask(stack, n - 1)
  BY <1>1, <1>2, <1>3, <1>4 DEF Lets, MaskLowered, Handler
<1>9. ienable' = alt_irq_active \cap (IF EnablesLowered(f) THEN below(f.id) ELSE Mask(stack, n - 1))
  BY <1>1, <1>2, <1>3, <1>4 DEF Lets, MaskLowered, EnablesLowered, Handler
<1>10. MaskLowered(f) \/ f.pc = "restore_ienable" => f.old = Mask(stack, n - 1)
  BY <1>1, <1>2, <1>3, <1>4 DEF Lets, MaskLowered, Handler
<1> HIDE DEF n, f
<1> QED
  BY <1>2, <1>3, <1>4, <1>5, <1>6, <1>7, <1>8, <1>9, <1>10, ServingStep DEF n

\* Interrupts are numbers.
LEMMA Numbers == \A i \in Irqs \cup Nested : i \in Nat /\ i # -1 /\ i \in Irqs
<1>1. Irqs \subseteq Nat /\ Nested \subseteq Irqs
  BY IrqAssumption DEF Irqs
<1> QED
  BY <1>1

\* The frames below one that is about to serve are of handlers that let more
\* important interrupts in, and no others.
LEMMA MaskIsHigher ==
  ASSUME IInv, NEW n, n = Len(stack), n > 1, top.pc \in HandlerPlaces, top.pc \notin Excepted,
         NEW i \in Mask(stack, n - 1)
  PROVE  \A j \in 2..(n - 1) : stack[j].id # -1 => i < stack[j].id
<1>1. n \in Nat /\ top = stack[n] /\ Below(stack, n - 1) /\ Shape(stack)
  BY ServingFrame, Places
<1>2. CASE n = 2
  BY <1>1, <1>2
<1>3. CASE n > 2
  <2>1. stack[n - 1].id \in Nested /\ n - 1 \in 2..n
    BY <1>1, <1>3 DEF Below
  <2>2. i \in below(stack[n - 1].id)
    BY <1>3, <2>1 DEF Mask
  <2>3. i < stack[n - 1].id /\ i \in Int
    BY <2>2 DEF below, Irqs
  <2>4. stack[n - 1].id \in Int /\ stack[n - 1].id # -1
    BY <2>1, Numbers
  <2>5. ASSUME NEW j \in 2..(n - 1), stack[j].id # -1 PROVE i < stack[j].id
    <3>1. CASE j = n - 1
      BY <2>3, <3>1
    <3>2. CASE j < n - 1
      <4>1. Higher(stack, j, n - 1)
        BY <1>1, <2>1 DEF Shape
      <4>2. stack[n - 1].id < stack[j].id
        BY <2>4, <2>5, <3>2, <4>1 DEF Higher
      <4>3. stack[j] \in Frames
        BY <1>1 DEF Shape
      <4>4. stack[j].id \in Int
        BY <4>3, IrqAssumption DEF Frames, Irqs
      <4> QED
        BY <2>3, <2>4, <4>2, <4>4
    <3> QED
      BY <1>1, <3>1, <3>2
  <2> QED
    BY <2>5
<1> QED
  BY <1>1, <1>2, <1>3

\* An interrupt that is pending is active and let through.
LEMMA LeastPending ==
  ASSUME IInv, NEW n, n = Len(stack), top.pc \in {"pending", "again"}, alt_irq_pending # {}
  PROVE  /\ least(alt_irq_pending) \in Irqs /\ least(alt_irq_pending) # -1
         /\ alt_irq[least(alt_irq_pending)] = Entry
         /\ \A j \in 2..(n - 1) : stack[j].id # -1 => least(alt_irq_pending) < stack[j].id
<1>1. /\ n > 1 /\ top = stack[n] /\ Types /\ Handler(top) /\ n \in Nat
      /\ ienable = alt_irq_active \cap (IF EnablesLowered(top) THEN below(top.id)
                                                             ELSE Mask(stack, n - 1))
  BY ServingFrame DEF HandlerPlaces
<1>2. ~EnablesLowered(top)
  BY DEF EnablesLowered, Lets
<1>3. alt_irq_pending \subseteq Mask(stack, n - 1) /\ alt_irq_pending \subseteq alt_irq_active
      /\ alt_irq_pending \subseteq Irqs
  BY <1>1, <1>2 DEF alt_irq_pending, Types
<1>4. least(alt_irq_pending) \in alt_irq_pending
  <2>1. alt_irq_pending \subseteq Nat
    BY <1>3 DEF Irqs
  <2> QED
    BY <2>1, Least
<1>5. least(alt_irq_pending) \in Irqs /\ least(alt_irq_pending) # -1
  BY <1>3, <1>4, Numbers
<1>6. \A j \in 2..(n - 1) : stack[j].id # -1 => least(alt_irq_pending) < stack[j].id
  <2>1. top.pc \notin Excepted /\ top.pc \in HandlerPlaces
    BY DEF Excepted, HandlerPlaces
  <2>2. least(alt_irq_pending) \in Mask(stack, n - 1)
    BY <1>3, <1>4
  <2> HIDE DEF least, alt_irq_pending
  <2> QED
    BY <1>1, <2>1, <2>2, MaskIsHigher
<1>7. alt_irq[least(alt_irq_pending)] = Entry
  <2>1. TablesWhole(alt_irq, alt_irq_active, stack[1])
    BY DEF IInv
  <2>2. stack[1].pc \in {"idle", "read", "off"}
    <3>1. Below(stack, 1)
      BY <1>1, Places DEF Shape
    <3> QED
      BY <3>1 DEF Below
  <2>3. least(alt_irq_pending) \in alt_irq_active
    BY <1>3, <1>4
  <2> QED
    BY <2>1, <2>2, <2>3 DEF TablesWhole
<1> QED
  BY <1>5, <1>6, <1>7

\* The common entry finds the reason.
LEMMA EnterStep ==
  ASSUME IInv, Enter
  PROVE  IInv'
<1> DEFINE n == Len(stack)
           f == [top EXCEPT !.pc = IF Dispatches THEN "pending" ELSE "exception"]
<1>1. top.pc = "entry"
  BY DEF Enter, At
<1>2. /\ n \in Nat /\ n > 1 /\ top = stack[n] /\ top \in Frames /\ Handler(top) /\ Types
      /\ alt_priority_mask = IF MaskLowered(top) THEN below(top.id) ELSE Mask(stack, n - 1)
      /\ ienable = alt_irq_active \cap (IF EnablesLowered(top) THEN below(top.id)
                                                             ELSE Mask(stack, n - 1))
      /\ pie = Lets(top)
      /\ stack[n - 1].fault = "raised" \/ (top.status /\ irq \cap ienable # {})
  BY <1>1, ServingFrame DEF HandlerPlaces
<1>3. Top(f) /\ UNCHANGED <<pie, ienable, irq, tables, masks>>
  BY DEF Enter, Goto
<1>4. /\ f \in Frames /\ f.status = top.status /\ f.fault = "none"
      /\ f.id = top.id /\ f.pc = IF Dispatches THEN "pending" ELSE "exception"
  BY <1>1, <1>2 DEF Frames, HandlerPlaces, Handler, Unserved, Frame, Calls
<1>5. Handler(f)
  BY <1>1, <1>2, <1>4 DEF Handler, HandlerPlaces, Unserved
<1>6. Types' /\ UNCHANGED <<alt_irq, alt_irq_active>>
  BY <1>2, <1>3 DEF Types, tables, masks
<1>7. ~MaskLowered(f) /\ ~EnablesLowered(f) /\ f.pc # "restore_ienable" /\ Lets(f) = FALSE
  BY <1>4 DEF MaskLowered, EnablesLowered, Lets
<1>8. ~MaskLowered(top) /\ ~EnablesLowered(top) /\ Lets(top) = FALSE
  BY <1>1 DEF MaskLowered, EnablesLowered, Lets
<1>9. /\ alt_priority_mask' = IF MaskLowered(f) THEN below(f.id) ELSE Mask(stack, n - 1)
      /\ ienable' = alt_irq_active \cap (IF EnablesLowered(f) THEN below(f.id)
                                                              ELSE Mask(stack, n - 1))
      /\ pie' = Lets(f)
  BY <1>2, <1>3, <1>7, <1>8 DEF masks
<1>10. f.id = -1 \/ f.id = top.id \/ (\A j \in 2..(n - 1) : stack[j].id # -1 => f.id < stack[j].id)
  BY <1>4
<1>11. top.pc \in Excepted => f.pc \in Excepted \/ f.status
  BY <1>4, <1>2 DEF Excepted, Dispatches
<1>12. /\ f.pc = "entry" => stack[n - 1].fault = "raised" \/ (f.status /\ irq' \cap ienable' # {})
       /\ f.pc \in {"exception", "hung"} => stack[n - 1].fault = "raised"
       /\ f.pc = "pending" => irq' \cap ienable' # {}
       /\ f.pc = "isr" => alt_irq[f.id] = Entry
  BY <1>2, <1>3, <1>4 DEF Dispatches, alt_irq_pending
<1> HIDE DEF n, f
<1> QED
  BY <1>2, <1>3, <1>4, <1>5, <1>6, <1>7, <1>9, <1>10, <1>11, <1>12, HandlerStep DEF n

\* An exception without a handler.
LEMMA ExceptionHungStep ==
  ASSUME IInv, NEW skips \in BOOLEAN, Exception(skips), ~alt_instruction_exception_handler
  PROVE  IInv'
<1> DEFINE n == Len(stack)
           f == [top EXCEPT !.pc = "hung"]
<1>1. top.pc = "exception"
  BY DEF Exception, At
<1>2. /\ n \in Nat /\ n > 1 /\ top = stack[n] /\ top \in Frames /\ Handler(top) /\ Types
      /\ alt_priority_mask = IF MaskLowered(top) THEN below(top.id) ELSE Mask(stack, n - 1)
      /\ ienable = alt_irq_active \cap (IF EnablesLowered(top) THEN below(top.id)
                                                             ELSE Mask(stack, n - 1))
      /\ pie = Lets(top)
      /\ stack[n - 1].fault = "raised"
  BY <1>1, ServingFrame DEF HandlerPlaces
<1>3. Top(f) /\ UNCHANGED <<pie, ienable, irq, tables, masks>>
  BY DEF Exception, Goto
<1>4. /\ f \in Frames /\ f.status = top.status /\ f.fault = "none"
      /\ f.id = top.id /\ f.pc = "hung"
  BY <1>1, <1>2 DEF Frames, HandlerPlaces, Handler, Unserved, Frame, Calls
<1>5. Handler(f)
  BY <1>1, <1>2, <1>4 DEF Handler, HandlerPlaces, Unserved
<1>6. Types' /\ UNCHANGED <<alt_irq, alt_irq_active>>
  BY <1>2, <1>3 DEF Types, tables, masks
<1>7. ~MaskLowered(f) /\ ~EnablesLowered(f) /\ f.pc # "restore_ienable" /\ Lets(f) = FALSE
  BY <1>4 DEF MaskLowered, EnablesLowered, Lets
<1>8. ~MaskLowered(top) /\ ~EnablesLowered(top) /\ Lets(top) = FALSE
  BY <1>1 DEF MaskLowered, EnablesLowered, Lets
<1>9. /\ alt_priority_mask' = IF MaskLowered(f) THEN below(f.id) ELSE Mask(stack, n - 1)
      /\ ienable' = alt_irq_active \cap (IF EnablesLowered(f) THEN below(f.id)
                                                              ELSE Mask(stack, n - 1))
      /\ pie' = Lets(f)
  BY <1>2, <1>3, <1>7, <1>8 DEF masks
<1>10. f.id = -1 \/ f.id = top.id \/ (\A j \in 2..(n - 1) : stack[j].id # -1 => f.id < stack[j].id)
  BY <1>4
<1>11. top.pc \in Excepted => f.pc \in Excepted \/ f.status
  BY <1>4 DEF Excepted
<1>12. /\ f.pc = "entry" => stack[n - 1].fault = "raised" \/ (f.status /\ irq' \cap ienable' # {})
       /\ f.pc \in {"exception", "hung"} => stack[n - 1].fault = "raised"
       /\ f.pc = "pending" => irq' \cap ienable' # {}
       /\ f.pc = "isr" => alt_irq[f.id] = Entry
  BY <1>2, <1>4
<1> HIDE DEF n, f
<1> QED
  BY <1>2, <1>3, <1>4, <1>5, <1>6, <1>7, <1>9, <1>10, <1>11, <1>12, HandlerStep DEF n

\* The dispatch loop takes its first interrupt.
LEMMA PendingStep ==
  ASSUME IInv, Pending
  PROVE  IInv'
<1> DEFINE n == Len(stack)
           f == [top EXCEPT !.pc = "isr", !.id = least(alt_irq_pending)]
<1>1. top.pc = "pending"
  BY DEF Pending, At
<1>2. /\ n \in Nat /\ n > 1 /\ top = stack[n] /\ top \in Frames /\ Handler(top) /\ Types
      /\ alt_priority_mask = IF MaskLowered(top) THEN below(top.id) ELSE Mask(stack, n - 1)
      /\ ienable = alt_irq_active \cap (IF EnablesLowered(top) THEN below(top.id)
                                                             ELSE Mask(stack, n - 1))
      /\ pie = Lets(top)
      /\ irq \cap ienable # {}
  BY <1>1, ServingFrame DEF HandlerPlaces
<1>0. /\ least(alt_irq_pending) \in Irqs /\ least(alt_irq_pending) # -1
      /\ alt_irq[least(alt_irq_pending)] = Entry
      /\ \A j \in 2..(n - 1) : stack[j].id # -1 => least(alt_irq_pending) < stack[j].id
  BY <1>1, <1>2, LeastPending DEF alt_irq_pending
<1>3. Top(f) /\ UNCHANGED <<pie, ienable, irq, tables, masks>>
  BY <1>2 DEF Pending, alt_irq_pending
<1>4. /\ f \in Frames /\ f.status = top.status /\ f.fault = "none"
      /\ f.id = least(alt_irq_pending) /\ f.pc = "isr"
  BY <1>1, <1>2, <1>0 DEF Frames, HandlerPlaces, Handler, Unserved, Frame, Calls
<1>5. Handler(f)
  BY <1>1, <1>2, <1>4, <1>0 DEF Handler, HandlerPlaces, Unserved
<1>6. Types' /\ UNCHANGED <<alt_irq, alt_irq_active>>
  BY <1>2, <1>3 DEF Types, tables, masks
<1>7. ~MaskLowered(f) /\ ~EnablesLowered(f) /\ f.pc # "restore_ienable" /\ Lets(f) = FALSE
  BY <1>4 DEF MaskLowered, EnablesLowered, Lets
<1>8. ~MaskLowered(top) /\ ~EnablesLowered(top) /\ Lets(top) = FALSE
  BY <1>1 DEF MaskLowered, EnablesLowered, Lets
<1>9. /\ alt_priority_mask' = IF MaskLowered(f) THEN below(f.id) ELSE Mask(stack, n - 1)
      /\ ienable' = alt_irq_active \cap (IF EnablesLowered(f) THEN below(f.id)
                                                              ELSE Mask(stack, n - 1))
      /\ pie' = Lets(f)
  BY <1>2, <1>3, <1>7, <1>8 DEF masks
<1>10. f.id = -1 \/ f.id = top.id \/ (\A j \in 2..(n - 1) : stack[j].id # -1 => f.id < stack[j].id)
  BY <1>0, <1>4
<1>11. top.pc \in Excepted => f.pc \in Excepted \/ f.status
  BY <1>1 DEF Excepted
<1>12. /\ f.pc = "entry" => stack[n - 1].fault = "raised" \/ (f.status /\ irq' \cap ienable' # {})
       /\ f.pc \in {"exception", "hung"} => stack[n - 1].fault = "raised"
       /\ f.pc = "pending" => irq' \cap ienable' # {}
       /\ f.pc = "isr" => alt_irq[f.id] = Entry
  BY <1>0, <1>4
<1> HIDE DEF n, f
<1> QED
  BY <1>2, <1>3, <1>4, <1>5, <1>6, <1>7, <1>9, <1>10, <1>11, <1>12, HandlerStep DEF n

\* The dispatch loop takes its next interrupt.
LEMMA AgainStep ==
  ASSUME IInv, Again, alt_irq_pending # {}
  PROVE  IInv'
<1> DEFINE n == Len(stack)
           f == [Frame EXCEPT !.pc = "isr", !.id = least(alt_irq_pending),
                               !.status = top.status]
<1>1. top.pc = "again"
  BY DEF Again, At
<1>2. /\ n \in Nat /\ n > 1 /\ top = stack[n] /\ top \in Frames /\ Handler(top) /\ Types
      /\ alt_priority_mask = IF MaskLowered(top) THEN below(top.id) ELSE Mask(stack, n - 1)
      /\ ienable = alt_irq_active \cap (IF EnablesLowered(top) THEN below(top.id)
                                                             ELSE Mask(stack, n - 1))
      /\ pie = Lets(top)
  BY <1>1, ServingFrame DEF HandlerPlaces
<1>0. /\ least(alt_irq_pending) \in Irqs /\ least(alt_irq_pending) # -1
      /\ alt_irq[least(alt_irq_pending)] = Entry
      /\ \A j \in 2..(n - 1) : stack[j].id # -1 => least(alt_irq_pending) < stack[j].id
  BY <1>1, LeastPending
<1>3. Top(f) /\ UNCHANGED <<pie, ienable, irq, tables, masks>>
  BY DEF Again, Goto
<1>4. /\ f \in Frames /\ f.status = top.status /\ f.fault = "none"
      /\ f.id = least(alt_irq_pending) /\ f.pc = "isr"
  BY <1>1, <1>2, <1>0 DEF Frames, HandlerPlaces, Handler, Unserved, Frame, Calls
<1>5. Handler(f)
  BY <1>1, <1>2, <1>4, <1>0 DEF Handler, HandlerPlaces, Unserved
<1>6. Types' /\ UNCHANGED <<alt_irq, alt_irq_active>>
  BY <1>2, <1>3 DEF Types, tables, masks
<1>7. ~MaskLowered(f) /\ ~EnablesLowered(f) /\ f.pc # "restore_ienable" /\ Lets(f) = FALSE
  BY <1>4 DEF MaskLowered, EnablesLowered, Lets
<1>8. ~MaskLowered(top) /\ ~EnablesLowered(top) /\ Lets(top) = FALSE
  BY <1>1 DEF MaskLowered, EnablesLowered, Lets
<1>9. /\ alt_priority_mask' = IF MaskLowered(f) THEN below(f.id) ELSE Mask(stack, n - 1)
      /\ ienable' = alt_irq_active \cap (IF EnablesLowered(f) THEN below(f.id)
                                                              ELSE Mask(stack, n - 1))
      /\ pie' = Lets(f)
  BY <1>2, <1>3, <1>7, <1>8 DEF masks
<1>10. f.id = -1 \/ f.id = top.id \/ (\A j \in 2..(n - 1) : stack[j].id # -1 => f.id < stack[j].id)
  BY <1>0, <1>4
<1>11. top.pc \in Excepted => f.pc \in Excepted \/ f.status
  BY <1>1 DEF Excepted
<1>12. /\ f.pc = "entry" => stack[n - 1].fault = "raised" \/ (f.status /\ irq' \cap ienable' # {})
       /\ f.pc \in {"exception", "hung"} => stack[n - 1].fault = "raised"
       /\ f.pc = "pending" => irq' \cap ienable' # {}
       /\ f.pc = "isr" => alt_irq[f.id] = Entry
  BY <1>0, <1>4
<1> HIDE DEF n, f
<1> QED
  BY <1>2, <1>3, <1>4, <1>5, <1>6, <1>7, <1>9, <1>10, <1>11, <1>12, HandlerStep DEF n

\* A handler's frame is left: the one below it goes on where it was, perhaps
\* without its exception.
LEMMA ReturnStep ==
  ASSUME IInv, NEW n \in Nat, n = Len(stack), top.pc \in {"exception", "again"},
         NEW m \in Nat, m = n - 1, NEW g \in Frames,
         stack' \in Seq(Frames), Len(stack') = m, stack'[m] = g,
         \A k \in 1..(m - 1) : stack'[k] = stack[k],
         g.pc = stack[m].pc, g.id = stack[m].id, g.old = stack[m].old,
         g.status = stack[m].status, g.call = stack[m].call, g.arg = stack[m].arg,
         g.fault = stack[m].fault \/ g.fault = "none" \/ (m > 1 /\ stack[m].fault = "raised"),
         pie' = top.status, UNCHANGED <<ienable, irq, tables, masks>>
  PROVE  IInv'
<1>1. /\ n > 1 /\ top = stack[n] /\ top \in Frames /\ Types
      /\ alt_priority_mask = IF MaskLowered(top) THEN below(top.id) ELSE Mask(stack, n - 1)
      /\ ienable = alt_irq_active \cap (IF EnablesLowered(top) THEN below(top.id)
                                                             ELSE Mask(stack, n - 1))
      /\ Below(stack, m)
  BY ServingFrame DEF HandlerPlaces
<1>2. Shape(stack) /\ stack \in Seq(Frames) /\ m > 0 /\ n = m + 1
  BY <1>1, Places
<1>3. alt_priority_mask = Mask(stack, m) /\ ienable = alt_irq_active \cap Mask(stack, m)
  <2>1. ~MaskLowered(top) /\ ~EnablesLowered(top)
    BY DEF MaskLowered, EnablesLowered, Lets
  <2> QED
    BY <1>1, <2>1
<1>4. UNCHANGED <<ienable, irq, alt_irq, alt_irq_active, alt_priority_mask,
                  alt_instruction_exception_handler>>
  BY DEF tables, masks
<1>5. Types'
  BY <1>1, <1>4 DEF Types, Frames
<1>6. /\ m = 1 => /\ Program(stack[1]) /\ stack[1].pc \in {"idle", "read", "off"} /\ top.status
      /\ m > 1 => /\ Handler(stack[m]) /\ OldMask(stack, m) /\ stack[m].pc \in {"body", "close"}
                  /\ \/ stack[m].id \in Nested /\ top.status
                     \/ stack[m].id \notin Nested /\ ~top.status
  <2>1. Program(stack[1])
    BY <1>2 DEF Shape
  <2>2. m > 1 => Handler(stack[m]) /\ OldMask(stack, m)
    BY <1>2 DEF Shape
  <2>3. stack[m + 1] = top /\ (m = 1 => stack[2] = top)
    BY <1>1, <1>2
  <2> QED
    BY <1>1, <1>2, <2>1, <2>2, <2>3 DEF Below
<1>7. m = 1 => Program(g)
  BY <1>6 DEF Program
<1>8. m > 1 => Handler(g)
  <2>1. m > 1 => (stack[m].fault # "none" => stack[m].pc = "body")
    BY <1>6 DEF Handler
  <2> QED
    BY <1>6, <2>1 DEF Handler
<1>9. Shape(stack') /\ \A k \in 1..(m - 1) : Mask(stack', k) = Mask(stack, k)
  <2> DEFINE t == SubSeq(stack, 1, m)
  <2>1. t \in Seq(Frames) /\ Len(t) = m /\ \A k \in 1..m : t[k] = stack[k]
    BY <1>2
  <2> HIDE DEF t
  <2>2. Shape(t) /\ \A k \in 1..m : Mask(t, k) = Mask(stack, k)
    BY <1>1, <1>2, <2>1, PoppedShape
  <2>3. t[m] = stack[m] /\ \A k \in 1..(m - 1) : stack'[k] = t[k]
    BY <1>2, <2>1
  <2>4. m > 1 => (MaskLowered(g) \/ g.pc = "restore_ienable" => g.old = Mask(t, m - 1))
    <3>1. m > 1 => Mask(t, m - 1) = Mask(stack, m - 1)
      BY <1>2, <2>2
    <3> QED
      BY <1>6, <3>1 DEF OldMask, MaskLowered, Lets
  <2>5. /\ m > 1 => g.status = t[m].status
        /\ m > 1 => (t[m].pc \in Excepted => g.pc \in Excepted \/ g.status)
        /\ g.id = -1 \/ g.id = t[m].id \/ (\A j \in 2..(m - 1) : t[j].id # -1 => g.id < t[j].id)
    BY <2>3
  <2>6. Shape(stack') /\ \A k \in 1..(m - 1) : Mask(stack', k) = Mask(t, k)
    BY <1>7, <1>8, <2>1, <2>2, <2>3, <2>4, <2>5, Changed
  <2> QED
    BY <2>2, <2>6, <1>2
<1>10. m = 1 => ProgramTop'
  BY <1>3, <1>4, <1>5, <1>6 DEF ProgramTop, Mask, Types
<1>11. ASSUME m > 1 PROVE HandlerTop(stack, m)'
  <2>1. Mask(stack', m - 1) = Mask(stack, m - 1)
    BY <1>2, <1>9, <1>11
  <2>2. g.pc \in {"body", "close"}
    BY <1>6, <1>11
  <2>3. CASE g.id \in Nested
    <3>1. Lets(g) /\ MaskLowered(g) /\ EnablesLowered(g)
      BY <2>2, <2>3 DEF Lets, MaskLowered, EnablesLowered
    <3>2. Mask(stack, m) = below(g.id)
      BY <1>11, <2>3 DEF Mask
    <3>3. pie' = TRUE /\ Lets(g) = TRUE
      BY <1>6, <1>1, <1>11, <2>2, <2>3 DEF Lets, Frames
    <3> QED
      BY <1>3, <1>4, <2>2, <3>1, <3>2, <3>3 DEF HandlerTop
  <2>4. CASE g.id \notin Nested
    <3>1. ~MaskLowered(g) /\ ~EnablesLowered(g) /\ Lets(g) = FALSE
      BY <2>2, <2>4 DEF Lets, MaskLowered, EnablesLowered
    <3>2. Mask(stack, m) = Mask(stack, m - 1)
      <4>1. CASE m = 2
        BY <2>4, <4>1 DEF Mask
      <4>2. CASE m > 2
        <5>1. Below(stack, m - 1)
          BY <1>2, <4>2 DEF Shape
        <5>2. stack[m - 1].id \in Nested
          BY <1>2, <4>2, <5>1 DEF Below
        <5> QED
          BY <2>4, <4>2, <5>2 DEF Mask
      <4> QED
        BY <1>11, <4>1, <4>2
    <3>3. pie' = FALSE
      BY <1>6, <1>1, <1>11, <2>4 DEF Frames
    <3> QED
      BY <1>3, <1>4, <2>1, <2>2, <3>1, <3>2, <3>3 DEF HandlerTop
  <2> QED
    BY <2>3, <2>4
<1>12. TablesWhole(alt_irq', alt_irq_active', stack'[1])
  <2>1. TablesWhole(alt_irq, alt_irq_active, stack[1])
    BY DEF IInv
  <2>2. stack'[1].pc = stack[1].pc /\ stack'[1].call = stack[1].call /\ stack'[1].arg = stack[1].arg
    BY <1>2
  <2> QED
    BY <1>4, <2>1, <2>2 DEF TablesWhole
<1> QED
  BY <1>5, <1>9, <1>10, <1>11, <1>12 DEF IInv

\* The dispatch loop finds none left.
LEMMA AgainReturns ==
  ASSUME IInv, Again, alt_irq_pending = {}
  PROVE  IInv'
<1> DEFINE n == Len(stack)
           m == n - 1
<1>1. top.pc = "again"
  BY DEF Again, At
<1>2. n \in Nat /\ n > 1 /\ stack \in Seq(Frames)
  BY <1>1, Places DEF HandlerPlaces
<1>3. m \in Nat /\ m > 0
  BY <1>2
<1>4. stack' = SubSeq(stack, 1, m) /\ pie' = top.status /\ UNCHANGED <<ienable, irq, tables, masks>>
  BY DEF Again, Popped
<1>5. /\ stack' \in Seq(Frames) /\ Len(stack') = m /\ stack'[m] = stack[m]
      /\ \A k \in 1..(m - 1) : stack'[k] = stack[k]
  BY <1>2, <1>3, <1>4
<1>6. stack[m] \in Frames
  BY <1>2
<1> HIDE DEF m
<1>7. top.pc \in {"exception", "again"} /\ m = n - 1
  BY <1>1 DEF m
<1> HIDE DEF n
<1> QED
  BY <1>2, <1>3, <1>4, <1>5, <1>6, <1>7, ReturnStep DEF n

\* The exception's handler returns.
LEMMA ExceptionReturns ==
  ASSUME IInv, NEW skips \in BOOLEAN, Exception(skips), alt_instruction_exception_handler
  PROVE  IInv'
<1> DEFINE n == Len(stack)
           m == n - 1
           x == IF ~skips THEN stack[m].fault ELSE IF n = 2 THEN "none" ELSE "skipped"
           g == [stack[m] EXCEPT !.fault = x]
<1>1. top.pc = "exception"
  BY DEF Exception, At
<1>2. n \in Nat /\ n > 1 /\ stack \in Seq(Frames) /\ stack[m].fault = "raised"
  BY <1>1, Places, ServingFrame DEF HandlerPlaces
<1>3. m \in Nat /\ m > 0 /\ n = m + 1
  BY <1>2
<1>4. /\ Popped \in Seq(Frames) /\ Len(Popped) = m
      /\ \A k \in 1..m : Popped[k] = stack[k]
  BY <1>2, <1>3 DEF Popped
<1>5. stack' = [Popped EXCEPT ![m] = g]
  <2>1. stack' = [Popped EXCEPT ![m].fault = IF ~skips THEN @ ELSE IF n = 2 THEN "none" ELSE "skipped"]
    BY DEF Exception
  <2>2. Popped[m] = stack[m]
    BY <1>3, <1>4
  <2> QED
    BY <2>1, <2>2
<1>6. pie' = top.status /\ UNCHANGED <<ienable, irq, tables, masks>>
  BY DEF Exception
<1>7. /\ g \in Frames /\ g.pc = stack[m].pc /\ g.id = stack[m].id /\ g.old = stack[m].old
      /\ g.status = stack[m].status /\ g.call = stack[m].call /\ g.arg = stack[m].arg
      /\ g.fault = x
  <2>1. stack[m] \in Frames
    BY <1>2, <1>3
  <2>2. x \in {"none", "raised", "skipped"}
    BY <1>2
  <2> HIDE DEF x, m
  <2> QED
    BY <2>1, <2>2 DEF Frames
<1>8. g.fault = stack[m].fault \/ g.fault = "none" \/ (m > 1 /\ stack[m].fault = "raised")
  <2>1. x = stack[m].fault \/ x = "none" \/ (m > 1 /\ stack[m].fault = "raised")
    BY <1>2, <1>3
  <2> QED
    BY <1>7, <2>1
<1> HIDE DEF g
<1>9. /\ stack' \in Seq(Frames) /\ Len(stack') = m /\ stack'[m] = g
      /\ \A k \in 1..(m - 1) : stack'[k] = stack[k]
  <2> HIDE DEF m
  <2> QED
    BY <1>3, <1>4, <1>5, <1>7
<1>10. top.pc \in {"exception", "again"} /\ m = n - 1
  BY <1>1 DEF m
<1> HIDE DEF m, n
<1> QED
  BY <1>2, <1>3, <1>6, <1>7, <1>8, <1>9, <1>10, ReturnStep DEF n

-----------------------------------------------------------------------------
(* Interrupts are raised and taken.                                        *)

\* A device raises its line.
LEMMA RaiseStep ==
  ASSUME IInv, NEW i \in Irqs, Raise(i)
  PROVE  IInv'
<1>1. irq' = irq \cup {i} /\ UNCHANGED <<pie, ienable, alt_irq, alt_irq_active, alt_priority_mask,
                                        alt_instruction_exception_handler, stack>>
  BY DEF Raise, tables, masks
<1>2. Types'
  BY <1>1 DEF IInv, Types
<1>3. Shape(stack')
  BY <1>1 DEF IInv
<1>4. Len(stack') = 1 => ProgramTop'
  BY <1>1 DEF IInv, ProgramTop
<1>5. Len(stack') > 1 => HandlerTop(stack, Len(stack))'
  <2>1. Len(stack) > 1 => HandlerTop(stack, Len(stack))
    BY DEF IInv
  <2>2. irq \cap ienable # {} => irq' \cap ienable' # {}
    BY <1>1
  <2> QED
    BY <1>1, <2>1, <2>2 DEF HandlerTop, Mask
<1> QED
  BY <1>1, <1>2, <1>3, <1>4, <1>5 DEF IInv

\* The top frame is interrupted, with its fault set or not.
LEMMA EnteredStep ==
  ASSUME IInv, NEW s, Shape(s), Len(s) = Len(stack), NEW n \in Nat, n = Len(stack),
         \A k \in 1..n : Mask(s, k) = Mask(stack, k),
         s[1].pc = stack[1].pc, s[1].call = stack[1].call, s[1].arg = stack[1].arg,
         Entered(s),
         n = 1 => s[1].pc \in {"idle", "read", "off"},
         n > 1 => s[n].pc \in {"body", "close"} /\ s[n].id = top.id /\ s[n].pc = top.pc,
         n > 1 => s[n].id \in Nested \/ s[n].fault = "raised",
         s[n].fault = "raised" \/ (pie /\ irq \cap ienable # {})
  PROVE  IInv'
<1> DEFINE e == [Frame EXCEPT !.pc = "entry", !.status = pie]
<1>1. /\ stack' = Append(s, e) /\ pie' = FALSE
      /\ UNCHANGED <<ienable, irq, alt_irq, alt_irq_active, alt_priority_mask,
                     alt_instruction_exception_handler>>
  BY DEF Entered, tables, masks
<1>2. n > 0 /\ Types /\ s \in Seq(Frames)
  BY Places DEF Shape
<1>3. /\ e \in Frames /\ e.pc = "entry" /\ e.id = -1 /\ e.fault = "none" /\ e.status = pie
  BY <1>2 DEF Frames, HandlerPlaces, Frame, Types
<1> HIDE DEF e
<1>4. /\ stack' \in Seq(Frames) /\ Len(stack') = n + 1 /\ stack'[n + 1] = e
      /\ \A k \in 1..n : stack'[k] = s[k]
  BY <1>1, <1>2, <1>3
<1>5. n = 1 => /\ pie = TRUE /\ alt_priority_mask = Mask(s, n)
               /\ ienable = alt_irq_active \cap Mask(s, n)
  <2>1. n = 1 => ProgramTop
    BY Places
  <2> QED
    BY <1>2, <2>1 DEF ProgramTop, Mask, Types
<1>6. n > 1 => /\ top.pc \in {"body", "close"}
               /\ Below(stack, n - 1) /\ top = stack[n]
               /\ alt_priority_mask = IF MaskLowered(top) THEN below(top.id) ELSE Mask(stack, n - 1)
               /\ ienable = alt_irq_active \cap (IF EnablesLowered(top) THEN below(top.id)
                                                                      ELSE Mask(stack, n - 1))
               /\ pie = Lets(top)
  BY ServingFrame DEF HandlerPlaces
<1>7. n > 1 => /\ pie = (s[n].id \in Nested) /\ alt_priority_mask = Mask(s, n)
               /\ ienable = alt_irq_active \cap Mask(s, n)
  <2> SUFFICES ASSUME n > 1
               PROVE  /\ pie = (s[n].id \in Nested) /\ alt_priority_mask = Mask(s, n)
                      /\ ienable = alt_irq_active \cap Mask(s, n)
    OBVIOUS
  <2>1. Mask(s, n) = Mask(stack, n)
    BY <1>2
  <2>2. CASE top.id \in Nested
    <3>1. Lets(top) /\ Lets(top) = TRUE /\ MaskLowered(top) /\ EnablesLowered(top)
      BY <1>6, <2>2 DEF Lets, MaskLowered, EnablesLowered
    <3>2. Mask(stack, n) = below(top.id)
      BY <1>6, <2>2 DEF Mask
    <3> QED
      BY <1>6, <2>1, <2>2, <3>1, <3>2
  <2>3. CASE top.id \notin Nested
    <3>1. ~MaskLowered(top) /\ ~EnablesLowered(top) /\ Lets(top) = FALSE
      BY <1>6, <2>3 DEF Lets, MaskLowered, EnablesLowered
    <3>2. Mask(stack, n) = Mask(stack, n - 1)
      <4>1. CASE n = 2
        BY <1>6, <2>3, <4>1 DEF Mask
      <4>2. CASE n > 2
        <5>1. stack[n - 1].id \in Nested
          <6>1. \/ stack[n - 1].id \in Nested
                \/ stack[(n - 1) + 1].pc \in Excepted
            BY <1>6, <4>2 DEF Below
          <6>2. stack[(n - 1) + 1] = top
            BY <1>6
          <6> QED
            BY <6>1, <6>2, <1>6 DEF Excepted
        <5> QED
          BY <1>6, <2>3, <4>2, <5>1 DEF Mask
      <4> QED
        BY <4>1, <4>2
    <3>3. (s[n].id \in Nested) = FALSE
      BY <2>3
    <3>4. pie = FALSE
      BY <1>6, <3>1
    <3>5. alt_priority_mask = Mask(stack, n) /\ ienable = alt_irq_active \cap Mask(stack, n)
      BY <1>6, <3>1, <3>2
    <3> QED
      BY <2>1, <3>3, <3>4, <3>5
  <2> QED
    BY <2>2, <2>3
<1>8. Shape(stack') /\ \A k \in 1..n : Mask(stack', k) = Mask(s, k)
  <2>1. n = 1 => s[1].pc \in {"idle", "read", "off"} /\ e.status
    BY <1>3, <1>5
  <2>2. n > 1 => s[n].pc \in {"body", "close"}
    OBVIOUS
  <2>3. n > 1 => \/ s[n].id \in Nested /\ e.status
                 \/ s[n].id \notin Nested /\ s[n].fault = "raised" /\ ~e.status
    BY <1>3, <1>7
  <2> HIDE DEF Mask
  <2> QED
    BY <1>2, <1>3, <1>4, <2>1, <2>2, <2>3, Pushed
<1>9. HandlerTop(stack, Len(stack))'
  <2>1. stack'[(n + 1) - 1] = s[n] /\ Mask(stack', (n + 1) - 1) = Mask(s, n)
    BY <1>2, <1>4, <1>8
  <2>2. ~MaskLowered(e) /\ ~EnablesLowered(e) /\ Lets(e) = FALSE
    BY <1>3 DEF Lets, MaskLowered, EnablesLowered
  <2>3. alt_priority_mask = Mask(s, n) /\ ienable = alt_irq_active \cap Mask(s, n)
    BY <1>2, <1>5, <1>7
  <2>4. s[n].fault = "raised" \/ (e.status /\ irq' \cap ienable' # {})
    BY <1>1, <1>3
  <2> QED
    BY <1>1, <1>3, <1>4, <2>1, <2>2, <2>3, <2>4 DEF HandlerTop
<1>10. TablesWhole(alt_irq', alt_irq_active', stack'[1])
  <2>1. TablesWhole(alt_irq, alt_irq_active, stack[1])
    BY DEF IInv
  <2>2. stack'[1] = s[1]
    BY <1>2, <1>4
  <2> QED
    BY <1>1, <2>1, <2>2 DEF TablesWhole
<1>11. Types'
  BY <1>1, <1>2 DEF Types
<1>12. Len(stack') # 1
  BY <1>2, <1>4
<1> QED
  BY <1>8, <1>9, <1>10, <1>11, <1>12 DEF IInv

\* Where PIE is set.
LEMMA WherePie ==
  ASSUME IInv, pie
  PROVE  /\ Len(stack) = 1 => top.pc \in {"idle", "read", "off"}
         /\ Len(stack) > 1 => top.id \in Nested /\ top.pc \in {"body", "close"}
<1>1. Len(stack) = 1 => ProgramTop /\ top = stack[1]
  BY Places
<1>2. Len(stack) > 1 => pie = Lets(top)
  BY ServingFrame, Places DEF Handler
<1> QED
  BY <1>1, <1>2 DEF ProgramTop, Lets

\* An interrupt is taken.
LEMMA TakeStep ==
  ASSUME IInv, Take
  PROVE  IInv'
<1>1. Entered(stack) /\ pie /\ irq \cap ienable # {}
  BY DEF Take, Interrupted, alt_irq_pending
<1>2. /\ Shape(stack) /\ Len(stack) \in Nat /\ Len(stack) > 0 /\ top = stack[Len(stack)]
  BY Places
<1>3. /\ Len(stack) = 1 => stack[1].pc \in {"idle", "read", "off"}
      /\ Len(stack) > 1 => top.id \in Nested /\ top.pc \in {"body", "close"}
  BY <1>1, <1>2, WherePie
<1> QED
  BY <1>1, <1>2, <1>3, EnteredStep

\* The mask is of the frame's number and the one below.
LEMMA SameMask ==
  ASSUME NEW s, NEW t, NEW k, s[k].id = t[k].id, k # 1 /\ k # 2 => s[k - 1] = t[k - 1]
  PROVE  Mask(s, k) = Mask(t, k)
BY DEF Mask

\* An instruction raises an exception.
LEMMA FaultStep ==
  ASSUME IInv, Fault
  PROVE  IInv'
<1> DEFINE n == Len(stack)
           f == [top EXCEPT !.fault = "raised"]
           s == [stack EXCEPT ![n] = f]
<1>1. n \in Nat /\ n > 0 /\ top = stack[n] /\ top \in Frames /\ Shape(stack) /\ stack \in Seq(Frames)
  BY Places
<1>2. Entered(s)
  <2>1. Entered([stack EXCEPT ![n].fault = "raised"])
    BY DEF Fault
  <2> QED
    BY <1>1, <2>1
<1>3. top.pc \in {"idle", "body"}
  BY DEF Fault
<1>4. /\ f \in Frames /\ f.pc = top.pc /\ f.id = top.id /\ f.old = top.old /\ f.status = top.status
      /\ f.call = top.call /\ f.arg = top.arg /\ f.fault = "raised"
  BY <1>1 DEF Frames
<1>5. (n = 1 => top.pc = "idle" /\ Program(top)) /\ (n > 1 => top.pc = "body" /\ Handler(top))
  <2>1. n = 1 => Program(top)
    BY Places
  <2>2. n > 1 => Handler(top)
    BY Places
  <2> QED
    BY <1>3, <2>1, <2>2 DEF Program, Handler, ProgramPlaces, HandlerPlaces
<1>6. (n = 1 => Program(f)) /\ (n > 1 => Handler(f))
  BY <1>4, <1>5 DEF Program, Handler
<1>7. /\ s \in Seq(Frames) /\ Len(s) = n /\ s[n] = f /\ \A k \in 1..(n - 1) : s[k] = stack[k]
  BY <1>1, <1>4
<1>8. n > 1 => (MaskLowered(f) \/ f.pc = "restore_ienable" => f.old = Mask(stack, n - 1))
  <2>1. n > 1 => OldMask(stack, n)
    BY Places
  <2> QED
    BY <1>1, <1>4, <2>1 DEF OldMask, MaskLowered, Lets
<1> HIDE DEF f, s
<1>9. Shape(s) /\ \A k \in 1..(n - 1) : Mask(s, k) = Mask(stack, k)
  <2>1. /\ f.status = stack[n].status /\ f.id = stack[n].id /\ f.pc = stack[n].pc
    BY <1>1, <1>4
  <2>2. /\ n > 1 => f.status = stack[n].status
        /\ n > 1 => (stack[n].pc \in Excepted => f.pc \in Excepted \/ f.status)
        /\ f.id = -1 \/ f.id = stack[n].id
           \/ (\A j \in 2..(n - 1) : stack[j].id # -1 => f.id < stack[j].id)
    BY <2>1
  <2> QED
    BY <1>1, <1>4, <1>6, <1>7, <1>8, <2>2, Changed
<1>10. \A k \in 1..n : Mask(s, k) = Mask(stack, k)
  <2>1. Mask(s, n) = Mask(stack, n)
    <3>1. s[n].id = stack[n].id
      BY <1>1, <1>4, <1>7
    <3>2. n # 1 /\ n # 2 => s[n - 1] = stack[n - 1]
      BY <1>1, <1>7
    <3> QED
      BY <3>1, <3>2, SameMask
  <2>2. ASSUME NEW k \in 1..n, k # n PROVE Mask(s, k) = Mask(stack, k)
    BY <1>1, <1>9, <2>2
  <2> QED
    BY <2>1, <2>2
<1>11. s[1].pc = stack[1].pc /\ s[1].call = stack[1].call /\ s[1].arg = stack[1].arg
  <2>1. CASE n = 1
    BY <1>1, <1>4, <1>7, <2>1
  <2>2. CASE n > 1
    BY <1>1, <1>7, <2>2
  <2>3. \A m \in Nat : m > 0 => m = 1 \/ m > 1
    OBVIOUS
  <2> QED
    BY <1>1, <2>1, <2>2, <2>3
<1>12. /\ n = 1 => s[1].pc \in {"idle", "read", "off"}
       /\ n > 1 => s[n].pc \in {"body", "close"} /\ s[n].id = top.id /\ s[n].pc = top.pc
       /\ n > 1 => s[n].id \in Nested \/ s[n].fault = "raised"
       /\ s[n].fault = "raised"
  BY <1>1, <1>4, <1>5, <1>7
<1> HIDE DEF n
<1> QED
  BY <1>1, <1>2, <1>7, <1>9, <1>10, <1>11, <1>12, EnteredStep DEF n

-----------------------------------------------------------------------------
(* The program's calls.                                                    *)

\* The program's frame goes on.
LEMMA ProgramStep ==
  ASSUME IInv, Len(stack) = 1, NEW f \in Frames, Program(f), Top(f), Types',
         alt_priority_mask' = Irqs,
         f.pc # "ienable" => ienable' = alt_irq_active',
         pie' = (f.pc \in {"idle", "read", "off"}),
         TablesWhole(alt_irq', alt_irq_active', f)
  PROVE  IInv'
<1>1. Shape(stack) /\ stack \in Seq(Frames) /\ top = stack[1]
  BY Places
<1>2. stack' \in Seq(Frames) /\ Len(stack') = 1 /\ stack'[1] = f
  BY <1>1 DEF Top
<1>3. Shape(stack')
  <2>1. \A k \in 2..Len(stack') : FALSE
    BY <1>2
  <2>2. \A k \in 1..(Len(stack') - 1) : FALSE
    BY <1>2
  <2> QED
    BY <1>2, <2>1, <2>2 DEF Shape
<1>4. ProgramTop'
  BY <1>2 DEF ProgramTop
<1>5. TablesWhole(alt_irq', alt_irq_active', stack'[1])
  BY <1>2
<1>6. ~(Len(stack') > 1)
  BY <1>2
<1> QED
  BY <1>3, <1>4, <1>5, <1>6 DEF IInv

\* The program calls a function of the table.
LEMMA CallStep ==
  ASSUME IInv, NEW fn \in Calls, NEW id \in Irqs \cup Unknown, Call(fn, id)
  PROVE  IInv'
<1> DEFINE f == [top EXCEPT !.pc = "read", !.call = fn, !.arg = id]
<1>1. top.pc = "idle" /\ top.fault # "raised"
  BY DEF Call, At
<1>2. Len(stack) = 1 /\ top = stack[1] /\ top \in Frames /\ Program(top) /\ Types
      /\ ProgramTop /\ TablesWhole(alt_irq, alt_irq_active, top)
  BY <1>1, Places DEF ProgramPlaces
<1>3. /\ Top(f) /\ UNCHANGED <<irq, alt_priority_mask, alt_instruction_exception_handler>>
      /\ UNCHANGED <<pie, ienable, alt_irq, alt_irq_active>>
  BY <1>1 DEF Call, Goto, tables, masks, off
<1>0. id \in Irqs \/ fn \in {"enable", "disable"}
  BY DEF Call
<1>4. f \in Frames /\ f.pc = "read" /\ f.call = fn /\ f.arg = id /\ f.fault = top.fault
      /\ f.id = top.id /\ f.status = top.status
  BY <1>1, <1>2, <1>0 DEF Frames, ProgramPlaces, Calls, Frame, Program, Types
<1>5. Program(f)
  BY <1>1, <1>2, <1>4, <1>0 DEF Program, ProgramPlaces, ProgramTop, Types, Calls
<1>6. Types'
  BY <1>1, <1>2, <1>3 DEF Types
<1>7. /\ alt_priority_mask' = Irqs
      /\ f.pc # "ienable" => ienable' = alt_irq_active'
      /\ pie' = (f.pc \in {"idle", "read", "off"})
  BY <1>1, <1>2, <1>3, <1>4 DEF ProgramTop, Types, Program
<1>8. TablesWhole(alt_irq', alt_irq_active', f)
  <2>1. fn = "enable" /\ id \in Irqs => alt_irq[id] = Entry
    <3>1. fn = "enable" /\ id \in Irqs => alt_irq[id].handler
      BY DEF Call
    <3>2. \A i \in Irqs : alt_irq[i] \in {Entry, NoEntry}
      BY <1>1, <1>2 DEF TablesWhole
    <3>3. ~NoEntry.handler
      BY DEF NoEntry
    <3> QED
      BY <3>1, <3>2, <3>3
  <2> QED
    BY <1>1, <1>2, <1>3, <1>4, <2>1 DEF TablesWhole
<1> HIDE DEF f
<1> QED
  BY <1>2, <1>3, <1>4, <1>5, <1>6, <1>7, <1>8, ProgramStep

\* alt_irq_disable_all.
LEMMA ReadStatusStep ==
  ASSUME IInv, ReadStatus
  PROVE  IInv'
<1> DEFINE f == [top EXCEPT !.pc = "off", !.status = pie]
<1>1. top.pc = "read" /\ top.fault # "raised"
  BY DEF ReadStatus, At
<1>2. Len(stack) = 1 /\ top = stack[1] /\ top \in Frames /\ Program(top) /\ Types
      /\ ProgramTop /\ TablesWhole(alt_irq, alt_irq_active, top)
  BY <1>1, Places DEF ProgramPlaces
<1>3. /\ Top(f) /\ UNCHANGED <<irq, alt_priority_mask, alt_instruction_exception_handler>>
      /\ UNCHANGED <<pie, ienable, alt_irq, alt_irq_active>>
  BY <1>1 DEF ReadStatus, Goto, tables, masks, off
<1>4. f \in Frames /\ f.pc = "off" /\ f.call = top.call /\ f.arg = top.arg /\ f.fault = top.fault
      /\ f.id = top.id /\ f.status = pie
  BY <1>1, <1>2 DEF Frames, ProgramPlaces, Calls, Frame, Program, Types
<1>5. Program(f)
  BY <1>1, <1>2, <1>4 DEF Program, ProgramPlaces, ProgramTop, Types, Calls
<1>6. Types'
  BY <1>1, <1>2, <1>3 DEF Types
<1>7. /\ alt_priority_mask' = Irqs
      /\ f.pc # "ienable" => ienable' = alt_irq_active'
      /\ pie' = (f.pc \in {"idle", "read", "off"})
  BY <1>1, <1>2, <1>3, <1>4 DEF ProgramTop, Types, Program
<1>8. TablesWhole(alt_irq', alt_irq_active', f)
  BY <1>1, <1>2, <1>3, <1>4 DEF TablesWhole, Program
<1> HIDE DEF f
<1> QED
  BY <1>2, <1>3, <1>4, <1>5, <1>6, <1>7, <1>8, ProgramStep

\* Its second half clears PIE.
LEMMA DisableAllStep ==
  ASSUME IInv, DisableAll
  PROVE  IInv'
<1> DEFINE f == [top EXCEPT !.pc = IF top.call \in {"register", "unregister"} THEN "handler" ELSE "active"]
<1>1. top.pc = "off" /\ top.fault # "raised"
  BY DEF DisableAll, At
<1>2. Len(stack) = 1 /\ top = stack[1] /\ top \in Frames /\ Program(top) /\ Types
      /\ ProgramTop /\ TablesWhole(alt_irq, alt_irq_active, top)
  BY <1>1, Places DEF ProgramPlaces
<1>3. /\ Top(f) /\ UNCHANGED <<irq, alt_priority_mask, alt_instruction_exception_handler>>
      /\ UNCHANGED <<ienable, alt_irq, alt_irq_active>> /\ pie' = FALSE
  BY <1>1 DEF DisableAll, Goto, tables, masks, off
<1>4. f \in Frames /\ f.pc = (IF top.call \in {"register", "unregister"} THEN "handler" ELSE "active")
      /\ f.call = top.call /\ f.arg = top.arg /\ f.fault = top.fault /\ f.id = top.id
      /\ f.status = top.status /\ f.pc \in {"handler", "active"}
  BY <1>1, <1>2 DEF Frames, ProgramPlaces, Calls, Frame, Program, Types
<1>5. Program(f)
  BY <1>1, <1>2, <1>4 DEF Program, ProgramPlaces, ProgramTop, Types, Calls
<1>6. Types'
  BY <1>1, <1>2, <1>3 DEF Types
<1>7. /\ alt_priority_mask' = Irqs
      /\ f.pc # "ienable" => ienable' = alt_irq_active'
      /\ pie' = (f.pc \in {"idle", "read", "off"})
  <2>1. (f.pc \in {"idle", "read", "off"}) = FALSE /\ f.pc # "ienable"
    BY <1>4
  <2>2. alt_priority_mask = Irqs /\ ienable = alt_irq_active
    BY <1>1, <1>2 DEF ProgramTop
  <2> HIDE DEF f
  <2> QED
    BY <1>3, <2>1, <2>2
<1>8. TablesWhole(alt_irq', alt_irq_active', f)
  BY <1>1, <1>2, <1>3, <1>4 DEF TablesWhole, Program
<1> HIDE DEF f
<1> QED
  BY <1>2, <1>3, <1>4, <1>5, <1>6, <1>7, <1>8, ProgramStep

\* alt_iic_isr_register stores the handler,
LEMMA StoreHandlerStep ==
  ASSUME IInv, StoreHandler
  PROVE  IInv'
<1> DEFINE f == [top EXCEPT !.pc = "context"]
<1>1. top.pc = "handler" /\ top.fault # "raised"
  BY DEF StoreHandler, At
<1>2. Len(stack) = 1 /\ top = stack[1] /\ top \in Frames /\ Program(top) /\ Types
      /\ ProgramTop /\ TablesWhole(alt_irq, alt_irq_active, top)
  BY <1>1, Places DEF ProgramPlaces
<1>3. /\ Top(f) /\ UNCHANGED <<irq, alt_priority_mask, alt_instruction_exception_handler>>
      /\ UNCHANGED <<pie, ienable, alt_irq_active>>
      /\ alt_irq' = [alt_irq EXCEPT ![top.arg].handler = (top.call = "register")]
  BY <1>1 DEF StoreHandler, Goto, tables, masks, off
<1>4. f \in Frames /\ f.pc = "context"
      /\ f.call = top.call /\ f.arg = top.arg /\ f.fault = top.fault /\ f.id = top.id
      /\ f.status = top.status
  BY <1>1, <1>2 DEF Frames, ProgramPlaces, Calls, Frame, Program, Types
<1>5. Program(f)
  BY <1>1, <1>2, <1>4 DEF Program, ProgramPlaces, ProgramTop, Types, Calls
<1>6. Types'
  <2>1. pie' \in BOOLEAN /\ ienable' \subseteq Irqs /\ alt_irq_active' \subseteq Irqs
        /\ irq' \subseteq Irqs /\ alt_priority_mask' \subseteq Irqs
        /\ alt_instruction_exception_handler' \in BOOLEAN
    BY <1>2, <1>3 DEF Types
  <2>2. alt_irq' \in [Irqs -> [handler : BOOLEAN, context : BOOLEAN]]
    <3>1. alt_irq \in [Irqs -> [handler : BOOLEAN, context : BOOLEAN]]
      BY <1>2 DEF Types
    <3>2. \A i \in Irqs : [alt_irq[i] EXCEPT !.handler = (top.call = "register")]
                             \in [handler : BOOLEAN, context : BOOLEAN]
      BY <3>1
    <3> QED
      BY <1>3, <3>1, <3>2
  <2> QED
    BY <2>1, <2>2 DEF Types
<1>7. /\ alt_priority_mask' = Irqs
      /\ f.pc # "ienable" => ienable' = alt_irq_active'
      /\ pie' = (f.pc \in {"idle", "read", "off"})
  BY <1>1, <1>2, <1>3, <1>4 DEF ProgramTop, Types, Program
<1>8. TablesWhole(alt_irq', alt_irq_active', f)
  <2>1. top.arg \in Irqs /\ top.call \in {"register", "unregister"} /\ alt_irq \in [Irqs -> [handler : BOOLEAN, context : BOOLEAN]]
    BY <1>1, <1>2 DEF Program, Types
  <2>2. \A i \in Irqs : i # top.arg => alt_irq'[i] = alt_irq[i]
    BY <1>3, <2>1
  <2>3. alt_irq'[top.arg] = [alt_irq[top.arg] EXCEPT !.handler = (top.call = "register")]
    BY <1>3, <2>1
  <2>4. alt_irq'[top.arg].handler = (top.call = "register")
    BY <2>1, <2>3
  <2>5. alt_irq[top.arg] = Entry /\ top.call = "register" => alt_irq'[top.arg] = Entry
    <3> SUFFICES ASSUME alt_irq[top.arg] = Entry, top.call = "register"
                 PROVE  alt_irq'[top.arg] = Entry
      OBVIOUS
    <3>1. (top.call = "register") = TRUE
      OBVIOUS
    <3>2. alt_irq'[top.arg] = [Entry EXCEPT !.handler = TRUE]
      BY <2>3, <3>1
    <3> QED
      BY <3>2 DEF Entry
  <2>6. \A i \in Irqs : alt_irq[i] \in {Entry, NoEntry}
    BY <1>1, <1>2 DEF TablesWhole
  <2>7. \A i \in alt_irq_active : alt_irq[i] = Entry /\ i \in Irqs
    BY <1>1, <1>2 DEF TablesWhole, Types
  <2>8. ASSUME NEW i \in alt_irq_active
        PROVE  alt_irq'[i] = Entry \/ (f.call = "unregister" /\ f.arg = i /\ f.pc \in {"context", "active"})
    <3>1. CASE i = top.arg
      BY <1>4, <2>1, <2>5, <2>7, <3>1
    <3>2. CASE i # top.arg
      BY <2>2, <2>7, <3>2
    <3> QED
      BY <3>1, <3>2
  <2>9. \A i \in Irqs : alt_irq'[i] \in {Entry, NoEntry} \/ (f.pc = "context" /\ f.arg = i)
    BY <1>4, <2>2, <2>6
  <2>10. f.pc = "context" => alt_irq'[f.arg].handler = (f.call = "register")
    BY <1>4, <2>4
  <2>11. ~(f.pc = "active") /\ ~(f.call = "enable") /\ alt_irq_active' = alt_irq_active
    BY <1>3, <1>4, <2>1
  <2> HIDE DEF f
  <2> QED
    BY <2>8, <2>9, <2>10, <2>11 DEF TablesWhole
<1> HIDE DEF f
<1> QED
  BY <1>2, <1>3, <1>4, <1>5, <1>6, <1>7, <1>8, ProgramStep

\* then the context,
LEMMA StoreContextStep ==
  ASSUME IInv, StoreContext
  PROVE  IInv'
<1> DEFINE f == [top EXCEPT !.pc = "active"]
<1>1. top.pc = "context" /\ top.fault # "raised"
  BY DEF StoreContext, At
<1>2. Len(stack) = 1 /\ top = stack[1] /\ top \in Frames /\ Program(top) /\ Types
      /\ ProgramTop /\ TablesWhole(alt_irq, alt_irq_active, top)
  BY <1>1, Places DEF ProgramPlaces
<1>3. /\ Top(f) /\ UNCHANGED <<irq, alt_priority_mask, alt_instruction_exception_handler>>
      /\ UNCHANGED <<pie, ienable, alt_irq_active>>
      /\ alt_irq' = [alt_irq EXCEPT ![top.arg].context = (top.call = "register")]
  BY <1>1 DEF StoreContext, Goto, tables, masks, off
<1>4. f \in Frames /\ f.pc = "active"
      /\ f.call = top.call /\ f.arg = top.arg /\ f.fault = top.fault /\ f.id = top.id
      /\ f.status = top.status
  BY <1>1, <1>2 DEF Frames, ProgramPlaces, Calls, Frame, Program, Types
<1>5. Program(f)
  BY <1>1, <1>2, <1>4 DEF Program, ProgramPlaces, ProgramTop, Types, Calls
<1>6. Types'
  <2>1. pie' \in BOOLEAN /\ ienable' \subseteq Irqs /\ alt_irq_active' \subseteq Irqs
        /\ irq' \subseteq Irqs /\ alt_priority_mask' \subseteq Irqs
        /\ alt_instruction_exception_handler' \in BOOLEAN
    BY <1>2, <1>3 DEF Types
  <2>2. alt_irq' \in [Irqs -> [handler : BOOLEAN, context : BOOLEAN]]
    <3>1. alt_irq \in [Irqs -> [handler : BOOLEAN, context : BOOLEAN]]
      BY <1>2 DEF Types
    <3>2. \A i \in Irqs : [alt_irq[i] EXCEPT !.context = (top.call = "register")]
                             \in [handler : BOOLEAN, context : BOOLEAN]
      BY <3>1
    <3> QED
      BY <1>3, <3>1, <3>2
  <2> QED
    BY <2>1, <2>2 DEF Types
<1>7. /\ alt_priority_mask' = Irqs
      /\ f.pc # "ienable" => ienable' = alt_irq_active'
      /\ pie' = (f.pc \in {"idle", "read", "off"})
  BY <1>1, <1>2, <1>3, <1>4 DEF ProgramTop, Types, Program
<1>8. TablesWhole(alt_irq', alt_irq_active', f)
  <2>1. top.arg \in Irqs /\ top.call \in {"register", "unregister"} /\ alt_irq \in [Irqs -> [handler : BOOLEAN, context : BOOLEAN]]
    BY <1>1, <1>2 DEF Program, Types
  <2>2. \A i \in Irqs : i # top.arg => alt_irq'[i] = alt_irq[i]
    BY <1>3, <2>1
  <2>3. alt_irq'[top.arg] = [alt_irq[top.arg] EXCEPT !.context = (top.call = "register")]
    BY <1>3, <2>1
  <2>4. alt_irq[top.arg].handler = (top.call = "register") /\ alt_irq[top.arg] \in [handler : BOOLEAN, context : BOOLEAN]
    BY <1>1, <1>2, <2>1 DEF TablesWhole
  <2>5. top.call = "register" => alt_irq'[top.arg] = Entry
    BY <2>3, <2>4 DEF Entry
  <2>6. top.call = "unregister" => alt_irq'[top.arg] = NoEntry
    BY <2>3, <2>4 DEF NoEntry
  <2>7. ASSUME NEW i \in Irqs PROVE alt_irq'[i] \in {Entry, NoEntry}
    <3>1. CASE i = top.arg
      BY <2>1, <2>5, <2>6, <3>1
    <3>2. CASE i # top.arg
      BY <1>2, <2>2, <3>2 DEF TablesWhole
    <3> QED
      BY <3>1, <3>2
  <2>8. ASSUME NEW i \in alt_irq_active
        PROVE  alt_irq'[i] = Entry \/ (f.call = "unregister" /\ f.arg = i /\ f.pc \in {"context", "active"})
    <3>1. CASE i = top.arg
      BY <1>4, <2>1, <2>5, <3>1
    <3>2. CASE i # top.arg
      <4>1. alt_irq[i] = Entry /\ i \in Irqs
        BY <1>1, <1>2, <3>2 DEF TablesWhole, Types
      <4> QED
        BY <2>2, <3>2, <4>1
    <3> QED
      BY <3>1, <3>2
  <2>9. f.pc = "active" /\ f.call = "register" => alt_irq'[f.arg] = Entry
    BY <1>4, <2>5
  <2>11. ~(f.pc = "context") /\ ~(f.call = "enable") /\ alt_irq_active' = alt_irq_active
    BY <1>3, <1>4, <2>1
  <2> HIDE DEF f
  <2> QED
    BY <2>7, <2>8, <2>9, <2>11 DEF TablesWhole
<1> HIDE DEF f
<1> QED
  BY <1>2, <1>3, <1>4, <1>5, <1>6, <1>7, <1>8, ProgramStep

\* then the interrupt is made active
LEMMA StoreActiveStep ==
  ASSUME IInv, StoreActive
  PROVE  IInv'
<1> DEFINE f == [top EXCEPT !.pc = "ienable"]
<1>1. top.pc = "active" /\ top.fault # "raised"
  BY DEF StoreActive, At
<1>2. Len(stack) = 1 /\ top = stack[1] /\ top \in Frames /\ Program(top) /\ Types
      /\ ProgramTop /\ TablesWhole(alt_irq, alt_irq_active, top)
  BY <1>1, Places DEF ProgramPlaces
<1>3. /\ Top(f) /\ UNCHANGED <<irq, alt_priority_mask, alt_instruction_exception_handler>>
      /\ UNCHANGED <<pie, ienable, alt_irq>>
      /\ alt_irq_active' = IF top.call \in {"register", "enable"}
                           THEN alt_irq_active \cup ({top.arg} \cap Irqs)
                           ELSE alt_irq_active \ {top.arg}
  BY <1>1 DEF StoreActive, Goto, tables, masks, off
<1>4. f \in Frames /\ f.pc = "ienable"
      /\ f.call = top.call /\ f.arg = top.arg /\ f.fault = top.fault /\ f.id = top.id
      /\ f.status = top.status
  BY <1>1, <1>2 DEF Frames, ProgramPlaces, Calls, Frame, Program, Types
<1>5. Program(f)
  BY <1>1, <1>2, <1>4 DEF Program, ProgramPlaces, ProgramTop, Types, Calls
<1>6. Types'
  BY <1>1, <1>2, <1>3 DEF Types
<1>7. /\ alt_priority_mask' = Irqs
      /\ f.pc # "ienable" => ienable' = alt_irq_active'
      /\ pie' = (f.pc \in {"idle", "read", "off"})
  BY <1>1, <1>2, <1>3, <1>4 DEF ProgramTop, Types, Program
<1>8. TablesWhole(alt_irq', alt_irq_active', f)
  <2>1. CASE top.call \in {"register", "enable"}
    <3>1. top.arg \in Irqs => alt_irq[top.arg] = Entry
      BY <1>1, <1>2, <2>1 DEF TablesWhole
    <3> QED
      BY <1>1, <1>2, <1>3, <1>4, <2>1, <3>1 DEF TablesWhole
  <2>2. CASE top.call \notin {"register", "enable"}
    BY <1>1, <1>2, <1>3, <1>4, <2>2 DEF TablesWhole
  <2> QED
    BY <2>1, <2>2
<1> HIDE DEF f
<1> QED
  BY <1>2, <1>3, <1>4, <1>5, <1>6, <1>7, <1>8, ProgramStep

\* and enabled.
LEMMA WriteIenableStep ==
  ASSUME IInv, WriteIenable
  PROVE  IInv'
<1> DEFINE f == [top EXCEPT !.pc = "restore"]
<1>1. top.pc = "ienable" /\ top.fault # "raised"
  BY DEF WriteIenable, At
<1>2. Len(stack) = 1 /\ top = stack[1] /\ top \in Frames /\ Program(top) /\ Types
      /\ ProgramTop /\ TablesWhole(alt_irq, alt_irq_active, top)
  BY <1>1, Places DEF ProgramPlaces
<1>3. /\ Top(f) /\ UNCHANGED <<irq, alt_priority_mask, alt_instruction_exception_handler>>
      /\ UNCHANGED <<pie, alt_irq, alt_irq_active>> /\ ienable' = alt_irq_active
  BY <1>1 DEF WriteIenable, Goto, tables, masks, off
<1>4. f \in Frames /\ f.pc = "restore"
      /\ f.call = top.call /\ f.arg = top.arg /\ f.fault = top.fault /\ f.id = top.id
      /\ f.status = top.status
  BY <1>1, <1>2 DEF Frames, ProgramPlaces, Calls, Frame, Program, Types
<1>5. Program(f)
  BY <1>1, <1>2, <1>4 DEF Program, ProgramPlaces, ProgramTop, Types, Calls
<1>6. Types'
  BY <1>1, <1>2, <1>3 DEF Types
<1>7. /\ alt_priority_mask' = Irqs
      /\ f.pc # "ienable" => ienable' = alt_irq_active'
      /\ pie' = (f.pc \in {"idle", "read", "off"})
  BY <1>1, <1>2, <1>3, <1>4 DEF ProgramTop, Types, Program
<1>8. TablesWhole(alt_irq', alt_irq_active', f)
  BY <1>1, <1>2, <1>3, <1>4 DEF TablesWhole, Program
<1> HIDE DEF f
<1> QED
  BY <1>2, <1>3, <1>4, <1>5, <1>6, <1>7, <1>8, ProgramStep

\* alt_irq_enable_all.
LEMMA EnableAllStep ==
  ASSUME IInv, EnableAll
  PROVE  IInv'
<1> DEFINE f == Frame
<1>1. top.pc = "restore" /\ top.fault # "raised"
  BY DEF EnableAll, At
<1>2. Len(stack) = 1 /\ top = stack[1] /\ top \in Frames /\ Program(top) /\ Types
      /\ ProgramTop /\ TablesWhole(alt_irq, alt_irq_active, top)
  BY <1>1, Places DEF ProgramPlaces
<1>3. /\ Top(f) /\ UNCHANGED <<irq, alt_priority_mask, alt_instruction_exception_handler>>
      /\ UNCHANGED <<ienable, alt_irq, alt_irq_active>> /\ pie' = top.status
  BY <1>1 DEF EnableAll, Goto, tables, masks, off
<1>4. f \in Frames /\ f.pc = "idle" /\ f.id = -1 /\ f.fault = "none"
  BY <1>1, <1>2 DEF Frames, ProgramPlaces, Calls, Frame, Program, Types
<1>5. Program(f)
  BY <1>1, <1>2, <1>4 DEF Program, ProgramPlaces, ProgramTop, Types, Calls
<1>6. Types'
  BY <1>1, <1>2, <1>3 DEF Types, Frames
<1>7. /\ alt_priority_mask' = Irqs
      /\ f.pc # "ienable" => ienable' = alt_irq_active'
      /\ pie' = (f.pc \in {"idle", "read", "off"})
  BY <1>1, <1>2, <1>3, <1>4 DEF ProgramTop, Types, Program
<1>8. TablesWhole(alt_irq', alt_irq_active', f)
  BY <1>1, <1>2, <1>3, <1>4 DEF TablesWhole, Program
<1> HIDE DEF f
<1> QED
  BY <1>2, <1>3, <1>4, <1>5, <1>6, <1>7, <1>8, ProgramStep

\* alt_instruction_exception_register.
LEMMA RegisterExceptionStep ==
  ASSUME IInv, NEW known \in BOOLEAN, RegisterException(known)
  PROVE  IInv'
<1>1. UNCHANGED <<pie, ienable, irq, alt_irq, alt_irq_active, alt_priority_mask, stack>>
      /\ alt_instruction_exception_handler' = known
  BY DEF RegisterException, masks
<1>2. Types'
  BY <1>1 DEF IInv, Types
<1>3. Len(stack') = 1 => ProgramTop'
  BY <1>1 DEF IInv, ProgramTop
<1>4. Len(stack') > 1 => HandlerTop(stack, Len(stack))'
  <2>1. Len(stack) > 1 => HandlerTop(stack, Len(stack))
    BY DEF IInv
  <2> QED
    BY <1>1, <2>1 DEF HandlerTop
<1> QED
  BY <1>1, <1>2, <1>3, <1>4 DEF IInv

\* Nothing changes.
LEMMA Stutter ==
  ASSUME IInv, UNCHANGED vars
  PROVE  IInv'
<1>1. UNCHANGED <<pie, ienable, irq, alt_irq, alt_irq_active, alt_priority_mask,
                  alt_instruction_exception_handler, stack>>
  BY DEF vars
<1>2. Types'
  BY <1>1 DEF IInv, Types
<1>3. Len(stack') = 1 => ProgramTop'
  BY <1>1 DEF IInv, ProgramTop
<1>4. Len(stack') > 1 => HandlerTop(stack, Len(stack))'
  <2>1. Len(stack) > 1 => HandlerTop(stack, Len(stack))
    BY DEF IInv
  <2> QED
    BY <1>1, <2>1 DEF HandlerTop
<1> QED
  BY <1>1, <1>2, <1>3, <1>4 DEF IInv

-----------------------------------------------------------------------------
\* The invariant holds when the program starts,
LEMMA Initially ==
  ASSUME Init
  PROVE  IInv
<1>1. Frame \in Frames /\ Program(Frame)
  BY DEF Frame, Frames, Program, ProgramPlaces, Calls
<1>2. stack = <<Frame>> /\ stack \in Seq(Frames) /\ Len(stack) = 1 /\ stack[1] = Frame
  BY <1>1 DEF Init
<1>3. Shape(stack)
  <2>1. \A k \in 2..Len(stack) : FALSE
    BY <1>2
  <2>2. \A k \in 1..(Len(stack) - 1) : FALSE
    BY <1>2
  <2> QED
    BY <1>1, <1>2, <2>1, <2>2 DEF Shape
<1>4. Types
  BY IrqAssumption DEF Init, Types, Entry, NoEntry
<1>5. ProgramTop
  <2>1. stack[1].pc = "idle" /\ (stack[1].pc \in {"idle", "read", "off"}) = TRUE
    BY <1>2 DEF Frame
  <2> QED
    BY <2>1 DEF ProgramTop, Init
<1>6. TablesWhole(alt_irq, alt_irq_active, stack[1])
  BY <1>2, IrqAssumption DEF TablesWhole, Init, Frame
<1>7. ~(Len(stack) > 1)
  BY <1>2
<1> QED
  BY <1>3, <1>4, <1>5, <1>6, <1>7 DEF IInv

\* every step preserves it,
LEMMA Steps ==
  ASSUME IInv, [Next]_vars
  PROVE  IInv'
<1>1. ASSUME NEW i \in Irqs, Raise(i) PROVE IInv'
  BY <1>1, RaiseStep
<1>2. CASE Take
  BY <1>2, TakeStep
<1>3. CASE Fault
  BY <1>3, FaultStep
<1>4. CASE Step
  <2>1. ASSUME NEW skips \in BOOLEAN, Exception(skips) PROVE IInv'
    BY <2>1, ExceptionHungStep, ExceptionReturns
  <2>2. CASE Again
    BY <2>2, AgainStep, AgainReturns
  <2>3. CASE Enter \/ Pending \/ Isr \/ LowerMask \/ LowerIenable \/ Open
    BY <2>3, EnterStep, PendingStep, IsrStep, LowerMaskStep, LowerIenableStep, OpenStep
  <2>4. CASE Body \/ Close \/ RestoreMask \/ RestoreIenable
    BY <2>4, BodyStep, CloseStep, RestoreMaskStep, RestoreIenableStep
  <2>5. CASE ReadStatus \/ DisableAll \/ StoreHandler \/ StoreContext \/ StoreActive
             \/ WriteIenable \/ EnableAll
    BY <2>5, ReadStatusStep, DisableAllStep, StoreHandlerStep, StoreContextStep, StoreActiveStep,
       WriteIenableStep, EnableAllStep
  <2> QED
    BY <1>4, <2>1, <2>2, <2>3, <2>4, <2>5 DEF Step
<1>5. ASSUME NEW f \in Calls, NEW id \in Irqs \cup Unknown, Call(f, id) PROVE IInv'
  BY <1>5, CallStep
<1>6. ASSUME NEW known \in BOOLEAN, RegisterException(known) PROVE IInv'
  BY <1>6, RegisterExceptionStep
<1>7. CASE UNCHANGED vars
  BY <1>7, Stutter
<1> QED
  BY <1>1, <1>2, <1>3, <1>4, <1>5, <1>6, <1>7 DEF Next, Calls

\* and it implies the properties.
LEMMA Implied ==
  ASSUME IInv
  PROVE  IrqInv
<1>1. Shape(stack) /\ stack \in Seq(Frames) /\ Types /\ Len(stack) \in Nat /\ Len(stack) > 0
      /\ top = stack[Len(stack)] /\ top \in Frames
  BY Places
<1>2. TypeOK
  <2>1. \A k \in Handlers : stack[k].id \in Irqs \cup {-1}
    <3>1. \A k \in Handlers : stack[k] \in Frames
      BY <1>1 DEF Handlers
    <3> QED
      BY <3>1 DEF Frames
  <2>2. stack # << >> /\ stack[1].id = -1
    BY <1>1 DEF Shape, Program
  <2> QED
    BY <1>1, <2>1, <2>2 DEF TypeOK, Types
<1>3. OwnContext
  BY ServingFrame DEF OwnContext, HandlerPlaces
<1>4. HigherOnly
  BY <1>1 DEF HigherOnly, Handlers, Shape, Higher
<1>5. Restored
  <2>1. Len(stack) = 1 => ProgramTop /\ top = stack[1]
    BY Places
  <2> QED
    BY <1>1, <2>1 DEF Restored, ProgramTop, Types
<1>6. ASSUME NEW k \in Handlers, stack[k].pc \in {"exception", "hung"}
      PROVE  stack[k - 1].fault = "raised"
  <2>1. k \in 2..Len(stack)
    BY DEF Handlers
  <2>2. CASE k = Len(stack)
    <3>1. top.pc \in {"exception", "hung"} /\ top.pc \in HandlerPlaces
      BY <1>1, <1>6, <2>2 DEF HandlerPlaces
    <3> QED
      BY <2>2, <3>1, ServingFrame
  <2>3. CASE k < Len(stack)
    <3>1. Below(stack, k)
      BY <1>1, <2>1, <2>3 DEF Shape
    <3>2. stack[k].pc \in {"body", "close"}
      BY <2>1, <3>1 DEF Below
    <3> QED
      BY <1>6, <3>2
  <2> QED
    BY <1>1, <2>1, <2>2, <2>3
<1>7. top.pc # "lost"
  BY <1>1 DEF Frames, ProgramPlaces, HandlerPlaces
<1>8. Attributed
  BY <1>6, <1>7 DEF Attributed
<1> QED
  BY <1>2, <1>3, <1>4, <1>5, <1>8 DEF IrqInv

\* Whatever the nesting of interrupts, exceptions and the program's calls, a
\* handler that is called is a registered one and gets its own context, the
\* handlers on the stack are ever more important, an exception's handler is
\* given exceptions only, and when all have returned the mask, the enables and
\* PIE are those of the program (alt_irq_handler, alt_irq_interruptible,
\* alt_irq_non_interruptible, alt_ic_isr_register).
THEOREM InterruptsHandled == Spec => []IrqInv
<1>1. Init => IInv
  BY Initially
<1>2. IInv /\ [Next]_vars => IInv'
  BY Steps
<1>3. IInv => IrqInv
  BY Implied
<1> QED
  BY <1>1, <1>2, <1>3, PTL DEF Spec
-----------------------------------------------------------------------------
(* From reset to main (AltStart).  Once the data cache is initialised,     *)
(* what a load returns is changed by a store alone: not by a load, nor by  *)
(* an eviction or a flush that writes back.                                *)

seen(a) == Boot!seen(a)
Word == Boot!Addresses
Begun == pc \notin {"reset", "start"}

\* A line that has not been written is as in memory.
Coherent ==
  /\ present \subseteq Boot!Lines /\ dirty \subseteq present
  /\ Begun => \A a \in Word : Boot!line(a) \in present \ dirty => copy[a] = memory[a]

LEMMA StoreSeen ==
  ASSUME Coherent, Begun, NEW f, Boot!Store(f), DOMAIN f \subseteq Word
  PROVE  /\ memory' = memory /\ Coherent'
         /\ \A a \in Word : seen(a)' = IF a \in DOMAIN f THEN f[a] ELSE seen(a)
<1> USE DEF Coherent, Word, Boot!Store, Boot!filled
<1>1. memory' = memory
  OBVIOUS
<1>2. present' \subseteq Boot!Lines /\ dirty' \subseteq present'
  BY DEF Boot!Lines
<1>3. ASSUME NEW a \in Word, Boot!line(a) \in present' \ dirty'
      PROVE  copy'[a] = memory'[a]
  BY <1>3
<1>4. ASSUME NEW a \in Word
      PROVE  seen(a)' = IF a \in DOMAIN f THEN f[a] ELSE seen(a)
  BY DEF seen, Boot!seen
<1> QED
  BY <1>1, <1>2, <1>3, <1>4

LEMMA LoadSeen ==
  ASSUME Coherent, Begun, NEW b \in Word, Boot!Load(b)
  PROVE  /\ memory' = memory /\ Coherent'
         /\ \A a \in Word : seen(a)' = seen(a)
<1> USE DEF Coherent, Word, Boot!Load, Boot!filled
<1>1. memory' = memory
  OBVIOUS
<1>2. present' \subseteq Boot!Lines /\ dirty' \subseteq present'
  BY DEF Boot!Lines
<1>3. ASSUME NEW a \in Word, Boot!line(a) \in present' \ dirty'
      PROVE  copy'[a] = memory'[a]
  BY <1>3
<1>4. ASSUME NEW a \in Word PROVE seen(a)' = seen(a)
  BY DEF seen, Boot!seen
<1> QED
  BY <1>1, <1>2, <1>3, <1>4

\* evicted one by one, or all at once
LEMMA DropSeen ==
  ASSUME Coherent, Begun, NEW L, Boot!Drop(L, TRUE)
  PROVE  /\ Coherent'
         /\ \A a \in Word : seen(a)' = seen(a) /\ memory'[a] \in {memory[a], seen(a)}
         /\ \A a \in Word : Boot!line(a) \in L => memory'[a] = seen(a)
<1> USE DEF Coherent, Word, Boot!Drop
<1>1. present' \subseteq Boot!Lines /\ dirty' \subseteq present'
  OBVIOUS
<1>2. ASSUME NEW a \in Word
      PROVE  /\ seen(a)' = seen(a) /\ memory'[a] \in {memory[a], seen(a)}
             /\ Boot!line(a) \in L => memory'[a] = seen(a)
  BY DEF seen, Boot!seen
<1>3. ASSUME NEW a \in Word, Boot!line(a) \in present' \ dirty'
      PROVE  copy'[a] = memory'[a]
  BY <1>3
<1> QED
  BY <1>1, <1>2, <1>3

LEMMA Bits ==
  /\ Boot!BitsOf(0) = {} /\ Boot!BitsOf(1) = {0} /\ Boot!BitsOf(2) = {1}
  /\ Boot!BitsOf(3) = {0, 1}
<1> USE DEF Boot!BitsOf, Boot!Bit, Boot!Irqs
<1>1. Boot!BitsOf(0) = {}
  OBVIOUS
<1>2. Boot!BitsOf(1) = {0}
  OBVIOUS
<1>3. Boot!BitsOf(2) = {1}
  OBVIOUS
<1>4. Boot!BitsOf(3) = {0, 1}
  OBVIOUS
<1> QED
  BY <1>1, <1>2, <1>3, <1>4

\* The words and sections of AltStart.
LEMMA Layout ==
  /\ {0, 1, 2, 3, 4, 5, 6} \subseteq Word
  /\ Boot!exceptions = 0 /\ Boot!alt_priority_mask = 1 /\ Boot!rwdataImage = 2
  /\ Boot!alt_irq_active = 3 /\ Boot!exceptionsImage = 6
  /\ \A i \in {0, 1} : Boot!handler(i) = 4 + i
  /\ Boot!bss = {3, 4, 5} /\ Boot!All = 3 /\ Boot!Code = 1 /\ Boot!Irqs = {0, 1}
<1>1. {0, 1, 2, 3, 4, 5, 6} \subseteq Word
  BY StartAssumption DEF StartAssumption, Word, Boot!Addresses
<1>2. Boot!bss = {3, 4, 5}
  BY DEF Boot!bss, Boot!alt_irq_active, Boot!handler, Boot!Irqs
<1> QED
  BY <1>1, <1>2 DEF Boot!exceptions, Boot!alt_priority_mask, Boot!rwdataImage, Boot!Irqs,
     Boot!alt_irq_active, Boot!exceptionsImage, Boot!handler, Boot!All, Boot!Code

Has(a, v) == memory[a] = v /\ (Begun => seen(a) = v)

\* The places from which on bss is cleared, the data loaded, and the code flushed.
Cleared == {"load_read", "load_write", "flush_data", "flush_code", "irq_init", "enable"}
Loaded == {"flush_data", "flush_code", "irq_init", "enable", "sys_init"}
Running == {"sys_init", "main", "exit"}
Flushed == {"flush_code", "irq_init", "enable"} \cup Running

\* What the drivers that have had their turn have registered.
Turns == IF pc = "sys_init" THEN turn ELSE Len(Drivers)
InTurns == {Drivers[k] : k \in 1..Turns}

Images == Has(2, 3) /\ Has(6, 1) /\ ("exceptions" \notin copied => Has(0, 1))

StartPlaces ==
  /\ "rwdata" \in copied
  /\ pc \in {"reset", "start", "bss"} \cup Cleared \cup Loaded \cup Running
  /\ turn \in Nat
  /\ pc = "bss" => turn \in 0..2
  /\ pc \in {"load_read", "load_write"} => turn \in 0..1
  /\ pc = "sys_init" => turn < Len(Drivers)

Words ==
  /\ pc = "bss" => \A k \in 3..5 : k < 3 + turn => seen(k) = 0
  /\ pc \in Cleared => \A k \in 3..5 : seen(k) = 0
  /\ pc \in {"load_read", "load_write"} /\ turn = 1 => seen(1) = 3
  /\ pc \in Loaded => seen(1) = 3 /\ seen(0) = 1
  /\ pc \in Flushed => Has(0, 1)
  /\ pc \in Flushed \ {"flush_code"} => icache \in {-1, 1}

Enabled ==
  /\ pc \notin Running => ~cpuPie
  /\ pc = "enable" => cpuIenable = {}
  /\ pc \in Running =>
       /\ cpuPie /\ cpuIenable = InTurns
       /\ Boot!BitsOf(seen(3)) = cpuIenable
       /\ \A i \in cpuIenable : seen(4 + i) = 1

BootInv == Coherent /\ Images /\ StartPlaces /\ Words /\ Enabled

USE DEF Begun, Has, Cleared, Loaded, Running, Flushed

\* A step that leaves what a load returns as it is, and the program where it is.
LEMMA SameSeen ==
  ASSUME BootInv, Coherent', UNCHANGED <<pc, turn, copied, cpuPie, cpuIenable>>,
         \A a \in Word : seen(a)' = seen(a) /\ memory'[a] \in {memory[a], seen(a)},
         Begun,
         icache' = icache \/ (icache' = memory[0] /\ memory' = memory)
  PROVE  BootInv'
<1> USE DEF BootInv
<1>1. Images'
  BY Layout DEF Images
<1>2. StartPlaces'
  BY DEF StartPlaces
<1>3. Words'
  BY Layout DEF Words
<1>4. Enabled'
  <2>1. InTurns' = InTurns
    BY DEF InTurns, Turns
  <2>2. seen(3)' = seen(3) /\ seen(4)' = seen(4) /\ seen(5)' = seen(5)
    BY Layout
  <2>3. Boot!BitsOf(seen(3))' = Boot!BitsOf(seen(3))
    BY <2>2 DEF Boot!BitsOf
  <2>4. pc \in Running => cpuIenable \subseteq {0, 1}
    BY DEF Enabled, Boot!BitsOf, Boot!Irqs
  <2> QED
    BY <2>1, <2>2, <2>3, <2>4 DEF Enabled
<1> QED
  BY <1>1, <1>2, <1>3, <1>4

LEMMA BootReset ==
  ASSUME BootInv, Boot!Reset \/ Boot!Jump \/ Boot!InitInstructionCache
  PROVE  BootInv'
<1>1. /\ UNCHANGED <<memory, present, dirty, copy, copied>>
      /\ pc' \in {"reset", "start"} /\ turn' = 0 /\ cpuPie' = FALSE
  BY DEF Boot!Reset, Boot!Jump, Boot!InitInstructionCache, Boot!cacheVars, Boot!Goto,
     BootInv, Enabled, Boot!At, Boot!cpu
<1>2. Coherent'
  BY <1>1 DEF BootInv, Coherent
<1>3. Images' /\ StartPlaces'
  BY <1>1 DEF BootInv, Images, StartPlaces
<1>4. Words' /\ Enabled'
  BY <1>1 DEF Words, Enabled
<1> QED
  BY <1>2, <1>3, <1>4 DEF BootInv

LEMMA BootInitDataCache ==
  ASSUME BootInv, Boot!InitDataCache
  PROVE  BootInv'
<1> USE DEF BootInv
<1>1. pc = "start" /\ pc' = "bss" /\ turn' = 0 /\ UNCHANGED <<icache, copied, cpuPie, cpuIenable>>
      /\ Boot!Drop(Boot!Lines, FALSE)
  BY DEF Boot!InitDataCache, Boot!At, Boot!Goto, Boot!cpu, Boot!initd
<1>2. present' = {} /\ dirty' = {}
  BY <1>1 DEF Boot!Drop, Coherent
<1>3. \A a \in Word : memory'[a] = memory[a] /\ seen(a)' = memory[a]
  BY <1>1, <1>2 DEF Boot!Drop, seen, Boot!seen, Word
<1>4. Coherent'
  BY <1>2 DEF Coherent
<1>5. Images'
  BY <1>1, <1>3, Layout DEF Images
<1>6. StartPlaces' /\ Words' /\ Enabled'
  BY <1>1 DEF StartPlaces, Words, Enabled
<1> QED
  BY <1>4, <1>5, <1>6

LEMMA BootClearBss ==
  ASSUME BootInv, Boot!ClearBss
  PROVE  BootInv'
<1> USE DEF BootInv
<1>1. /\ pc = "bss" /\ turn \in 0..2 /\ UNCHANGED <<icache, copied, cpuPie, cpuIenable>>
      /\ \/ turn < 2 /\ pc' = "bss" /\ turn' = turn + 1
         \/ turn = 2 /\ pc' = "load_read" /\ turn' = 0
  BY Layout DEF Boot!ClearBss, Boot!At, Boot!Goto, Boot!Again, Boot!cpu, StartPlaces
<1> DEFINE f == [a \in {3 + turn} |-> 0]
<1>2. Boot!Store(f)
  BY Layout DEF Boot!ClearBss
<1>3. DOMAIN f = {3 + turn} /\ f[3 + turn] = 0 /\ 3 + turn \in 3..5
  BY <1>1
<1>4. DOMAIN f \subseteq Word
  BY <1>3, Layout
<1> HIDE DEF f
<1>5. /\ memory' = memory /\ Coherent'
      /\ \A a \in Word : seen(a)' = IF a \in DOMAIN f THEN f[a] ELSE seen(a)
  BY <1>1, <1>2, <1>4, StoreSeen
<1>6. \A a \in {0, 1, 2, 3, 4, 5, 6} : seen(a)' = IF a = 3 + turn THEN 0 ELSE seen(a)
  BY <1>3, <1>5, Layout
<1>7. Images'
  BY <1>1, <1>5, <1>6 DEF Images
<1>8. StartPlaces' /\ Enabled'
  BY <1>1 DEF StartPlaces, Enabled
<1>9. Words'
  <2>1. ASSUME NEW k \in 3..5, k < 4 + turn PROVE seen(k)' = 0
    BY <1>1, <1>6, <2>1 DEF Words
  <2> QED
    BY <1>1, <2>1 DEF Words
<1> QED
  BY <1>5, <1>7, <1>8, <1>9

LEMMA BootLoadRead ==
  ASSUME BootInv, Boot!LoadRead
  PROVE  BootInv'
<1> USE DEF BootInv
<1>1. /\ pc = "load_read" /\ pc' = "load_write" /\ turn' = turn /\ turn \in 0..1
      /\ UNCHANGED <<icache, copied, cpuPie, cpuIenable>>
  BY DEF Boot!LoadRead, Boot!At, Boot!cpu, StartPlaces
<1>2. Boot!section.from \in Word
  BY <1>1, Layout DEF Boot!section, Boot!Sections
<1>3. Boot!Load(Boot!section.from) \/ UNCHANGED <<memory, present, dirty, copy>>
  BY DEF Boot!LoadRead, Boot!cacheVars
<1>4. memory' = memory /\ Coherent' /\ \A a \in Word : seen(a)' = seen(a)
  <2>1. CASE UNCHANGED <<memory, present, dirty, copy>>
    BY <1>1, <2>1 DEF Coherent, seen, Boot!seen
  <2> HIDE DEF BootInv
  <2>2. CASE Boot!Load(Boot!section.from)
    BY <1>1, <1>2, <2>2, LoadSeen DEF BootInv
  <2> QED
    BY <1>3, <2>1, <2>2
<1>5. Images'
  BY <1>1, <1>4, Layout DEF Images
<1>6. StartPlaces' /\ Enabled'
  BY <1>1 DEF StartPlaces, Enabled
<1>7. Words'
  BY <1>1, <1>4, Layout DEF Words
<1> QED
  BY <1>4, <1>5, <1>6, <1>7

LEMMA BootLoadWrite ==
  ASSUME BootInv, Boot!LoadWrite
  PROVE  BootInv'
<1> USE DEF BootInv
<1>1. /\ pc = "load_write" /\ turn \in 0..1 /\ UNCHANGED <<icache, copied, cpuPie, cpuIenable>>
      /\ turn = 0 => pc' = "load_read" /\ turn' = 1
      /\ turn = 1 => pc' = "flush_data" /\ turn' = 0
  BY DEF Boot!LoadWrite, Boot!At, Boot!Goto, Boot!cpu, StartPlaces, Boot!Sections
<1> DEFINE to == IF turn = 0 THEN 1 ELSE 0
           v == IF turn = 0 THEN 3 ELSE 1
           f == [a \in {to} |-> v]
<1>2. CASE turn = 0 \/ "exceptions" \in copied
  <2>1. Boot!section.name \in copied /\ Boot!section.to = to /\ seen(Boot!section.from) = v
    BY <1>1, <1>2, Layout DEF Boot!section, Boot!Sections, StartPlaces, Images
  <2>2. Boot!Store(f)
    BY <2>1 DEF Boot!LoadWrite, seen
  <2>3. DOMAIN f = {to} /\ f[to] = v /\ to \in {0, 1}
    OBVIOUS
  <2>4. DOMAIN f \subseteq Word
    BY <2>3, Layout
  <2> HIDE DEF f
  <2>5. /\ memory' = memory /\ Coherent'
        /\ \A a \in Word : seen(a)' = IF a \in DOMAIN f THEN f[a] ELSE seen(a)
    BY <1>1, <2>2, <2>4, StoreSeen
  <2>6. \A a \in {0, 1, 2, 3, 4, 5, 6} : seen(a)' = IF a = to THEN v ELSE seen(a)
    BY <2>3, <2>5, Layout
  <2>7. Images'
    BY <1>1, <1>2, <2>5, <2>6 DEF Images
  <2>8. StartPlaces' /\ Enabled'
    BY <1>1 DEF StartPlaces, Enabled
  <2>9. Words'
    BY <1>1, <1>2, <2>6 DEF Words
  <2> QED
    BY <2>5, <2>7, <2>8, <2>9
<1>3. CASE turn = 1 /\ "exceptions" \notin copied
  <2>1. UNCHANGED <<memory, present, dirty, copy>>
    BY <1>1, <1>3 DEF Boot!LoadWrite, Boot!section, Boot!Sections, Boot!cacheVars
  <2>2. \A a \in Word : seen(a)' = seen(a)
    BY <2>1 DEF seen, Boot!seen
  <2>3. Coherent'
    BY <1>1, <2>1 DEF Coherent
  <2>4. Images'
    BY <1>1, <2>1, <2>2, Layout DEF Images
  <2>5. StartPlaces' /\ Enabled'
    BY <1>1, <1>3 DEF StartPlaces, Enabled
  <2>6. Words'
    BY <1>1, <1>3, <2>2, Layout DEF Words, Images
  <2> QED
    BY <2>3, <2>4, <2>5, <2>6
<1> QED
  BY <1>1, <1>2, <1>3

LEMMA BootFlushData ==
  ASSUME BootInv, Boot!FlushData
  PROVE  BootInv'
<1> USE DEF BootInv
<1>1. /\ pc = "flush_data" /\ pc' = "flush_code" /\ turn' = 0
      /\ UNCHANGED <<icache, copied, cpuPie, cpuIenable>>
      /\ Boot!Drop(Boot!Lines, TRUE)
  BY DEF Boot!FlushData, Boot!At, Boot!Goto, Boot!cpu, Boot!alt_dcache_flush_all
<1>2. /\ Coherent'
      /\ \A a \in Word : seen(a)' = seen(a)
      /\ \A a \in Word : Boot!line(a) \in Boot!Lines => memory'[a] = seen(a)
  BY <1>1, DropSeen
<1>3. \A a \in Word : memory'[a] = seen(a)
  BY <1>2 DEF Boot!Lines, Word
<1>4. Images'
  BY <1>1, <1>2, <1>3, Layout DEF Images
<1>5. StartPlaces' /\ Enabled'
  BY <1>1 DEF StartPlaces, Enabled
<1>6. Words'
  BY <1>1, <1>2, <1>3, Layout DEF Words
<1> QED
  BY <1>2, <1>4, <1>5, <1>6

\* alt_icache_flush_all, altera_nios2_gen2_irq_init and alt_irq_cpu_enable_interrupts
LEMMA BootPrepare ==
  ASSUME BootInv, Boot!FlushCode \/ Boot!IrqInit \/ Boot!EnableInterrupts
  PROVE  BootInv'
<1> USE DEF BootInv, Boot!FlushCode, Boot!IrqInit, Boot!EnableInterrupts, Boot!At, Boot!Goto,
            Boot!cpu, Boot!cacheVars, Boot!Called, Boot!alt_main
<1>1. UNCHANGED <<memory, present, dirty, copy, copied>> /\ turn' = 0
  OBVIOUS
<1>2. \/ pc = "flush_code" /\ pc' = "irq_init" /\ icache' = -1 /\ UNCHANGED <<cpuPie, cpuIenable>>
      \/ pc = "irq_init" /\ pc' = "enable" /\ cpuIenable' = {} /\ UNCHANGED <<icache, cpuPie>>
      \/ pc = "enable" /\ pc' = "sys_init" /\ cpuPie' = TRUE /\ UNCHANGED <<icache, cpuIenable>>
  OBVIOUS
<1>3. \A a \in Word : seen(a)' = seen(a)
  BY <1>1 DEF seen, Boot!seen
<1>4. Coherent'
  BY <1>1, <1>2 DEF Coherent
<1>5. Images'
  BY <1>1, <1>2, <1>3, Layout DEF Images
<1>6. StartPlaces'
  BY <1>1, <1>2, StartAssumption DEF StartPlaces, StartAssumption
<1>7. Words'
  BY <1>1, <1>2, <1>3, Layout DEF Words
<1>8. Enabled'
  <2>1. CASE pc = "enable"
    <3>1. InTurns' = {}
      BY <1>1, <1>2, <2>1 DEF InTurns, Turns
    <3>2. seen(3)' = 0
      BY <1>3, <2>1, Layout DEF Words
    <3>3. Boot!BitsOf(seen(3))' = {}
      BY <3>2, Bits DEF Boot!BitsOf
    <3> QED
      BY <1>2, <2>1, <3>1, <3>3 DEF Enabled
  <2>2. CASE pc # "enable"
    BY <1>2, <2>2 DEF Enabled
  <2> QED
    BY <2>1, <2>2
<1> QED
  BY <1>4, <1>5, <1>6, <1>7, <1>8

\* A driver registers its handler: it is stored before its interrupt is enabled.
LEMMA BootSysInit ==
  ASSUME BootInv, Boot!SysInit
  PROVE  BootInv'
<1> USE DEF BootInv
<1> DEFINE i == Drivers[turn + 1]
           active == Boot!BitsOf(seen(3)) \cup {i}
           v == IF active = {0, 1} THEN 3 ELSE i + 1
           f == [a \in {4 + i, 3} |-> IF a = 4 + i THEN 1 ELSE v]
<1>1. /\ pc = "sys_init" /\ turn \in Nat /\ turn < Len(Drivers) /\ cpuPie' = cpuPie /\ cpuPie
      /\ UNCHANGED <<icache, copied>>
      /\ \/ turn + 1 < Len(Drivers) /\ pc' = "sys_init" /\ turn' = turn + 1
         \/ turn + 1 = Len(Drivers) /\ pc' = "main" /\ turn' = 0
  BY StartAssumption DEF StartAssumption, Boot!SysInit, Boot!At, Boot!Goto, Boot!Again,
     Boot!Called, Boot!alt_main, StartPlaces, Enabled
<1>2. i \in {0, 1}
  BY <1>1, StartAssumption DEF StartAssumption
<1>3. cpuIenable' = active /\ Boot!Store(f)
  BY <1>2, Layout DEF Boot!SysInit, Boot!Bit, seen
<1>4. /\ DOMAIN f = {4 + i, 3} /\ f[4 + i] = 1 /\ f[3] = v
  BY <1>2
<1>5. active = {0, 1} \/ active = {i}
  BY <1>2 DEF Boot!BitsOf, Boot!Irqs
<1>6. Boot!BitsOf(v) = active
  BY <1>2, <1>5, Bits
<1>7. active = cpuIenable \cup {i} /\ \A j \in cpuIenable : seen(4 + j) = 1
  BY <1>1 DEF Enabled
<1>8. active \subseteq {0, 1}
  BY <1>2, <1>5
<1> HIDE DEF f, v, active
<1>9. DOMAIN f \subseteq Word
  BY <1>2, <1>4, Layout
<1>10. /\ memory' = memory /\ Coherent'
       /\ \A a \in Word : seen(a)' = IF a \in DOMAIN f THEN f[a] ELSE seen(a)
  BY <1>1, <1>3, <1>9, StoreSeen
<1>11. \A a \in {0, 1, 2, 3, 4, 5, 6} :
         seen(a)' = IF a = 4 + i THEN 1 ELSE IF a = 3 THEN v ELSE seen(a)
  BY <1>2, <1>4, <1>10, Layout
<1>12. Images'
  BY <1>1, <1>2, <1>10, <1>11 DEF Images
<1>13. StartPlaces'
  BY <1>1 DEF StartPlaces
<1>14. Words'
  BY <1>1, <1>2, <1>10, <1>11 DEF Words
<1>15. cpuIenable' = InTurns'
  <2>1. cpuIenable = {Drivers[k] : k \in 1..turn}
    BY <1>1 DEF Enabled, InTurns, Turns
  <2>2. Turns' = turn + 1
    BY <1>1 DEF Turns
  <2>3. InTurns' = {Drivers[k] : k \in 1..(turn + 1)}
    BY <2>2 DEF InTurns
  <2>4. {Drivers[k] : k \in 1..(turn + 1)} = {Drivers[k] : k \in 1..turn} \cup {i}
    BY <1>1
  <2> QED
    BY <1>3, <1>7, <2>1, <2>3, <2>4
<1>16. Boot!BitsOf(seen(3))' = cpuIenable'
  BY <1>2, <1>3, <1>6, <1>11 DEF Boot!BitsOf
<1>17. ASSUME NEW j \in cpuIenable' PROVE seen(4 + j)' = 1
  <2>1. j \in {0, 1} /\ (j = i \/ seen(4 + j) = 1)
    BY <1>3, <1>7, <1>8, <1>17
  <2>2. 4 + j \in {0, 1, 2, 3, 4, 5, 6} /\ 4 + j # 3 /\ (4 + j = 4 + i => j = i)
    BY <1>2, <2>1
  <2> QED
    BY <1>2, <1>11, <2>1, <2>2
<1>18. Enabled'
  BY <1>1, <1>15, <1>16, <1>17 DEF Enabled
<1> QED
  BY <1>10, <1>12, <1>13, <1>14, <1>18

\* The program stores its own mask, and main may return.
LEMMA BootMain ==
  ASSUME BootInv, Boot!Main
  PROVE  BootInv'
<1> USE DEF BootInv
<1>1. pc = "main" /\ UNCHANGED <<pc, turn, icache, copied, cpuPie, cpuIenable>>
  BY DEF Boot!Main, Boot!At, Boot!cpu
<1>2. PICK mask \in {0, 1, Boot!All} : Boot!Store([a \in {1} |-> mask])
  BY Layout DEF Boot!Main
<1> DEFINE f == [a \in {1} |-> mask]
<1>3. DOMAIN f = {1} /\ DOMAIN f \subseteq Word
  BY Layout
<1> HIDE DEF f
<1>4. Boot!Store(f)
  BY <1>2 DEF f
<1>5. /\ memory' = memory /\ Coherent'
      /\ \A a \in Word : seen(a)' = IF a \in DOMAIN f THEN f[a] ELSE seen(a)
  BY <1>1, <1>3, <1>4, StoreSeen
<1>6. \A a \in {0, 2, 3, 4, 5, 6} : seen(a)' = seen(a)
  BY <1>3, <1>5, Layout
<1>7. Images'
  BY <1>1, <1>5, <1>6 DEF Images
<1>8. StartPlaces'
  BY <1>1 DEF StartPlaces
<1>9. Words'
  BY <1>1, <1>5, <1>6 DEF Words
<1>10. Enabled'
  <2>1. InTurns' = InTurns /\ cpuIenable \subseteq {0, 1}
    BY <1>1 DEF InTurns, Turns, Enabled, Boot!BitsOf, Boot!Irqs
  <2>2. Boot!BitsOf(seen(3))' = Boot!BitsOf(seen(3))
    BY <1>6 DEF Boot!BitsOf
  <2>3. \A j \in {0, 1} : seen(4 + j)' = seen(4 + j)
    BY <1>6
  <2> QED
    BY <1>1, <2>1, <2>2, <2>3 DEF Enabled
<1> QED
  BY <1>5, <1>7, <1>8, <1>9, <1>10

LEMMA BootExit ==
  ASSUME BootInv, Boot!Exit
  PROVE  BootInv'
<1> USE DEF BootInv
<1>1. /\ pc = "main" /\ pc' = "exit" /\ turn' = 0
      /\ UNCHANGED <<memory, present, dirty, copy, icache, copied, cpuPie, cpuIenable>>
  BY DEF Boot!Exit, Boot!At, Boot!Called, Boot!Goto, Boot!alt_main, Boot!cpu, Boot!cacheVars
<1>2. \A a \in Word : seen(a)' = seen(a)
  BY <1>1 DEF seen, Boot!seen
<1>3. Coherent'
  BY <1>1 DEF Coherent
<1>4. Images'
  BY <1>1, <1>2, Layout DEF Images
<1>5. StartPlaces' /\ Words'
  BY <1>1, <1>2, Layout DEF StartPlaces, Words
<1>6. Enabled'
  <2>1. InTurns' = InTurns /\ cpuIenable \subseteq {0, 1}
    BY <1>1 DEF InTurns, Turns, Enabled, Boot!BitsOf, Boot!Irqs
  <2>2. Boot!BitsOf(seen(3))' = Boot!BitsOf(seen(3))
    BY <1>1 DEF seen, Boot!seen, Boot!BitsOf
  <2>3. \A j \in {0, 1} : seen(4 + j)' = seen(4 + j)
    BY <1>2, Layout
  <2> QED
    BY <1>1, <2>1, <2>2, <2>3 DEF Enabled
<1> QED
  BY <1>3, <1>4, <1>5, <1>6

\* At any time lines are fetched and evicted.
LEMMA BootMeanwhile ==
  ASSUME BootInv, Boot!Fetch \/ Boot!Replace \/ UNCHANGED bootVars
  PROVE  BootInv'
<1>1. CASE Boot!Fetch /\ Begun
  <2>1. /\ UNCHANGED <<memory, present, dirty, copy, pc, turn, copied, cpuPie, cpuIenable>>
        /\ icache' = memory[0]
    BY <1>1, Layout DEF Boot!Fetch, Boot!cacheVars, Boot!cpu
  <2>2. Coherent' /\ \A a \in Word : seen(a)' = seen(a)
    BY <2>1 DEF BootInv, Coherent, seen, Boot!seen
  <2> QED
    BY <1>1, <2>1, <2>2, SameSeen
<1>2. CASE Boot!Replace
  <2>1. PICK l \in present : Boot!Drop({l}, TRUE)
    BY <1>2 DEF Boot!Replace, Boot!Evict
  <2>2. Begun /\ UNCHANGED <<pc, turn, icache, copied, cpuPie, cpuIenable>>
    BY <1>2 DEF Boot!Replace, Boot!cpu
  <2>3. /\ Coherent'
        /\ \A a \in Word : seen(a)' = seen(a) /\ memory'[a] \in {memory[a], seen(a)}
    BY <2>1, <2>2, DropSeen DEF BootInv
  <2> QED
    BY <2>2, <2>3, SameSeen
<1>3. CASE UNCHANGED <<memory, present, dirty, copy, pc, turn, copied, cpuPie, cpuIenable>> /\ (icache' = icache \/ ~Begun)
  <2>1. Coherent'
    BY <1>3 DEF BootInv, Coherent
  <2>2. \A a : seen(a)' = seen(a)
    BY <1>3 DEF seen, Boot!seen
  <2>3. Images'
    BY <1>3, <2>2 DEF BootInv, Images
  <2>4. StartPlaces' /\ Words'
    BY <1>3, <2>2 DEF BootInv, StartPlaces, Words
  <2>5. Enabled'
    <3>1. InTurns' = InTurns
      BY <1>3 DEF InTurns, Turns
    <3>2. Boot!BitsOf(seen(3))' = Boot!BitsOf(seen(3))
      BY <1>3 DEF seen, Boot!seen, Boot!BitsOf
    <3> QED
      BY <1>3, <2>2, <3>1, <3>2 DEF BootInv, Enabled
  <2> QED
    BY <2>1, <2>3, <2>4, <2>5 DEF BootInv
<1> QED
  BY <1>1, <1>2, <1>3 DEF Boot!Fetch, Boot!cacheVars, Boot!cpu, bootVars

LEMMA BootInit ==
  ASSUME Boot!PowerUp, copied \in Copied
  PROVE  BootInv
<1>1. Coherent
  BY DEF Boot!PowerUp, Coherent
<1>2. Images
  BY Layout DEF Boot!PowerUp, Images, Word
<1>3. StartPlaces /\ Words /\ Enabled
  BY StartAssumption DEF StartAssumption, Boot!PowerUp, StartPlaces, Words, Enabled
<1> QED
  BY <1>1, <1>2, <1>3 DEF BootInv

LEMMA BootStep ==
  ASSUME BootInv, Boot!StartNext \/ UNCHANGED bootVars
  PROVE  BootInv'
BY BootReset, BootInitDataCache, BootClearBss, BootLoadRead, BootLoadWrite, BootFlushData,
   BootPrepare, BootSysInit, BootMain, BootExit, BootMeanwhile DEF Boot!StartNext

LEMMA BootImplied == BootInv => Boot!StartInv
<1> SUFFICES ASSUME BootInv PROVE Boot!StartInv
  OBVIOUS
<1>1. cpuPie => /\ pc \in Running /\ cpuIenable \subseteq {0, 1}
                /\ \A i \in cpuIenable : seen(4 + i) = 1
  BY DEF BootInv, Enabled, Boot!BitsOf, Boot!Irqs
<1>2. Boot!HandlersKnown
  BY <1>1, Layout DEF Boot!HandlersKnown, seen
<1>3. Boot!CodeFetched
  BY <1>1, Layout DEF BootInv, Words, Boot!CodeFetched
<1>4. Boot!FreshData
  BY Layout DEF BootInv, Words, Images, Boot!FreshData, seen
<1>5. Boot!DriversEnabled
  <2>1. pc \in {"main", "exit"} => cpuIenable = {Drivers[k] : k \in DOMAIN Drivers}
    BY StartAssumption DEF StartAssumption, BootInv, Enabled, InTurns, Turns
  <2> QED
    BY <2>1, Layout DEF BootInv, Enabled, Boot!DriversEnabled, seen
<1> QED
  BY <1>2, <1>3, <1>4, <1>5 DEF Boot!StartInv

-----------------------------------------------------------------------------
\* From a reset at any moment, whatever is left in memory and caches, interrupts
\* are enabled only when their handlers and the code that is fetched for them are
\* in place (crt0, alt_load, alt_main); from then on they are dispatched as
\* InterruptsHandled says, for every cache line size, every choice of what
\* alt_load has to copy and every order of the drivers.
THEOREM StartAndDispatch == PartSpec => []InterruptsRight
<1> DEFINE Inv == IF booting THEN BootInv ELSE IInv
<1>1. PartInit => Inv
  BY Initially, BootInit DEF PartInit, Boot!PowerUp
<1>2. Inv /\ [PartNext]_<<booting, vars, bootVars>> => Inv'
  <2> SUFFICES ASSUME Inv, [PartNext]_<<booting, vars, bootVars>> PROVE Inv'
    OBVIOUS
  <2>1. booting' = booting
    BY DEF PartNext
  <2>2. CASE booting
    <3>1. Boot!StartNext \/ UNCHANGED bootVars
      BY <2>2 DEF PartNext
    <3> QED
      BY <2>1, <2>2, <3>1, BootStep
  <2>3. CASE ~booting
    <3>1. [Next]_vars
      BY <2>3 DEF PartNext
    <3> QED
      BY <2>1, <2>3, <3>1, Steps
  <2> QED
    BY <2>2, <2>3
<1>3. Inv => InterruptsRight
  BY Implied, BootImplied DEF InterruptsRight
<1> QED
  BY <1>1, <1>2, <1>3, PTL DEF PartSpec
=============================================================================

--------------------------- MODULE TransactionQueue ---------------------------
(***************************************************************************)
(* What the HyperRAM controller promises its user: the transactions that   *)
(* enter the queue are run one at a time, in the order in which they       *)
(* entered it, each once at most (Spec); and, as long as it has not        *)
(* stalled, each one is eventually run (Progress).                         *)
(***************************************************************************)
EXTENDS Integers, Sequences

CONSTANTS Transactions, Depth, None

VARIABLES
  pending,        \* transactions queued and not yet taken
  current         \* the transaction being run, or None

TypeOK == /\ pending \in Seq(Transactions)
          /\ current \in Transactions \cup {None}

Init == pending = <<>> /\ current = None

\* A transaction enters the queue, unless it is full.
Enqueue(t) == /\ Len(pending) < Depth
              /\ pending' = Append(pending, t)

Take == /\ current = None /\ pending # <<>>
        /\ current' = Head(pending)

Accept(t) == Enqueue(t) /\ UNCHANGED current
Start == Take /\ pending' = Tail(pending)
StartAndAccept(t) == Take /\ Len(pending) < Depth
                     /\ pending' = Append(Tail(pending), t)
Finish == current # None /\ current' = None /\ UNCHANGED pending

Next == \/ Start \/ Finish
        \/ \E t \in Transactions :
             Accept(t) \/ StartAndAccept(t)

Spec == Init /\ [][Next]_<<pending, current>>

\* Every transaction that waits or runs is over at some later time.
Progress == /\ WF_<<pending, current>>(Start)
            /\ WF_<<pending, current>>(Finish)

LiveSpec == Spec /\ Progress
=============================================================================

-------------------------------- MODULE AltAlarm_proofs --------------------------------
(***************************************************************************)
(* The list of alarms stays a list: for every number of alarms, every      *)
(* width of the counter, and callbacks that start and stop whatever they   *)
(* like, the two directions of the list agree.                             *)
(***************************************************************************)
EXTENDS MCAltAlarm, Sequences, TLAPS

Links == [next : [Entry -> Entry], previous : [Entry -> Entry]]

LEMMA InsertLinked ==
  ASSUME NEW l \in Links, Linked(l), NEW h \in Entry, NEW e \in Entry,
         l.next[e] = e, h # e
  PROVE  alt_llist_insert(l, h, e) \in Links /\ Linked(alt_llist_insert(l, h, e))
<1> DEFINE f == l.next[h]
           n == [l.next EXCEPT ![e] = f, ![h] = e]
           p == [l.previous EXCEPT ![e] = h, ![f] = e]
<1>1. /\ l.next \in [Entry -> Entry] /\ l.previous \in [Entry -> Entry]
      /\ f \in Entry
  BY DEF Links
<1>2. l.previous[e] = e /\ f # e /\ l.previous[f] = h
  BY <1>1 DEF Linked
<1>3. n \in [Entry -> Entry] /\ p \in [Entry -> Entry]
  BY <1>1
<1>4. \A x \in Entry : n[x] = IF x = h THEN e ELSE IF x = e THEN f ELSE l.next[x]
  BY <1>1
<1>5. \A x \in Entry : p[x] = IF x = f THEN e ELSE IF x = e THEN h ELSE l.previous[x]
  BY <1>1
<1>6. ASSUME NEW x \in Entry PROVE p[n[x]] = x /\ n[p[x]] = x
  <2>1. l.next[x] \in Entry /\ l.previous[x] \in Entry
    BY <1>1
  <2>2. l.previous[l.next[x]] = x /\ l.next[l.previous[x]] = x
    BY DEF Linked
  <2> HIDE DEF n, p, f
  <2>3. p[n[x]] = x
    <3>1. CASE x = h
      BY <1>2, <1>4, <1>5, <3>1
    <3>2. CASE x = e
      BY <1>1, <1>2, <1>4, <1>5, <3>2
    <3>3. CASE x # h /\ x # e
      <4>1. l.next[x] # f /\ l.next[x] # e
        BY <1>2, <2>2, <3>3
      <4> QED
        BY <1>4, <1>5, <2>1, <2>2, <3>3, <4>1
    <3> QED
      BY <3>1, <3>2, <3>3
  <2>4. n[p[x]] = x
    <3>1. CASE x = f
      BY <1>1, <1>2, <1>4, <1>5, <3>1
    <3>2. CASE x = e
      BY <1>1, <1>2, <1>4, <1>5, <3>2 DEF f
    <3>3. CASE x # f /\ x # e
      <4>1. l.previous[x] # h /\ l.previous[x] # e
        BY <1>2, <2>2, <3>3 DEF f
      <4> QED
        BY <1>4, <1>5, <2>1, <2>2, <3>3, <4>1
    <3> QED
      BY <3>1, <3>2, <3>3
  <2> QED
    BY <2>3, <2>4
<1>7. /\ alt_llist_insert(l, h, e) = [next |-> n, previous |-> p]
  BY DEF alt_llist_insert
<1> HIDE DEF n, p
<1> QED
  BY <1>3, <1>6, <1>7 DEF Links, Linked

LEMMA RemoveLinked ==
  ASSUME NEW l \in Links, Linked(l), NEW e \in Entry
  PROVE  alt_llist_remove(l, e) \in Links /\ Linked(alt_llist_remove(l, e))
<1> DEFINE f == l.next[e]
           b == l.previous[e]
           n == [l.next EXCEPT ![b] = f, ![e] = e]
           p == [l.previous EXCEPT ![f] = b, ![e] = e]
<1>1. /\ l.next \in [Entry -> Entry] /\ l.previous \in [Entry -> Entry]
      /\ f \in Entry /\ b \in Entry
  BY DEF Links
<1>2. l.previous[f] = e /\ l.next[b] = e
  BY DEF Linked
<1>3. n \in [Entry -> Entry] /\ p \in [Entry -> Entry]
  BY <1>1
<1>4. \A x \in Entry : n[x] = IF x = e THEN e ELSE IF x = b THEN f ELSE l.next[x]
  BY <1>1
<1>5. \A x \in Entry : p[x] = IF x = e THEN e ELSE IF x = f THEN b ELSE l.previous[x]
  BY <1>1
<1>6. ASSUME NEW x \in Entry PROVE p[n[x]] = x /\ n[p[x]] = x
  <2>1. l.next[x] \in Entry /\ l.previous[x] \in Entry
    BY <1>1
  <2>2. l.previous[l.next[x]] = x /\ l.next[l.previous[x]] = x
    BY DEF Linked
  <2>3. b = e <=> f = e
    BY <1>1, <1>2 DEF Linked
  <2>6. (x # e /\ x # b => l.next[x] # e /\ l.next[x] # f)
    BY <2>2, <1>2 DEF Linked
  <2>7. (x # e /\ x # f => l.previous[x] # e /\ l.previous[x] # b)
    BY <2>2, <1>2 DEF Linked
  <2> HIDE DEF n, p, f, b
  <2>4. p[n[x]] = x
    BY <1>1, <1>4, <1>5, <2>1, <2>2, <2>3, <2>6
  <2>5. n[p[x]] = x
    BY <1>1, <1>4, <1>5, <2>1, <2>2, <2>3, <2>7
  <2> QED
    BY <2>4, <2>5
<1>7. alt_llist_remove(l, e) = [next |-> n, previous |-> p]
  BY DEF alt_llist_remove
<1> HIDE DEF n, p
<1> QED
  BY <1>3, <1>6, <1>7 DEF Links, Linked

-----------------------------------------------------------------------------
ListInv == links \in Links /\ Linked(links) /\ alarm \in Entry

LEMMA ListInit == Init => ListInv
<1> SUFFICES ASSUME Init PROVE ListInv
  OBVIOUS
<1>1. links = [next |-> [e \in Entry |-> e], previous |-> [e \in Entry |-> e]]
      /\ alarm = alt_alarm_list
  BY DEF Init
<1> QED
  BY <1>1 DEF ListInv, Links, Linked, Entry

\* What a callback and its return do to the list.
LEMMA ReturnedLinked ==
  ASSUME NEW l \in Links, Linked(l), NEW t, NEW r, alarm \in Entry, Returned(l, t, r)
  PROVE  links' \in Links /\ Linked(links')
<1>1. links' = l \/ links' = alt_llist_remove(l, alarm)
  BY DEF Returned
<1> QED
  BY <1>1, RemoveLinked

LEMMA ListNext == ASSUME ListInv, [Next]_vars PROVE ListInv'
<1>0. links \in Links /\ Linked(links) /\ alarm \in Entry /\ alt_alarm_list \in Entry
      /\ Alarm \subseteq Entry /\ \A a \in Alarm : a # alt_alarm_list
  BY AlarmAssumption DEF ListInv, Entry, AlarmAssumption
<1>1. \A e \in Entry : links.next[e] \in Entry
  BY <1>0 DEF Links
<1>2. CASE SysclkInit
  BY <1>0, <1>2 DEF SysclkInit, ListInv
<1>3. ASSUME NEW a \in Alarm, AlarmStart(a) PROVE ListInv'
  <2>1. links' = alt_llist_insert(links, alt_alarm_list, a) /\ links.next[a] = a /\ alarm' = alarm
    BY <1>3 DEF AlarmStart, Registered
  <2> QED
    BY <1>0, <2>1, InsertLinked DEF ListInv
<1>4. ASSUME NEW a \in Alarm, AlarmStop(a) PROVE ListInv'
  <2>1. links' = alt_llist_remove(links, a) /\ alarm' = alarm
    BY <1>4 DEF AlarmStop
  <2> QED
    BY <1>0, <2>1, RemoveLinked DEF ListInv
<1>5. CASE Tick
  BY <1>0, <1>1, <1>5 DEF Tick, ListInv
<1>6. CASE NotDue
  BY <1>0, <1>1, <1>6 DEF NotDue, ListInv
<1>7. CASE Callback
  <2>1. alarm' \in Entry
    BY <1>0, <1>1, <1>7 DEF Callback
  <2>2. links' \in Links /\ Linked(links')
    <3>1. CASE Returned(links, time, rollover)
      BY <1>0, <3>1, ReturnedLinked
    <3>2. ASSUME NEW a \in Alarm, NEW t, NEW r, ~Registered(a),
                 Returned(alt_llist_insert(links, alt_alarm_list, a), t, r)
          PROVE  links' \in Links /\ Linked(links')
      <4>1. links.next[a] = a
        BY <3>2 DEF Registered
      <4>2. /\ alt_llist_insert(links, alt_alarm_list, a) \in Links
            /\ Linked(alt_llist_insert(links, alt_alarm_list, a))
        BY <1>0, <4>1, InsertLinked
      <4> QED
        BY <1>0, <3>2, <4>2, ReturnedLinked
    <3>3. ASSUME NEW a \in Alarm, Returned(alt_llist_remove(links, a), time, rollover)
          PROVE  links' \in Links /\ Linked(links')
      <4>1. /\ alt_llist_remove(links, a) \in Links
            /\ Linked(alt_llist_remove(links, a))
        BY <1>0, RemoveLinked
      <4> QED
        BY <1>0, <3>3, <4>1, ReturnedLinked
    <3> QED
      BY <1>7, <3>1, <3>2, <3>3 DEF Callback
  <2> QED
    BY <2>1, <2>2 DEF ListInv
<1>8. CASE UNCHANGED vars
  BY <1>0, <1>8 DEF vars, ListInv
<1> QED
  BY <1>2, <1>3, <1>4, <1>5, <1>6, <1>7, <1>8 DEF Next, TickLoop

\* In every reachable state the next and the previous of each entry agree.
THEOREM ListStaysLinked == Spec => []ListLinked
<1>1. ListInv => ListLinked
  BY DEF ListInv, ListLinked
<1> QED
  BY <1>1, ListInit, ListNext, PTL DEF Spec

-----------------------------------------------------------------------------
(* The walk of alt_tick.  The alarms that are registered are in one list:    *)
(* their places go up from one to the next, from the first to the last, and  *)
(* none is left out.                                                         *)

In(l, x) == l.next[x] # x

Positions(l, rank) ==
  /\ rank \in [Entry -> Int]
  /\ \A x, y \in Alarm : In(l, x) /\ In(l, y) /\ rank[x] = rank[y] => x = y
  /\ \A x, y \in Alarm : In(l, x) /\ In(l, y) /\ l.next[x] = alt_alarm_list => rank[y] <= rank[x]
  /\ \A x, y \in Alarm : In(l, x) /\ In(l, y) /\ l.next[x] # alt_alarm_list =>
       /\ rank[x] < rank[l.next[x]]
       /\ rank[y] <= rank[x] \/ rank[l.next[x]] <= rank[y]
  /\ \A y \in Alarm : In(l, y) => /\ l.next[alt_alarm_list] # alt_alarm_list
                                  /\ rank[l.next[alt_alarm_list]] <= rank[y]

Ordered(l) == \E rank : Positions(l, rank)

AInv == TypeOK /\ Linked(links) /\ Ordered(links) /\ OnlyRegistered

LEMMA Entries ==
  /\ alt_alarm_list \in Entry /\ Alarm \subseteq Entry
  /\ \A a \in Alarm : a # alt_alarm_list
  /\ \A e \in Entry : e # alt_alarm_list => e \in Alarm
BY AlarmAssumption DEF AlarmAssumption, Entry

\* An alarm that is started becomes the first, and the others keep their places.
LEMMA InsertAt ==
  ASSUME NEW l \in Links, Linked(l), NEW rank, Positions(l, rank),
         NEW a \in Alarm, l.next[a] = a
  PROVE  /\ \E below : /\ Positions(alt_llist_insert(l, alt_alarm_list, a), below)
                       /\ \A x \in Alarm : x # a => below[x] = rank[x]
                       /\ \A x \in Alarm : x # a /\ In(l, x) => below[a] < below[x]
         /\ \A x \in Alarm : x # a =>
              alt_llist_insert(l, alt_alarm_list, a).next[x] = l.next[x]
         /\ alt_llist_insert(l, alt_alarm_list, a).next[a] # a
<1> DEFINE f == l.next[alt_alarm_list]
           n == [l.next EXCEPT ![a] = f, ![alt_alarm_list] = a]
           new == alt_llist_insert(l, alt_alarm_list, a)
<1>1. l.next \in [Entry -> Entry] /\ l.previous \in [Entry -> Entry] /\ f \in Entry
      /\ f = l.next[alt_alarm_list]
  BY Entries DEF Links
<1>2. new.next = n
  BY DEF alt_llist_insert
<1>3. n \in [Entry -> Entry] /\ n[a] = f /\ n[alt_alarm_list] = a
      /\ \A x \in Alarm : x # a => n[x] = l.next[x]
  BY <1>1, Entries
<1>4. f # a /\ \A x \in Alarm : x # a => l.next[x] # a
  BY <1>1, Entries DEF Linked
<1> HIDE DEF n, f, new
<1>5. In(new, a) /\ \A x \in Alarm : x # a => (In(new, x) <=> In(l, x))
  BY <1>2, <1>3, <1>4 DEF In
<1> DEFINE below == [rank EXCEPT ![a] = rank[f] - 1]
<1>6. rank \in [Entry -> Int] /\ \A x \in Alarm : rank[x] \in Int
  BY Entries DEF Positions
<1>7. below \in [Entry -> Int] /\ below[a] = rank[f] - 1 /\ rank[f] \in Int
      /\ \A x \in Entry : x # a => below[x] = rank[x]
  BY <1>1, <1>6, Entries
<1> HIDE DEF below
<1>8. \A x \in Alarm : In(l, x) => f # alt_alarm_list /\ rank[f] <= rank[x]
  BY <1>1 DEF Positions
<1>9. \A x \in Alarm : x # a /\ In(l, x) => below[a] < below[x]
  BY <1>6, <1>7, <1>8, Entries
<1>10. \A x \in Alarm : below[x] \in Int
  BY <1>7, Entries
<1>11. ASSUME NEW x \in Alarm, NEW y \in Alarm, In(new, x), In(new, y), below[x] = below[y]
       PROVE  x = y
  <2>1. CASE x = a \/ y = a
    BY <1>5, <1>9, <1>10, <1>11, <2>1
  <2>2. CASE x # a /\ y # a
    BY <1>5, <1>7, <1>11, <2>2, Entries DEF Positions
  <2> QED
    BY <2>1, <2>2
<1>12. ASSUME NEW x \in Alarm, NEW y \in Alarm, In(new, x), In(new, y), n[x] = alt_alarm_list
       PROVE  below[y] <= below[x]
  <2>1. CASE x = a
    <3>1. y = a
      BY <1>3, <1>5, <1>8, <1>12, <2>1
    <3> QED
      BY <1>10, <2>1, <3>1
  <2>2. CASE x # a /\ y = a
    BY <1>5, <1>9, <1>10, <1>12, <2>2
  <2>3. CASE x # a /\ y # a
    BY <1>3, <1>5, <1>7, <1>12, <2>3, Entries DEF Positions
  <2> QED
    BY <2>1, <2>2, <2>3
<1>13. ASSUME NEW x \in Alarm, NEW y \in Alarm, In(new, x), In(new, y), n[x] # alt_alarm_list
       PROVE  below[x] < below[n[x]] /\ (below[y] <= below[x] \/ below[n[x]] <= below[y])
  <2>1. CASE x = a
    <3>1. n[x] = f /\ below[f] = rank[f] /\ below[a] < below[f]
      BY <1>1, <1>3, <1>4, <1>7, <2>1
    <3>2. y # a => below[f] <= below[y]
      BY <1>5, <1>7, <1>8, <1>13, <3>1, Entries
    <3> QED
      BY <1>10, <2>1, <3>1, <3>2
  <2>2. CASE x # a
    <3>1. n[x] = l.next[x] /\ n[x] # a /\ n[x] \in Entry /\ In(l, x)
      BY <1>1, <1>3, <1>4, <1>5, <1>13, <2>2, Entries
    <3>2. below[x] = rank[x] /\ below[n[x]] = rank[n[x]]
      BY <1>7, <2>2, <3>1, Entries
    <3>3. rank[x] < rank[n[x]]
      BY <1>13, <3>1 DEF Positions
    <3>4. CASE y = a
      BY <1>9, <1>10, <2>2, <3>1, <3>2, <3>3, <3>4
    <3>5. CASE y # a
      <4>1. In(l, y) /\ below[y] = rank[y]
        BY <1>5, <1>7, <1>13, <3>5, Entries
      <4>2. rank[y] <= rank[x] \/ rank[l.next[x]] <= rank[y]
        BY <1>13, <3>1, <4>1 DEF Positions
      <4> QED
        BY <3>1, <3>2, <3>3, <4>1, <4>2
    <3> QED
      BY <3>4, <3>5
  <2> QED
    BY <2>1, <2>2
<1>14. ASSUME NEW y \in Alarm, In(new, y)
       PROVE  n[alt_alarm_list] # alt_alarm_list /\ below[n[alt_alarm_list]] <= below[y]
  <2>1. n[alt_alarm_list] = a
    BY <1>3
  <2>2. CASE y = a
    BY <1>10, <2>1, <2>2, Entries
  <2>3. CASE y # a
    BY <1>5, <1>9, <1>10, <1>14, <2>1, <2>3, Entries
  <2> QED
    BY <2>2, <2>3
<1>15. Positions(new, below)
  BY <1>2, <1>7, <1>11, <1>12, <1>13, <1>14 DEF Positions
<1>16. \A x \in Alarm : x # a => below[x] = rank[x]
  BY <1>7, Entries
<1> QED
  BY <1>2, <1>3, <1>4, <1>9, <1>15, <1>16 DEF new

LEMMA InsertOrdered ==
  ASSUME NEW l \in Links, Linked(l), Ordered(l), NEW a \in Alarm, l.next[a] = a
  PROVE  /\ Ordered(alt_llist_insert(l, alt_alarm_list, a))
         /\ \A x \in Alarm : l.next[x] # x =>
              alt_llist_insert(l, alt_alarm_list, a).next[x] = l.next[x]
         /\ alt_llist_insert(l, alt_alarm_list, a).next[a] # a
<1>1. PICK rank : Positions(l, rank)
  BY DEF Ordered
<1> QED
  BY <1>1, InsertAt DEF Ordered

\* An alarm that is stopped leaves the others in their places, and in the list.
LEMMA RemoveAt ==
  ASSUME NEW l \in Links, Linked(l), NEW rank, Positions(l, rank), NEW e \in Alarm
  PROVE  /\ Positions(alt_llist_remove(l, e), rank)
         /\ ~In(alt_llist_remove(l, e), e)
         /\ \A x \in Alarm : x # e => (In(alt_llist_remove(l, e), x) <=> In(l, x))
<1> DEFINE f == l.next[e]
           b == l.previous[e]
           n == [l.next EXCEPT ![b] = f, ![e] = e]
           new == alt_llist_remove(l, e)
<1>1. l.next \in [Entry -> Entry] /\ l.previous \in [Entry -> Entry]
      /\ f \in Entry /\ b \in Entry /\ e \in Entry
  BY Entries DEF Links
<1>2. new.next = n
  BY DEF alt_llist_remove
<1>3. n \in [Entry -> Entry] /\ n[e] = e
      /\ \A x \in Entry : x # e => n[x] = IF x = b THEN f ELSE l.next[x]
  BY <1>1
<1>4. l.next[b] = e /\ l.previous[f] = e
  BY <1>1 DEF Linked
<1>5. f = e => b = e
  BY <1>4
<1>6. f = l.next[e]
  OBVIOUS
<1> HIDE DEF n, f, b, new
<1>7. rank \in [Entry -> Int] /\ \A x \in Entry : rank[x] \in Int
  BY DEF Positions
<1>8. ASSUME NEW x \in Alarm, NEW y \in Alarm, In(l, x), In(l, y)
      PROVE  /\ rank[x] = rank[y] => x = y
             /\ l.next[x] = alt_alarm_list => rank[y] <= rank[x]
             /\ l.next[x] # alt_alarm_list =>
                  rank[x] < rank[l.next[x]] /\ (rank[y] <= rank[x] \/ rank[l.next[x]] <= rank[y])
             /\ l.next[alt_alarm_list] # alt_alarm_list /\ rank[l.next[alt_alarm_list]] <= rank[y]
  BY <1>8 DEF Positions
\* The predecessor of e is below what follows e.
<1>9. ASSUME NEW x \in Alarm, x # e, x = b
      PROVE  /\ In(l, x) /\ In(l, e) /\ rank[x] < rank[e]
             /\ f # alt_alarm_list => rank[x] < rank[f]
  <2>1. In(l, x) /\ l.next[x] = e
    BY <1>4, <1>9 DEF In
  <2>2. In(l, e)
    BY <1>5, <1>6, <1>9 DEF In
  <2>3. rank[x] < rank[e]
    BY <1>8, <2>1, Entries
  <2>4. f # alt_alarm_list => rank[e] < rank[f]
    BY <1>6, <1>8, <2>2
  <2> QED
    BY <1>1, <1>7, <2>1, <2>2, <2>3, <2>4, Entries
<1>10. ~In(new, e)
  BY <1>2, <1>3 DEF In
<1>11. ASSUME NEW x \in Alarm, x # e PROVE In(new, x) <=> In(l, x)
  <2>1. CASE x = b
    <3>1. n[x] = f /\ In(l, x)
      BY <1>3, <1>9, <1>11, <2>1, Entries
    <3>2. f # x
      <4>1. CASE f = alt_alarm_list
        BY <4>1, Entries
      <4>2. CASE f # alt_alarm_list
        <5>1. rank[x] < rank[f] /\ rank[x] \in Int
          BY <1>7, <1>9, <1>11, <2>1, <4>2, Entries
        <5> QED
          BY <5>1
      <4> QED
        BY <4>1, <4>2
    <3> QED
      BY <1>2, <3>1, <3>2 DEF In
  <2>2. CASE x # b
    BY <1>2, <1>3, <1>11, <2>2, Entries DEF In
  <2> QED
    BY <2>1, <2>2
\* One that stays and is not below e is above it, and not below its successor.
<1>12. ASSUME NEW y \in Alarm, In(l, y), In(l, e), y # e, rank[e] <= rank[y]
       PROVE  f # alt_alarm_list /\ rank[f] <= rank[y]
  <2>1. rank[e] # rank[y]
    BY <1>8, <1>12
  <2>2. ~(rank[y] <= rank[e])
    BY <1>7, <1>12, <2>1, Entries
  <2> QED
    BY <1>6, <1>8, <1>12, <2>2
<1>13. ASSUME NEW x \in Alarm, NEW y \in Alarm, In(new, x), In(new, y)
       PROVE  /\ rank[x] = rank[y] => x = y
              /\ n[x] = alt_alarm_list => rank[y] <= rank[x]
              /\ n[x] # alt_alarm_list =>
                   rank[x] < rank[n[x]] /\ (rank[y] <= rank[x] \/ rank[n[x]] <= rank[y])
              /\ n[alt_alarm_list] # alt_alarm_list /\ rank[n[alt_alarm_list]] <= rank[y]
  <2>1. x # e /\ y # e /\ In(l, x) /\ In(l, y)
    BY <1>10, <1>11, <1>13
  <2>2. rank[x] = rank[y] => x = y
    BY <1>8, <2>1
  <2>3. CASE x = b
    <3>1. n[x] = f /\ In(l, e) /\ rank[x] < rank[e] /\ (f # alt_alarm_list => rank[x] < rank[f])
          /\ l.next[x] = e
      BY <1>3, <1>4, <1>9, <2>1, <2>3, Entries
    <3>2. rank[y] <= rank[x] \/ rank[e] <= rank[y]
      BY <1>8, <2>1, <3>1, Entries
    <3>3. rank[e] <= rank[y] => f # alt_alarm_list /\ rank[f] <= rank[y]
      BY <1>12, <2>1, <3>1
    <3>4. n[alt_alarm_list] = l.next[alt_alarm_list]
      BY <1>3, <2>3, Entries
    <3> QED
      BY <1>8, <2>1, <2>2, <3>1, <3>2, <3>3, <3>4
  <2>4. CASE x # b
    <3>1. n[x] = l.next[x]
      BY <1>3, <2>1, <2>4, Entries
    <3>2. n[alt_alarm_list] # alt_alarm_list /\ rank[n[alt_alarm_list]] <= rank[y]
      <4>1. CASE b = alt_alarm_list
        <5>1. n[alt_alarm_list] = f /\ l.next[alt_alarm_list] = e
          BY <1>3, <1>4, <4>1, Entries
        <5>2. rank[e] <= rank[y]
          BY <1>8, <2>1, <5>1
        <5>3. In(l, e)
          BY <1>5, <1>6, <4>1, Entries DEF In
        <5> QED
          BY <1>12, <2>1, <5>1, <5>2, <5>3
      <4>2. CASE b # alt_alarm_list
        <5>1. n[alt_alarm_list] = l.next[alt_alarm_list]
          BY <1>3, <4>2, Entries
        <5> QED
          BY <1>8, <2>1, <5>1
      <4> QED
        BY <4>1, <4>2
    <3> QED
      BY <1>8, <2>1, <2>2, <3>1, <3>2
  <2> QED
    BY <2>3, <2>4
<1>14. Positions(new, rank)
  BY <1>2, <1>7, <1>13 DEF Positions
<1> QED
  BY <1>10, <1>11, <1>14 DEF new

LEMMA RemoveOrdered ==
  ASSUME NEW l \in Links, Linked(l), Ordered(l), NEW e \in Alarm
  PROVE  /\ Ordered(alt_llist_remove(l, e))
         /\ \A x \in Alarm : x # e /\ l.next[x] # x => alt_llist_remove(l, e).next[x] # x
<1>1. PICK rank : Positions(l, rank)
  BY DEF Ordered
<1> QED
  BY <1>1, RemoveAt DEF Ordered, In

\* The next entry of a registered one is the head or registered.
LEMMA NextRegistered ==
  ASSUME links \in Links, Linked(links), NEW e \in Entry,
         e = alt_alarm_list \/ Registered(e)
  PROVE  links.next[e] \in Entry /\ (links.next[e] # alt_alarm_list => Registered(links.next[e]))
<1>1. links.next[e] \in Entry
  BY DEF Links
<1>2. links.previous[links.next[e]] = e
  BY DEF Linked
<1>3. links.next[e] # alt_alarm_list => links.next[e] # e
  BY DEF Registered
<1>4. links.next[links.next[e]] = links.next[e] => links.previous[links.next[e]] = links.next[e]
  BY <1>1 DEF Linked
<1> QED
  BY <1>1, <1>2, <1>3, <1>4 DEF Registered

LEMMA ModRange == ASSUME NEW n \in Nat PROVE n % Wrap \in 0..(Wrap - 1)
BY AlarmAssumption DEF AlarmAssumption

\* What is left when the callback returns, with the list it has made.
LEMMA ReturnedInv ==
  ASSUME TypeOK, alarm \in Alarm, NEW l \in Links, Linked(l), Ordered(l),
         NEW t \in [Alarm -> 0..(Wrap - 1)], NEW r \in [Alarm -> BOOLEAN],
         Returned(l, t, r)
  PROVE  /\ links' \in Links /\ Linked(links') /\ Ordered(links')
         /\ time' \in [Alarm -> 0..(Wrap - 1)] /\ rollover' \in [Alarm -> BOOLEAN]
         /\ \A x \in Alarm : x # alarm /\ l.next[x] # x => links'.next[x] # x
<1>1. flag \in BOOLEAN
  BY DEF flag, TypeOK
<1>2. CASE /\ links' = alt_llist_remove(l, alarm)
           /\ time' = t /\ rollover' = [r EXCEPT ![alarm] = flag]
  BY <1>1, <1>2, RemoveLinked, RemoveOrdered, Entries
<1>3. ASSUME NEW p \in Periods, links' = l,
             time' = [t EXCEPT ![alarm] = (time[alarm] + p) % Wrap],
             rollover' = [r EXCEPT ![alarm] = flag \/ RollsOver(time'[alarm], nticks)]
      PROVE  /\ links' \in Links /\ Linked(links') /\ Ordered(links')
             /\ time' \in [Alarm -> 0..(Wrap - 1)] /\ rollover' \in [Alarm -> BOOLEAN]
             /\ \A x \in Alarm : x # alarm /\ l.next[x] # x => links'.next[x] # x
  <2>1. time[alarm] + p \in Nat
    BY AlarmAssumption DEF AlarmAssumption, TypeOK
  <2>2. (time[alarm] + p) % Wrap \in 0..(Wrap - 1)
    BY <2>1, ModRange
  <2> DEFINE m == (time[alarm] + p) % Wrap
             q == flag \/ RollsOver(time'[alarm], nticks)
  <2>3. q \in BOOLEAN
    BY <1>1 DEF RollsOver
  <2>4. time' = [t EXCEPT ![alarm] = m] /\ rollover' = [r EXCEPT ![alarm] = q]
    BY <1>3
  <2> HIDE DEF m, q
  <2>5. m \in 0..(Wrap - 1)
    BY <2>2 DEF m
  <2>6. time' \in [Alarm -> 0..(Wrap - 1)] /\ rollover' \in [Alarm -> BOOLEAN]
    BY <2>3, <2>4, <2>5
  <2> QED
    BY <1>3, <2>6
<1> QED
  BY <1>2, <1>3 DEF Returned

LEMMA StartTypes ==
  ASSUME TypeOK, NEW a \in Alarm, NEW delay \in Delays
  PROVE  StartTime(delay, nticks) \in 0..(Wrap - 1)
         /\ [time EXCEPT ![a] = StartTime(delay, nticks)] \in [Alarm -> 0..(Wrap - 1)]
         /\ [rollover EXCEPT ![a] = RollsOver(StartTime(delay, nticks), nticks)]
              \in [Alarm -> BOOLEAN]
<1>1. delay + nticks + 1 \in Nat
  BY AlarmAssumption DEF AlarmAssumption, TypeOK
<1>2. StartTime(delay, nticks) \in 0..(Wrap - 1)
  BY <1>1, ModRange DEF StartTime
<1>3. RollsOver(StartTime(delay, nticks), nticks) \in BOOLEAN
  BY DEF RollsOver
<1> QED
  BY <1>2, <1>3 DEF TypeOK

LEMMA CallbackInv ==
  ASSUME AInv, ~CallbackStops, Callback
  PROVE  AInv'
<1> DEFINE next == links.next[alarm]
<1>1. /\ TypeOK /\ links \in Links /\ Linked(links) /\ Ordered(links)
      /\ alarm \in Alarm /\ Registered(alarm)
      /\ time \in [Alarm -> 0..(Wrap - 1)] /\ rollover \in [Alarm -> BOOLEAN]
  BY Entries DEF AInv, TypeOK, Links, OnlyRegistered, Callback, inTick
<1>2. next \in Entry /\ (next # alt_alarm_list => links.next[next] # next) /\ next # alarm
  BY <1>1, NextRegistered, Entries DEF Registered
<1>3. alarm' = next /\ nticks' = nticks /\ tick_rate' = tick_rate
  BY DEF Callback
<1> HIDE DEF next
\* Whatever the callback has made of the list, the next entry is still in it.
<1>4. /\ links' \in Links /\ Linked(links') /\ Ordered(links')
      /\ time' \in [Alarm -> 0..(Wrap - 1)] /\ rollover' \in [Alarm -> BOOLEAN]
      /\ next # alt_alarm_list => links'.next[next] # next
  <2>1. CASE Returned(links, time, rollover)
    BY <1>1, <1>2, <2>1, ReturnedInv, Entries
  <2>2. ASSUME NEW a \in Alarm, NEW delay \in Delays, ~Registered(a),
               Returned(alt_llist_insert(links, alt_alarm_list, a),
                        [time EXCEPT ![a] = StartTime(delay, nticks)],
                        [rollover EXCEPT ![a] = RollsOver(StartTime(delay, nticks), nticks)])
        PROVE  /\ links' \in Links /\ Linked(links') /\ Ordered(links')
               /\ time' \in [Alarm -> 0..(Wrap - 1)] /\ rollover' \in [Alarm -> BOOLEAN]
               /\ next # alt_alarm_list => links'.next[next] # next
    <3> DEFINE l == alt_llist_insert(links, alt_alarm_list, a)
               t == [time EXCEPT ![a] = StartTime(delay, nticks)]
               r == [rollover EXCEPT ![a] = RollsOver(StartTime(delay, nticks), nticks)]
    <3>1. links.next[a] = a /\ a # alt_alarm_list
      BY <2>2, Entries DEF Registered
    <3>2. l \in Links /\ Linked(l)
      BY <1>1, <3>1, InsertLinked, Entries
    <3>3. Ordered(l) /\ \A x \in Alarm : links.next[x] # x => l.next[x] = links.next[x]
      BY <1>1, <3>1, InsertOrdered
    <3>4. t \in [Alarm -> 0..(Wrap - 1)] /\ r \in [Alarm -> BOOLEAN]
      BY <1>1, StartTypes
    <3>5. Returned(l, t, r)
      BY <2>2
    <3> HIDE DEF l, t, r
    <3>6. /\ links' \in Links /\ Linked(links') /\ Ordered(links')
          /\ time' \in [Alarm -> 0..(Wrap - 1)] /\ rollover' \in [Alarm -> BOOLEAN]
          /\ \A x \in Alarm : x # alarm /\ l.next[x] # x => links'.next[x] # x
      BY <1>1, <3>2, <3>3, <3>4, <3>5, ReturnedInv
    <3> QED
      BY <1>2, <3>3, <3>6, Entries
  <2>3. ASSUME NEW a \in Alarm, a = alarm,
               Returned(alt_llist_remove(links, a), time, rollover)
        PROVE  /\ links' \in Links /\ Linked(links') /\ Ordered(links')
               /\ time' \in [Alarm -> 0..(Wrap - 1)] /\ rollover' \in [Alarm -> BOOLEAN]
               /\ next # alt_alarm_list => links'.next[next] # next
    <3> DEFINE l == alt_llist_remove(links, a)
    <3>1. l \in Links /\ Linked(l)
      BY <1>1, RemoveLinked, Entries
    <3>2. Ordered(l) /\ \A x \in Alarm : x # a /\ links.next[x] # x => l.next[x] # x
      BY <1>1, RemoveOrdered
    <3>3. Returned(l, time, rollover)
      BY <2>3
    <3> HIDE DEF l
    <3>4. /\ links' \in Links /\ Linked(links') /\ Ordered(links')
          /\ time' \in [Alarm -> 0..(Wrap - 1)] /\ rollover' \in [Alarm -> BOOLEAN]
          /\ \A x \in Alarm : x # alarm /\ l.next[x] # x => links'.next[x] # x
      BY <1>1, <3>1, <3>2, <3>3, ReturnedInv
    <3> QED
      BY <1>2, <2>3, <3>2, <3>4, Entries
  <2> QED
    BY <2>1, <2>2, <2>3 DEF Callback
<1>5. TypeOK'
  BY <1>1, <1>2, <1>3, <1>4 DEF TypeOK, Links
<1>6. OnlyRegistered'
  BY <1>3, <1>4 DEF OnlyRegistered, Registered, inTick
<1> QED
  BY <1>4, <1>5, <1>6 DEF AInv

LEMMA AlarmsNext ==
  ASSUME AInv, ~CallbackStops, [Next]_vars
  PROVE  AInv'
<1>1. /\ TypeOK /\ links \in Links /\ Linked(links) /\ Ordered(links) /\ OnlyRegistered
  BY DEF AInv, TypeOK, Links
<1>2. CASE SysclkInit
  BY <1>2 DEF SysclkInit, AInv, TypeOK, OnlyRegistered, Registered, inTick
<1>3. ASSUME NEW a \in Alarm, AlarmStart(a) PROVE AInv'
  <2>1. PICK delay \in Delays : /\ time' = [time EXCEPT ![a] = StartTime(delay, nticks)]
                                /\ rollover' = [rollover EXCEPT ![a] = RollsOver(time'[a], nticks)]
    BY <1>3 DEF AlarmStart
  <2>2. links.next[a] = a /\ alarm = alt_alarm_list /\ alarm' = alarm
        /\ links' = alt_llist_insert(links, alt_alarm_list, a)
        /\ nticks' = nticks /\ tick_rate' = tick_rate
    BY <1>3 DEF AlarmStart, Registered, inTick
  <2>3. time'[a] = StartTime(delay, nticks)
    BY <2>1 DEF AInv, TypeOK
  <2>4. time' \in [Alarm -> 0..(Wrap - 1)] /\ rollover' \in [Alarm -> BOOLEAN]
    BY <1>1, <2>1, <2>3, StartTypes
  <2>5. links' \in Links /\ Linked(links') /\ Ordered(links')
    BY <1>1, <2>2, InsertLinked, InsertOrdered, Entries
  <2>6. TypeOK' /\ OnlyRegistered'
    BY <1>1, <2>2, <2>4, <2>5 DEF TypeOK, Links, OnlyRegistered, inTick
  <2> QED
    BY <2>5, <2>6 DEF AInv
<1>4. ASSUME NEW a \in Alarm, AlarmStop(a) PROVE AInv'
  <2>1. alarm = alt_alarm_list /\ links' = alt_llist_remove(links, a)
        /\ UNCHANGED <<nticks, tick_rate, time, rollover, alarm>>
    BY <1>4 DEF AlarmStop, inTick
  <2>2. links' \in Links /\ Linked(links') /\ Ordered(links')
    BY <1>1, <2>1, RemoveLinked, RemoveOrdered, Entries
  <2>3. TypeOK' /\ OnlyRegistered'
    BY <1>1, <2>1, <2>2 DEF TypeOK, Links, OnlyRegistered, inTick
  <2> QED
    BY <2>2, <2>3 DEF AInv
<1>5. CASE Tick
  <2>1. nticks' = (nticks + 1) % Wrap /\ alarm' = links.next[alt_alarm_list]
        /\ UNCHANGED <<tick_rate, links, time, rollover>>
    BY <1>5 DEF Tick
  <2>2. nticks + 1 \in Nat
    BY DEF AInv, TypeOK
  <2>3. nticks' \in 0..(Wrap - 1)
    BY <2>1, <2>2, ModRange
  <2>4. alarm' \in Entry /\ (alarm' # alt_alarm_list => Registered(alarm'))
    BY <1>1, <2>1, NextRegistered, Entries
  <2> QED
    BY <1>1, <2>1, <2>3, <2>4 DEF AInv, TypeOK, OnlyRegistered, Registered, inTick
<1>6. CASE NotDue
  <2>1. alarm \in Alarm /\ Registered(alarm)
    BY <1>1, <1>6, Entries DEF NotDue, OnlyRegistered, inTick, TypeOK
  <2>2. rollover' = [rollover EXCEPT ![alarm] = flag] /\ alarm' = links.next[alarm]
        /\ UNCHANGED <<nticks, tick_rate, links, time>>
    BY <1>6 DEF NotDue
  <2>3. flag \in BOOLEAN
    BY <1>1 DEF flag, TypeOK
  <2>4. rollover' \in [Alarm -> BOOLEAN]
    BY <1>1, <2>2, <2>3 DEF TypeOK
  <2>5. alarm' \in Entry /\ (alarm' # alt_alarm_list => Registered(alarm'))
    BY <1>1, <2>1, <2>2, NextRegistered, Entries
  <2> QED
    BY <1>1, <2>2, <2>4, <2>5 DEF AInv, TypeOK, OnlyRegistered, Registered, inTick
<1>7. CASE Callback
  BY <1>7, CallbackInv
<1>8. CASE UNCHANGED vars
  BY <1>8 DEF vars, AInv, TypeOK, OnlyRegistered, Registered, inTick
<1> QED
  BY <1>2, <1>3, <1>4, <1>5, <1>6, <1>7, <1>8 DEF Next, TickLoop

LEMMA AlarmsInit == Init => AInv
<1> SUFFICES ASSUME Init PROVE AInv
  OBVIOUS
<1>1. links = [next |-> [e \in Entry |-> e], previous |-> [e \in Entry |-> e]]
      /\ alarm = alt_alarm_list
  BY DEF Init
<1>2. TypeOK /\ OnlyRegistered
  BY <1>1, AlarmAssumption, Entries DEF Init, TypeOK, OnlyRegistered, inTick, AlarmAssumption
<1>3. Linked(links)
  BY <1>1 DEF Linked
<1>4. Ordered(links)
  <2>1. [e \in Entry |-> 0] \in [Entry -> Int]
    OBVIOUS
  <2>2. \A a \in Alarm : links.next[a] = a
    BY <1>1, Entries
  <2> QED
    <3> DEFINE zero == [e \in Entry |-> 0]
    <3>1. zero \in [Entry -> Int] /\ \A a \in Alarm : ~In(links, a)
      BY <2>1, <2>2 DEF In
    <3> HIDE DEF zero
    <3>2. Positions(links, zero)
      BY <3>1 DEF Positions
    <3> QED
      BY <3>2 DEF Ordered
<1> QED
  BY <1>2, <1>3, <1>4 DEF AInv

-----------------------------------------------------------------------------
(* Division.                                                               *)

LEMMA DivMod ==
  ASSUME NEW n \in Int, NEW d \in Nat \ {0}
  PROVE  n \div d \in Int /\ n % d \in 0..(d - 1) /\ n = (n \div d) * d + (n % d)
OBVIOUS

LEMMA DivUnique ==
  ASSUME NEW q \in Int, NEW d \in Nat \ {0}, NEW r \in 0..(d - 1)
  PROVE  (q * d + r) \div d = q /\ (q * d + r) % d = r
<1> DEFINE n == q * d + r
           p == n \div d
           s == n % d
<1>1. n \in Int /\ p \in Int /\ s \in 0..(d - 1) /\ n = p * d + s
  BY DivMod
<1>2. (p - q) * d = r - s
  BY <1>1
<1> HIDE DEF n, p, s
<1>3. CASE p > q
  <2>1. (p - q) * d >= d
    BY <1>1, <1>3
  <2> QED
    BY <1>1, <1>2, <2>1
<1>4. CASE p < q
  <2>1. (p - q) * d <= -d
    BY <1>1, <1>4
  <2> QED
    BY <1>1, <1>2, <2>1
<1>5. CASE p = q
  <2>1. s = r
    BY <1>1, <1>2, <1>5
  <2> QED
    BY <1>5, <2>1 DEF p, s, n
<1> QED
  BY <1>1, <1>3, <1>4, <1>5

LEMMA DivNat ==
  ASSUME NEW n \in Nat, NEW d \in Nat \ {0}
  PROVE  n \div d \in Nat
OBVIOUS

-----------------------------------------------------------------------------
(* usleep.  A big loop is as long as the microseconds it stands for, or      *)
(* longer.                                                                   *)

LEMMA SleepsLong == SleepsEnough
<1> SUFFICES ASSUME NEW us \in Sleeps PROVE BusyLoops(us) >= us * LoopsPerUs
  BY DEF SleepsEnough
<1> DEFINE L == LoopsPerUs
           c == INT_MAX \div L
           q == us \div c
           r == us % c
<1>1. us \in Nat /\ L \in Nat \ {0} /\ INT_MAX \in Nat /\ L <= INT_MAX /\ Wrap \in Nat
  BY TimeAssumption, AlarmAssumption DEF TimeAssumption, AlarmAssumption
<1>2. c \in Nat /\ INT_MAX = c * L + (INT_MAX % L) /\ INT_MAX % L \in 0..(L - 1)
  BY <1>1, INT_MAX \in Int, DivMod, DivNat
<1>3. c # 0 /\ c * L <= INT_MAX
  BY <1>1, <1>2
<1>4. q \in Nat /\ r \in Nat /\ us = q * c + r
  <2> HIDE DEF c
  <2>1. us \in Int /\ us \in Nat /\ c \in Nat \ {0}
    BY <1>1, <1>2, <1>3
  <2>2. q \in Nat
    BY <2>1, DivNat
  <2>3. r \in 0..(c - 1) /\ us = q * c + r
    BY <2>1, DivMod
  <2>4. r \in Nat
    BY <2>1, <2>3
  <2> QED
    BY <2>2, <2>3, <2>4
<1>5. BusyLoops(us) = IF q > 0 THEN q * INT_MAX + UntilZero(r * L)
                      ELSE WhilePositive(us * L)
  BY DEF BusyLoops, chunk
<1> HIDE DEF L, c, q, r
<1>6. UntilZero(r * L) >= r * L /\ UntilZero(r * L) \in Nat
  BY <1>1, <1>4 DEF UntilZero
<1>7. WhilePositive(us * L) >= us * L
  BY <1>1 DEF WhilePositive
<1>8. q * INT_MAX >= q * (c * L)
  BY <1>1, <1>2, <1>3, <1>4
<1>9. us * L = q * (c * L) + r * L
  BY <1>1, <1>2, <1>4
<1>10. q * INT_MAX + UntilZero(r * L) >= us * L
  <2>1. q * INT_MAX \in Int /\ q * (c * L) \in Int /\ r * L \in Int
    BY <1>1, <1>2, <1>4
  <2> QED
    BY <1>6, <1>8, <1>9, <2>1
<1> QED
  BY <1>5, <1>7, <1>10 DEF L

-----------------------------------------------------------------------------
(* The time of day.  What is added to the time since the system clock began  *)
(* is the time that was set, less that of the tick at which it was set.      *)

upt == ALT_US \div Rate
begun == nticks - since

TInv ==
  /\ asked \in [tv_sec : Nat, tv_usec : 0..(ALT_US - 1)]
  /\ since \in Nat \cup {None}
  /\ since # None =>
       /\ begun \in 0..nticks
       /\ alt_resettime = Time(asked.tv_sec - (begun \div Rate),
                               asked.tv_usec - ((begun * upt) % ALT_US))

LEMMA TickLength == upt \in Nat \ {0} /\ ALT_US \in Nat \ {0} /\ Rate \in Nat \ {0}
                    /\ ALT_US = upt * Rate
<1>1. ALT_US \in Nat /\ Rate \in Nat \ {0} /\ Rate <= ALT_US /\ ALT_US % Rate = 0
  BY TimeAssumption, AlarmAssumption DEF TimeAssumption, AlarmAssumption
<1>2. upt \in Nat /\ ALT_US = upt * Rate + (ALT_US % Rate)
  BY <1>1, DivMod, DivNat DEF upt
<1> QED
  BY <1>1, <1>2

\* The microseconds of the ticks of a second that has begun.
LEMMA Fraction ==
  ASSUME NEW n \in Nat
  PROVE  /\ (n * upt) % ALT_US = (n % Rate) * upt
         /\ (n % Rate) * upt \in 0..(ALT_US - 1)
<1> DEFINE q == n \div Rate
           r == n % Rate
<1>1. q \in Nat /\ r \in 0..(Rate - 1) /\ n = q * Rate + r
  BY n \in Int, TickLength, DivMod, DivNat
<1> HIDE DEF q, r
<1>2. r * upt <= (Rate - 1) * upt /\ r * upt \in Nat
  BY <1>1, TickLength
<1>3. (Rate - 1) * upt = ALT_US - upt
  BY TickLength
<1>4. r * upt \in 0..(ALT_US - 1)
  BY <1>2, <1>3, TickLength
<1>5. n * upt = q * ALT_US + r * upt
  BY <1>1, TickLength
<1>6. (q * ALT_US + r * upt) % ALT_US = r * upt
  <2>1. q \in Int /\ ALT_US \in Nat \ {0}
    BY <1>1, TickLength
  <2> DEFINE x == r * upt
  <2>2. x \in 0..(ALT_US - 1)
    BY <1>4
  <2> HIDE DEF x
  <2>3. (q * ALT_US + x) % ALT_US = x
    BY <2>1, <2>2, DivUnique
  <2> QED
    BY <2>3 DEF x
<1> QED
  BY <1>4, <1>5, <1>6 DEF r

\* The borrow and the carry of gettimeofday.
LEMMA NormalisedTime ==
  ASSUME NEW s \in Nat, NEW u \in 0..(ALT_US - 1), NEW n \in Nat, NEW m \in 0..n
  PROVE  Normalised(Time(s - (m \div Rate) + (n \div Rate),
                         u - ((m * upt) % ALT_US) + ((n * upt) % ALT_US)))
         = Time(s + ((u + (n - m) * upt) \div ALT_US), (u + (n - m) * upt) % ALT_US)
<1> DEFINE A == ALT_US
           qm == m \div Rate
           rm == m % Rate
           qn == n \div Rate
           rn == n % Rate
           v == u - rm * upt + rn * upt
           k == qn - qm
           total == u + (n - m) * upt
<1>1. m \in Nat /\ n \in Nat /\ m <= n /\ s \in Nat /\ u \in 0..(A - 1)
      /\ A \in Nat \ {0} /\ upt \in Nat \ {0} /\ A = upt * Rate /\ Rate \in Nat \ {0}
  BY TickLength
<1>2. /\ qm \in Nat /\ m = qm * Rate + rm /\ rm \in Nat
      /\ qn \in Nat /\ n = qn * Rate + rn /\ rn \in Nat
  BY <1>1, DivMod, DivNat
<1>3. /\ (m * upt) % A = rm * upt /\ rm * upt \in 0..(A - 1)
      /\ (n * upt) % A = rn * upt /\ rn * upt \in 0..(A - 1)
  BY <1>1, Fraction
<1>4. Time(s - (m \div Rate) + (n \div Rate),
           u - ((m * upt) % ALT_US) + ((n * upt) % ALT_US)) = Time(s + k, v)
  <2>1. s - qm + qn = s + k
    BY <1>1, <1>2
  <2> QED
    BY <1>3, <2>1
<1> HIDE DEF A, qm, qn, rm, rn
<1>5. k \in Int /\ v \in Int /\ -A < v /\ total \in Nat
  BY <1>1, <1>2, <1>3
<1>6. total = k * A + v
  <2>1. (n - m) * upt = k * (upt * Rate) + (rn * upt - rm * upt)
    BY <1>1, <1>2
  <2> QED
    BY <1>1, <1>2, <1>3, <2>1
<1> HIDE DEF k, v, total
<1>7. Normalised(Time(s + k, v)) = Time(s + (total \div A), total % A)
  <2>1. CASE v < 0
    <3>1. k >= 1
      <4> SUFFICES ASSUME k <= 0 PROVE FALSE
        BY <1>5
      <4>1. k * A <= 0
        BY <1>1, <1>5
      <4> QED
        BY <1>1, <1>5, <1>6, <2>1, <4>1
    <3>2. Normalised(Time(s + k, v)) = Time(s + k - 1, v + A)
      BY <1>1, <1>5, <2>1, <3>1 DEF Normalised, Time, A
    <3>3. total = (k - 1) * A + (v + A) /\ v + A \in 0..(A - 1) /\ k - 1 \in Int
      BY <1>1, <1>5, <1>6, <2>1
    <3>4. total \div A = k - 1 /\ total % A = v + A
      BY <1>1, <3>3, DivUnique
    <3>5. s + k - 1 = s + (k - 1)
      BY <1>1, <1>5
    <3> QED
      BY <3>2, <3>4, <3>5
  <2>2. CASE ~(v < 0)
    <3> DEFINE c == v \div A
               w == v % A
    <3>1. v \in Nat /\ c \in Nat /\ w \in 0..(A - 1) /\ v = c * A + w
      <4>1. v \in Nat
        BY <1>1, <1>5, <2>2
      <4> QED
        BY <1>1, <1>5, <4>1, DivMod, DivNat
    <3>2. Normalised(Time(s + k, v)) = Time(s + k + c, w)
      BY <1>5, <2>2 DEF Normalised, Time, A
    <3> HIDE DEF c, w
    <3>3. total = (k + c) * A + w /\ k + c \in Int
      BY <1>1, <1>5, <1>6, <3>1
    <3>4. total \div A = k + c /\ total % A = w
      BY <1>1, <3>1, <3>3, DivUnique
    <3>5. s + k + c = s + (k + c)
      BY <1>1, <1>5, <3>1
    <3> QED
      BY <3>2, <3>4, <3>5
  <2> QED
    BY <2>1, <2>2
<1> QED
  BY <1>4, <1>7 DEF A, total

LEMMA TimeKept ==
  ASSUME TInv, UNCHANGED <<nticks, timeVars>>
  PROVE  TInv'
BY DEF TInv, begun, timeVars

LEMMA SetStep ==
  ASSUME AInv, TInv, NEW t \in Times, SetTimeOfDay(t)
  PROVE  TInv'
<1>1. /\ t \in [tv_sec : Nat, tv_usec : 0..(ALT_US - 1)] /\ nticks \in Nat
      /\ tick_rate = Rate /\ Wrap \in Nat \ {0}
  BY TimeAssumption, AlarmAssumption
     DEF TimeAssumption, AlarmAssumption, SetTimeOfDay, AInv, TypeOK
<1>2. /\ alt_resettime' = Time(t.tv_sec - Seconds(nticks), t.tv_usec - SetFraction(nticks))
      /\ asked' = t /\ nticks' = nticks
      /\ since' = IF nticks * usPerTick < Wrap THEN 0 ELSE None
  BY DEF SetTimeOfDay, vars
<1>3. usPerTick = upt /\ Seconds(nticks) = nticks \div Rate
  BY <1>1 DEF usPerTick, upt, Seconds
<1>4. asked' \in [tv_sec : Nat, tv_usec : 0..(ALT_US - 1)] /\ since' \in Nat \cup {None}
  BY <1>1, <1>2
<1>5. CASE nticks * upt < Wrap
  <2> DEFINE x == nticks * upt
  <2>1. x \in Nat
    BY <1>1, TickLength
  <2> HIDE DEF x
  <2>2. x < Wrap => x % Wrap = x
    BY <1>1, <2>1
  <2>3. SetFraction(nticks) = (nticks * upt) % ALT_US
    BY <1>3, <1>5, <2>2 DEF SetFraction, x
  <2>4. since' = 0 /\ begun' = nticks
    BY <1>1, <1>2, <1>3, <1>5 DEF begun
  <2>5. alt_resettime' = Time(asked'.tv_sec - (nticks \div Rate),
                              asked'.tv_usec - ((nticks * upt) % ALT_US))
    BY <1>2, <1>3, <2>3
  <2>6. nticks \in 0..nticks
    BY <1>1
  <2> QED
    BY <1>2, <1>4, <2>4, <2>5, <2>6 DEF TInv
<1>6. CASE ~(nticks * upt < Wrap)
  BY <1>2, <1>3, <1>4, <1>6 DEF TInv
<1> QED
  BY <1>5, <1>6

LEMMA TickStep ==
  ASSUME AInv, TInv, TimeTick
  PROVE  TInv'
<1>1. nticks \in 0..(Wrap - 1) /\ Wrap \in Nat /\ nticks' = (nticks + 1) % Wrap
      /\ UNCHANGED <<alt_resettime, asked>>
      /\ since' = IF since = None \/ nticks' = 0 THEN None ELSE since + 1
  BY AlarmAssumption DEF AlarmAssumption, TimeTick, Tick, AInv, TypeOK
<1>2. CASE since = None \/ nticks' = 0
  BY <1>1, <1>2 DEF TInv
<1>3. CASE since # None /\ nticks' # 0
  <2>1. nticks' = nticks + 1
    <3>1. CASE nticks + 1 = Wrap
      BY <1>1, <1>3, <3>1
    <3>2. CASE nticks + 1 # Wrap
      BY <1>1, <3>2
    <3> QED
      BY <3>1, <3>2
  <2>2. since \in Nat /\ since' = since + 1
    BY <1>1, <1>3 DEF TInv
  <2>3. begun' = begun /\ begun \in 0..nticks /\ begun \in 0..nticks'
    BY <1>1, <1>3, <2>1, <2>2 DEF begun, TInv
  <2> QED
    BY <1>1, <1>3, <2>2, <2>3 DEF TInv
<1> QED
  BY <1>2, <1>3

LEMMA WallClockRight ==
  ASSUME AInv, TInv
  PROVE  WallClock
<1> SUFFICES ASSUME tick_rate # 0, since # None
             PROVE  gettimeofday = Time(asked.tv_sec + ((asked.tv_usec + since * usPerTick) \div ALT_US),
                                        (asked.tv_usec + since * usPerTick) % ALT_US)
  BY DEF WallClock
<1>1. tick_rate = Rate /\ nticks \in Nat
  BY AlarmAssumption DEF AlarmAssumption, AInv, TypeOK
<1>2. usPerTick = upt /\ Seconds(nticks) = nticks \div Rate
      /\ GetFraction(nticks) = (nticks * upt) % ALT_US
  BY <1>1 DEF usPerTick, upt, Seconds, GetFraction
<1>3. /\ asked.tv_sec \in Nat /\ asked.tv_usec \in 0..(ALT_US - 1)
      /\ begun \in 0..nticks /\ since \in Nat
      /\ alt_resettime.tv_sec = asked.tv_sec - (begun \div Rate)
      /\ alt_resettime.tv_usec = asked.tv_usec - ((begun * upt) % ALT_US)
  BY DEF TInv, Time
<1>4. nticks - begun = since
  BY <1>1, <1>3 DEF begun
<1>5. gettimeofday = Normalised(Time(asked.tv_sec - (begun \div Rate) + (nticks \div Rate),
                                     asked.tv_usec - ((begun * upt) % ALT_US)
                                       + ((nticks * upt) % ALT_US)))
  BY <1>2, <1>3 DEF gettimeofday
<1> QED
  BY <1>1, <1>2, <1>3, <1>4, <1>5, NormalisedTime

-----------------------------------------------------------------------------
LEMMA TimeStep ==
  ASSUME AInv, TInv, ~CallbackStops, TimeNext
  PROVE  AInv' /\ TInv'
<1>1. [Next]_vars
  BY DEF TimeNext, Next, Alarms, TimeTick, TimeLoop, SetTimeOfDay
<1>2. AInv'
  BY <1>1, AlarmsNext
<1>3. CASE SysclkInit /\ UNCHANGED <<program, timeVars>>
  BY <1>2, <1>3, TimeKept DEF SysclkInit
<1>4. CASE Alarms
  <2>1. UNCHANGED <<nticks, timeVars>>
    BY <1>4 DEF Alarms, AlarmStart, AlarmStop
  <2> QED
    BY <1>2, <2>1, TimeKept
<1>5. CASE TimeTick
  BY <1>2, <1>5, TickStep
<1>6. CASE TimeLoop
  <2>1. UNCHANGED <<nticks, timeVars>>
    BY <1>6 DEF TimeLoop, TickLoop, NotDue, Callback
  <2> QED
    BY <1>2, <2>1, TimeKept
<1>7. CASE \E t \in Times : SetTimeOfDay(t)
  BY <1>2, <1>7, SetStep
<1> QED
  BY <1>2, <1>3, <1>4, <1>5, <1>6, <1>7 DEF TimeNext

LEMMA TimeStart == TimeInit => AInv /\ TInv
<1> SUFFICES ASSUME TimeInit PROVE TInv
  BY AlarmsInit DEF TimeInit
<1>1. nticks = 0 /\ since = 0 /\ asked = Time(0, 0) /\ alt_resettime = Time(0, 0)
  BY DEF TimeInit, Init
<1>2. 0 \div Rate = 0 /\ (0 * upt) % ALT_US = 0
  <2>1. 0 * upt = 0
    BY TickLength
  <2> QED
    BY <2>1, TickLength
<1>3. begun = 0 /\ Time(0 - 0, 0 - 0) = Time(0, 0)
  BY <1>1 DEF begun
<1>4. asked.tv_sec = 0 /\ asked.tv_usec = 0
      /\ asked \in [tv_sec : Nat, tv_usec : 0..(ALT_US - 1)]
  BY <1>1, TickLength DEF Time
<1> QED
  BY <1>1, <1>2, <1>3, <1>4 DEF TInv

LEMMA TimeRight == AInv /\ TInv => TimeInv
BY WallClockRight, SleepsLong DEF AInv, TimeInv

-----------------------------------------------------------------------------
(* The parts of a count of the timer.                                      *)

UnitOK == unit \in [clocks : Clocks, parts : {2, 4}, fixed : BOOLEAN, load : Loads]

LEMMA PartLarge == Part \in Nat \ {0} /\ Part > 1
BY TimerAssumption DEF TimerAssumption

LEMMA Digit == ASSUME NEW n \in Int PROVE n % Part \in 0..(Part - 1)
BY PartLarge, DivMod

LEMMA DivDiv ==
  ASSUME NEW n \in Nat, NEW a \in Nat \ {0}, NEW b \in Nat \ {0}
  PROVE  n \div (a * b) = (n \div a) \div b
<1> DEFINE q == n \div a
           r == n % a
           p == q \div b
           s == q % b
<1>1. q \in Nat /\ r \in 0..(a - 1) /\ n = q * a + r
  BY n \in Int, DivMod, DivNat
<1>2. p \in Nat /\ s \in 0..(b - 1) /\ q = p * b + s
  <2> HIDE DEF q
  <2>1. q \in Int /\ q \in Nat
    BY <1>1
  <2> QED
    BY <2>1, DivMod, DivNat
<1> HIDE DEF q, r, p, s
<1> DEFINE t == s * a + r
           ab == a * b
<1>3. ab \in Nat \ {0} /\ p \in Int
  BY <1>2
<1>4. t \in 0..(ab - 1)
  <2>1. s * a <= (b - 1) * a /\ s * a \in Nat
    BY <1>2
  <2>2. (b - 1) * a = ab - a
    OBVIOUS
  <2>3. r \in 0..(a - 1) /\ ab \in Nat
    BY <1>1, <1>3
  <2> HIDE DEF ab
  <2> QED
    BY <2>1, <2>2, <2>3
<1>5. n = p * ab + t
  BY <1>1, <1>2
<1> HIDE DEF t, ab
<1>6. n \div ab = p
  BY <1>3, <1>4, <1>5, DivUnique
<1> QED
  BY <1>6 DEF ab, p, q

\* One more part below: the values there are.
LEMMA Level ==
  ASSUME NEW d \in 0..(Part - 1), NEW M \in Nat, NEW m \in 0..(M - 1)
  PROVE  d + Part * m \in 0..(Part * M - 1)
<1>1. Part * m <= Part * (M - 1) /\ Part * m \in Nat
  BY PartLarge
<1>2. Part * (M - 1) = Part * M - Part
  BY PartLarge
<1>3. Part * M \in Int
  BY PartLarge
<1> QED
  BY <1>1, <1>2, <1>3, PartLarge

LEMMA Top ==
  ASSUME NEW M \in Nat, NEW n \in 0..(Part * M - 1)
  PROVE  n \div Part \in 0..(M - 1) /\ n = (n % Part) + Part * (n \div Part)
         /\ n % Part \in 0..(Part - 1)
<1> DEFINE q == n \div Part
           r == n % Part
<1>1. q \in Nat /\ r \in 0..(Part - 1) /\ n = q * Part + r
  BY n \in Int, n \in Nat, PartLarge, DivMod, DivNat
<1> HIDE DEF q, r
<1>2. q < M
  <2> SUFFICES ASSUME q >= M PROVE FALSE
    BY <1>1
  <2>1. q * Part >= M * Part
    BY <1>1, PartLarge
  <2>2. M * Part = Part * M /\ q * Part \in Int /\ Part * M \in Int
    BY <1>1, PartLarge
  <2> QED
    BY <1>1, <2>1, <2>2
<1>3. n = r + Part * q
  BY <1>1, PartLarge
<1> QED
  BY <1>1, <1>2, <1>3 DEF q, r

LEMMA Units ==
  /\ Timer!Unit(0) = 1 /\ Timer!Unit(1) = Part
  /\ Timer!Unit(2) = Part * Part /\ Timer!Unit(3) = Part * Part * Part
BY DEF Timer!Unit

LEMMA FullOf ==
  ASSUME UnitOK
  PROVE  /\ unit.parts = 2 => Timer!Full = Part * Part - 1 /\ Timer!Parts = {0, 1}
         /\ unit.parts = 4 => Timer!Full = Part * (Part * (Part * Part)) - 1
                              /\ Timer!Parts = {0, 1, 2, 3}
         /\ unit.parts \in {2, 4} /\ Timer!Full \in Nat
<1>1. unit.parts \in {2, 4}
  BY DEF UnitOK
<1>2. CASE unit.parts = 2
  <2>1. Timer!Full = Part * Part - 1
    BY <1>2, Units DEF Timer!Full
  <2>2. Timer!Parts = {0, 1}
    BY <1>2 DEF Timer!Parts
  <2> QED
    BY <1>2, <2>1, <2>2, PartLarge
<1>3. CASE unit.parts = 4
  <2>1. Timer!Full = Part * (Part * Part * Part) - 1
    BY <1>3, Units DEF Timer!Full
  <2>2. Timer!Parts = {0, 1, 2, 3}
    BY <1>3 DEF Timer!Parts
  <2>3. Part * (Part * Part * Part) = Part * (Part * (Part * Part))
    BY PartLarge
  <2>4. Part * (Part * (Part * Part)) \in Nat \ {0}
    BY PartLarge
  <2> QED
    BY <1>3, <2>1, <2>2, <2>3, <2>4
<1> QED
  BY <1>1, <1>2, <1>3

\* A count is made up of its parts.
LEMMA PartsOf ==
  ASSUME UnitOK, NEW n \in 0..Timer!Full
  PROVE  /\ \A i \in Timer!Parts : Timer!PartOf(n, i) \in 0..(Part - 1)
         /\ unit.parts = 2 => n = Timer!PartOf(n, 0) + Part * Timer!PartOf(n, 1)
         /\ unit.parts = 4 =>
              n = Timer!PartOf(n, 0) + Part * (Timer!PartOf(n, 1)
                    + Part * (Timer!PartOf(n, 2) + Part * Timer!PartOf(n, 3)))
<1>0. n \in Nat /\ unit.parts \in {2, 4}
  BY FullOf
<1> DEFINE n1 == n \div Part
           n2 == n1 \div Part
           n3 == n2 \div Part
<1>1. n1 \in Nat
  BY <1>0, PartLarge, DivNat
<1>2. n2 \in Nat
  <2> HIDE DEF n1
  <2> QED
    BY <1>1, PartLarge, DivNat
<1>3. n3 \in Nat
  <2> HIDE DEF n2
  <2> QED
    BY <1>2, PartLarge, DivNat
<1>4. n \div (Part * Part) = n2
  BY <1>0, PartLarge, DivDiv
<1>5. n \div (Part * Part * Part) = n3
  <2> DEFINE pp == Part * Part
  <2>1. pp \in Nat \ {0}
    BY PartLarge
  <2> HIDE DEF pp
  <2>2. n \div (pp * Part) = (n \div pp) \div Part
    BY <1>0, <2>1, PartLarge, DivDiv
  <2> QED
    BY <1>4, <2>2 DEF pp
<1>6. n \div 1 = n
  BY <1>0
<1>7. /\ Timer!PartOf(n, 0) = n % Part /\ Timer!PartOf(n, 1) = n1 % Part
      /\ Timer!PartOf(n, 2) = n2 % Part /\ Timer!PartOf(n, 3) = n3 % Part
  BY <1>4, <1>5, <1>6, Units DEF Timer!PartOf
<1> HIDE DEF n3
<1>8. /\ n % Part \in 0..(Part - 1) /\ n1 % Part \in 0..(Part - 1)
      /\ n2 % Part \in 0..(Part - 1) /\ n3 % Part \in 0..(Part - 1)
  <2> HIDE DEF n1, n2
  <2>1. n \in Int /\ n1 \in Int /\ n2 \in Int /\ n3 \in Int
    BY <1>0, <1>1, <1>2, <1>3
  <2> QED
    BY <2>1, Digit
<1>9. \A i \in {0, 1, 2, 3} : Timer!PartOf(n, i) \in 0..(Part - 1)
  BY <1>7, <1>8
<1>10. CASE unit.parts = 2
  <2>1. n \in 0..(Part * Part - 1) /\ Timer!Parts = {0, 1}
    BY <1>10, FullOf
  <2>2. n1 \in 0..(Part - 1) /\ n = (n % Part) + Part * n1
    BY <2>1, PartLarge, Top
  <2> HIDE DEF n1
  <2>3. n1 % Part = n1
    BY <2>2, PartLarge
  <2> QED
    BY <1>7, <1>9, <1>10, <2>1, <2>2, <2>3
<1>11. CASE unit.parts = 4
  <2> DEFINE M3 == Part * Part
             M2 == Part * M3
  <2>1. n \in 0..(Part * M2 - 1) /\ Timer!Parts = {0, 1, 2, 3}
    BY <1>11, FullOf
  <2>2. M3 \in Nat /\ M2 \in Nat
    BY PartLarge
  <2> HIDE DEF M2
  <2>3. n1 \in 0..(M2 - 1) /\ n = (n % Part) + Part * n1
    BY <2>1, <2>2, Top
  <2> HIDE DEF n1
  <2>4. n2 \in 0..(M3 - 1) /\ n1 = (n1 % Part) + Part * n2
    <3>1. n1 \in 0..(Part * M3 - 1)
      BY <2>3 DEF M2
    <3> HIDE DEF M3
    <3> QED
      BY <2>2, <3>1, Top
  <2> HIDE DEF n2
  <2>5. n3 \in 0..(Part - 1) /\ n2 = (n2 % Part) + Part * n3
    <3>1. n2 \in 0..(Part * Part - 1)
      BY <2>4
    <3> QED
      BY <3>1, PartLarge, Top DEF n3
  <2>6. n3 % Part = n3
    BY <2>5, PartLarge
  <2> QED
    BY <1>7, <1>9, <1>11, <2>1, <2>3, <2>4, <2>5, <2>6
<1> QED
  BY <1>0, <1>10, <1>11

\* A count in which one part is replaced is a count.
LEMMA WithPartIn ==
  ASSUME UnitOK, NEW n \in 0..Timer!Full, NEW i \in Timer!Parts, NEW v \in 0..(Part - 1)
  PROVE  Timer!WithPart(n, i, v) \in 0..Timer!Full
<1> DEFINE d(j) == Timer!PartOf(n, j)
<1>1. \A j \in Timer!Parts : d(j) \in 0..(Part - 1)
  BY PartsOf
<1>2. Timer!WithPart(n, i, v) = n + (v - d(i)) * Timer!Unit(i)
  BY DEF Timer!WithPart
<1>3. CASE unit.parts = 2
  <2>1. n = d(0) + Part * d(1) /\ Timer!Full = Part * Part - 1 /\ Timer!Parts = {0, 1}
    BY <1>3, PartsOf, FullOf
  <2>2. d(0) \in 0..(Part - 1) /\ d(1) \in 0..(Part - 1) /\ Part \in Nat
    BY <1>1, <2>1, PartLarge
  <2> HIDE DEF d
  <2>3. CASE i = 0
    <3>1. n + (v - d(i)) * Timer!Unit(i) = v + Part * d(1)
      BY <2>1, <2>2, <2>3, Units
    <3> QED
      BY <1>2, <2>1, <2>2, <3>1, Level
  <2>4. CASE i = 1
    <3>1. n + (v - d(i)) * Timer!Unit(i) = d(0) + Part * v
      BY <2>1, <2>2, <2>4, Units
    <3> QED
      BY <1>2, <2>1, <2>2, <3>1, Level
  <2> QED
    BY <2>1, <2>3, <2>4
<1>4. CASE unit.parts = 4
  <2>1. n = d(0) + Part * (d(1) + Part * (d(2) + Part * d(3)))
        /\ Timer!Full = Part * (Part * (Part * Part)) - 1 /\ Timer!Parts = {0, 1, 2, 3}
    BY <1>4, PartsOf, FullOf
  <2>2. /\ d(0) \in 0..(Part - 1) /\ d(1) \in 0..(Part - 1)
        /\ d(2) \in 0..(Part - 1) /\ d(3) \in 0..(Part - 1) /\ Part \in Nat
    BY <1>1, <2>1, PartLarge
  <2> HIDE DEF d
  <2>3. ASSUME NEW a \in 0..(Part - 1), NEW b \in 0..(Part - 1),
               NEW c \in 0..(Part - 1), NEW e \in 0..(Part - 1)
        PROVE  a + Part * (b + Part * (c + Part * e)) \in 0..(Part * (Part * (Part * Part)) - 1)
    <3> DEFINE m2 == c + Part * e
               m1 == b + Part * m2
               M2 == Part * Part
               M1 == Part * M2
    <3>1. M2 \in Nat /\ M1 \in Nat
      BY PartLarge
    <3>2. m2 \in 0..(M2 - 1)
      BY <2>2, Level
    <3> HIDE DEF m2, M2
    <3>3. m1 \in 0..(M1 - 1)
      BY <3>1, <3>2, Level
    <3> HIDE DEF m1, M1
    <3>4. a + Part * m1 \in 0..(Part * M1 - 1)
      BY <3>1, <3>3, Level
    <3> QED
      BY <3>4 DEF m1, m2, M1, M2
  <2>4. CASE i = 0
    <3>1. n + (v - d(i)) * Timer!Unit(i) = v + Part * (d(1) + Part * (d(2) + Part * d(3)))
      BY <2>1, <2>2, <2>4, Units
    <3>2. v + Part * (d(1) + Part * (d(2) + Part * d(3)))
            \in 0..(Part * (Part * (Part * Part)) - 1)
      BY <2>2, <2>3
    <3> QED
      BY <1>2, <2>1, <3>1, <3>2
  <2>5. CASE i = 1
    <3>1. n + (v - d(i)) * Timer!Unit(i) = d(0) + Part * (v + Part * (d(2) + Part * d(3)))
      BY <2>1, <2>2, <2>5, Units
    <3> QED
      BY <1>2, <2>1, <2>2, <2>3, <3>1
  <2>6. CASE i = 2
    <3>1. n + (v - d(i)) * Timer!Unit(i) = d(0) + Part * (d(1) + Part * (v + Part * d(3)))
      BY <2>1, <2>2, <2>6, Units
    <3> QED
      BY <1>2, <2>1, <2>2, <2>3, <3>1
  <2>7. CASE i = 3
    <3>1. n + (v - d(i)) * Timer!Unit(i) = d(0) + Part * (d(1) + Part * (d(2) + Part * v))
      BY <2>1, <2>2, <2>7, Units
    <3> QED
      BY <1>2, <2>1, <2>2, <2>3, <3>1
  <2> QED
    BY <2>1, <2>4, <2>5, <2>6, <2>7
<1> QED
  BY <1>3, <1>4, FullOf

-----------------------------------------------------------------------------
(* The registers of the timer, and the accesses that are left.             *)

\* What is left of s after k accesses.
Rest(s, k) == [j \in 1..(Len(s) - k) |-> s[j + k]]

LEMMA RestOf ==
  ASSUME NEW S, NEW s \in Seq(S), NEW k \in 0..Len(s)
  PROVE  /\ Rest(s, 0) = s
         /\ k = Len(s) => Rest(s, k) = <<>>
         /\ k < Len(s) => /\ Rest(s, k) # <<>> /\ Head(Rest(s, k)) = s[k + 1]
                          /\ Tail(Rest(s, k)) = Rest(s, k + 1)
<1>1. Len(s) \in Nat /\ s = [j \in 1..Len(s) |-> s[j]]
  OBVIOUS
<1>2. Rest(s, 0) = s
  <2>1. Rest(s, 0) = [j \in 1..Len(s) |-> s[j + 0]]
    BY <1>1 DEF Rest
  <2>2. \A j \in 1..Len(s) : s[j + 0] = s[j]
    BY <1>1
  <2> QED
    BY <1>1, <2>1, <2>2
<1>3. k = Len(s) => Rest(s, k) = <<>>
  <2> SUFFICES ASSUME k = Len(s) PROVE Rest(s, k) = <<>>
    OBVIOUS
  <2>1. Len(s) - k = 0
    BY <1>1
  <2>2. Rest(s, k) \in Seq(S) /\ Len(Rest(s, k)) = 0
    BY <2>1 DEF Rest
  <2> QED
    BY <2>2
<1>4. ASSUME k < Len(s)
      PROVE  /\ Rest(s, k) # <<>> /\ Head(Rest(s, k)) = s[k + 1]
             /\ Tail(Rest(s, k)) = Rest(s, k + 1)
  <2> DEFINE r == Rest(s, k)
             n == Len(s) - k
  <2>1. n \in Nat /\ n >= 1 /\ \A j \in 1..n : s[j + k] \in S
    BY <1>1, <1>4
  <2>2. r = [j \in 1..n |-> s[j + k]]
    BY DEF Rest
  <2> HIDE DEF n, r
  <2>3. r \in Seq(S) /\ Len(r) = n
    BY <2>1, <2>2
  <2>4. r # <<>> /\ Head(r) = r[1]
    BY <2>1, <2>3
  <2>5. r[1] = s[k + 1]
    BY <1>1, <2>1, <2>2
  <2>6. Tail(r) \in Seq(S) /\ Len(Tail(r)) = n - 1 /\ \A j \in 1..(n - 1) : Tail(r)[j] = r[j + 1]
    BY <2>1, <2>3, <2>4
  <2>7. Rest(s, k + 1) = [j \in 1..(n - 1) |-> s[j + (k + 1)]]
    BY <1>1 DEF Rest, n
  <2>8. \A j \in 1..(n - 1) : r[j + 1] = s[j + (k + 1)]
    <3> SUFFICES ASSUME NEW j \in 1..(n - 1) PROVE r[j + 1] = s[j + (k + 1)]
      OBVIOUS
    <3>1. j + 1 \in 1..n /\ (j + 1) + k = j + (k + 1)
      BY <2>1
    <3> QED
      BY <2>2, <3>1
  <2>9. Tail(r) = [j \in 1..(n - 1) |-> Tail(r)[j]]
    <3> DEFINE t == Tail(r)
    <3>1. t \in Seq(S) /\ Len(t) = n - 1
      BY <2>6
    <3> HIDE DEF t
    <3>2. t = [j \in 1..Len(t) |-> t[j]]
      BY <3>1
    <3> QED
      BY <3>1, <3>2 DEF t
  <2> QED
    BY <2>4, <2>5, <2>6, <2>7, <2>8, <2>9 DEF r
<1> QED
  BY <1>2, <1>3, <1>4

LEMMA RegisterOf ==
  ASSUME UnitOK
  PROVE  /\ \A i \in Timer!Parts : /\ Timer!PERIOD(i) = 2 + i
                                   /\ Timer!PERIOD(i) # Timer!SNAP(0)
                                   /\ Timer!PERIOD(i) \notin {0, 1}
                                   /\ Timer!PERIOD(i) - Timer!PERIOD(0) = i
                                   /\ Timer!SNAP(i) # 1 /\ Timer!SNAP(i) - Timer!SNAP(0) = i
         /\ Timer!SNAP(0) \notin {0, 1}
         /\ Timer!SNAP(0) - Timer!PERIOD(0) \notin Timer!Parts
<1>1. unit.parts \in {2, 4}
  BY DEF UnitOK
<1>2. Timer!Registers.period = 2 /\ Timer!Registers.snap = IF unit.parts = 2 THEN 4 ELSE 6
  BY <1>1 DEF Timer!Registers, Timer!Registers32, Timer!Registers64
<1>3. CASE unit.parts = 2
  BY <1>2, <1>3, FullOf DEF Timer!PERIOD, Timer!SNAP
<1>4. CASE unit.parts = 4
  BY <1>2, <1>4, FullOf DEF Timer!PERIOD, Timer!SNAP
<1> QED
  BY <1>1, <1>3, <1>4

Starting == Timer!alt_timestamp_start
Stamping == Timer!alt_timestamp
StartOps ==
  {Timer!write(1, {"STOP"}), Timer!write(1, {"START"})}
    \cup {Timer!write(Timer!PERIOD(i), Part - 1) : i \in Timer!Parts}
StampOps == {Timer!write(Timer!SNAP(0), 0)} \cup {Timer!read(Timer!SNAP(i)) : i \in Timer!Parts}

LEMMA StartingOf ==
  ASSUME UnitOK
  PROVE  /\ Starting \in Seq(StartOps) /\ Len(Starting) = unit.parts + 2
         /\ Starting[1] = Timer!write(1, {"STOP"})
         /\ \A k \in 1..unit.parts : Starting[k + 1] = Timer!write(Timer!PERIOD(k - 1), Part - 1)
         /\ Starting[unit.parts + 2] = Timer!write(1, {"START"})
<1> DEFINE a == Timer!write(1, {"STOP"})
           b == Timer!write(1, {"START"})
           f == Timer!FillParts
           n == unit.parts
<1>1. n \in Nat /\ f = [k \in 1..n |-> Timer!write(Timer!PERIOD(k - 1), Part - 1)]
      /\ \A k \in 1..n : k - 1 \in Timer!Parts
  BY DEF UnitOK, Timer!FillParts, Timer!Parts
<1>2. Starting = <<a>> \o f \o <<b>>
  BY DEF Starting, Timer!alt_timestamp_start, Timer!CONTROL
<1>3. a \in StartOps /\ b \in StartOps
      /\ \A k \in 1..n : Timer!write(Timer!PERIOD(k - 1), Part - 1) \in StartOps
  BY <1>1 DEF StartOps
<1> DEFINE e(k) == Timer!write(Timer!PERIOD(k - 1), Part - 1)
<1>7. f = [k \in 1..n |-> e(k)] /\ \A k \in 1..n : e(k) \in StartOps
  BY <1>1, <1>3
<1> HIDE DEF a, b, n, e, f
<1>4. f \in Seq(StartOps) /\ Len(f) = n /\ \A k \in 1..n : f[k] = e(k)
  <2>1. n \in Nat
    BY <1>1
  <2>2. f \in Seq(StartOps) /\ Len(f) = n
    BY <1>7, <2>1
  <2> QED
    BY <1>7, <2>2
<1> DEFINE g == <<a>> \o f
<1>5. g \in Seq(StartOps) /\ Len(g) = n + 1 /\ g[1] = a /\ \A k \in 1..n : g[k + 1] = f[k]
  BY <1>1, <1>3, <1>4
<1> HIDE DEF g
<1>6. /\ g \o <<b>> \in Seq(StartOps) /\ Len(g \o <<b>>) = n + 2
      /\ \A k \in 1..(n + 1) : (g \o <<b>>)[k] = g[k]
      /\ (g \o <<b>>)[n + 2] = b
  BY <1>1, <1>3, <1>5
<1>8. Starting = g \o <<b>>
  BY <1>2 DEF g
<1>9. \A k \in 1..n : k + 1 \in 1..(n + 1)
  BY <1>1
<1>10. 1 \in 1..(n + 1)
  BY <1>1
<1> QED
  BY <1>4, <1>5, <1>6, <1>8, <1>9, <1>10 DEF a, b, n, e

LEMMA StampingOf ==
  ASSUME UnitOK
  PROVE  /\ Stamping \in Seq(StampOps) /\ Len(Stamping) = unit.parts + 1
         /\ Stamping[1] = Timer!write(Timer!SNAP(0), 0)
         /\ \A k \in 1..unit.parts : Stamping[k + 1] = Timer!read(Timer!SNAP(k - 1))
<1> DEFINE a == Timer!write(Timer!SNAP(0), 0)
           f == Timer!ReadParts
           n == unit.parts
           e(k) == Timer!read(Timer!SNAP(k - 1))
<1>1. n \in Nat /\ f = [k \in 1..n |-> Timer!read(Timer!SNAP(k - 1))]
      /\ \A k \in 1..n : k - 1 \in Timer!Parts
  BY DEF UnitOK, Timer!ReadParts, Timer!Parts
<1>2. Stamping = <<a>> \o f
  BY DEF Stamping, Timer!alt_timestamp
<1>3. a \in StampOps /\ \A k \in 1..n : e(k) \in StampOps
  BY <1>1 DEF StampOps
<1>4. f = [k \in 1..n |-> e(k)]
  BY <1>1
<1> HIDE DEF a, f, n, e
<1>5. f \in Seq(StampOps) /\ Len(f) = n /\ \A k \in 1..n : f[k] = e(k)
  BY <1>1, <1>3, <1>4
<1>6. /\ <<a>> \o f \in Seq(StampOps) /\ Len(<<a>> \o f) = n + 1
      /\ (<<a>> \o f)[1] = a /\ \A k \in 1..n : (<<a>> \o f)[k + 1] = f[k]
  BY <1>1, <1>3, <1>5
<1> QED
  BY <1>2, <1>5, <1>6 DEF a, n, e

-----------------------------------------------------------------------------
(* The timer is set up for neither clock yet, as the timestamp clock, or as  *)
(* the system clock.                                                         *)

TimerT == [counter : 0..Timer!Full, period : 0..Timer!Full, snap : 0..Timer!Full,
           run : BOOLEAN, cont : BOOLEAN, ito : BOOLEAN, to : BOOLEAN]

\* What the counter has come to a number of clocks after the start.
Left(clocks) == IF clocks > timer.period THEN timer.period ELSE timer.period - clocks
Steady == timer.counter = Left(elapsed) /\ (timer.run => elapsed <= timer.period)

\* m parts of the snapshot have been read.
Got(m) ==
  /\ got \in Seq(Int) /\ Len(got) = m
  /\ \A j \in 1..m : got[j] = Timer!PartOf(timer.snap, j - 1)
  /\ timer.snap = Left(taken)

TsIdle == todo = <<>> /\ Steady /\ (got = <<>> \/ Got(unit.parts))
StartAt(k) ==
  /\ todo = Rest(Starting, k) /\ got = <<>>
  /\ k = 0 => Steady
  /\ k > 0 => ~timer.run
  /\ k > 1 => timer.counter = timer.period
StampAt(k) ==
  /\ todo = Rest(Stamping, k) /\ Steady
  /\ k = 0 => got = <<>>
  /\ k > 0 => Got(k - 1)

TsBase ==
  /\ ts_freq = TIMER_FREQ /\ rate = 0 /\ ~handled /\ owed = 0
  /\ timer \in TimerT /\ ~timer.ito /\ ~timer.cont /\ elapsed \in Nat /\ taken \in Nat
TsPhase ==
  \/ TsIdle
  \/ \E k \in 0..(unit.parts + 1) : StartAt(k)
  \/ \E k \in 0..unit.parts : StampAt(k)
TsInv == TsBase /\ TsPhase

\* A time-out is owed for each that is pending or being handled.
Pending == IF timer.to THEN 1 ELSE 0
HandlerRest == {<<Timer!read(1), Timer!call("alt_tick")>>, <<Timer!call("alt_tick")>>}
SysPhase ==
  \/ /\ ~handled /\ todo = Timer!alt_avalon_timer_sc_init
     /\ ~timer.run /\ ~timer.ito /\ ~timer.to /\ owed = 0
  \/ /\ timer.run /\ timer.cont /\ timer.ito
     /\ \/ ~handled /\ todo = <<Timer!call("alt_ic_isr_register")>> /\ (~overrun => owed = Pending)
        \/ handled /\ todo \in {<<>>, Timer!alt_avalon_timer_sc_irq} /\ (~overrun => owed = Pending)
           /\ (todo # <<>> => timer.to)
        \/ handled /\ todo \in HandlerRest /\ (~overrun => owed = Pending + 1)

SysInv ==
  /\ ts_freq = 0 /\ rate = Timer!TimerFreq(TIMER_FREQ, unit.load + 1, "clocks")
  /\ handled \in BOOLEAN /\ overrun \in BOOLEAN /\ owed \in Int
  /\ timer \in TimerT /\ timer.period = unit.load /\ got = <<>>
  /\ SysPhase

NotSet ==
  /\ ts_freq = 0 /\ rate = 0 /\ handled = FALSE /\ owed = 0 /\ overrun = FALSE
  /\ timer \in TimerT /\ timer.period = unit.load /\ timer.counter = timer.period
  /\ ~timer.run /\ ~timer.cont /\ ~timer.ito /\ ~timer.to
  /\ elapsed = 0 /\ taken = 0 /\ todo = <<>> /\ got = <<>>

MInv == UnitOK /\ (NotSet \/ TsInv \/ SysInv)

LEMMA LoadIn == ASSUME UnitOK PROVE unit.load \in 0..Timer!Full /\ unit.load \in Nat \ {0}
<1>1. unit.load \in 1..(Part * Part - 1)
  BY TimerAssumption DEF TimerAssumption, UnitOK
<1>2. Part * Part \in Nat \ {0}
  BY PartLarge
<1>3. CASE unit.parts = 2
  BY <1>1, <1>2, <1>3, FullOf
<1>4. CASE unit.parts = 4
  <2> DEFINE q == Part * Part
  <2>1. Part * (Part * q) = q * q
    BY <1>2, PartLarge
  <2>2. q \in Nat \ {0}
    BY <1>2
  <2>3. Timer!Full = Part * (Part * q) - 1
    BY <1>4, FullOf
  <2> HIDE DEF q
  <2>4. q * q >= q
    BY <2>2
  <2>5. unit.load \in 1..(q - 1)
    BY <1>1 DEF q
  <2>6. q * q \in Nat
    BY <2>2
  <2> QED
    BY <2>1, <2>2, <2>3, <2>4, <2>5, <2>6
<1> QED
  BY <1>3, <1>4, FullOf

LEMMA ControlSet ==
  ASSUME UnitOK, timer \in TimerT, NEW v, NEW w, w = Timer!Written(timer, 1, v)
  PROVE  /\ w \in TimerT /\ w.counter = timer.counter /\ w.period = timer.period
         /\ w.snap = timer.snap /\ w.to = timer.to
         /\ w.ito = ("ITO" \in v) /\ w.cont = ("CONT" \in v)
         /\ w.run = ("START" \in v \/ (timer.run /\ "STOP" \notin v))
<1>1. w = [timer EXCEPT !.ito = "ITO" \in v, !.cont = "CONT" \in v,
                        !.run = "START" \in v \/ (@ /\ "STOP" \notin v)]
  BY DEF Timer!Written, Timer!STATUS, Timer!CONTROL
<1>2. ("ITO" \in v) \in BOOLEAN /\ ("CONT" \in v) \in BOOLEAN
      /\ ("START" \in v \/ (timer.run /\ "STOP" \notin v)) \in BOOLEAN
  OBVIOUS
<1> QED
  BY <1>1, <1>2 DEF TimerT

LEMMA StatusSet ==
  ASSUME UnitOK, timer \in TimerT, NEW v, NEW w, w = Timer!Written(timer, 0, v)
  PROVE  /\ w \in TimerT /\ w.counter = timer.counter /\ w.period = timer.period
         /\ w.snap = timer.snap /\ w.to = FALSE
         /\ w.ito = timer.ito /\ w.cont = timer.cont /\ w.run = timer.run
<1>1. w = [timer EXCEPT !.to = FALSE]
  BY DEF Timer!Written, Timer!STATUS, Timer!CONTROL
<1> QED
  BY <1>1 DEF TimerT

LEMMA PeriodSet ==
  ASSUME UnitOK, timer \in TimerT, NEW i \in Timer!Parts,
         NEW w, w = Timer!Written(timer, Timer!PERIOD(i), Part - 1)
  PROVE  /\ w \in TimerT /\ w.counter = w.period /\ w.run = FALSE
         /\ w.ito = timer.ito /\ w.cont = timer.cont
<1> DEFINE p == IF unit.fixed THEN timer.period ELSE Timer!WithPart(timer.period, i, Part - 1)
<1>1. p \in 0..Timer!Full
  <2>1. Part - 1 \in 0..(Part - 1) /\ timer.period \in 0..Timer!Full
    BY PartLarge DEF TimerT
  <2> QED
    BY <2>1, WithPartIn
<1>2. Timer!PERIOD(i) \notin {0, 1} /\ Timer!PERIOD(i) - Timer!PERIOD(0) = i
  BY RegisterOf
<1>3. w = [timer EXCEPT !.period = p, !.counter = p, !.run = FALSE]
  BY <1>2 DEF Timer!Written, Timer!STATUS, Timer!CONTROL
<1> HIDE DEF p
<1> QED
  BY <1>1, <1>3 DEF TimerT

LEMMA SnapSet ==
  ASSUME UnitOK, timer \in TimerT, NEW w, w = Timer!Written(timer, Timer!SNAP(0), 0)
  PROVE  /\ w \in TimerT /\ w.counter = timer.counter /\ w.period = timer.period
         /\ w.snap = timer.counter /\ w.run = timer.run
         /\ w.ito = timer.ito /\ w.cont = timer.cont
<1>1. Timer!SNAP(0) \notin {0, 1} /\ Timer!SNAP(0) - Timer!PERIOD(0) \notin Timer!Parts
  BY RegisterOf
<1>2. w = [timer EXCEPT !.snap = timer.counter]
  BY <1>1 DEF Timer!Written, Timer!STATUS, Timer!CONTROL
<1> QED
  BY <1>2 DEF TimerT

LEMMA CountedOnce ==
  ASSUME UnitOK, timer \in TimerT, NEW w, w = Timer!Counted(timer)
  PROVE  /\ w \in TimerT /\ w.period = timer.period /\ w.snap = timer.snap
         /\ w.ito = timer.ito /\ w.cont = timer.cont
         /\ timer.counter = 0 => w.counter = timer.period /\ w.to = TRUE /\ w.run = timer.cont
         /\ timer.counter # 0 => /\ w.counter = timer.counter - 1 /\ w.to = timer.to
                                 /\ w.run = timer.run
<1>1. timer.counter \in Nat /\ timer.counter \in 0..Timer!Full /\ Timer!Full \in Nat
  BY FullOf DEF TimerT
<1>2. CASE timer.counter = 0
  <2>1. w = [timer EXCEPT !.counter = timer.period, !.to = TRUE, !.run = timer.cont]
    BY <1>2 DEF Timer!Counted
  <2> QED
    BY <1>2, <2>1 DEF TimerT
<1>3. CASE timer.counter # 0
  <2>1. w = [timer EXCEPT !.counter = timer.counter - 1]
    BY <1>3 DEF Timer!Counted, TimerT
  <2>2. timer.counter - 1 \in 0..Timer!Full
    BY <1>1, <1>3
  <2> QED
    BY <1>3, <2>1, <2>2 DEF TimerT
<1> QED
  BY <1>2, <1>3

LEMMA SameUnit ==
  ASSUME unit' = unit
  PROVE  /\ Starting' = Starting /\ Stamping' = Stamping /\ Timer!Full' = Timer!Full
         /\ TimerT' = TimerT /\ (UnitOK => UnitOK')
<1>1. Timer!Registers' = Timer!Registers
  BY DEF Timer!Registers
<1>2. \A i : Timer!PERIOD(i)' = Timer!PERIOD(i) /\ Timer!SNAP(i)' = Timer!SNAP(i)
  BY <1>1 DEF Timer!PERIOD, Timer!SNAP
<1>3. Timer!FillParts' = Timer!FillParts /\ Timer!ReadParts' = Timer!ReadParts
  BY <1>2 DEF Timer!FillParts, Timer!ReadParts, Timer!write, Timer!read
<1>4. Starting' = Starting
  BY <1>3 DEF Starting, Timer!alt_timestamp_start
<1>5. Stamping' = Stamping
  BY <1>2, <1>3 DEF Stamping, Timer!alt_timestamp
<1>6. Timer!Full' = Timer!Full
  BY DEF Timer!Full
<1> QED
  BY <1>4, <1>5, <1>6 DEF TimerT, UnitOK

\* What is left of alt_timestamp_start after k accesses, and of alt_timestamp.
LEMMA StartAccess ==
  ASSUME UnitOK, NEW k \in 0..(unit.parts + 1), todo = Rest(Starting, k)
  PROVE  /\ todo # <<>> /\ Tail(todo) = Rest(Starting, k + 1)
         /\ k = 0 => Head(todo) = Timer!write(1, {"STOP"})
         /\ k \in 1..unit.parts => Head(todo) = Timer!write(Timer!PERIOD(k - 1), Part - 1)
         /\ k = unit.parts + 1 => Head(todo) = Timer!write(1, {"START"}) /\ Tail(todo) = <<>>
<1>1. unit.parts \in Nat
  BY DEF UnitOK
<1>2. /\ Starting \in Seq(StartOps) /\ Len(Starting) = unit.parts + 2
      /\ Starting[1] = Timer!write(1, {"STOP"})
      /\ \A j \in 1..unit.parts : Starting[j + 1] = Timer!write(Timer!PERIOD(j - 1), Part - 1)
      /\ Starting[unit.parts + 2] = Timer!write(1, {"START"})
  BY StartingOf
<1>3. k \in 0..Len(Starting) /\ k + 1 \in 0..Len(Starting) /\ k < Len(Starting)
  BY <1>1, <1>2
<1>4. todo # <<>> /\ Head(todo) = Starting[k + 1] /\ Tail(todo) = Rest(Starting, k + 1)
  BY <1>2, <1>3, RestOf
<1>5. k = unit.parts + 1 => Rest(Starting, k + 1) = <<>>
  <2>1. k = unit.parts + 1 => k + 1 = Len(Starting)
    BY <1>1, <1>2
  <2> QED
    BY <1>2, <1>3, <2>1, RestOf
<1>6. (k = 0 => k + 1 = 1) /\ (k = unit.parts + 1 => k + 1 = unit.parts + 2)
  BY <1>1
<1> QED
  BY <1>2, <1>4, <1>5, <1>6

LEMMA StampAccess ==
  ASSUME UnitOK, NEW k \in 0..unit.parts, todo = Rest(Stamping, k)
  PROVE  /\ todo # <<>> /\ Tail(todo) = Rest(Stamping, k + 1)
         /\ k = 0 => Head(todo) = Timer!write(Timer!SNAP(0), 0)
         /\ k \in 1..unit.parts => Head(todo) = Timer!read(Timer!SNAP(k - 1))
         /\ k = unit.parts => Tail(todo) = <<>>
<1>1. unit.parts \in Nat
  BY DEF UnitOK
<1>2. /\ Stamping \in Seq(StampOps) /\ Len(Stamping) = unit.parts + 1
      /\ Stamping[1] = Timer!write(Timer!SNAP(0), 0)
      /\ \A j \in 1..unit.parts : Stamping[j + 1] = Timer!read(Timer!SNAP(j - 1))
  BY StampingOf
<1>3. k \in 0..Len(Stamping) /\ k + 1 \in 0..Len(Stamping) /\ k < Len(Stamping)
  BY <1>1, <1>2
<1>4. todo # <<>> /\ Head(todo) = Stamping[k + 1] /\ Tail(todo) = Rest(Stamping, k + 1)
  BY <1>2, <1>3, RestOf
<1>5. k = unit.parts => Rest(Stamping, k + 1) = <<>>
  <2>1. k = unit.parts => k + 1 = Len(Stamping)
    BY <1>1, <1>2
  <2> QED
    BY <1>2, <1>3, <2>1, RestOf
<1>6. k = 0 => k + 1 = 1
  BY <1>1
<1> QED
  BY <1>2, <1>4, <1>5, <1>6

LEMMA TimerStart == Timer!TimerInit => MInv
<1> SUFFICES ASSUME Timer!TimerInit PROVE MInv
  OBVIOUS
<1>1. UnitOK
  BY DEF Timer!TimerInit, UnitOK
<1>2. unit.load \in 0..Timer!Full /\ 0 \in 0..Timer!Full
  <2>1. Timer!Full \in Nat
    BY <1>1, FullOf
  <2> QED
    BY <1>1, <2>1, LoadIn
<1>3. timer = [counter |-> unit.load, period |-> unit.load, snap |-> 0,
               run |-> FALSE, cont |-> FALSE, ito |-> FALSE, to |-> FALSE]
  BY DEF Timer!TimerInit
<1>4. NotSet
  BY <1>2, <1>3 DEF NotSet, TimerT, Timer!TimerInit
<1> QED
  BY <1>1, <1>4 DEF MInv

\* The rate is that of the time-outs, rounded up.
LEMMA RateRight ==
  ASSUME UnitOK, rate = Timer!TimerFreq(TIMER_FREQ, unit.load + 1, "clocks")
  PROVE  /\ rate \in Nat \ {0}
         /\ (rate - 1) * (unit.load + 1) < TIMER_FREQ /\ TIMER_FREQ <= rate * (unit.load + 1)
<1> DEFINE p == unit.load + 1
           n == TIMER_FREQ + p - 1
<1>1. TIMER_FREQ \in Nat \ {0} /\ p \in Nat \ {0} /\ n \in Nat /\ n >= p
  BY TimerAssumption, LoadIn DEF TimerAssumption
<1>2. rate = n \div p
  BY DEF Timer!TimerFreq
<1>3. n = TIMER_FREQ + p - 1
  OBVIOUS
<1>4. (rate - 1) * p = p * rate - p /\ rate * p = p * rate /\ rate \in Int
  <2>1. n \in Int /\ p \in Int
    BY <1>1
  <2> HIDE DEF n, p
  <2>2. rate \in Int
    BY <1>1, <1>2, <2>1
  <2> QED
    BY <2>1, <2>2
<1> HIDE DEF n, p
<1>5. n = rate * p + (n % p) /\ n % p \in 0..(p - 1)
  <2>1. n \in Int /\ p \in Nat \ {0}
    BY <1>1
  <2>2. n = (n \div p) * p + (n % p) /\ n % p \in 0..(p - 1)
    BY <2>1, DivMod
  <2> QED
    BY <1>2, <2>2
<1>6. p * rate >= TIMER_FREQ /\ p * rate - p < TIMER_FREQ
  <2> DEFINE m == p * rate
             r == n % p
  <2>1. m \in Int /\ n = m + r /\ r \in 0..(p - 1)
    BY <1>1, <1>4, <1>5
  <2> HIDE DEF m, r
  <2>2. m >= TIMER_FREQ /\ m - p < TIMER_FREQ
    BY <1>1, <1>3, <2>1
  <2> QED
    BY <2>2 DEF m
<1>7. rate >= 1
  <2> SUFFICES ASSUME rate <= 0 PROVE FALSE
    BY <1>4
  <2>1. p * rate <= 0
    <3>1. p \in Nat /\ rate \in Int /\ rate <= 0
      BY <1>1, <1>4
    <3> QED
      BY <3>1
  <2>2. TIMER_FREQ >= 1 /\ TIMER_FREQ \in Nat
    BY <1>1
  <2> QED
    BY <1>1, <1>4, <1>6, <2>1, <2>2
<1> QED
  BY <1>4, <1>6, <1>7 DEF p

LEMMA Accesses ==
  \A a, b, c : /\ <<a>> # <<>> /\ Head(<<a>>) = a /\ Tail(<<a>>) = <<>>
               /\ <<a, b>> # <<>> /\ Head(<<a, b>>) = a /\ Tail(<<a, b>>) = <<b>>
               /\ <<a, b, c>> # <<>> /\ Head(<<a, b, c>>) = a /\ Tail(<<a, b, c>>) = <<b, c>>
OBVIOUS

\* What is left of alt_avalon_timer_sc_init, and of the handler.
Register == <<Timer!call("alt_ic_isr_register")>>
Handler == Timer!alt_avalon_timer_sc_irq
HandlerRead == <<Timer!read(1), Timer!call("alt_tick")>>
HandlerTick == <<Timer!call("alt_tick")>>

LEMMA Handling ==
  /\ Timer!alt_avalon_timer_sc_init # <<>> /\ Register # <<>>
  /\ Handler # <<>> /\ HandlerRead # <<>> /\ HandlerTick # <<>>
  /\ Head(Timer!alt_avalon_timer_sc_init) = Timer!write(1, {"ITO", "CONT", "START"})
  /\ Tail(Timer!alt_avalon_timer_sc_init) = Register
  /\ Head(Register) = Timer!call("alt_ic_isr_register") /\ Tail(Register) = <<>>
  /\ Head(Handler) = Timer!write(0, 0) /\ Tail(Handler) = HandlerRead
  /\ Head(HandlerRead) = Timer!read(1) /\ Tail(HandlerRead) = HandlerTick
  /\ Head(HandlerTick) = Timer!call("alt_tick") /\ Tail(HandlerTick) = <<>>
  /\ HandlerRest = {HandlerRead, HandlerTick}
  /\ Handler # HandlerRead /\ Handler # HandlerTick
<1>1. /\ Timer!alt_avalon_timer_sc_init
           = <<Timer!write(1, {"ITO", "CONT", "START"}), Timer!call("alt_ic_isr_register")>>
      /\ Handler = <<Timer!write(0, 0), Timer!read(1), Timer!call("alt_tick")>>
  BY DEF Handler, Timer!alt_avalon_timer_sc_init, Timer!alt_avalon_timer_sc_irq,
         Timer!STATUS, Timer!CONTROL
<1>2. Timer!write(0, 0) # Timer!read(1) /\ Timer!write(0, 0) # Timer!call("alt_tick")
  <2>1. Timer!write(0, 0).do = "write" /\ Timer!read(1).do = "read"
        /\ Timer!call("alt_tick").do = "alt_tick"
    BY DEF Timer!write, Timer!read, Timer!call
  <2> QED
    BY <2>1
<1>3. /\ Head(Handler) = Timer!write(0, 0) /\ Tail(Handler) = HandlerRead /\ Handler # <<>>
      /\ Head(HandlerRead) = Timer!read(1) /\ Tail(HandlerRead) = HandlerTick
      /\ HandlerRead # <<>> /\ HandlerTick # <<>>
      /\ Head(HandlerTick) = Timer!call("alt_tick") /\ Tail(HandlerTick) = <<>>
  BY <1>1, Accesses DEF HandlerRead, HandlerTick
<1>4. Handler # HandlerRead /\ Handler # HandlerTick
  BY <1>2, <1>3
<1> QED
  BY <1>1, <1>3, <1>4, Accesses DEF Register, HandlerRead, HandlerTick, HandlerRest

LEMMA SysStep ==
  ASSUME UnitOK, SysInv, Timer!TimerNext
  PROVE  UnitOK' /\ SysInv'
<1> DEFINE frame == UNCHANGED <<unit, ts_freq, rate, got>>
<1>1. rate # 0 /\ ts_freq = 0
  BY RateRight DEF SysInv
<1>2. ~Timer!SetUp /\ ~Timer!Calls(Timer!alt_timestamp_start) /\ ~Timer!Calls(Timer!alt_timestamp)
  BY <1>1 DEF Timer!SetUp, Timer!Calls
<1>3. ASSUME frame, handled' \in BOOLEAN, overrun' \in BOOLEAN, owed' \in Int,
             timer' \in TimerT, timer'.period = timer.period, SysPhase'
      PROVE  UnitOK' /\ SysInv'
  <2>1. UnitOK' /\ TimerT' = TimerT /\ unit' = unit
    BY <1>3, SameUnit
  <2>2. Timer!TimerFreq(TIMER_FREQ, unit.load + 1, "clocks")'
          = Timer!TimerFreq(TIMER_FREQ, unit.load + 1, "clocks")
    BY <2>1 DEF Timer!TimerFreq
  <2> QED
    BY <1>3, <2>1, <2>2 DEF SysInv
<1> HIDE DEF frame
<1>4. CASE Timer!Interrupt
  <2>1. frame /\ UNCHANGED <<handled, overrun, owed, timer>> /\ todo = <<>> /\ handled /\ timer.to
        /\ todo' = Handler
    BY <1>4 DEF Timer!Interrupt, Timer!configuration, Timer!history, frame, Handler
  <2>2. timer.run /\ timer.cont /\ timer.ito /\ (~overrun => owed = Pending)
    BY <2>1, Handling DEF SysInv, SysPhase
  <2>3. SysPhase'
    BY <2>1, <2>2 DEF SysPhase, Pending, Handler
  <2> QED
    BY <1>3, <2>1, <2>3 DEF SysInv
<1>5. CASE Timer!Write
  <2>1. /\ frame /\ UNCHANGED <<handled, overrun, owed>> /\ todo # <<>> /\ Head(todo).do = "write"
        /\ todo' = Tail(todo) /\ timer' = Timer!Written(timer, Head(todo).reg, Head(todo).value)
    BY <1>5 DEF Timer!Write, Timer!Does, Timer!access, Timer!configuration, frame
  <2>2. todo # Register /\ todo \notin HandlerRest
    <3>1. Head(Register).do # "write" /\ Head(HandlerRead).do # "write"
          /\ Head(HandlerTick).do # "write"
      BY Handling DEF Timer!call, Timer!read
    <3> QED
      BY <2>1, <3>1, Handling
  <2>3. CASE ~handled /\ todo = Timer!alt_avalon_timer_sc_init
    <3>1. /\ timer' = Timer!Written(timer, 1, {"ITO", "CONT", "START"}) /\ todo' = Register
      <4>1. Head(todo).reg = 1 /\ Head(todo).value = {"ITO", "CONT", "START"}
        BY <2>3, Handling DEF Timer!write
      <4> QED
        BY <2>1, <2>3, <4>1, Handling
    <3>2. /\ timer' \in TimerT /\ timer'.period = timer.period /\ timer'.to = timer.to
          /\ timer'.ito /\ timer'.cont /\ timer'.run
      <4> DEFINE v == {"ITO", "CONT", "START"}
      <4>1. "ITO" \in v /\ "CONT" \in v /\ "START" \in v /\ timer' = Timer!Written(timer, 1, v)
        BY <3>1
      <4> HIDE DEF v
      <4>2. timer \in TimerT
        BY DEF SysInv
      <4> QED
        BY <4>1, <4>2, ControlSet
    <3>3. ~timer.to /\ owed = 0
      BY <2>3, Handling DEF SysInv, SysPhase
    <3>4. SysPhase'
      BY <2>1, <2>3, <3>1, <3>2, <3>3 DEF SysPhase, Pending, Register
    <3> QED
      BY <1>3, <2>1, <3>2, <3>4 DEF SysInv
  <2>4. CASE handled /\ todo = Handler
    <3>1. timer' = Timer!Written(timer, 0, 0) /\ todo' = HandlerRead
      BY <2>1, <2>4, Handling DEF Timer!write
    <3>2. /\ timer' \in TimerT /\ timer'.period = timer.period /\ timer'.to = FALSE
          /\ timer'.ito = timer.ito /\ timer'.cont = timer.cont /\ timer'.run = timer.run
      BY <3>1, StatusSet DEF SysInv
    <3>3. timer.run /\ timer.cont /\ timer.ito /\ timer.to /\ (~overrun => owed = Pending)
      BY <2>4, <2>2, Handling DEF SysInv, SysPhase
    <3>4. HandlerRead \in HandlerRest /\ HandlerRest' = HandlerRest
      BY Handling DEF HandlerRest
    <3>5. ~overrun' => owed' = Pending' + 1
      BY <2>1, <3>2, <3>3 DEF Pending
    <3>6. timer'.run /\ timer'.cont /\ timer'.ito /\ handled' /\ todo' \in HandlerRest'
      BY <2>1, <2>4, <3>1, <3>2, <3>3, <3>4
    <3>7. SysPhase'
      BY <3>5, <3>6 DEF SysPhase
    <3> QED
      BY <1>3, <2>1, <3>2, <3>7 DEF SysInv
  <2> QED
    BY <2>1, <2>2, <2>3, <2>4 DEF SysInv, SysPhase, Register, Handler
<1>6. CASE Timer!Read
  <2>1. /\ UNCHANGED <<unit, ts_freq, rate, handled, overrun, owed, timer>> /\ todo # <<>>
        /\ Head(todo).do = "read" /\ todo' = Tail(todo)
        /\ (Head(todo).reg = 1 => got' = got)
    BY <1>6 DEF Timer!Read, Timer!Does, Timer!access, Timer!configuration, Timer!history,
                Timer!CONTROL
  <2>2. todo = HandlerRead
    <3>1. Head(Register).do # "read" /\ Head(Handler).do # "read"
          /\ Head(HandlerTick).do # "read" /\ Head(Timer!alt_avalon_timer_sc_init).do # "read"
      BY Handling DEF Timer!call, Timer!write
    <3> QED
      BY <2>1, <3>1, Handling DEF SysInv, SysPhase, Register, Handler
  <2>3. todo' = HandlerTick /\ frame
    BY <2>1, <2>2, Handling DEF Timer!read, frame
  <2>4. handled /\ timer.run /\ timer.cont /\ timer.ito /\ (~overrun => owed = Pending + 1)
    <3>1. HandlerRead # Timer!alt_avalon_timer_sc_init /\ HandlerRead # Register
          /\ HandlerRead # Handler /\ HandlerRead # <<>>
      <4>1. Head(HandlerRead).do = "read" /\ Head(Register).do # "read"
            /\ Head(Timer!alt_avalon_timer_sc_init).do # "read"
        BY Handling DEF Timer!call, Timer!write, Timer!read
      <4> QED
        BY <4>1, Handling
    <3> QED
      BY <2>2, <3>1 DEF SysInv, SysPhase, Register, Handler
  <2>5. SysPhase'
    <3>1. HandlerTick \in HandlerRest /\ HandlerRest' = HandlerRest
      BY Handling DEF HandlerRest
    <3> QED
      BY <2>1, <2>3, <2>4, <3>1 DEF SysPhase, Pending
  <2> QED
    BY <1>3, <2>1, <2>3, <2>5 DEF SysInv
<1>7. CASE Timer!Register
  <2>1. /\ frame /\ UNCHANGED <<overrun, owed, timer>> /\ todo # <<>> /\ handled' = TRUE
        /\ Head(todo).do = "alt_ic_isr_register" /\ todo' = Tail(todo)
    BY <1>7 DEF Timer!Register, Timer!Does, Timer!history, frame
  <2>2. todo = Register
    <3>1. Head(Handler).do # "alt_ic_isr_register" /\ Head(HandlerRead).do # "alt_ic_isr_register"
          /\ Head(HandlerTick).do # "alt_ic_isr_register"
          /\ Head(Timer!alt_avalon_timer_sc_init).do # "alt_ic_isr_register"
      BY Handling DEF Timer!call, Timer!write, Timer!read
    <3> QED
      BY <2>1, <3>1, Handling DEF SysInv, SysPhase, Register, Handler
  <2>3. timer.run /\ timer.cont /\ timer.ito /\ (~overrun => owed = Pending)
    <3>1. Register # Timer!alt_avalon_timer_sc_init /\ Register \notin HandlerRest
          /\ Register # Handler /\ Register # <<>>
      <4>1. Head(Register).do = "alt_ic_isr_register" /\ Head(Handler).do # "alt_ic_isr_register"
            /\ Head(HandlerRead).do # "alt_ic_isr_register"
            /\ Head(HandlerTick).do # "alt_ic_isr_register"
            /\ Head(Timer!alt_avalon_timer_sc_init).do # "alt_ic_isr_register"
        BY Handling DEF Timer!call, Timer!write, Timer!read
      <4> QED
        BY <4>1, Handling
    <3> QED
      BY <2>2, <3>1 DEF SysInv, SysPhase, Handler
  <2>4. todo' = <<>>
    BY <2>1, <2>2, Handling
  <2>5. SysPhase'
    BY <2>1, <2>3, <2>4 DEF SysPhase, Pending
  <2> QED
    BY <1>3, <2>1, <2>5 DEF SysInv
<1>8. CASE Timer!CallTick
  <2>1. /\ frame /\ UNCHANGED <<handled, overrun, timer>> /\ todo # <<>> /\ owed' = owed - 1
        /\ Head(todo).do = "alt_tick" /\ todo' = Tail(todo)
    BY <1>8 DEF Timer!CallTick, Timer!Does, Timer!configuration, frame
  <2>2. todo = HandlerTick
    <3>1. Head(Handler).do # "alt_tick" /\ Head(HandlerRead).do # "alt_tick"
          /\ Head(Register).do # "alt_tick"
          /\ Head(Timer!alt_avalon_timer_sc_init).do # "alt_tick"
      BY Handling DEF Timer!call, Timer!write, Timer!read
    <3> QED
      BY <2>1, <3>1, Handling DEF SysInv, SysPhase, Register, Handler
  <2>3. handled /\ timer.run /\ timer.cont /\ timer.ito /\ (~overrun => owed = Pending + 1)
    <3>1. HandlerTick # Timer!alt_avalon_timer_sc_init /\ HandlerTick # Register
          /\ HandlerTick # Handler /\ HandlerTick # <<>>
      <4>1. Head(HandlerTick).do = "alt_tick" /\ Head(Register).do # "alt_tick"
            /\ Head(Timer!alt_avalon_timer_sc_init).do # "alt_tick"
        BY Handling DEF Timer!call, Timer!write
      <4> QED
        BY <4>1, Handling
    <3> QED
      BY <2>2, <3>1 DEF SysInv, SysPhase, Register, Handler
  <2>4. todo' = <<>>
    BY <2>1, <2>2, Handling
  <2>5. owed \in Int /\ Pending \in Int
    BY DEF SysInv, Pending
  <2>6. ~overrun' => owed' = Pending'
    BY <2>1, <2>3, <2>5 DEF Pending
  <2>7. SysPhase'
    BY <2>1, <2>3, <2>4, <2>6 DEF SysPhase
  <2> QED
    BY <1>3, <2>1, <2>5, <2>7 DEF SysInv
<1>9. CASE Timer!Clock
  <2> DEFINE late == IF handled /\ todo # <<>> THEN owed = 2 ELSE timer.to
  <2>1. /\ frame /\ UNCHANGED <<handled, todo>> /\ timer.run /\ timer' = Timer!Counted(timer)
        /\ ~(timer.counter = 0 /\ todo = Handler /\ handled)
        /\ IF timer.counter = 0 /\ timer.ito
           THEN overrun' = (overrun \/ late) /\ owed' = IF late THEN owed ELSE owed + 1
           ELSE UNCHANGED <<owed, overrun>>
    BY <1>9, Handling DEF Timer!Clock, Timer!InHandler, Timer!TimesOut, Timer!configuration,
                frame, Handler
  <2>2. /\ timer' \in TimerT /\ timer'.period = timer.period
        /\ timer'.ito = timer.ito /\ timer'.cont = timer.cont
        /\ timer.counter = 0 => timer'.to = TRUE /\ timer'.run = timer.cont
        /\ timer.counter # 0 => timer'.to = timer.to /\ timer'.run = timer.run
    BY <2>1, CountedOnce DEF SysInv
  <2>3. timer.cont /\ timer.ito
    BY <2>1 DEF SysInv, SysPhase
  <2>4. timer'.run /\ timer'.cont /\ timer'.ito
    BY <2>1, <2>2, <2>3
  <2>5. late \in BOOLEAN /\ overrun \in BOOLEAN /\ owed \in Int /\ handled \in BOOLEAN
    BY DEF SysInv, TimerT
  <2>6. overrun' \in BOOLEAN /\ owed' \in Int
    BY <2>1, <2>5
  <2>7. CASE todo \in HandlerRest /\ handled
    <3>1. todo # <<>> /\ todo # Handler
      BY <2>7, Handling
    <3>2. ~overrun => owed = Pending + 1
      BY <2>7, <3>1, Handling DEF SysInv, SysPhase, Handler
    <3>3. ~overrun' => owed' = Pending' + 1
      <4>1. CASE timer.counter = 0
        BY <2>1, <2>2, <2>3, <2>5, <2>7, <3>1, <3>2, <4>1 DEF Pending
      <4>2. CASE timer.counter # 0
        BY <2>1, <2>2, <3>2, <4>2 DEF Pending
      <4> QED
        BY <4>1, <4>2
    <3>4. SysPhase'
      <4>1. HandlerRest' = HandlerRest
        BY DEF HandlerRest
      <4> QED
        BY <2>1, <2>4, <2>7, <3>3, <4>1 DEF SysPhase
    <3> QED
      BY <1>3, <2>1, <2>2, <2>6, <3>4 DEF SysInv
  <2>8. CASE ~(todo \in HandlerRest /\ handled)
    <3>1. /\ ~overrun => owed = Pending
          /\ \/ ~handled /\ todo = Register
             \/ handled /\ todo \in {<<>>, Handler} /\ (todo # <<>> => timer.to)
      BY <2>1, <2>8 DEF SysInv, SysPhase, Register, Handler
    <3>2. ~overrun' => owed' = Pending'
      <4>1. CASE timer.counter = 0
        <5>1. ~(handled /\ todo # <<>>)
          BY <2>1, <3>1, <4>1
        <5> QED
          BY <2>1, <2>2, <2>3, <2>5, <3>1, <4>1, <5>1 DEF Pending
      <4>2. CASE timer.counter # 0
        BY <2>1, <2>2, <3>1, <4>2 DEF Pending
      <4> QED
        BY <4>1, <4>2
    <3>3. todo' # <<>> /\ handled' => timer'.to
      BY <2>1, <2>2, <3>1
    <3>4. SysPhase'
      BY <2>1, <2>4, <3>1, <3>2, <3>3 DEF SysPhase, Register, Handler
    <3> QED
      BY <1>3, <2>1, <2>2, <2>6, <3>4 DEF SysInv
  <2> QED
    BY <2>7, <2>8
<1> QED
  BY <1>2, <1>4, <1>5, <1>6, <1>7, <1>8, <1>9 DEF Timer!TimerNext

LEMMA NotSetStep ==
  ASSUME UnitOK, NotSet, Timer!TimerNext
  PROVE  MInv'
<1>1. todo = <<>> /\ ts_freq = 0 /\ ~handled /\ ~timer.run
  BY DEF NotSet
<1>2. Timer!SetUp
  BY <1>1 DEF Timer!TimerNext, Timer!Calls, Timer!Interrupt, Timer!Write, Timer!Read,
              Timer!Register, Timer!CallTick, Timer!Does, Timer!Clock
<1>3. UNCHANGED <<unit, timer, handled, got, elapsed, taken, owed, overrun>>
  BY <1>2 DEF Timer!SetUp, Timer!history
<1>4. UnitOK' /\ TimerT' = TimerT
  BY <1>3, SameUnit
<1>5. CASE /\ rate' = Timer!TimerFreq(TIMER_FREQ, unit.load + 1, "clocks")
           /\ todo' = Timer!alt_avalon_timer_sc_init /\ ts_freq' = ts_freq
  <2>1. Timer!TimerFreq(TIMER_FREQ, unit.load + 1, "clocks")'
          = Timer!TimerFreq(TIMER_FREQ, unit.load + 1, "clocks")
    BY <1>3 DEF Timer!TimerFreq
  <2>2. ~handled' /\ todo' = Timer!alt_avalon_timer_sc_init' /\ ~timer'.run /\ ~timer'.ito
        /\ ~timer'.to /\ owed' = 0
    BY <1>3, <1>5 DEF NotSet, Timer!alt_avalon_timer_sc_init, Timer!CONTROL, Timer!write, Timer!call
  <2>3. SysPhase'
    BY <2>2 DEF SysPhase
  <2>4. handled' \in BOOLEAN /\ overrun' \in BOOLEAN /\ owed' \in Int /\ got' = <<>>
        /\ timer' \in TimerT' /\ timer'.period = unit'.load /\ ts_freq' = 0
    <3>1. handled' = FALSE /\ overrun' = FALSE /\ owed' = 0 /\ got' = <<>> /\ ts_freq' = 0
      BY <1>3, <1>5 DEF NotSet
    <3>2. timer' = timer /\ unit' = unit
      BY <1>3
    <3>3. timer \in TimerT /\ timer.period = unit.load
      BY DEF NotSet
    <3>4. timer' \in TimerT' /\ timer'.period = unit'.load
      BY <1>4, <3>2, <3>3
    <3>5. handled' \in BOOLEAN /\ overrun' \in BOOLEAN
      BY <3>1
    <3>6. owed' \in Int
      BY <3>1
    <3> QED
      BY <3>1, <3>4, <3>5, <3>6
  <2>5. SysInv'
    BY <1>5, <2>1, <2>3, <2>4 DEF SysInv
  <2> QED
    BY <1>4, <2>5 DEF MInv
<1>6. CASE ts_freq' = TIMER_FREQ /\ UNCHANGED <<rate, todo>>
  <2>1. /\ timer.counter = Left(0) /\ timer.period \in Nat /\ timer.counter = timer.period
        /\ timer.period \in Nat
    BY LoadIn DEF NotSet, Left
  <2>2. timer' = timer /\ elapsed' = 0 /\ todo' = <<>> /\ got' = <<>> /\ ~timer'.run
    BY <1>3, <1>6 DEF NotSet
  <2>3. Steady'
    BY <2>1, <2>2 DEF Steady, Left
  <2>4. TsPhase'
    BY <2>2, <2>3 DEF TsPhase, TsIdle
  <2>5. TsBase'
    BY <1>3, <1>4, <1>6 DEF TsBase, NotSet
  <2> QED
    BY <1>4, <2>4, <2>5 DEF MInv, TsInv
<1> QED
  BY <1>2, <1>5, <1>6 DEF Timer!SetUp

\* The registers and the history that a phase of the timestamp clock speaks of.
LEMMA PhaseOf ==
  ASSUME UnitOK, TsInv
  PROVE  \/ TsIdle
         \/ \E k \in 0..(unit.parts + 1) : StartAt(k) /\ todo = Rest(Starting, k)
         \/ \E k \in 0..unit.parts : StampAt(k) /\ todo = Rest(Stamping, k)
BY DEF TsInv, TsPhase, StartAt, StampAt

LEMMA TsClock ==
  ASSUME UnitOK, TsInv, Timer!Clock
  PROVE  UnitOK' /\ TsInv'
<1>1. /\ UNCHANGED <<unit, ts_freq, rate, handled, todo, got, taken, owed>>
      /\ timer.run /\ timer' = Timer!Counted(timer) /\ elapsed' = elapsed + 1
  <2>1. ts_freq # 0 /\ ~timer.ito
    BY TimerAssumption DEF TsInv, TsBase, TimerAssumption
  <2> QED
    BY <2>1 DEF Timer!Clock, Timer!configuration
<1>2. UnitOK' /\ TimerT' = TimerT /\ Starting' = Starting /\ Stamping' = Stamping
  BY <1>1, SameUnit
<1>3. /\ timer \in TimerT /\ ~timer.ito /\ ~timer.cont /\ elapsed \in Nat /\ taken \in Nat
  BY DEF TsInv, TsBase
<1>4. /\ timer' \in TimerT /\ timer'.period = timer.period /\ timer'.snap = timer.snap
      /\ timer'.ito = timer.ito /\ timer'.cont = timer.cont
      /\ timer.counter = 0 => timer'.counter = timer.period /\ timer'.run = timer.cont
      /\ timer.counter # 0 => timer'.counter = timer.counter - 1 /\ timer'.run = timer.run
  BY <1>1, <1>3, CountedOnce
<1>5. TsBase'
  BY <1>1, <1>2, <1>3, <1>4 DEF TsInv, TsBase
<1>6. ASSUME Steady PROVE Steady'
  <2>1. timer.period \in Nat /\ timer.counter \in Nat
    BY <1>3, FullOf DEF TimerT
  <2>2. timer.counter = timer.period - elapsed /\ elapsed <= timer.period
    BY <1>1, <1>3, <1>6, <2>1 DEF Steady, Left
  <2>3. CASE timer.counter = 0
    BY <1>1, <1>3, <1>4, <2>1, <2>2, <2>3 DEF Steady, Left
  <2>4. CASE timer.counter # 0
    <3>1. /\ timer'.counter = timer.counter - 1 /\ timer'.period = timer.period
          /\ elapsed' = elapsed + 1
      BY <1>1, <1>4, <2>4
    <3>2. elapsed + 1 <= timer.period /\ timer.counter - 1 = timer.period - (elapsed + 1)
      BY <1>3, <2>1, <2>2, <2>4
    <3>3. ~(elapsed + 1 > timer.period)
      BY <1>3, <2>1, <3>2
    <3> QED
      BY <3>1, <3>2, <3>3 DEF Steady, Left
  <2> QED
    BY <2>3, <2>4
<1>7. ASSUME NEW m, Got(m) PROVE Got(m)'
  BY <1>1, <1>4, <1>7 DEF Got, Left, Timer!PartOf, Timer!Unit
<1>8. CASE TsIdle
  <2>1. TsIdle'
    BY <1>1, <1>6, <1>7, <1>8 DEF TsIdle
  <2> QED
    BY <1>2, <1>5, <2>1 DEF TsInv, TsPhase
<1>9. ASSUME NEW k \in 0..(unit.parts + 1), StartAt(k) PROVE TsPhase'
  <2>1. k = 0
    BY <1>1, <1>9 DEF StartAt
  <2>2. todo' = Rest(Starting, k)' /\ got' = <<>> /\ Steady'
    BY <1>1, <1>2, <1>6, <1>9, <2>1 DEF StartAt, Rest
  <2>3. StartAt(k)'
    BY <2>1, <2>2 DEF StartAt
  <2> QED
    BY <1>1, <2>3 DEF TsPhase
<1>10. ASSUME NEW k \in 0..unit.parts, StampAt(k) PROVE TsPhase'
  <2>1. todo' = Rest(Stamping, k)' /\ Steady' /\ (k = 0 => got' = <<>>) /\ (k > 0 => Got(k - 1)')
    BY <1>1, <1>2, <1>6, <1>7, <1>10 DEF StampAt, Rest
  <2>2. StampAt(k)'
    BY <2>1 DEF StampAt
  <2> QED
    BY <1>1, <2>2 DEF TsPhase
<1> QED
  BY <1>2, <1>5, <1>8, <1>9, <1>10 DEF TsInv, TsPhase

LEMMA TsCalls ==
  ASSUME UnitOK, TsInv, NEW f, f \in {Starting, Stamping}, Timer!Calls(f)
  PROVE  UnitOK' /\ TsInv'
<1>1. /\ UNCHANGED <<unit, ts_freq, rate, handled, timer, elapsed, taken, owed>>
      /\ todo = <<>> /\ todo' = f /\ got' = <<>>
  BY DEF Timer!Calls, Timer!configuration, Timer!history
<1>2. UnitOK' /\ TimerT' = TimerT /\ Starting' = Starting /\ Stamping' = Stamping
  BY <1>1, SameUnit
<1>3. TsBase'
  BY <1>1, <1>2 DEF TsInv, TsBase
<1>4. unit.parts \in Nat /\ 0 \in 0..(unit.parts + 1) /\ 0 \in 0..unit.parts
  BY DEF UnitOK
<1>5. Steady
  <2>1. ASSUME NEW k \in 0..(unit.parts + 1), todo = Rest(Starting, k) PROVE FALSE
    BY <1>1, <2>1, StartAccess
  <2>2. ASSUME NEW k \in 0..unit.parts, todo = Rest(Stamping, k) PROVE FALSE
    BY <1>1, <2>2, StampAccess
  <2> QED
    BY <2>1, <2>2, PhaseOf DEF TsIdle
<1>6. Steady'
  BY <1>1, <1>5 DEF Steady, Left
<1>7. CASE f = Starting
  <2>1. 0 \in 0..Len(Starting) /\ Starting \in Seq(StartOps)
    BY <1>4, StartingOf
  <2>2. Rest(Starting, 0) = Starting
    BY <2>1, RestOf
  <2>3. todo' = Rest(Starting, 0)'
    BY <1>1, <1>2, <1>7, <2>2 DEF Rest
  <2>4. StartAt(0)'
    BY <1>1, <1>6, <2>3 DEF StartAt
  <2> QED
    BY <1>1, <1>2, <1>3, <1>4, <2>4 DEF TsInv, TsPhase
<1>8. CASE f = Stamping
  <2>1. 0 \in 0..Len(Stamping) /\ Stamping \in Seq(StampOps)
    BY <1>4, StampingOf
  <2>2. Rest(Stamping, 0) = Stamping
    BY <2>1, RestOf
  <2>3. todo' = Rest(Stamping, 0)'
    BY <1>1, <1>2, <1>8, <2>2 DEF Rest
  <2>4. StampAt(0)'
    BY <1>1, <1>6, <2>3 DEF StampAt
  <2> QED
    BY <1>1, <1>2, <1>3, <1>4, <2>4 DEF TsInv, TsPhase
<1> QED
  BY <1>7, <1>8

LEMMA TsWrite ==
  ASSUME UnitOK, TsInv, Timer!Write
  PROVE  UnitOK' /\ TsInv'
<1> DEFINE reg == Head(todo).reg
           v == Head(todo).value
<1>1. /\ UNCHANGED <<unit, ts_freq, rate, handled, got, owed>>
      /\ todo # <<>> /\ Head(todo).do = "write" /\ todo' = Tail(todo)
      /\ timer' = Timer!Written(timer, reg, v)
      /\ elapsed' = IF reg = 1 /\ "START" \in v THEN 0 ELSE elapsed
      /\ taken' = IF reg = Timer!SNAP(0) THEN elapsed ELSE taken
  BY DEF Timer!Write, Timer!Does, Timer!access, Timer!configuration, Timer!CONTROL
<1> HIDE DEF reg, v
<1>2. UnitOK' /\ TimerT' = TimerT /\ Starting' = Starting /\ Stamping' = Stamping
  BY <1>1, SameUnit
<1>3. /\ timer \in TimerT /\ ~timer.ito /\ ~timer.cont /\ elapsed \in Nat /\ taken \in Nat
      /\ timer.period \in Nat
  BY FullOf DEF TsInv, TsBase, TimerT
<1>4. elapsed' \in Nat /\ taken' \in Nat
  BY <1>1, <1>3
<1>5. ASSUME timer' \in TimerT, ~timer'.ito, ~timer'.cont
      PROVE  TsBase'
  BY <1>1, <1>2, <1>4, <1>5 DEF TsInv, TsBase
<1>6. unit.parts \in Nat /\ unit.parts >= 2
  BY DEF UnitOK
<1>7. ~TsIdle
  BY <1>1 DEF TsIdle
<1>8. ASSUME NEW k \in 0..(unit.parts + 1), StartAt(k), todo = Rest(Starting, k)
      PROVE  UnitOK' /\ TsInv'
  <2>1. todo' = Rest(Starting, k + 1) /\ Rest(Starting, k + 1) = Rest(Starting', k + 1)
    BY <1>1, <1>2, <1>8, StartAccess
  <2>2. CASE k = 0
    <3>1. reg = 1 /\ v = {"STOP"}
      BY <1>8, <2>2, StartAccess DEF Timer!write, reg, v
    <3>2. "START" \notin v /\ "STOP" \in v /\ "ITO" \notin v /\ "CONT" \notin v
          /\ timer' = Timer!Written(timer, 1, v)
      BY <1>1, <3>1
    <3>3. timer' \in TimerT /\ ~timer'.ito /\ ~timer'.cont /\ ~timer'.run
      BY <1>3, <3>2, ControlSet
    <3>4. got' = <<>>
      BY <1>1, <1>8 DEF StartAt
    <3>5. StartAt(1)'
      BY <2>1, <2>2, <3>3, <3>4 DEF StartAt
    <3>6. 1 \in 0..(unit'.parts + 1)
      BY <1>1, <1>6
    <3>7. TsPhase'
      BY <3>5, <3>6 DEF TsPhase
    <3> QED
      BY <1>2, <1>5, <3>3, <3>7 DEF TsInv
  <2>3. CASE k \in 1..unit.parts
    <3>1. reg = Timer!PERIOD(k - 1) /\ v = Part - 1 /\ k - 1 \in Timer!Parts
      <4>1. k - 1 \in Timer!Parts
        BY <1>6, <2>3 DEF Timer!Parts
      <4> QED
        BY <1>8, <2>3, <4>1, StartAccess DEF Timer!write, reg, v
    <3>2. /\ timer' \in TimerT /\ timer'.counter = timer'.period /\ timer'.run = FALSE
          /\ timer'.ito = timer.ito /\ timer'.cont = timer.cont
      <4>1. timer' = Timer!Written(timer, Timer!PERIOD(k - 1), Part - 1)
        BY <1>1, <3>1
      <4> QED
        BY <1>3, <3>1, <4>1, PeriodSet
    <3>3. got' = <<>>
      BY <1>1, <1>8 DEF StartAt
    <3>4. k + 1 \in 0..(unit'.parts + 1) /\ k + 1 > 0 /\ k + 1 # 0
      BY <1>1, <1>6, <2>3
    <3>5. StartAt(k + 1)'
      BY <2>1, <3>2, <3>3, <3>4 DEF StartAt
    <3>6. TsPhase'
      BY <3>4, <3>5 DEF TsPhase
    <3> QED
      BY <1>2, <1>3, <1>5, <3>2, <3>6 DEF TsInv
  <2>4. CASE k = unit.parts + 1
    <3>1. reg = 1 /\ v = {"START"} /\ todo' = <<>>
      <4>1. Head(todo) = Timer!write(1, {"START"}) /\ Tail(todo) = <<>>
        BY <1>8, <2>4, StartAccess
      <4> QED
        BY <1>1, <4>1 DEF Timer!write, reg, v
    <3>2. "START" \in v /\ "STOP" \notin v /\ "ITO" \notin v /\ "CONT" \notin v
          /\ timer' = Timer!Written(timer, 1, v) /\ elapsed' = 0
      BY <1>1, <3>1
    <3>3. timer' \in TimerT /\ ~timer'.ito /\ ~timer'.cont
          /\ timer'.counter = timer.counter /\ timer'.period = timer.period
      BY <1>3, <3>2, ControlSet
    <3>4. k > 1
      BY <1>6, <2>4
    <3>5. got' = <<>> /\ timer.counter = timer.period
      BY <1>1, <1>8, <3>4 DEF StartAt
    <3>6. Steady'
      BY <1>3, <3>2, <3>3, <3>5 DEF Steady, Left
    <3>7. TsPhase'
      BY <3>1, <3>5, <3>6 DEF TsPhase, TsIdle
    <3> QED
      BY <1>2, <1>5, <3>3, <3>7 DEF TsInv
  <2> QED
    BY <1>6, <2>2, <2>3, <2>4
<1>9. ASSUME NEW k \in 0..unit.parts, StampAt(k), todo = Rest(Stamping, k)
      PROVE  UnitOK' /\ TsInv'
  <2>1. k = 0
    <3> SUFFICES ASSUME k # 0 PROVE FALSE
      OBVIOUS
    <3>1. k \in 1..unit.parts
      BY <1>6
    <3>2. Head(todo) = Timer!read(Timer!SNAP(k - 1))
      BY <1>9, <3>1, StampAccess
    <3> QED
      BY <1>1, <3>2 DEF Timer!read
  <2>2. todo' = Rest(Stamping, 1) /\ Rest(Stamping, 1) = Rest(Stamping', 1)
    <3>1. k + 1 = 1
      BY <2>1
    <3> QED
      BY <1>1, <1>2, <1>9, <3>1, StampAccess
  <2>3. reg = Timer!SNAP(0) /\ v = 0
    BY <1>9, <2>1, StampAccess DEF Timer!write, reg, v
  <2>4. reg # 1
    BY <2>3, RegisterOf
  <2>5. /\ timer' \in TimerT /\ timer'.counter = timer.counter /\ timer'.period = timer.period
        /\ timer'.snap = timer.counter /\ timer'.run = timer.run
        /\ timer'.ito = timer.ito /\ timer'.cont = timer.cont
    <3>1. timer' = Timer!Written(timer, Timer!SNAP(0), 0)
      BY <1>1, <2>3
    <3> QED
      BY <1>3, <3>1, SnapSet
  <2>6. elapsed' = elapsed /\ taken' = elapsed
    BY <1>1, <2>3, <2>4
  <2>7. Steady /\ got = <<>>
    BY <1>9, <2>1 DEF StampAt
  <2>8. Steady' /\ timer'.snap = Left(taken)'
    BY <2>5, <2>6, <2>7 DEF Steady, Left
  <2>9. Got(0)'
    <3>1. got' \in Seq(Int) /\ Len(got') = 0
      BY <1>1, <2>7
    <3>2. \A j \in 1..0 : got'[j] = Timer!PartOf(timer.snap, j - 1)'
      OBVIOUS
    <3> QED
      BY <2>8, <3>1, <3>2 DEF Got
  <2>10. StampAt(1)'
    BY <2>2, <2>8, <2>9 DEF StampAt
  <2>11. 1 \in 0..unit'.parts
    BY <1>1, <1>6
  <2>12. TsPhase'
    BY <2>10, <2>11 DEF TsPhase
  <2> QED
    BY <1>2, <1>3, <1>5, <2>5, <2>12 DEF TsInv
<1> QED
  BY <1>7, <1>8, <1>9, PhaseOf

LEMMA TsRead ==
  ASSUME UnitOK, TsInv, Timer!Read
  PROVE  UnitOK' /\ TsInv'
<1> DEFINE reg == Head(todo).reg
<1>1. /\ UNCHANGED <<unit, ts_freq, rate, handled, timer, elapsed, taken, owed>>
      /\ todo # <<>> /\ Head(todo).do = "read" /\ todo' = Tail(todo)
      /\ got' = IF reg = 1 THEN got ELSE Append(got, Timer!PartOf(timer.snap, reg - Timer!SNAP(0)))
  BY DEF Timer!Read, Timer!Does, Timer!access, Timer!configuration, Timer!history, Timer!CONTROL
<1> HIDE DEF reg
<1>2. UnitOK' /\ TimerT' = TimerT /\ Starting' = Starting /\ Stamping' = Stamping
  BY <1>1, SameUnit
<1>3. TsBase'
  BY <1>1, <1>2 DEF TsInv, TsBase
<1>4. unit.parts \in Nat /\ unit.parts >= 2
  BY DEF UnitOK
<1>5. ~TsIdle
  BY <1>1 DEF TsIdle
<1>6. ASSUME NEW k \in 0..(unit.parts + 1), todo = Rest(Starting, k)
      PROVE  FALSE
  <2>1. k = 0 \/ k \in 1..unit.parts \/ k = unit.parts + 1
    BY <1>4
  <2>2. Head(todo).do = "write"
    BY <1>6, <2>1, StartAccess DEF Timer!write
  <2> QED
    BY <1>1, <2>2
<1>7. ASSUME NEW k \in 0..unit.parts, StampAt(k), todo = Rest(Stamping, k)
      PROVE  TsPhase'
  <2>1. k \in 1..unit.parts
    <3>1. k # 0
      BY <1>1, <1>7, StampAccess DEF Timer!write
    <3> QED
      BY <1>4, <3>1
  <2>2. todo' = Rest(Stamping, k + 1) /\ Rest(Stamping, k + 1) = Rest(Stamping', k + 1)
    BY <1>1, <1>2, <1>7, StampAccess
  <2>3. reg = Timer!SNAP(k - 1) /\ k - 1 \in Timer!Parts
    BY <1>4, <1>7, <2>1, StampAccess DEF Timer!read, Timer!Parts, reg
  <2>4. reg # 1 /\ reg - Timer!SNAP(0) = k - 1
    BY <2>3, RegisterOf
  <2>5. got' = Append(got, Timer!PartOf(timer.snap, k - 1))
    BY <1>1, <2>4
  <2>6. Got(k - 1) /\ Steady
    BY <1>4, <1>7, <2>1 DEF StampAt
  <2>7. Timer!PartOf(timer.snap, k - 1) \in Int
    <3>1. timer.snap \in 0..Timer!Full
      BY DEF TsInv, TsBase, TimerT
    <3>2. Timer!PartOf(timer.snap, k - 1) \in 0..(Part - 1)
      BY <2>3, <3>1, PartsOf
    <3> QED
      BY <3>2, PartLarge
  <2>8. Got(k)'
    <3> DEFINE e(j) == Timer!PartOf(timer.snap, j - 1)
               g == got
    <3>1. g \in Seq(Int) /\ Len(g) = k - 1 /\ (\A j \in 1..(k - 1) : g[j] = e(j)) /\ e(k) \in Int
      BY <2>6, <2>7 DEF Got
    <3>2. got' = Append(g, e(k))
      BY <2>5
    <3>3. timer' = timer /\ timer'.snap = Left(taken)'
      BY <1>1, <2>6 DEF Got, Left
    <3> HIDE DEF e, g
    <3>4. got' \in Seq(Int) /\ Len(got') = k /\ \A j \in 1..k : got'[j] = e(j)
      BY <1>4, <2>1, <3>1, <3>2
    <3>5. \A j \in 1..k : got'[j] = Timer!PartOf(timer.snap, j - 1)'
      BY <3>3, <3>4 DEF e, Timer!PartOf, Timer!Unit
    <3> QED
      BY <3>3, <3>4, <3>5 DEF Got
  <2>9. Steady'
    BY <1>1, <2>6 DEF Steady, Left
  <2>10. CASE k = unit.parts
    <3>1. todo' = <<>>
      BY <1>1, <1>7, <2>10, StampAccess
    <3>2. Got(unit.parts)'
      BY <1>1, <2>8, <2>10 DEF Got
    <3> QED
      BY <2>9, <3>1, <3>2 DEF TsPhase, TsIdle
  <2>11. CASE k # unit.parts
    <3>1. k + 1 \in 0..unit'.parts /\ k + 1 # 0 /\ (k + 1) - 1 = k
      BY <1>1, <1>4, <2>1, <2>11
    <3>2. StampAt(k + 1)'
      BY <2>2, <2>8, <2>9, <3>1 DEF StampAt
    <3> QED
      BY <3>1, <3>2 DEF TsPhase
  <2> QED
    BY <2>10, <2>11
<1>8. TsPhase'
  BY <1>5, <1>6, <1>7, PhaseOf
<1> QED
  BY <1>2, <1>3, <1>8 DEF TsInv

LEMMA TsStep ==
  ASSUME UnitOK, TsInv, Timer!TimerNext
  PROVE  UnitOK' /\ TsInv'
<1>1. ts_freq # 0 /\ ~handled
  BY TimerAssumption DEF TsInv, TsBase, TimerAssumption
<1>2. ~Timer!SetUp /\ ~Timer!Interrupt
  BY <1>1 DEF Timer!SetUp, Timer!Interrupt
<1>3. todo # <<>> => Head(todo).do \in {"write", "read"}
  <2>1. unit.parts \in Nat
    BY DEF UnitOK
  <2>2. ASSUME NEW k \in 0..(unit.parts + 1), todo = Rest(Starting, k)
        PROVE  Head(todo).do = "write"
    <3>1. k = 0 \/ k \in 1..unit.parts \/ k = unit.parts + 1
      BY <2>1
    <3> QED
      BY <2>2, <3>1, StartAccess DEF Timer!write
  <2>3. ASSUME NEW k \in 0..unit.parts, todo = Rest(Stamping, k)
        PROVE  Head(todo).do \in {"write", "read"}
    <3>1. k = 0 \/ k \in 1..unit.parts
      BY <2>1
    <3> QED
      BY <2>3, <3>1, StampAccess DEF Timer!write, Timer!read
  <2> QED
    BY <2>2, <2>3, PhaseOf DEF TsIdle
<1>4. ~Timer!Register /\ ~Timer!CallTick
  BY <1>3 DEF Timer!Register, Timer!CallTick, Timer!Does
<1> QED
  BY <1>2, <1>4, TsClock, TsCalls, TsWrite, TsRead DEF Timer!TimerNext, Starting, Stamping

LEMMA TimerStep == ASSUME MInv, Timer!TimerNext PROVE MInv'
BY NotSetStep, TsStep, SysStep DEF MInv

LEMMA TimerStutter == ASSUME MInv, UNCHANGED timerVars PROVE MInv'
<1>1. unit' = unit /\ timer' = timer /\ todo' = todo /\ got' = got /\ elapsed' = elapsed
      /\ taken' = taken /\ ts_freq' = ts_freq /\ rate' = rate /\ handled' = handled
      /\ owed' = owed /\ overrun' = overrun
  BY DEF timerVars
<1>2. UnitOK /\ UnitOK' /\ TimerT' = TimerT /\ Starting' = Starting /\ Stamping' = Stamping
  BY <1>1, SameUnit DEF MInv
<1>3. NotSet => NotSet'
  BY <1>1, <1>2 DEF NotSet
<1>4. ASSUME TsInv PROVE TsInv'
  <2>1. TsBase'
    BY <1>1, <1>2, <1>4 DEF TsInv, TsBase
  <2>2. Steady => Steady'
    BY <1>1 DEF Steady, Left
  <2>3. ASSUME NEW m, Got(m) PROVE Got(m)'
    BY <1>1, <2>3 DEF Got, Left, Timer!PartOf, Timer!Unit
  <2>4. TsIdle => TsIdle'
    BY <1>1, <2>2, <2>3 DEF TsIdle
  <2>5. ASSUME NEW k \in 0..(unit.parts + 1), StartAt(k) PROVE StartAt(k)'
    BY <1>1, <1>2, <2>2, <2>5 DEF StartAt, Rest
  <2>6. ASSUME NEW k \in 0..unit.parts, StampAt(k) PROVE StampAt(k)'
    BY <1>1, <1>2, <2>2, <2>3, <2>6 DEF StampAt, Rest
  <2> QED
    BY <1>1, <1>4, <2>1, <2>4, <2>5, <2>6 DEF TsInv, TsPhase
<1>5. ASSUME SysInv PROVE SysInv'
  <2>1. SysPhase'
    BY <1>1, <1>5 DEF SysInv, SysPhase, Pending, HandlerRest, Timer!alt_avalon_timer_sc_init,
                      Timer!alt_avalon_timer_sc_irq, Timer!CONTROL, Timer!STATUS, Timer!write,
                      Timer!read, Timer!call
  <2> QED
    BY <1>1, <1>2, <1>5, <2>1 DEF SysInv, Timer!TimerFreq
<1> QED
  BY <1>2, <1>3, <1>4, <1>5 DEF MInv

\* The parts that have been read, while the timestamp clock counted, are those of
\* the moment of the snapshot.
LEMMA StampRight == ASSUME UnitOK, TsInv PROVE Timer!Stamps
<1> SUFFICES ASSUME Len(got) = unit.parts
             PROVE  Timer!Combined(got) = (Timer!Full - timer.period)
                                          + (IF taken > timer.period THEN 0 ELSE taken)
  BY DEF Timer!Stamps
<1>1. unit.parts \in {2, 4} /\ Timer!Full \in Nat
  BY FullOf
<1>2. timer.snap \in 0..Timer!Full /\ timer.period \in Nat /\ taken \in Nat
  BY <1>1 DEF TsInv, TsBase, TimerT
<1>3. Got(unit.parts)
  <2>1. got # <<>>
    BY <1>1
  <2>2. ASSUME NEW k \in 0..(unit.parts + 1), StartAt(k) PROVE FALSE
    BY <2>1, <2>2 DEF StartAt
  <2>3. ASSUME NEW k \in 0..unit.parts, StampAt(k) PROVE FALSE
    <3>1. k > 0 /\ k - 1 # unit.parts
      BY <1>1, <2>1, <2>3 DEF StampAt
    <3> QED
      BY <2>3, <3>1 DEF StampAt, Got
  <2> QED
    BY <2>1, <2>2, <2>3 DEF TsInv, TsPhase, TsIdle
<1>4. timer.snap = Left(taken) /\ \A j \in 1..unit.parts : got[j] = Timer!PartOf(timer.snap, j - 1)
  BY <1>3 DEF Got
<1>5. Timer!Combined(got) = Timer!Full - timer.snap
  <2> DEFINE d(i) == Timer!PartOf(timer.snap, i)
             n == timer.snap
  <2>1. CASE unit.parts = 2
    <3>1. got[1] = d(0) /\ got[2] = d(1)
      BY <1>4, <2>1
    <3>2. n = d(0) + Part * d(1) /\ d(1) \in Int
      <4>1. n = d(0) + Part * d(1)
        BY <1>2, <2>1, PartsOf
      <4>2. d(1) \in 0..(Part - 1)
        BY <1>2, <2>1, FullOf, PartsOf
      <4> QED
        BY <4>1, <4>2, PartLarge
    <3> HIDE DEF d
    <3>3. Timer!Combined(got) = Timer!Full - (got[1] + Part * (got[2] + 0))
      BY <2>1 DEF Timer!Combined
    <3>4. d(1) + 0 = d(1)
      BY <3>2
    <3> QED
      BY <3>1, <3>2, <3>3, <3>4
  <2>2. CASE unit.parts = 4
    <3>1. got[1] = d(0) /\ got[2] = d(1) /\ got[3] = d(2) /\ got[4] = d(3)
      BY <1>4, <2>2
    <3>2. n = d(0) + Part * (d(1) + Part * (d(2) + Part * d(3)))
      BY <1>2, <2>2, PartsOf
    <3> HIDE DEF d
    <3>3. Timer!Combined(got)
            = Timer!Full - (got[1] + Part * (got[2] + Part * (got[3] + Part * got[4])))
      BY <2>2 DEF Timer!Combined
    <3> QED
      BY <3>1, <3>2, <3>3
  <2> QED
    BY <1>1, <2>1, <2>2
<1>6. CASE taken > timer.period
  BY <1>1, <1>2, <1>4, <1>5, <1>6 DEF Left
<1>7. CASE ~(taken > timer.period)
  BY <1>1, <1>2, <1>4, <1>5, <1>7 DEF Left
<1> QED
  BY <1>6, <1>7

LEMMA TimerRight == ASSUME MInv PROVE Timer!TimerInv
<1>1. UnitOK /\ unit.parts \in {2, 4}
  BY DEF MInv, UnitOK
<1>2. CASE NotSet
  <2>1. Timer!Stamps
    BY <1>1, <1>2 DEF NotSet, Timer!Stamps
  <2>2. Timer!TicksKept /\ Timer!SysClock
    BY <1>2 DEF NotSet, Timer!TicksKept, Timer!SysClock, Timer!InHandler
  <2> QED
    BY <2>1, <2>2 DEF Timer!TimerInv
<1>3. CASE TsInv
  <2>1. Timer!Stamps
    BY <1>1, <1>3, StampRight
  <2>2. Timer!TicksKept /\ Timer!SysClock
    BY <1>3 DEF TsInv, TsBase, Timer!TicksKept, Timer!SysClock, Timer!InHandler
  <2> QED
    BY <2>1, <2>2 DEF Timer!TimerInv
<1>4. CASE SysInv
  <2>1. Timer!Stamps
    BY <1>1, <1>4 DEF SysInv, Timer!Stamps
  <2>2. Timer!SysClock
    <3>1. /\ (rate - 1) * (unit.load + 1) < TIMER_FREQ /\ TIMER_FREQ <= rate * (unit.load + 1)
          /\ ts_freq = 0 /\ timer.period = unit.load
      BY <1>1, <1>4, RateRight DEF SysInv
    <3>2. handled => timer.run /\ timer.cont /\ timer.ito
      BY <1>4 DEF SysInv, SysPhase
    <3> QED
      BY <3>1, <3>2 DEF Timer!SysClock
  <2>3. Timer!TicksKept
    <3> SUFFICES ASSUME ~overrun
                 PROVE  owed = (IF timer.to /\ timer.ito THEN 1 ELSE 0)
                               + (IF handled /\ todo # <<>> /\ todo # Handler THEN 1 ELSE 0)
      BY DEF Timer!TicksKept, Timer!InHandler, Handler
    <3>1. CASE ~timer.ito
      BY <1>4, <3>1 DEF SysInv, SysPhase
    <3>2. CASE timer.ito /\ handled /\ todo \in HandlerRest
      <4>1. todo # <<>> /\ todo # Handler
        BY <3>2, Handling
      <4>2. owed = Pending + 1
        BY <1>4, <3>2, <4>1 DEF SysInv, SysPhase, Handler
      <4> QED
        BY <3>2, <4>1, <4>2 DEF Pending
    <3>3. CASE timer.ito /\ ~(handled /\ todo \in HandlerRest)
      <4>1. owed = Pending /\ (handled => todo \in {<<>>, Handler})
        BY <1>4, <3>3 DEF SysInv, SysPhase, Handler
      <4> QED
        BY <3>3, <4>1 DEF Pending
    <3> QED
      BY <3>1, <3>2, <3>3
  <2> QED
    BY <2>1, <2>2, <2>3 DEF Timer!TimerInv
<1> QED
  BY <1>2, <1>3, <1>4 DEF MInv

-----------------------------------------------------------------------------
(* The alarms and the time of day, or the timer alone.                     *)

ClockInv == IF TimerOnly THEN MInv ELSE AInv /\ TInv

LEMMA ProgramStays == ASSUME TimeNext PROVE program' = program
BY DEF TimeNext, TimeTick, Alarms, TimeLoop, SetTimeOfDay, timeVars

LEMMA TimeStutter == ASSUME AInv, TInv, ~CallbackStops, UNCHANGED allVars PROVE AInv' /\ TInv'
<1>1. AInv'
  BY AlarmsNext DEF allVars
<1> QED
  BY <1>1, TimeKept DEF allVars, vars, timeVars

LEMMA ClockStep ==
  ASSUME ~CallbackStops, ClockInv, [ClockNext]_<<allVars, timerVars>>
  PROVE  ClockInv'
<1>1. CASE TimerOnly /\ Timer!TimerNext /\ UNCHANGED allVars
  <2>1. TimerOnly'
    BY <1>1 DEF TimerOnly, allVars
  <2>2. MInv'
    BY <1>1, TimerStep DEF ClockInv
  <2> QED
    BY <2>1, <2>2 DEF ClockInv
<1>2. CASE ~TimerOnly /\ TimeNext
  <2>1. ~TimerOnly'
    BY <1>2, ProgramStays DEF TimerOnly
  <2>2. AInv' /\ TInv'
    BY <1>2, TimeStep DEF ClockInv
  <2> QED
    BY <2>1, <2>2 DEF ClockInv
<1>3. CASE UNCHANGED <<allVars, timerVars>>
  <2>1. TimerOnly' = TimerOnly
    BY <1>3 DEF TimerOnly, allVars
  <2>2. CASE TimerOnly
    <3>1. MInv'
      BY <1>3, <2>2, TimerStutter DEF ClockInv
    <3> QED
      BY <2>1, <2>2, <3>1 DEF ClockInv
  <2>3. CASE ~TimerOnly
    <3>1. AInv' /\ TInv'
      BY <1>3, <2>3, TimeStutter DEF ClockInv
    <3> QED
      BY <2>1, <2>3, <3>1 DEF ClockInv
  <2> QED
    BY <2>2, <2>3
<1> QED
  BY <1>1, <1>2, <1>3 DEF ClockNext

\* The clocks of the firmware are right at every moment, whatever the sizes of
\* the counters, the rate of the tick and the way the timer was generated: no
\* tick of an alarm and none of the time of day is lost when a counter rolls over,
\* a sleep takes at least as long as asked, every time-out makes one tick, and a
\* timestamp that is read in parts is that of one moment.  A callback that stops
\* another alarm is left out, as in the run: alt_tick then holds a stale pointer.
THEOREM ClocksStayRight == ~CallbackStops => (ClockSpec => []ClocksRight)
<1> SUFFICES ASSUME ~CallbackStops PROVE ClockSpec => []ClocksRight
  OBVIOUS
<1>1. ClockInit => ClockInv
  BY TimeStart, TimerStart DEF ClockInit, ClockInv
<1>2. ClockInv /\ [ClockNext]_<<allVars, timerVars>> => ClockInv'
  BY ClockStep
<1>3. ClockInv => ClocksRight
  BY TimeRight, TimerRight DEF ClockInv, ClocksRight
<1> QED
  BY <1>1, <1>2, <1>3, PTL DEF ClockSpec

-----------------------------------------------------------------------------
(* The alarms implement the count-down.  An alarm that has run out, and one  *)
(* whose flag still has to be cleared since the counter has come to 0, are   *)
(* where the walk of alt_tick has yet to come.                               *)

Ticks(t, r, n) == IF r /\ n # 0 THEN t + Wrap - n ELSE t - n
Stale(r, n) == n = 0 /\ r

Walk(rank) ==
  /\ Positions(links, rank)
  /\ \A a \in Alarm : Registered(a) =>
       /\ Ticks(time[a], rollover[a], nticks) \in Nat
       /\ Ticks(time[a], rollover[a], nticks) = 0 \/ Stale(rollover[a], nticks) =>
            inTick /\ rank[alarm] <= rank[a]
WInv == AInv /\ \E rank : Walk(rank)

ShortDelays == \A d \in Delays : d + 1 < Wrap

LEMMA Remaining ==
  ASSUME TypeOK, NEW a \in Alarm
  PROVE  remaining[a] = IF Registered(a) THEN Ticks(time[a], rollover[a], nticks) ELSE -1
BY DEF remaining, Ticks, TypeOK

\* A time that is set p ticks from now, and its flag.
LEMMA SetTime ==
  ASSUME NEW n \in 0..(Wrap - 1), NEW p \in 1..(Wrap - 1),
         NEW t, t = (n + p) % Wrap
  PROVE  Ticks(t, RollsOver(t, n), n) = p /\ ~Stale(RollsOver(t, n), n)
<1>1. Wrap \in Nat \ {0}
  BY AlarmAssumption DEF AlarmAssumption
<1>2. CASE n + p < Wrap
  <2>1. n + p \in 0..(Wrap - 1) /\ n + p = 0 * Wrap + (n + p) /\ 0 \in Int
    BY <1>1, <1>2
  <2> DEFINE s == n + p
  <2>2. s \in 0..(Wrap - 1) /\ s = 0 * Wrap + s
    BY <2>1
  <2> HIDE DEF s
  <2>3. (0 * Wrap + s) % Wrap = s
    BY <1>1, <2>2, DivUnique
  <2>4. t = n + p
    BY <2>2, <2>3 DEF s
  <2> QED
    BY <1>1, <2>4 DEF Ticks, RollsOver, Stale
<1>3. CASE ~(n + p < Wrap)
  <2> DEFINE s == n + p - Wrap
  <2>1. s \in 0..(Wrap - 1) /\ n + p = 1 * Wrap + s
    BY <1>1, <1>3
  <2> HIDE DEF s
  <2>2. (1 * Wrap + s) % Wrap = s
    BY <1>1, <2>1, DivUnique
  <2>3. t = n + p - Wrap
    BY <2>1, <2>2 DEF s
  <2> QED
    BY <1>1, <1>3, <2>3 DEF Ticks, RollsOver, Stale
<1> QED
  BY <1>2, <1>3

LEMMA StartsAt ==
  ASSUME TypeOK, ShortDelays, NEW delay \in Delays, NEW t, t = StartTime(delay, nticks)
  PROVE  Ticks(t, RollsOver(t, nticks), nticks) = delay + 1 /\ ~Stale(RollsOver(t, nticks), nticks)
<1>1. nticks \in 0..(Wrap - 1) /\ delay + 1 \in 1..(Wrap - 1) /\ Wrap \in Nat
  BY AlarmAssumption DEF AlarmAssumption, TypeOK, ShortDelays
<1>2. delay \in Int
  BY AlarmAssumption DEF AlarmAssumption
<1>3. t = (nticks + (delay + 1)) % Wrap
  <2>1. delay + nticks + 1 = nticks + (delay + 1)
    BY <1>1, <1>2
  <2> QED
    BY <2>1 DEF StartTime
<1> QED
  BY <1>1, <1>3, SetTime

\* Beyond the alarm that alt_tick looks at there is none before the next one.
LEMMA Advance ==
  ASSUME AInv, NEW rank, Positions(links, rank), alarm \in Alarm, Registered(alarm),
         NEW a \in Alarm, Registered(a), a # alarm, rank[alarm] <= rank[a]
  PROVE  links.next[alarm] # alt_alarm_list /\ rank[links.next[alarm]] <= rank[a]
<1>1. In(links, a) /\ In(links, alarm)
  BY DEF In, Registered
<1>2. rank[a] \in Int /\ rank[alarm] \in Int
  BY Entries DEF Positions
<1>3. rank[a] # rank[alarm]
  BY <1>1 DEF Positions
<1>4. ~(rank[a] <= rank[alarm])
  BY <1>2, <1>3
<1> QED
  BY <1>1, <1>4 DEF Positions

\* An alarm runs out when, and only when, its callback is made.
LEMMA DueNow ==
  ASSUME TypeOK, alarm \in Alarm, Ticks(time[alarm], rollover[alarm], nticks) \in Nat
  PROVE  /\ Due => time[alarm] = nticks /\ flag = FALSE
                   /\ Ticks(time[alarm], rollover[alarm], nticks) = 0
         /\ ~Due => Ticks(time[alarm], rollover[alarm], nticks) # 0
         /\ Ticks(time[alarm], flag, nticks) = Ticks(time[alarm], rollover[alarm], nticks)
         /\ ~Stale(flag, nticks)
<1>1. time[alarm] \in 0..(Wrap - 1) /\ nticks \in 0..(Wrap - 1) /\ rollover[alarm] \in BOOLEAN
      /\ Wrap \in Nat
  BY AlarmAssumption DEF TypeOK, AlarmAssumption
<1>2. flag = (rollover[alarm] /\ nticks # 0)
  BY <1>1 DEF flag
<1>3. CASE flag
  <2>1. rollover[alarm] = TRUE /\ nticks # 0 /\ flag = TRUE /\ ~Due
    BY <1>1, <1>2, <1>3 DEF Due
  <2>2. Ticks(time[alarm], TRUE, nticks) = time[alarm] + Wrap - nticks
    BY <2>1 DEF Ticks
  <2>3. time[alarm] + Wrap - nticks # 0
    BY <1>1
  <2> QED
    BY <2>1, <2>2, <2>3 DEF Stale
<1>4. CASE ~flag
  <2>1. flag = FALSE
    BY <1>1, <1>2, <1>4
  <2>2. Ticks(time[alarm], rollover[alarm], nticks) = time[alarm] - nticks
        /\ Ticks(time[alarm], FALSE, nticks) = time[alarm] - nticks
    BY <1>2, <1>4 DEF Ticks
  <2>3. Due => time[alarm] <= nticks
    BY DEF Due
  <2>4. ~Due => ~(time[alarm] <= nticks)
    BY <1>4 DEF Due
  <2>5. Due => time[alarm] = nticks /\ time[alarm] - nticks = 0
    BY <1>1, <2>2, <2>3
  <2>6. ~Due => time[alarm] - nticks # 0
    BY <1>1, <2>4
  <2>7. Ticks(time[alarm], flag, nticks) = time[alarm] - nticks /\ ~Stale(flag, nticks)
    BY <2>1, <2>2 DEF Stale
  <2> QED
    BY <2>1, <2>2, <2>5, <2>6, <2>7
<1> QED
  BY <1>3, <1>4

\* What the end of a callback does to the alarm, and not to others.
LEMMA ReturnedTicks ==
  ASSUME TypeOK, alarm \in Alarm, Due, Ticks(time[alarm], rollover[alarm], nticks) \in Nat,
         NEW l \in Links, Linked(l), NEW rank, Positions(l, rank),
         NEW t \in [Alarm -> 0..(Wrap - 1)], NEW r \in [Alarm -> BOOLEAN],
         Returned(l, t, r)
  PROVE  /\ Positions(links', rank)
         /\ \A x \in Alarm : x # alarm => /\ In(links', x) <=> In(l, x)
                                          /\ time'[x] = t[x] /\ rollover'[x] = r[x]
         /\ In(links', alarm) =>
              /\ Ticks(time'[alarm], rollover'[alarm], nticks) \in Periods
              /\ ~Stale(rollover'[alarm], nticks)
<1>1. time[alarm] = nticks /\ flag = FALSE
  BY DueNow
<1>2. CASE /\ links' = alt_llist_remove(l, alarm)
           /\ time' = t /\ rollover' = [r EXCEPT ![alarm] = flag]
  <2>1. Positions(links', rank) /\ ~In(links', alarm)
        /\ \A x \in Alarm : x # alarm => (In(links', x) <=> In(l, x))
    BY <1>2, RemoveAt
  <2> QED
    BY <1>2, <2>1
<1>3. ASSUME NEW p \in Periods, links' = l,
             time' = [t EXCEPT ![alarm] = (time[alarm] + p) % Wrap],
             rollover' = [r EXCEPT ![alarm] = flag \/ RollsOver(time'[alarm], nticks)]
      PROVE  /\ Positions(links', rank)
             /\ \A x \in Alarm : x # alarm => /\ In(links', x) <=> In(l, x)
                                              /\ time'[x] = t[x] /\ rollover'[x] = r[x]
             /\ In(links', alarm) =>
                  /\ Ticks(time'[alarm], rollover'[alarm], nticks) \in Periods
                  /\ ~Stale(rollover'[alarm], nticks)
  <2>1. nticks \in 0..(Wrap - 1) /\ p \in 1..(Wrap - 1)
    BY AlarmAssumption DEF AlarmAssumption, TypeOK
  <2>2. time'[alarm] = (nticks + p) % Wrap
    BY <1>1, <1>3
  <2>3. rollover'[alarm] = RollsOver(time'[alarm], nticks)
    <3>1. rollover'[alarm] = (flag \/ RollsOver(time'[alarm], nticks))
      BY <1>3
    <3>2. RollsOver(time'[alarm], nticks) \in BOOLEAN
      BY DEF RollsOver
    <3> QED
      BY <1>1, <3>1, <3>2
  <2>4. Ticks(time'[alarm], rollover'[alarm], nticks) = p /\ ~Stale(rollover'[alarm], nticks)
    BY <2>1, <2>2, <2>3, SetTime
  <2> QED
    BY <1>3, <2>4
<1> QED
  BY <1>2, <1>3 DEF Returned

LEMMA RemainingNext ==
  ASSUME TypeOK', NEW a \in Alarm
  PROVE  remaining'[a] = IF In(links', a) THEN Ticks(time'[a], rollover'[a], nticks') ELSE -1
BY DEF remaining, Ticks, TypeOK, Registered, In

\* What a step outside of time may do to each alarm.
LEMMA SetsAlarms ==
  ASSUME \A a \in Alarm : \/ remaining'[a] = remaining[a] \/ remaining'[a] = -1
                          \/ remaining[a] = -1 /\ \E d \in Delays : remaining'[a] = d + 1
                          \/ remaining[a] = 0 /\ remaining'[a] \in Periods
  PROVE  Clock!Set
<1> SUFFICES ASSUME NEW a \in Alarm PROVE remaining'[a] \in Clock!Settings(a)
  BY DEF Clock!Set
<1> QED
  BY DEF Clock!Settings, Clock!Off

\* An alarm with its time and its flag unchanged.
LEMMA SameTicks ==
  ASSUME TypeOK, TypeOK', nticks' = nticks, NEW x \in Alarm,
         In(links', x) <=> In(links, x), time'[x] = time[x], rollover'[x] = rollover[x]
  PROVE  remaining'[x] = remaining[x]
BY Remaining, RemainingNext DEF Registered, In

LEMMA WalkStart ==
  ASSUME AInv, AInv', ShortDelays, NEW rank, Walk(rank), NEW a \in Alarm, AlarmStart(a)
  PROVE  Clock!Set /\ \E below : Walk(below)'
<1>1. PICK delay \in Delays : /\ time' = [time EXCEPT ![a] = StartTime(delay, nticks)]
                              /\ rollover' = [rollover EXCEPT ![a] = RollsOver(time'[a], nticks)]
  BY DEF AlarmStart
<1>2. TypeOK /\ TypeOK' /\ links \in Links /\ Linked(links) /\ Positions(links, rank)
  BY DEF AInv, TypeOK, Links, Walk
<1>3. alarm = alt_alarm_list /\ alarm' = alarm /\ links.next[a] = a /\ nticks' = nticks
      /\ links' = alt_llist_insert(links, alt_alarm_list, a)
  BY DEF AlarmStart, inTick, Registered
<1>4. PICK below : /\ Positions(links', below)
                   /\ \A x \in Alarm : x # a => below[x] = rank[x]
                   /\ \A x \in Alarm : x # a /\ In(links, x) => below[a] < below[x]
  BY <1>2, <1>3, InsertAt
<1>5. In(links', a) /\ ~In(links, a) /\ \A x \in Alarm : x # a => (In(links', x) <=> In(links, x))
  BY <1>2, <1>3, InsertAt DEF In
<1>6. \A x \in Alarm : x # a => time'[x] = time[x] /\ rollover'[x] = rollover[x]
  BY <1>1, <1>2 DEF TypeOK
<1>7. Ticks(time'[a], rollover'[a], nticks') = delay + 1 /\ ~Stale(rollover'[a], nticks')
  <2>1. time'[a] = StartTime(delay, nticks) /\ rollover'[a] = RollsOver(time'[a], nticks)
    BY <1>1, <1>2 DEF TypeOK
  <2> QED
    BY <1>2, <1>3, <2>1, StartsAt
<1>8. delay \in Nat
  BY AlarmAssumption DEF AlarmAssumption
<1>9. Clock!Set
  <2>1. remaining[a] = -1 /\ remaining'[a] = delay + 1
    BY <1>2, <1>5, <1>7, Remaining, RemainingNext DEF Registered, In
  <2>2. \A x \in Alarm : x # a => remaining'[x] = remaining[x]
    BY <1>2, <1>3, <1>5, <1>6, SameTicks
  <2> QED
    BY <2>1, <2>2, SetsAlarms
<1>10. ASSUME NEW x \in Alarm, In(links', x)
       PROVE  /\ Ticks(time'[x], rollover'[x], nticks') \in Nat
              /\ ~(Ticks(time'[x], rollover'[x], nticks') = 0 \/ Stale(rollover'[x], nticks'))
  <2>1. CASE x = a
    BY <1>7, <1>8, <2>1
  <2>2. CASE x # a
    BY <1>3, <1>5, <1>6, <1>10, <2>2 DEF Walk, Registered, In, inTick
  <2> QED
    BY <2>1, <2>2
<1>11. Walk(below)'
  BY <1>4, <1>10 DEF Walk, Registered, In, Positions, Ticks, Stale
<1> QED
  BY <1>9, <1>11

LEMMA WalkStop ==
  ASSUME AInv, AInv', NEW rank, Walk(rank), NEW a \in Alarm, AlarmStop(a)
  PROVE  Clock!Set /\ Walk(rank)'
<1>1. TypeOK /\ TypeOK' /\ links \in Links /\ Linked(links) /\ Positions(links, rank)
  BY DEF AInv, TypeOK, Links, Walk
<1>2. alarm = alt_alarm_list /\ links' = alt_llist_remove(links, a)
      /\ UNCHANGED <<nticks, time, rollover, alarm>>
  BY DEF AlarmStop, inTick
<1>3. Positions(links', rank) /\ ~In(links', a)
      /\ \A x \in Alarm : x # a => (In(links', x) <=> In(links, x))
  BY <1>1, <1>2, RemoveAt
<1>4. Clock!Set
  <2>1. remaining'[a] = -1
    BY <1>1, <1>3, RemainingNext
  <2>2. \A x \in Alarm : x # a => remaining'[x] = remaining[x]
    BY <1>1, <1>2, <1>3, SameTicks
  <2> QED
    BY <2>1, <2>2, SetsAlarms
<1>5. ASSUME NEW x \in Alarm, In(links', x)
      PROVE  /\ Ticks(time'[x], rollover'[x], nticks') \in Nat
             /\ ~(Ticks(time'[x], rollover'[x], nticks') = 0 \/ Stale(rollover'[x], nticks'))
  <2>1. x # a /\ In(links, x)
    BY <1>3, <1>5
  <2> QED
    BY <1>2, <2>1 DEF Walk, Registered, In, inTick
<1>6. Walk(rank)'
  BY <1>3, <1>5 DEF Walk, Registered, In, Positions, Ticks, Stale
<1> QED
  BY <1>4, <1>6

LEMMA OneTick ==
  ASSUME NEW t \in 0..(Wrap - 1), NEW r \in BOOLEAN, NEW n \in 0..(Wrap - 1),
         NEW m, m = (n + 1) % Wrap, Ticks(t, r, n) \in Nat, Ticks(t, r, n) # 0, ~Stale(r, n)
  PROVE  Ticks(t, r, m) = Ticks(t, r, n) - 1
<1>1. Wrap \in Nat /\ Wrap >= 2
  BY AlarmAssumption DEF AlarmAssumption
<1>2. CASE n + 1 < Wrap
  <2>1. m = n + 1 /\ m # 0
    BY <1>1, <1>2
  <2>2. CASE r
    <3>1. n # 0
      BY <2>2 DEF Stale
    <3> QED
      BY <1>1, <2>1, <2>2, <3>1 DEF Ticks
  <2>3. CASE ~r
    BY <1>1, <2>1, <2>3 DEF Ticks
  <2> QED
    BY <2>2, <2>3
<1>3. CASE n + 1 = Wrap
  <2>1. m = 0 /\ n = Wrap - 1 /\ n # 0
    BY <1>1, <1>3
  <2>2. r
    <3> SUFFICES ASSUME ~r PROVE FALSE
      OBVIOUS
    <3>1. Ticks(t, r, n) = t - n
      BY DEF Ticks
    <3> QED
      BY <1>1, <2>1, <3>1
  <2> QED
    BY <1>1, <2>1, <2>2 DEF Ticks
<1> QED
  BY <1>1, <1>2, <1>3

LEMMA WalkTick ==
  ASSUME AInv, AInv', NEW rank, Walk(rank), Tick
  PROVE  Clock!Pass /\ Walk(rank)'
<1>1. TypeOK /\ TypeOK' /\ Positions(links, rank)
  BY DEF AInv, Walk
<1>2. alarm = alt_alarm_list /\ nticks' = (nticks + 1) % Wrap /\ alarm' = links.next[alt_alarm_list]
      /\ UNCHANGED <<links, time, rollover>>
  BY DEF Tick, inTick
<1>3. ASSUME NEW x \in Alarm, In(links, x)
      PROVE  /\ Ticks(time[x], rollover[x], nticks) \in Nat \ {0}
             /\ Ticks(time'[x], rollover'[x], nticks') = Ticks(time[x], rollover[x], nticks) - 1
  <2>1. Ticks(time[x], rollover[x], nticks) \in Nat
        /\ Ticks(time[x], rollover[x], nticks) # 0 /\ ~Stale(rollover[x], nticks)
    BY <1>2, <1>3 DEF Walk, Registered, In, inTick
  <2>2. time[x] \in 0..(Wrap - 1) /\ rollover[x] \in BOOLEAN /\ nticks \in 0..(Wrap - 1)
        /\ time'[x] = time[x] /\ rollover'[x] = rollover[x]
    BY <1>1, <1>2 DEF TypeOK
  <2>3. Ticks(time[x], rollover[x], nticks') = Ticks(time[x], rollover[x], nticks) - 1
    BY <1>2, <2>1, <2>2, OneTick
  <2> QED
    BY <2>1, <2>2, <2>3
<1>4. Clock!Pass
  <2>1. ASSUME NEW x \in Alarm
        PROVE  /\ remaining[x] # 0
               /\ remaining'[x] = IF remaining[x] = Clock!Off THEN Clock!Off ELSE remaining[x] - 1
    <3>1. CASE In(links, x)
      <4>1. remaining[x] = Ticks(time[x], rollover[x], nticks)
        BY <1>1, <3>1, Remaining DEF Registered, In
      <4>2. remaining'[x] = Ticks(time'[x], rollover'[x], nticks')
        BY <1>1, <1>2, <3>1, RemainingNext
      <4>3. remaining[x] \in Nat \ {0} /\ remaining'[x] = remaining[x] - 1
        BY <1>3, <3>1, <4>1, <4>2
      <4> QED
        BY <4>3 DEF Clock!Off
    <3>2. CASE ~In(links, x)
      <4>1. remaining[x] = -1 /\ remaining'[x] = -1
        BY <1>1, <1>2, <3>2, Remaining, RemainingNext DEF Registered, In
      <4> QED
        BY <4>1 DEF Clock!Off
    <3> QED
      BY <3>1, <3>2
  <2> QED
    BY <2>1 DEF Clock!Pass
<1>5. ASSUME NEW x \in Alarm, In(links', x)
      PROVE  /\ Ticks(time'[x], rollover'[x], nticks') \in Nat
             /\ alarm' # alt_alarm_list /\ rank[alarm'] <= rank[x]
  <2>1. In(links, x)
    BY <1>2, <1>5
  <2>2. alarm' # alt_alarm_list /\ rank[alarm'] <= rank[x]
    BY <1>1, <1>2, <2>1 DEF Positions
  <2> QED
    BY <1>3, <2>1, <2>2
<1>6. Positions(links', rank)
  BY <1>1, <1>2
<1>7. Walk(rank)'
  BY <1>5, <1>6 DEF Walk, Registered, In, Positions, Ticks, Stale, inTick
<1> QED
  BY <1>4, <1>7

LEMMA WalkNotDue ==
  ASSUME AInv, AInv', NEW rank, Walk(rank), NotDue
  PROVE  Clock!Set /\ Walk(rank)'
<1>1. TypeOK /\ TypeOK' /\ Positions(links, rank) /\ alarm \in Alarm /\ Registered(alarm) /\ inTick
  BY Entries DEF AInv, Walk, NotDue, OnlyRegistered, inTick, TypeOK
<1>2. /\ rollover' = [rollover EXCEPT ![alarm] = flag] /\ alarm' = links.next[alarm]
      /\ UNCHANGED <<nticks, links, time>> /\ ~Due
  BY DEF NotDue
<1>3. \A x \in Alarm : x # alarm => rollover'[x] = rollover[x]
  BY <1>1, <1>2 DEF TypeOK
<1>4. rollover'[alarm] = flag
  BY <1>1, <1>2 DEF TypeOK
<1>5. Ticks(time[alarm], rollover[alarm], nticks) \in Nat
  BY <1>1 DEF Walk
<1>6. /\ Ticks(time[alarm], flag, nticks) = Ticks(time[alarm], rollover[alarm], nticks)
      /\ Ticks(time[alarm], rollover[alarm], nticks) # 0 /\ ~Stale(flag, nticks)
  BY <1>1, <1>2, <1>5, DueNow
<1>7. Clock!Set
  <2>1. remaining'[alarm] = remaining[alarm]
    BY <1>1, <1>2, <1>4, <1>6, Remaining, RemainingNext DEF Registered, In
  <2>2. \A x \in Alarm : x # alarm => remaining'[x] = remaining[x]
    BY <1>1, <1>2, <1>3, SameTicks
  <2> QED
    BY <2>1, <2>2, SetsAlarms
<1>8. ASSUME NEW x \in Alarm, In(links', x)
      PROVE  /\ Ticks(time'[x], rollover'[x], nticks') \in Nat
             /\ Ticks(time'[x], rollover'[x], nticks') = 0 \/ Stale(rollover'[x], nticks') =>
                  alarm' # alt_alarm_list /\ rank[alarm'] <= rank[x]
  <2>1. Registered(x) /\ time'[x] = time[x] /\ nticks' = nticks
    BY <1>2, <1>8 DEF In, Registered
  <2>2. CASE x = alarm
    BY <1>4, <1>5, <1>6, <2>1, <2>2
  <2>3. CASE x # alarm
    <3>1. rollover'[x] = rollover[x]
      BY <1>3, <2>3
    <3>2. Ticks(time[x], rollover[x], nticks) \in Nat
          /\ (Ticks(time[x], rollover[x], nticks) = 0 \/ Stale(rollover[x], nticks)
                => rank[alarm] <= rank[x])
      BY <2>1 DEF Walk
    <3>3. rank[alarm] <= rank[x] => alarm' # alt_alarm_list /\ rank[alarm'] <= rank[x]
      BY <1>1, <1>2, <2>1, <2>3, Advance
    <3> QED
      BY <2>1, <3>1, <3>2, <3>3
  <2> QED
    BY <2>2, <2>3
<1>9. Positions(links', rank)
  BY <1>1, <1>2
<1>10. Walk(rank)'
  BY <1>8, <1>9 DEF Walk, Registered, In, Positions, Ticks, Stale, inTick
<1> QED
  BY <1>7, <1>10

\* What a turn of the loop with a callback does: the alarm is stopped or set again,
\* another one may be started, and the rest is left alone.
LEMMA TurnEffect ==
  ASSUME AInv, AInv', NEW rank, Walk(rank), alarm \in Alarm, Registered(alarm), inTick, Due,
         alarm' = links.next[alarm], nticks' = nticks, NEW below, Positions(links', below),
         \A x \in Alarm : x # alarm =>
           \/ /\ In(links', x) <=> In(links, x)
              /\ time'[x] = time[x] /\ rollover'[x] = rollover[x]
              /\ In(links, x) => below[x] = rank[x]
           \/ /\ ~In(links, x) /\ In(links', x) /\ ~Stale(rollover'[x], nticks)
              /\ \E d \in Delays : Ticks(time'[x], rollover'[x], nticks) = d + 1,
         In(links', alarm) => /\ Ticks(time'[alarm], rollover'[alarm], nticks) \in Periods
                              /\ ~Stale(rollover'[alarm], nticks)
  PROVE  Clock!Set /\ Walk(below)'
<1>1. TypeOK /\ TypeOK' /\ links \in Links /\ Linked(links) /\ Positions(links, rank)
  BY DEF AInv, TypeOK, Links, Walk
<1>2. Ticks(time[alarm], rollover[alarm], nticks) = 0
  BY <1>1, DueNow DEF Walk
<1>3. \A p \in Periods : p \in Nat /\ p # 0
  BY AlarmAssumption DEF AlarmAssumption
<1>4. \A d \in Delays : d + 1 \in Nat /\ d + 1 # 0
  BY AlarmAssumption DEF AlarmAssumption
<1>5. ASSUME NEW x \in Alarm
      PROVE  \/ remaining'[x] = remaining[x] \/ remaining'[x] = -1
             \/ remaining[x] = -1 /\ \E d \in Delays : remaining'[x] = d + 1
             \/ remaining[x] = 0 /\ remaining'[x] \in Periods
  <2>1. CASE x = alarm
    <3>1. remaining[x] = 0
      BY <1>1, <1>2, <2>1, Remaining
    <3>2. CASE In(links', x)
      <4>1. remaining'[x] = Ticks(time'[x], rollover'[x], nticks)
        BY <1>1, <3>2, RemainingNext
      <4> QED
        BY <2>1, <3>1, <3>2, <4>1
    <3>3. CASE ~In(links', x)
      BY <1>1, <3>3, RemainingNext
    <3> QED
      BY <3>2, <3>3
  <2>2. CASE x # alarm /\ (In(links', x) <=> In(links, x)) /\ time'[x] = time[x]
             /\ rollover'[x] = rollover[x]
    BY <1>1, <2>2, SameTicks
  <2>3. CASE x # alarm /\ ~In(links, x) /\ In(links', x)
             /\ \E d \in Delays : Ticks(time'[x], rollover'[x], nticks) = d + 1
    <3>1. remaining[x] = -1 /\ remaining'[x] = Ticks(time'[x], rollover'[x], nticks)
      BY <1>1, <2>3, Remaining, RemainingNext DEF Registered, In
    <3> QED
      BY <2>3, <3>1
  <2> QED
    BY <2>1, <2>2, <2>3
<1>6. Clock!Set
  BY <1>5, SetsAlarms
<1>7. ASSUME NEW x \in Alarm, In(links', x)
      PROVE  /\ Ticks(time'[x], rollover'[x], nticks') \in Nat
             /\ Ticks(time'[x], rollover'[x], nticks') = 0 \/ Stale(rollover'[x], nticks') =>
                  alarm' # alt_alarm_list /\ below[alarm'] <= below[x]
  <2>1. CASE x = alarm
    BY <1>3, <1>7, <2>1
  <2>2. CASE x # alarm /\ ~Stale(rollover'[x], nticks)
             /\ \E d \in Delays : Ticks(time'[x], rollover'[x], nticks) = d + 1
    BY <1>4, <2>2
  <2>3. CASE x # alarm /\ In(links, x) /\ time'[x] = time[x] /\ rollover'[x] = rollover[x]
             /\ below[x] = rank[x]
    <3>1. Registered(x)
      BY <2>3 DEF In, Registered
    <3>2. Ticks(time[x], rollover[x], nticks) \in Nat
          /\ (Ticks(time[x], rollover[x], nticks) = 0 \/ Stale(rollover[x], nticks)
                => rank[alarm] <= rank[x])
      BY <3>1 DEF Walk
    <3> SUFFICES ASSUME rank[alarm] <= rank[x]
                 PROVE  alarm' # alt_alarm_list /\ below[alarm'] <= below[x]
      BY <2>3, <3>2
    <3>3. alarm' # alt_alarm_list /\ rank[alarm'] <= rank[x]
      BY <1>1, <2>3, <3>1, Advance
    <3>4. alarm' \in Entry /\ Registered(alarm)
      BY <1>1, NextRegistered, Entries
    <3>5. alarm' \in Alarm /\ alarm' # alarm
      BY <3>3, <3>4, Entries DEF Registered
    <3>6. In(links, alarm')
      BY <1>1, <3>3, NextRegistered, Entries DEF Registered, In
    <3>7. below[alarm'] = rank[alarm']
      BY <3>5, <3>6
    <3> QED
      BY <2>3, <3>3, <3>7
  <2> QED
    BY <1>7, <2>1, <2>2, <2>3
<1>8. Walk(below)'
  BY <1>7 DEF Walk, Registered, In, Positions, Ticks, Stale, inTick
<1> QED
  BY <1>6, <1>8

LEMMA WalkCallback ==
  ASSUME AInv, AInv', ShortDelays, ~CallbackStops, NEW rank, Walk(rank), Callback
  PROVE  Clock!Set /\ \E below : Walk(below)'
<1>1. /\ TypeOK /\ links \in Links /\ Linked(links) /\ Positions(links, rank)
      /\ alarm \in Alarm /\ Registered(alarm) /\ inTick /\ Due
      /\ alarm' = links.next[alarm] /\ nticks' = nticks
  BY Entries DEF AInv, Walk, TypeOK, Links, OnlyRegistered, inTick, Callback
<1>2. Ticks(time[alarm], rollover[alarm], nticks) \in Nat
      /\ time \in [Alarm -> 0..(Wrap - 1)] /\ rollover \in [Alarm -> BOOLEAN]
  BY <1>1 DEF Walk, TypeOK
<1>3. CASE Returned(links, time, rollover)
  <2>1. /\ Positions(links', rank)
        /\ \A x \in Alarm : x # alarm => /\ In(links', x) <=> In(links, x)
                                         /\ time'[x] = time[x] /\ rollover'[x] = rollover[x]
        /\ In(links', alarm) =>
             /\ Ticks(time'[alarm], rollover'[alarm], nticks) \in Periods
             /\ ~Stale(rollover'[alarm], nticks)
    BY <1>1, <1>2, <1>3, ReturnedTicks
  <2>2. Clock!Set /\ Walk(rank)'
    BY <1>1, <2>1, TurnEffect
  <2> QED
    BY <2>2
<1>4. ASSUME NEW a \in Alarm, NEW delay \in Delays, ~Registered(a),
             Returned(alt_llist_insert(links, alt_alarm_list, a),
                      [time EXCEPT ![a] = StartTime(delay, nticks)],
                      [rollover EXCEPT ![a] = RollsOver(StartTime(delay, nticks), nticks)])
      PROVE  Clock!Set /\ \E below : Walk(below)'
  <2> DEFINE l == alt_llist_insert(links, alt_alarm_list, a)
             t == [time EXCEPT ![a] = StartTime(delay, nticks)]
             r == [rollover EXCEPT ![a] = RollsOver(StartTime(delay, nticks), nticks)]
  <2>1. links.next[a] = a /\ a # alarm
    BY <1>1, <1>4 DEF Registered
  <2>2. l \in Links /\ Linked(l)
    BY <1>1, <2>1, InsertLinked, Entries
  <2>3. PICK below : /\ Positions(l, below)
                     /\ \A x \in Alarm : x # a => below[x] = rank[x]
                     /\ \A x \in Alarm : x # a /\ In(links, x) => below[a] < below[x]
    BY <1>1, <2>1, InsertAt
  <2>4. In(l, a) /\ ~In(links, a) /\ \A x \in Alarm : x # a => (In(l, x) <=> In(links, x))
    BY <1>1, <2>1, InsertAt DEF In
  <2>5. t \in [Alarm -> 0..(Wrap - 1)] /\ r \in [Alarm -> BOOLEAN]
    BY <1>1, StartTypes
  <2>6. Ticks(t[a], r[a], nticks) = delay + 1 /\ ~Stale(r[a], nticks)
        /\ \A x \in Alarm : x # a => t[x] = time[x] /\ r[x] = rollover[x]
    <3>1. t[a] = StartTime(delay, nticks) /\ r[a] = RollsOver(StartTime(delay, nticks), nticks)
          /\ \A x \in Alarm : x # a => t[x] = time[x] /\ r[x] = rollover[x]
      BY <1>2
    <3> HIDE DEF t, r
    <3> QED
      BY <1>1, <3>1, StartsAt
  <2>7. Returned(l, t, r)
    BY <1>4
  <2> HIDE DEF l, t, r
  <2>8. /\ Positions(links', below)
        /\ \A x \in Alarm : x # alarm => /\ In(links', x) <=> In(l, x)
                                         /\ time'[x] = t[x] /\ rollover'[x] = r[x]
        /\ In(links', alarm) =>
             /\ Ticks(time'[alarm], rollover'[alarm], nticks) \in Periods
             /\ ~Stale(rollover'[alarm], nticks)
    BY <1>1, <1>2, <2>2, <2>3, <2>5, <2>7, ReturnedTicks
  <2>9. ASSUME NEW x \in Alarm, x # alarm
        PROVE  \/ /\ In(links', x) <=> In(links, x)
                  /\ time'[x] = time[x] /\ rollover'[x] = rollover[x]
                  /\ In(links, x) => below[x] = rank[x]
               \/ /\ ~In(links, x) /\ In(links', x) /\ ~Stale(rollover'[x], nticks)
                  /\ \E d \in Delays : Ticks(time'[x], rollover'[x], nticks) = d + 1
    <3>1. CASE x = a
      BY <2>4, <2>6, <2>8, <2>9, <3>1
    <3>2. CASE x # a
      BY <2>3, <2>4, <2>6, <2>8, <2>9, <3>2
    <3> QED
      BY <3>1, <3>2
  <2>10. Clock!Set /\ Walk(below)'
    BY <1>1, <2>8, <2>9, TurnEffect
  <2> QED
    BY <2>10
<1>5. ASSUME Returned(alt_llist_remove(links, alarm), time, rollover)
      PROVE  Clock!Set /\ \E below : Walk(below)'
  <2> DEFINE l == alt_llist_remove(links, alarm)
  <2>1. l \in Links /\ Linked(l)
    BY <1>1, RemoveLinked, Entries
  <2>2. Positions(l, rank) /\ \A x \in Alarm : x # alarm => (In(l, x) <=> In(links, x))
    BY <1>1, RemoveAt
  <2>3. Returned(l, time, rollover)
    BY <1>5
  <2> HIDE DEF l
  <2>4. /\ Positions(links', rank)
        /\ \A x \in Alarm : x # alarm => /\ In(links', x) <=> In(l, x)
                                         /\ time'[x] = time[x] /\ rollover'[x] = rollover[x]
        /\ In(links', alarm) =>
             /\ Ticks(time'[alarm], rollover'[alarm], nticks) \in Periods
             /\ ~Stale(rollover'[alarm], nticks)
    BY <1>1, <1>2, <2>1, <2>2, <2>3, ReturnedTicks
  <2>5. Clock!Set /\ Walk(rank)'
    BY <1>1, <2>2, <2>4, TurnEffect
  <2> QED
    BY <2>5
<1> QED
  BY <1>3, <1>4, <1>5 DEF Callback

LEMMA WalkNext ==
  ASSUME WInv, ~CallbackStops, ShortDelays, [Next]_vars
  PROVE  WInv' /\ [Clock!Next]_remaining
<1>1. AInv /\ AInv'
  BY AlarmsNext DEF WInv
<1>2. PICK rank : Walk(rank)
  BY DEF WInv
<1>3. ASSUME NEW a \in Alarm, AlarmStart(a) PROVE Clock!Set /\ \E below : Walk(below)'
  BY <1>1, <1>2, <1>3, WalkStart
<1>4. ASSUME NEW a \in Alarm, AlarmStop(a) PROVE Clock!Set /\ \E below : Walk(below)'
  BY <1>1, <1>2, <1>4, WalkStop
<1>5. CASE Tick
  <2>1. Clock!Pass /\ Walk(rank)'
    BY <1>1, <1>2, <1>5, WalkTick
  <2> QED
    BY <1>1, <2>1 DEF WInv, Clock!Next
<1>6. CASE NotDue
  <2>1. Clock!Set /\ Walk(rank)'
    BY <1>1, <1>2, <1>6, WalkNotDue
  <2> QED
    BY <1>1, <2>1 DEF WInv, Clock!Next
<1>7. CASE Callback
  <2>1. Clock!Set /\ \E below : Walk(below)'
    BY <1>1, <1>2, <1>7, WalkCallback
  <2> QED
    BY <1>1, <2>1 DEF WInv, Clock!Next
<1>8. CASE SysclkInit \/ UNCHANGED vars
  <2>1. UNCHANGED <<nticks, links, time, rollover>> /\ (alarm' = alarm)
    BY <1>8 DEF SysclkInit, vars
  <2>2. Walk(rank)'
    BY <1>2, <2>1 DEF Walk, Positions, In, Registered, Ticks, Stale, inTick
  <2>3. remaining' = remaining
    BY <2>1 DEF remaining, Registered
  <2> QED
    BY <1>1, <2>2, <2>3 DEF WInv
<1> QED
  BY <1>1, <1>3, <1>4, <1>5, <1>6, <1>7, <1>8 DEF Next, TickLoop, WInv, Clock!Next

LEMMA WalkInit == Init => WInv /\ Clock!Init
<1> SUFFICES ASSUME Init PROVE WInv /\ Clock!Init
  OBVIOUS
<1>1. AInv
  BY AlarmsInit
<1>2. \A a \in Alarm : ~Registered(a)
  BY Entries DEF Init, Registered
<1>3. PICK rank : Positions(links, rank)
  BY <1>1 DEF AInv, Ordered
<1>4. Walk(rank)
  BY <1>2, <1>3 DEF Walk
<1>5. remaining = [a \in Alarm |-> -1]
  BY <1>2 DEF remaining
<1> QED
  BY <1>1, <1>4, <1>5 DEF WInv, Clock!Init, Clock!Off

\* The alarms implement the abstract count-down, whatever the width of the
\* counter, the alarms, delays and periods: an alarm runs out after exactly the
\* ticks that were asked for, also across a roll-over, and the counter does not go
\* on while one that has run out waits for its callback.  A callback may start
\* alarms and stop its own.  A delay of the whole range of the counter is left out:
\* the time of the alarm is then the present one, and it runs out at the next tick.
THEOREM AlarmsCountDown ==
  ~CallbackStops /\ ShortDelays => (Spec => Clock!Init /\ [][Clock!Next]_remaining)
<1> SUFFICES ASSUME ~CallbackStops, ShortDelays
             PROVE  Spec => Clock!Init /\ [][Clock!Next]_remaining
  OBVIOUS
<1>1. Init => WInv /\ Clock!Init
  BY WalkInit
<1>2. WInv /\ [Next]_vars => WInv' /\ [Clock!Next]_remaining
  BY WalkNext
<1> QED
  BY <1>1, <1>2, PTL DEF Spec

\* The same of the alarms with time of day and timer, which the run checks.
THEOREM ClocksCountDown ==
  ~CallbackStops /\ ShortDelays => (ClockSpec => Clock!Init /\ [][Clock!Next]_remaining)
<1>1. ClockInit => Init
  BY DEF ClockInit, TimeInit
<1>2. [ClockNext]_<<allVars, timerVars>> => [Next]_vars
  BY DEF ClockNext, TimeNext, Next, Alarms, TimeTick, TimeLoop, SetTimeOfDay, allVars
<1> QED
  BY <1>1, <1>2, AlarmsCountDown, PTL DEF ClockSpec, Spec
========================================================================================

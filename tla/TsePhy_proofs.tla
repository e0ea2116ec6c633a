--------------------------------- MODULE TsePhy_proofs ---------------------------------
(***************************************************************************)
(* The PHYs of a group of MACs (TsePhy), for every number of MACs, MDIO    *)
(* addresses and looks at a link, whatever PHYs are there and whenever     *)
(* their links come and go: the PHY that answers is the right one, PHYs    *)
(* and MACs are in one-to-one correspondence, MDIO_ADDR1 is restored, and  *)
(* no link is faster than the common speed that is set.  And the groups    *)
(* themselves, which TseSystem makes of the table of MACs.                 *)
(***************************************************************************)
EXTENDS TsePhy, MCTseSystem, Sequences, FiniteSets, WellFoundedInduction, TLAPS

Registers == [adv : SUBSET Modes, loopback : BOOLEAN, an : {"off", "running", "done"},
              link : Modes, forced : 0..3]
Capabilities == [own : SUBSET Modes, partner : SUBSET Modes, read : BOOLEAN]
Polls == [prev : Addr, polls : 0..(Threshold + 1),
          then : {"idle", "configure", "link", "checked", "cap", "duplex"},
          result : {"none", "complete", "not_complete", "not_capable"}]

\* The place the driver is at or goes on at when its negotiation has ended.
working == IF pc = "poll" THEN poll.then ELSE pc
Scanning == working \in {"scan", "configure"}
Setting == working \in {"set_common", "duplex"}

Types ==
  /\ dev \in Populations
  /\ phy \in [Addr -> Registers]
  /\ mdio_addr \in Addr /\ prev \in Addr /\ inner \in Addr
  /\ tse_phy_mdio_address \in [Mac -> Addr \cup {AUTO_ADDRESS}]
  /\ pphy_info \in [Mac -> Addr \cup {None}] /\ pmac_info \in [Addr -> Mac \cup {None}]
  /\ link_capability \in [Addr -> Capabilities]
  /\ cmd_config \in [speed : Speeds \cup {None}, half : [Mac -> BOOLEAN]]
  /\ is_init \in BOOLEAN /\ pc \in Places /\ poll \in Polls

Turns ==
  /\ pc = "poll" => poll.then # "idle"
  /\ mac \in Mac
  /\ pc = "idle" => i = 0
  /\ pc \in {"scan", "lookup"} => i \in 0..Addresses
  /\ working = "configure" => i \in Addr
  /\ working = "link" => i \in 0..Addresses
  /\ working \in {"check", "checked"} => i \in 0..(Threshold + 1)
  /\ pc \in {"get_common", "set_common"} => i \in 1..(Channels + 1)
  /\ working \in {"cap", "duplex"} => i \in Mac /\ pphy_info[i] # None
  /\ working \in {"link", "check", "checked"} => pphy_info[mac] # None
  /\ Setting => want \in Speeds

\* The registers of a PHY
Negotiated ==
  \A a \in Addr :
    /\ phy[a].adv \subseteq dev[a].own
    /\ phy[a].an = "done" => phy[a].link \in dev[a].own
    /\ ~dev[a].able => phy[a].an = "off"
    /\ link_capability[a].read => link_capability[a].own = dev[a].own

Addressed ==
  /\ pc \in {"poll", "configure", "check", "checked", "cap", "duplex"} => mdio_addr = Current
  /\ pc = "poll" /\ poll.then # "link" => poll.prev = Current
  /\ pc = "get_common" => mdio_addr = prev
  /\ working = "cap" => inner = prev

MappedInv ==
  /\ \A m \in Mac : pphy_info[m] # None =>
       pmac_info[pphy_info[m]] = m /\ tse_phy_mdio_address[m] = pphy_info[m]
  /\ \A a \in Addr : pmac_info[a] # None => pphy_info[pmac_info[a]] = a
  /\ \A m, n \in Mac : m # n /\ tse_phy_mdio_address[m] = tse_phy_mdio_address[n]
                        => tse_phy_mdio_address[m] = AUTO_ADDRESS
  /\ Scanning => ~is_init
  /\ ~Scanning /\ ~is_init => \A a \in Addr : pmac_info[a] = None
  /\ Scanning => \A a \in Addr :
        IF a < i THEN Present(a) /\ pmac_info[a] = None => \A m \in Mac : tse_phy_mdio_address[m] \notin {a, AUTO_ADDRESS}
        ELSE (pmac_info[a] = None) <=> (working = "scan" \/ a # i)

\* The registers f of a PHY keep its link to a speed.
Limited(f, speed) ==
  /\ \A m \in f.adv : m[1] <= speed
  /\ f.an = "done" => f.link[1] <= speed
LimitedInv ==
  Setting => \A m \in Mac : Known(m) /\ dev[pphy_info[m]].able
                 /\ (m < i \/ (m = i /\ working = "duplex")) => Limited(phy[pphy_info[m]], want)

PInv == Types /\ Turns /\ Negotiated /\ Addressed /\ MappedInv /\ LimitedInv

USE DEF hwVars, infoVars, callVars, Restored, Selected, GivesUp, LooksAgain

-----------------------------------------------------------------------------
(* Helpers.                                                                *)

\* A PHY's registers and abilities keep to their types.
LEMMA PhyTypes ==
  ASSUME PInv, NEW a \in Addr
  PROVE  /\ dev[a] \in [profile : Profiles, able : BOOLEAN, own : SUBSET Modes, partner : SUBSET Modes]
         /\ phy[a] \in Registers /\ link_capability[a] \in Capabilities
BY PhyAssumption DEF PhyAssumption, PInv, Types

LEMMA Constants ==
  /\ Channels \in Nat /\ Channels > 0 /\ Addresses \in Nat /\ Addresses > 0
  /\ Threshold \in Nat /\ 1 \in Mac /\ 0 \in Addr
BY PhyAssumption DEF PhyAssumption, Mac, Addr

\* Every set of MACs that is not empty has a first one.
LEMMA FirstOf == ASSUME NEW S \in SUBSET Mac, S # {} PROVE First(S) \in S
<1> DEFINE R == OpToRel(<, Nat)
<1>1. IsWellFoundedOn(R, Nat)
  BY NatLessThanWellFounded
<1>2. \A x, y \in Nat : x < y => <<x, y>> \in R
  BY DEF OpToRel
<1>3. S \subseteq Nat
  BY Constants DEF Mac
<1> HIDE DEF R
<1>4. PICK m \in S : \A n \in S : ~(<<n, m>> \in R)
  BY <1>1, <1>3, WFMin
<1>5. ASSUME NEW n \in S PROVE m <= n
  <2>1. m \in Nat /\ n \in Nat /\ ~(n < m)
    BY <1>2, <1>3, <1>4
  <2> QED
    BY <2>1
<1> QED
  BY <1>5 DEF First

\* The mode two partners agree on is one of those they have in common.
LEMMA BestOf == ASSUME NEW S \in SUBSET Modes, S # {} PROVE Best(S) \in S
<1> DEFINE Top(m) == \A n \in S : n[1] < m[1] \/ (n[1] = m[1] /\ n[2] <= m[2])
<1>1. S \subseteq {<<0, 0>>, <<0, 1>>, <<1, 0>>, <<1, 1>>, <<2, 0>>, <<2, 1>>}
  BY DEF Modes, Speeds, Half, Full
<1>2. \E m \in S : Top(m)
  <2>1. CASE <<2, 1>> \in S
    <3>1. Top(<<2, 1>>)
      BY <1>1
    <3> QED
      BY <2>1, <3>1
  <2>2. CASE <<2, 1>> \notin S /\ <<2, 0>> \in S
    <3>1. Top(<<2, 0>>)
      BY <1>1, <2>2
    <3> QED
      BY <2>2, <3>1
  <2>3. CASE <<2, 1>> \notin S /\ <<2, 0>> \notin S /\ <<1, 1>> \in S
    <3>1. Top(<<1, 1>>)
      BY <1>1, <2>3
    <3> QED
      BY <2>3, <3>1
  <2>4. CASE <<2, 1>> \notin S /\ <<2, 0>> \notin S /\ <<1, 1>> \notin S /\ <<1, 0>> \in S
    <3>1. Top(<<1, 0>>)
      BY <1>1, <2>4
    <3> QED
      BY <2>4, <3>1
  <2>5. CASE S \subseteq {<<0, 0>>, <<0, 1>>} /\ <<0, 1>> \in S
    <3>1. Top(<<0, 1>>)
      BY <2>5
    <3> QED
      BY <2>5, <3>1
  <2>6. CASE S = {<<0, 0>>}
    <3>1. Top(<<0, 0>>)
      BY <2>6
    <3> QED
      BY <2>6, <3>1
  <2> QED
    BY <1>1, <2>1, <2>2, <2>3, <2>4, <2>5, <2>6
<1> QED
  BY <1>2 DEF Best

\* What a step must leave alone for the registers to stay right.
LEMMA SameRegisters ==
  ASSUME PInv, UNCHANGED <<dev, phy, link_capability>>
  PROVE  Negotiated'
BY DEF PInv, Negotiated

\* A step outside the scan leaves the map as it is.
LEMMA SameMap ==
  ASSUME PInv, UNCHANGED <<tse_phy_mdio_address, pphy_info, pmac_info, is_init>>,
         ~Scanning, ~Scanning'
  PROVE  MappedInv'
BY DEF PInv, MappedInv

LEMMA NotLimited == ASSUME ~Setting' PROVE LimitedInv'
BY DEF LimitedInv

\* alt_tse_phy_restart_an: the registers are those of its caller but for the
\* negotiation, and it goes on at `then' with MDIO_ADDR1 as it was.
LEMMA Restart ==
  ASSUME PInv, dev' = dev, NEW p \in Addr, NEW f \in [Addr -> Registers], NEW from \in Addr,
         NEW then \in {"configure", "link", "checked", "cap", "duplex"},
         \A a \in Addr : /\ f[a].adv \subseteq dev[a].own
                         /\ f[a].an = "done" => f[a].link \in dev[a].own
                         /\ ~dev[a].able => f[a].an = "off",
         RestartAn(f, p, from, then)
  PROVE  /\ phy' \in [Addr -> Registers]
         /\ \A a \in Addr : /\ phy'[a].adv = f[a].adv /\ phy'[a].link = f[a].link
                            /\ a # p => phy'[a] = f[a]
                            /\ phy'[a].adv \subseteq dev[a].own
                            /\ phy'[a].an = "done" => phy'[a].link \in dev[a].own
                            /\ ~dev[a].able => phy'[a].an = "off"
         /\ dev[p].able => phy'[p].an = "running"
         /\ mdio_addr' \in Addr /\ poll' \in Polls /\ working' = then
         /\ \/ pc' = "poll" /\ poll'.then = then /\ poll'.prev = from /\ mdio_addr' = p
            \/ pc' = then /\ mdio_addr' = from
<1>0. 0 \in 0..(Threshold + 1) /\ 0 \in Addr
  BY Constants
<1>1. CASE dev[p].able
  <2>1. /\ phy' = [f EXCEPT ![p].an = "running"] /\ mdio_addr' = p /\ pc' = "poll"
        /\ poll' = [prev |-> from, polls |-> 0, then |-> then, result |-> "none"]
    BY <1>1 DEF RestartAn, Selected
  <2>2. poll' \in Polls /\ poll'.then = then /\ poll'.prev = from
    BY <1>0, <2>1 DEF Polls
  <2>3. phy' \in [Addr -> Registers]
    BY <2>1 DEF Registers
  <2>4. ASSUME NEW a \in Addr
        PROVE  /\ phy'[a].adv = f[a].adv /\ phy'[a].link = f[a].link
               /\ a # p => phy'[a] = f[a]
               /\ a = p => phy'[a].an = "running"
    BY <2>1 DEF Registers
  <2>5. working' = then
    BY <2>1, <2>2 DEF working
  <2>6. dev[p].able => phy'[p].an = "running"
    BY <2>4
  <2>7. ASSUME NEW a \in Addr
        PROVE  /\ phy'[a].adv \subseteq dev[a].own
               /\ phy'[a].an = "done" => phy'[a].link \in dev[a].own
               /\ ~dev[a].able => phy'[a].an = "off"
    BY <1>1, <2>4
  <2> QED
    BY <2>1, <2>2, <2>3, <2>4, <2>5, <2>6, <2>7
<1>2. CASE ~dev[p].able
  <2>1. /\ phy' = f /\ mdio_addr' = from /\ pc' = then
        /\ poll' = [Idle EXCEPT !.result = "not_capable"]
    BY <1>2 DEF RestartAn, Selected
  <2>2. poll' \in Polls
    BY <1>0, <2>1 DEF Polls, Idle
  <2>3. working' = then
    BY <2>1 DEF working
  <2> QED
    BY <1>2, <2>1, <2>2, <2>3
<1> QED
  BY <1>1, <1>2

\* The registers as a caller of alt_tse_phy_restart_an finds them.
LEMMA Found ==
  ASSUME PInv
  PROVE  /\ phy \in [Addr -> Registers]
         /\ \A a \in Addr : /\ phy[a].adv \subseteq dev[a].own
                            /\ phy[a].an = "done" => phy[a].link \in dev[a].own
                            /\ ~dev[a].able => phy[a].an = "off"
BY DEF PInv, Types, Negotiated

\* alt_tse_phy_set_adv_1000, _100 and _10 after one another.
LEMMA Advertised ==
  ASSUME PInv, NEW p \in Addr, NEW S, NEW f \in [Addr -> Registers],
         \A a \in Addr : /\ f[a].adv \subseteq dev[a].own
                         /\ f[a].an = "done" => f[a].link \in dev[a].own
                         /\ ~dev[a].able => f[a].an = "off"
  PROVE  LET g == Advertise(f, p, S) IN
         /\ g \in [Addr -> Registers]
         /\ \A a \in Addr : /\ g[a].adv \subseteq dev[a].own
                            /\ g[a].an = f[a].an /\ g[a].link = f[a].link
                            /\ g[a].an = "done" => g[a].link \in dev[a].own
                            /\ ~dev[a].able => g[a].an = "off"
                            /\ a # p => g[a] = f[a]
         /\ \A m \in g[p].adv : m[1] \in S
<1> DEFINE A == {m \in dev[p].own : m[1] \in S}
           g == [f EXCEPT ![p].adv = A]
<1>1. A \subseteq dev[p].own /\ A \in SUBSET Modes /\ \A m \in A : m[1] \in S
  BY PhyTypes
<1>2. g = Advertise(f, p, S)
  BY DEF Advertise, Selected
<1> HIDE DEF A
<1>3. g \in [Addr -> Registers]
  BY <1>1 DEF Registers
<1>4. ASSUME NEW a \in Addr
      PROVE  /\ g[a].an = f[a].an /\ g[a].link = f[a].link
             /\ a # p => g[a] = f[a]
             /\ a = p => g[a].adv = A
  BY DEF Registers
<1> HIDE DEF g
<1>5. ASSUME NEW a \in Addr
      PROVE  g[a].adv \subseteq dev[a].own
  BY <1>1, <1>4
<1> QED
  BY <1>1, <1>2, <1>3, <1>4, <1>5

-----------------------------------------------------------------------------
(* The steps.                                                              *)

\* A PHY negotiates, or loses its link.
LEMMA LinksStep ==
  ASSUME PInv, Links
  PROVE  PInv'
<1> USE DEF PInv
<1>1. UNCHANGED <<dev, mdio_addr, tse_phy_mdio_address, mac_type, pphy_info, pmac_info, is_init,
                  link_capability, cmd_config, pc, mac, i, prev, inner, poll, common, want, result>>
  BY DEF Links
<1>2. PICK a \in Addr : AnCompletes(a) \/ LinkLost(a)
  BY DEF Links
<1>3. phy \in [Addr -> Registers] /\ phy[a] \in Registers
  BY DEF Types
<1>4. /\ phy' \in [Addr -> Registers]
      /\ phy'[a].adv = phy[a].adv /\ dev[a].able
      /\ \/ phy'[a].an = "running"
         \/ phy'[a].link \in phy[a].adv
      /\ \A b \in Addr : b # a => phy'[b] = phy[b]
  <2>1. CASE AnCompletes(a)
    <3> DEFINE mode == Best(phy[a].adv \cap dev[a].partner)
    <3>1. phy' = [phy EXCEPT ![a].an = "done", ![a].link = mode] /\ phy[a].an = "running"
      BY <2>1 DEF AnCompletes
    <3>2. phy[a].adv \cap dev[a].partner \in SUBSET Modes
      BY <1>3 DEF Registers
    <3>3. phy[a].adv \cap dev[a].partner # {}
      BY <2>1 DEF AnCompletes
    <3>4. mode \in phy[a].adv \cap dev[a].partner
      BY <3>2, <3>3, BestOf
    <3> HIDE DEF mode
    <3>5. mode \in Modes /\ mode \in phy[a].adv
      BY <3>2, <3>4
    <3>6. phy' \in [Addr -> Registers]
      BY <1>3, <3>1, <3>5 DEF Registers
    <3>7. phy'[a].adv = phy[a].adv /\ phy'[a].link = mode
      BY <1>3, <3>1 DEF Registers
    <3>8. dev[a].able
      BY <3>1, Found
    <3> QED
      BY <1>3, <3>1, <3>5, <3>6, <3>7, <3>8
  <2>2. CASE LinkLost(a)
    <3>1. phy' = [phy EXCEPT ![a].an = "running"] /\ phy[a].an = "done"
      BY <2>2 DEF LinkLost
    <3>2. phy' \in [Addr -> Registers]
      BY <1>3, <3>1 DEF Registers
    <3>3. phy'[a].adv = phy[a].adv /\ phy'[a].an = "running"
      BY <1>3, <3>1 DEF Registers
    <3>4. dev[a].able
      BY <3>1, Found
    <3> QED
      BY <1>3, <3>1, <3>2, <3>3, <3>4
  <2> QED
    BY <1>2, <2>1, <2>2
<1>5. Types'
  BY <1>1, <1>4 DEF Types
<1>6. working' = working
  BY <1>1 DEF working
<1>7. Turns'
  BY <1>1, <1>6 DEF Turns, Setting
<1>8. Negotiated'
  BY <1>1, <1>4 DEF Negotiated
<1>9. Addressed'
  BY <1>1, <1>6 DEF Addressed, Current, working
<1>10. MappedInv'
  BY <1>1, <1>6 DEF MappedInv, Scanning, Present
<1>11. LimitedInv'
  <2>1. \A b \in Addr : Limited(phy[b], want) => Limited(phy'[b], want)
    BY <1>1, <1>4 DEF Limited
  <2>2. Setting' = Setting /\ \A m \in Mac : Known(m)' = Known(m)
    BY <1>1, <1>6 DEF Setting, Known
  <2>3. \A m \in Mac : Known(m) => pphy_info[m] \in Addr
    BY DEF Known, Types
  <2> QED
    BY <1>1, <1>6, <2>1, <2>2, <2>3 DEF LimitedInv
<1> QED
  BY <1>5, <1>7, <1>8, <1>9, <1>10, <1>11

\* A look at a PHY that negotiates.
LEMMA PollStep ==
  ASSUME PInv, PollAn
  PROVE  PInv'
<1> USE DEF PInv
<1>1. /\ UNCHANGED <<dev, phy, losses, tse_phy_mdio_address, mac_type, pphy_info, pmac_info, is_init,
                     link_capability, cmd_config, mac, i, prev, inner, common, want, result>>
      /\ pc = "poll"
  BY DEF PollAn
<1>2. poll \in Polls /\ mdio_addr \in Addr /\ poll.then # "idle"
  BY <1>1 DEF Types, Turns
<1>3. /\ mdio_addr' \in Addr /\ poll' \in Polls
      /\ \/ pc' = poll.then /\ mdio_addr' = poll.prev
         \/ /\ pc' = "poll" /\ mdio_addr' = mdio_addr
            /\ poll'.then = poll.then /\ poll'.prev = poll.prev
  <2>1. CASE \E r \in {"complete", "not_complete"} : AnReturns(r)
    <3>1. 0 \in Addr /\ 0 \in 0..(Threshold + 1)
      BY Constants
    <3>2. poll' \in Polls
      BY <2>1, <3>1 DEF AnReturns, Idle, Polls
    <3> QED
      BY <1>2, <2>1, <3>2 DEF AnReturns, Polls
  <2>2. CASE ~(poll.polls > Threshold) /\ poll' = [poll EXCEPT !.polls = @ + 1] /\ UNCHANGED <<pc, mdio_addr>>
    <3>1. poll.polls + 1 \in 0..(Threshold + 1)
      BY <1>2, <2>2, Constants DEF Polls
    <3> QED
      BY <1>1, <1>2, <2>2, <3>1 DEF Polls
  <2> QED
    BY <2>1, <2>2 DEF PollAn
<1>4. working' = working /\ working = poll.then /\ pc' \in Places
  BY <1>1, <1>2, <1>3 DEF working, Polls, Places
<1>5. Types'
  BY <1>1, <1>3, <1>4 DEF Types
<1>6. poll.then \in {"configure", "link", "checked", "cap", "duplex"}
  BY <1>2 DEF Polls
<1>7. Turns'
  BY <1>1, <1>3, <1>4, <1>6 DEF Turns, Setting
<1>8. Current' = Current
  BY <1>1, <1>4 DEF Current, working
<1>9. Addressed'
  BY <1>1, <1>3, <1>4, <1>6, <1>8 DEF Addressed
<1>10. MappedInv'
  BY <1>1, <1>4 DEF MappedInv, Scanning, Present
<1>11. LimitedInv'
  BY <1>1, <1>4 DEF LimitedInv, Setting, Known, Limited
<1> QED
  BY <1>1, <1>5, <1>7, <1>9, <1>10, <1>11, SameRegisters

\* While it scans the addresses: what is mapped below i, and nothing from i on.
LEMMA ScanState ==
  ASSUME PInv, Scanning, NEW a \in Addr
  PROVE  /\ a < i => (Present(a) /\ pmac_info[a] = None
                       => \A m \in Mac : tse_phy_mdio_address[m] \notin {a, AUTO_ADDRESS})
         /\ ~(a < i) => ((pmac_info[a] = None) <=> (working = "scan" \/ a # i))
BY DEF PInv, MappedInv

\* The map is one to one.
LEMMA MapState ==
  ASSUME PInv
  PROVE  /\ \A m \in Mac : pphy_info[m] # None =>
              /\ pphy_info[m] \in Addr
              /\ pmac_info[pphy_info[m]] = m /\ tse_phy_mdio_address[m] = pphy_info[m]
         /\ \A a \in Addr : pmac_info[a] # None =>
              pmac_info[a] \in Mac /\ pphy_info[pmac_info[a]] = a
         /\ \A m, n \in Mac : m # n /\ tse_phy_mdio_address[m] = tse_phy_mdio_address[n]
              => tse_phy_mdio_address[m] = AUTO_ADDRESS
BY DEF PInv, MappedInv, Types

LEMMA NumberOf == \A a \in Addr : a \in Nat /\ a < Addresses /\ a # AUTO_ADDRESS /\ a # None
BY Constants DEF Addr, AUTO_ADDRESS, None

\* The scan goes past an address where it maps nothing.
LEMMA ScanNextStep ==
  ASSUME PInv, ScanNext
  PROVE  PInv'
<1> USE DEF PInv
<1>1. /\ UNCHANGED <<dev, phy, losses, tse_phy_mdio_address, mac_type, pphy_info, pmac_info, is_init,
                     link_capability, cmd_config, pc, mac, prev, inner, poll, common, want, result>>
      /\ pc = "scan" /\ i \in Addr /\ mdio_addr' = i /\ i' = i + 1
      /\ ~Present(i) \/ Candidates(i) = {}
  BY DEF ScanNext
<1>2. working = "scan" /\ working' = "scan" /\ i \in 0..(Addresses - 1) /\ i' \in 0..Addresses
  BY <1>1, Constants DEF working, Addr
<1>3. Types'
  BY <1>1 DEF Types
<1>4. Turns'
  BY <1>1, <1>2 DEF Turns, Setting
<1>5. Addressed'
  BY <1>1, <1>2 DEF Addressed
<1>6. MappedInv'
  <2>1. Scanning /\ Scanning'
    BY <1>2 DEF Scanning
  <2>2. ASSUME NEW a \in Addr
        PROVE  IF a < i'
                 THEN Present(a) /\ pmac_info[a] = None
                        => \A m \in Mac : tse_phy_mdio_address[m] \notin {a, AUTO_ADDRESS}
                 ELSE pmac_info[a] = None
    <3>1. a \in Nat /\ i \in Nat /\ (a < i' <=> a < i \/ a = i)
      BY <1>1, NumberOf
    <3>2. CASE a < i
      BY <2>1, <3>1, <3>2, ScanState
    <3>3. CASE a = i
      <4>1. Present(a) => Candidates(a) = {}
        BY <1>1, <3>3
      <4>2. Candidates(a) = {} => \A m \in Mac : tse_phy_mdio_address[m] \notin {a, AUTO_ADDRESS}
        BY DEF Candidates
      <4> QED
        BY <3>1, <3>3, <4>1, <4>2
    <3>4. CASE a > i
      <4>1. pmac_info[a] = None
        BY <1>2, <2>1, <3>1, <3>4, ScanState
      <4> QED
        BY <3>1, <3>4, <4>1
    <3> QED
      BY <3>1, <3>2, <3>3, <3>4
  <2> QED
    BY <1>1, <1>2, <2>1, <2>2 DEF MappedInv, Present
<1>7. LimitedInv'
  BY <1>2, NotLimited DEF Setting
<1> QED
  BY <1>1, <1>3, <1>4, <1>5, <1>6, <1>7, SameRegisters

\* A PHY gets the MAC that names its address, or else the first automatic one.
LEMMA ScanMappedStep ==
  ASSUME PInv, ScanMapped
  PROVE  PInv'
<1> USE DEF PInv
<1> DEFINE c == First(Candidates(i))
           f == [phy EXCEPT ![i].loopback = FALSE]
           g == Advertise(f, i, Speeds)
<1>1. /\ UNCHANGED <<dev, losses, mac_type, is_init, link_capability, cmd_config, mac, i, prev,
                     inner, common, want, result>>
      /\ pc = "scan" /\ i \in Addr /\ Present(i) /\ Candidates(i) # {}
      /\ RestartAn(g, i, i, "configure")
  BY DEF ScanMapped
<1>2. /\ pphy_info' = [pphy_info EXCEPT ![c] = i]
      /\ pmac_info' = [pmac_info EXCEPT ![i] = c]
      /\ tse_phy_mdio_address' = [tse_phy_mdio_address EXCEPT ![c] = i]
  BY DEF ScanMapped
<1>3. c \in Candidates(i) /\ Candidates(i) \subseteq Mac
  BY <1>1, FirstOf DEF Candidates
<1> HIDE DEF c
<1>4. /\ c \in Mac /\ tse_phy_mdio_address[c] \in {i, AUTO_ADDRESS}
      /\ \A n \in Mac : tse_phy_mdio_address[n] = i => tse_phy_mdio_address[c] = i
  BY <1>3 DEF Candidates
<1>5. /\ f \in [Addr -> Registers]
      /\ \A a \in Addr : /\ f[a].adv \subseteq dev[a].own
                         /\ f[a].an = "done" => f[a].link \in dev[a].own
                         /\ ~dev[a].able => f[a].an = "off"
  <2>1. phy \in [Addr -> Registers]
    BY DEF Types
  <2>2. f \in [Addr -> Registers]
    BY <1>1, <2>1 DEF Registers
  <2>3. \A a \in Addr : f[a].adv = phy[a].adv /\ f[a].an = phy[a].an /\ f[a].link = phy[a].link
    BY <1>1, <2>1 DEF Registers
  <2> HIDE DEF f
  <2> QED
    BY <2>2, <2>3, Found
<1> HIDE DEF f
<1>6. /\ g \in [Addr -> Registers]
      /\ \A a \in Addr : /\ g[a].adv \subseteq dev[a].own
                         /\ g[a].an = "done" => g[a].link \in dev[a].own
                         /\ ~dev[a].able => g[a].an = "off"
  BY <1>1, <1>5, Advertised
<1> HIDE DEF g
<1>7. dev' = dev
  BY <1>1
<1> HIDE DEF PInv
<1>8. /\ phy' \in [Addr -> Registers]
      /\ \A a \in Addr : /\ phy'[a].adv \subseteq dev[a].own
                         /\ phy'[a].an = "done" => phy'[a].link \in dev[a].own
                         /\ ~dev[a].able => phy'[a].an = "off"
      /\ mdio_addr' \in Addr /\ poll' \in Polls /\ working' = "configure"
      /\ \/ pc' = "poll" /\ poll'.then = "configure" /\ poll'.prev = i /\ mdio_addr' = i
         \/ pc' = "configure" /\ mdio_addr' = i
  BY <1>1, <1>6, <1>7, Restart
<1> USE DEF PInv
<1>9. i \in 0..(Addresses - 1) /\ i # AUTO_ADDRESS /\ i # None /\ c # None
  <2>1. c \in Nat
    BY <1>4 DEF Mac
  <2> QED
    BY <1>1, <2>1, NumberOf DEF None, Addr
<1>10. working = "scan" /\ Scanning /\ Scanning'
  BY <1>1, <1>8 DEF working, Scanning
<1>11. Types'
  <2>1. /\ pphy_info' \in [Mac -> Addr \cup {None}] /\ pmac_info' \in [Addr -> Mac \cup {None}]
        /\ tse_phy_mdio_address' \in [Mac -> Addr \cup {AUTO_ADDRESS}]
    BY <1>1, <1>2, <1>4 DEF Types
  <2> QED
    BY <1>1, <1>8, <2>1 DEF Types, Places
<1>12. Turns'
  BY <1>1, <1>8 DEF Turns, Setting
<1>13. Negotiated'
  BY <1>1, <1>8 DEF Negotiated
<1>14. Addressed'
  <2>1. Current' = i
    BY <1>1, <1>8 DEF Current
  <2> QED
    BY <1>8, <2>1 DEF Addressed
<1>15. MappedInv'
  <2>1. /\ \A m \in Mac : pphy_info'[m] = IF m = c THEN i ELSE pphy_info[m]
        /\ \A a \in Addr : pmac_info'[a] = IF a = i THEN c ELSE pmac_info[a]
        /\ \A m \in Mac : tse_phy_mdio_address'[m] =
                            IF m = c THEN i ELSE tse_phy_mdio_address[m]
    BY <1>1, <1>2, <1>4 DEF Types
  <2>2. /\ \A m \in Mac : pphy_info[m] # None => pphy_info[m] \in Addr
        /\ \A a \in Addr : pmac_info[a] # None => pmac_info[a] \in Mac
    BY DEF Types
  <2>3. pmac_info[i] = None
    <3>1. ~(i < i)
      BY <1>9
    <3> QED
      BY <1>1, <1>10, <3>1, ScanState
  <2>4. pphy_info[c] = None
    <3>1. ASSUME pphy_info[c] # None PROVE FALSE
      <4>1. pphy_info[c] \in Addr /\ pmac_info[pphy_info[c]] = c /\ tse_phy_mdio_address[c] = pphy_info[c]
        BY <1>4, <3>1, MapState
      <4>2. pphy_info[c] = i
        BY <1>4, <4>1, NumberOf
      <4> QED
        BY <1>9, <2>3, <4>1, <4>2
    <3> QED
      BY <3>1
  <2>5. \A m \in Mac : pphy_info'[m] # None =>
          pmac_info'[pphy_info'[m]] = m /\ tse_phy_mdio_address'[m] = pphy_info'[m]
    <3>1. ASSUME NEW m \in Mac, pphy_info'[m] # None
          PROVE  pmac_info'[pphy_info'[m]] = m /\ tse_phy_mdio_address'[m] = pphy_info'[m]
      <4>1. CASE m = c
        BY <1>1, <2>1, <4>1
      <4>2. CASE m # c
        <5>1. pphy_info'[m] = pphy_info[m] /\ pphy_info[m] # None
          BY <2>1, <3>1, <4>2
        <5>2. pphy_info[m] \in Addr /\ pmac_info[pphy_info[m]] = m /\ tse_phy_mdio_address[m] = pphy_info[m]
          BY <5>1, MapState
        <5>3. pphy_info[m] # i
          BY <2>3, <5>2 DEF None, Mac
        <5> QED
          BY <2>1, <4>2, <5>1, <5>2, <5>3
      <4> QED
        BY <4>1, <4>2
    <3> QED
      BY <3>1
  <2>6. \A a \in Addr : pmac_info'[a] # None => pphy_info'[pmac_info'[a]] = a
    <3>1. ASSUME NEW a \in Addr, pmac_info'[a] # None
          PROVE  pphy_info'[pmac_info'[a]] = a
      <4>1. CASE a = i
        BY <1>4, <2>1, <4>1
      <4>2. CASE a # i
        <5>1. pmac_info'[a] = pmac_info[a] /\ pmac_info[a] # None
          BY <2>1, <3>1, <4>2
        <5>2. pmac_info[a] \in Mac /\ pphy_info[pmac_info[a]] = a
          BY <5>1, MapState
        <5>3. pmac_info[a] # c
          BY <2>4, <5>2, NumberOf
        <5> QED
          BY <2>1, <5>1, <5>2, <5>3
      <4> QED
        BY <4>1, <4>2
    <3> QED
      BY <3>1
  <2>7. \A m, n \in Mac : m # n /\ tse_phy_mdio_address'[m] = tse_phy_mdio_address'[n]
                           => tse_phy_mdio_address'[m] = AUTO_ADDRESS
    BY <1>4, <1>9, <2>1, MapState
  <2>8. ASSUME NEW a \in Addr
        PROVE  IF a < i
                 THEN Present(a) /\ pmac_info'[a] = None
                        => \A m \in Mac : tse_phy_mdio_address'[m] \notin {a, AUTO_ADDRESS}
                 ELSE (pmac_info'[a] = None) <=> (a # i)
    <3>1. CASE a < i
      <4>1. pmac_info'[a] = pmac_info[a] /\ a # i
        BY <1>9, <2>1, <3>1, Constants DEF Addr
      <4>2. Present(a) /\ pmac_info[a] = None
              => \A m \in Mac : tse_phy_mdio_address[m] \notin {a, AUTO_ADDRESS}
        BY <1>10, <3>1, ScanState
      <4> QED
        BY <1>9, <2>1, <3>1, <4>1, <4>2
    <3>2. CASE ~(a < i)
      <4>1. pmac_info[a] = None
        BY <1>10, <3>2, ScanState
      <4> QED
        BY <1>9, <2>1, <3>2, <4>1
    <3> QED
      BY <3>1, <3>2
  <2>9. ~is_init'
    BY <1>1, <1>10 DEF MappedInv
  <2> QED
    BY <1>1, <1>8, <1>10, <2>5, <2>6, <2>7, <2>8, <2>9 DEF MappedInv, Present
<1>16. LimitedInv'
  BY <1>8, NotLimited DEF Setting
<1> QED
  BY <1>11, <1>12, <1>13, <1>14, <1>15, <1>16

LEMMA ConfigureStep ==
  ASSUME PInv, Configure
  PROVE  PInv'
<1> USE DEF PInv
<1>1. /\ UNCHANGED <<dev, phy, losses, mdio_addr, tse_phy_mdio_address, mac_type, pphy_info,
                     pmac_info, is_init, link_capability, cmd_config, mac, prev, inner, poll, common, want, result>>
      /\ pc = "configure" /\ i' = i + 1 /\ pc' = "scan"
  BY DEF Configure
<1>2. working = "configure" /\ working' = "scan" /\ i \in 0..(Addresses - 1)
  BY <1>1, Constants DEF working, Turns, Addr
<1>3. Types'
  BY <1>1 DEF Types, Places
<1>4. Turns'
  BY <1>1, <1>2, Constants DEF Turns, Setting
<1>5. Addressed'
  BY <1>1, <1>2 DEF Addressed
<1>6. MappedInv'
  <2>1. Scanning /\ Scanning'
    BY <1>2 DEF Scanning
  <2>2. ASSUME NEW a \in Addr
        PROVE  IF a < i'
                 THEN Present(a) /\ pmac_info[a] = None
                        => \A m \in Mac : tse_phy_mdio_address[m] \notin {a, AUTO_ADDRESS}
                 ELSE pmac_info[a] = None
    <3>1. a \in Nat /\ i \in Nat /\ (a < i' <=> a < i \/ a = i)
      BY <1>1, <1>2, NumberOf
    <3> QED
      BY <1>2, <2>1, <3>1, ScanState
  <2> QED
    BY <1>1, <1>2, <2>1, <2>2 DEF MappedInv, Present
<1>7. LimitedInv'
  BY <1>2, NotLimited DEF Setting
<1> QED
  BY <1>1, <1>3, <1>4, <1>5, <1>6, <1>7, SameRegisters

\* The scan ends, at the last address or without memory.
LEMMA ScanEndStep ==
  ASSUME PInv, ScanDone \/ ScanFails
  PROVE  PInv'
<1> USE DEF PInv
<1>1. /\ UNCHANGED <<dev, phy, losses, tse_phy_mdio_address, mac_type, pphy_info,
                     pmac_info, link_capability, cmd_config, mac, i, prev, inner, poll, common, want, result>>
      /\ pc = "scan" /\ is_init' = TRUE /\ pc' = "lookup" /\ mdio_addr' \in Addr
  BY DEF ScanDone, ScanFails, Types
<1>2. working = "scan" /\ working' = "lookup"
  BY <1>1 DEF working
<1>3. Types'
  BY <1>1 DEF Types, Places
<1>4. Turns'
  <2>1. mac' \in Mac /\ i' \in 0..Addresses
    BY <1>1 DEF Turns
  <2> QED
    BY <1>1, <1>2, <2>1 DEF Turns, Setting
<1>5. Addressed'
  BY <1>1, <1>2 DEF Addressed
<1>6. MappedInv'
  BY <1>1, <1>2 DEF MappedInv, Scanning
<1>7. LimitedInv'
  BY <1>2, NotLimited DEF Setting
<1> QED
  BY <1>1, <1>3, <1>4, <1>5, <1>6, <1>7, SameRegisters

\* A function returns, and has left registers, map and MDIO_ADDR1 in order.
LEMMA ReturnStep ==
  ASSUME PInv, NEW r, Returns(r), ~Scanning,
         UNCHANGED <<dev, tse_phy_mdio_address, mac_type, pphy_info, pmac_info, is_init,
                     link_capability>>,
         mdio_addr' \in Addr, phy' \in [Addr -> Registers], Negotiated',
         cmd_config' \in [speed : Speeds \cup {None}, half : [Mac -> BOOLEAN]]
  PROVE  PInv'
<1> USE DEF PInv
<1>1. /\ pc' = "idle" /\ mac' = 1 /\ i' = 0 /\ prev' = 0 /\ inner' = 0 /\ poll' = Idle
      /\ working' = "idle" /\ ~Scanning'
  BY DEF Returns, working, Scanning
<1>2. 0 \in 0..(Threshold + 1) /\ Idle \in Polls
  BY Constants DEF Idle, Polls
<1>3. Types'
  BY <1>1, <1>2, Constants DEF Types, Places
<1>4. Turns'
  BY <1>1, Constants DEF Turns, Setting
<1>5. Addressed'
  BY <1>1 DEF Addressed
<1>6. MappedInv'
  BY <1>1, SameMap
<1>7. LimitedInv'
  BY <1>1, NotLimited DEF Setting
<1> QED
  BY <1>3, <1>4, <1>5, <1>6, <1>7

\* getPHYSpeed is called for a MAC.
LEMMA GetSpeedStep ==
  ASSUME PInv, NEW m \in Mac, GetPHYSpeed(m)
  PROVE  PInv'
<1> USE DEF PInv
<1>1. /\ UNCHANGED <<dev, phy, losses, mdio_addr, tse_phy_mdio_address,
         mac_type, pphy_info, pmac_info, is_init, link_capability,
         cmd_config, inner, poll, common, want>>
      /\ pc = "idle" /\ mac' = m /\ i' = 0 /\ prev' = mdio_addr
      /\ pc' = (IF is_init THEN "lookup" ELSE "scan")
  BY DEF GetPHYSpeed
<1>2. working = "idle" /\ working' = pc'
  BY <1>1 DEF working
<1>3. Types'
  BY <1>1 DEF Types, Places
<1>4. Turns'
  BY <1>1, <1>2, Constants DEF Turns, Setting
<1>5. Addressed'
  BY <1>1, <1>2 DEF Addressed
<1>6. MappedInv'
  <2>1. ~Scanning
    BY <1>2 DEF Scanning
  <2>2. CASE is_init
    <3>1. ~Scanning'
      BY <1>1, <1>2, <2>2 DEF Scanning
    <3> QED
      BY <1>1, <2>1, <3>1, SameMap
  <2>3. CASE ~is_init
    <3>1. Scanning' /\ working' = "scan" /\ ~is_init'
      BY <1>1, <1>2, <2>3 DEF Scanning
    <3>2. \A a \in Addr : pmac_info'[a] = None /\ ~(a < i')
      BY <1>1, <2>1, <2>3, NumberOf DEF MappedInv
    <3>3. /\ \A q \in Mac : pphy_info'[q] # None =>
               pmac_info'[pphy_info'[q]] = q /\ tse_phy_mdio_address'[q] = pphy_info'[q]
          /\ \A a \in Addr : pmac_info'[a] # None => pphy_info'[pmac_info'[a]] = a
          /\ \A q, n \in Mac : q # n /\ tse_phy_mdio_address'[q] = tse_phy_mdio_address'[n]
                        => tse_phy_mdio_address'[q] = AUTO_ADDRESS
      BY <1>1 DEF MappedInv
    <3> QED
      BY <3>1, <3>2, <3>3 DEF MappedInv
  <2> QED
    BY <2>2, <2>3 DEF Types
<1>7. LimitedInv'
  BY <1>1, <1>2, NotLimited DEF Setting
<1> QED
  BY <1>1, <1>3, <1>4, <1>5, <1>6, <1>7, SameRegisters

\* The steps of getPHYSpeed that only go on.
LEMMA SpeedGoesOn ==
  ASSUME PInv, FullMac \/ CheckLink \/ CheckWaits \/ CheckAgain
  PROVE  PInv'
<1> USE DEF PInv
<1>1. /\ UNCHANGED <<dev, phy, losses, tse_phy_mdio_address, mac_type,
         pphy_info, pmac_info, is_init, link_capability, cmd_config, mac,
         prev, poll, common, want, result>>
      /\ pc \in {"lookup", "link", "check", "checked"}
      /\ pc' \in {"link", "check"}
  BY DEF FullMac, CheckLink, CheckWaits, CheckAgain
<1>2. /\ pc' = "link" => pc = "lookup" /\ pphy_info[mac] # None /\ i' = i
      /\ pc' = "check" => /\ pc \in {"link", "check", "checked"}
                          /\ pc = "link" => i' = 0 /\ mdio_addr' = pphy_info[mac]
                          /\ pc = "check" => i' = i + 1 /\ ~(i > Threshold) /\ mdio_addr' = mdio_addr
                          /\ pc = "checked" => i' = i /\ mdio_addr' = mdio_addr
      /\ inner' \in Addr /\ (pc # "link" => mdio_addr' = mdio_addr)
  BY DEF FullMac, CheckLink, CheckWaits, CheckAgain, Types
<1>3. working = pc /\ working' = pc'
  BY <1>1 DEF working
<1>4. mac \in Mac /\ (pphy_info[mac] # None => pphy_info[mac] \in Addr)
  BY DEF Types, Turns
<1>5. pphy_info[mac] # None
  BY <1>1, <1>2, <1>3 DEF Turns
<1>6. Types'
  BY <1>1, <1>2, <1>4, <1>5 DEF Types, Places
<1>7. Turns'
  BY <1>1, <1>2, <1>3, <1>4, <1>5, Constants DEF Turns, Setting
<1>8. Addressed'
  BY <1>1, <1>2, <1>3 DEF Addressed, Current
<1>9. MappedInv'
  BY <1>1, <1>3, SameMap DEF Scanning
<1>10. LimitedInv'
  BY <1>1, <1>3, NotLimited DEF Setting
<1> QED
  BY <1>1, <1>6, <1>7, <1>8, <1>9, <1>10, SameRegisters

\* The steps of getPHYSpeed that negotiate again.
LEMMA SpeedRestarts ==
  ASSUME PInv, SmallMac \/ CheckRestarts
  PROVE  PInv'
<1> USE DEF PInv
<1> DEFINE p == pphy_info[mac]
           S == IF mac_type[mac] = "10_100" THEN {2} ELSE {0, 1}
           f == IF pc = "lookup" THEN Silence(phy, p, S) ELSE phy
           then == IF pc = "lookup" THEN "link" ELSE "checked"
<1>1. /\ UNCHANGED <<dev, losses, tse_phy_mdio_address, mac_type, pphy_info,
         pmac_info, is_init, link_capability, cmd_config, mac, i, prev,
         inner, common, want, result>>
      /\ pc \in {"lookup", "check"}
      /\ RestartAn(f, p, mdio_addr, then)
      /\ pc = "lookup" => p # None
  BY DEF SmallMac, CheckRestarts
<1>2. working = pc
  BY <1>1 DEF working
<1>3. p # None
  BY <1>1, <1>2 DEF Turns
<1>4. p \in Addr /\ mdio_addr \in Addr
  BY <1>3 DEF Types, Turns
<1>5. /\ f \in [Addr -> Registers]
      /\ \A a \in Addr : /\ f[a].adv \subseteq dev[a].own
                         /\ f[a].an = "done" => f[a].link \in dev[a].own
                         /\ ~dev[a].able => f[a].an = "off"
  <2>1. CASE pc # "lookup"
    BY <2>1, Found
  <2>2. CASE pc = "lookup"
    <3> DEFINE A == {m \in phy[p].adv : m[1] \notin S}
    <3>1. phy \in [Addr -> Registers]
      BY DEF Types
    <3>2. A \subseteq phy[p].adv /\ A \in SUBSET Modes
      BY <1>4, <3>1 DEF Registers
    <3>3. f = [phy EXCEPT ![p].adv = A]
      BY <2>2 DEF Silence
    <3> HIDE DEF A, f
    <3>4. f \in [Addr -> Registers]
      BY <1>4, <3>1, <3>2, <3>3 DEF Registers
    <3>5. \A a \in Addr : /\ f[a].an = phy[a].an /\ f[a].link = phy[a].link
                          /\ f[a].adv \subseteq phy[a].adv
      BY <1>4, <3>1, <3>2, <3>3 DEF Registers
    <3> QED
      BY <3>4, <3>5, Found
  <2> QED
    BY <2>1, <2>2
<1>6. then \in {"configure", "link", "checked", "cap", "duplex"} /\ dev' = dev
  BY <1>1
<1> HIDE DEF f, then, PInv
<1>7. /\ phy' \in [Addr -> Registers]
      /\ \A a \in Addr : /\ phy'[a].adv \subseteq dev[a].own
                         /\ phy'[a].an = "done" => phy'[a].link \in dev[a].own
                         /\ ~dev[a].able => phy'[a].an = "off"
      /\ mdio_addr' \in Addr /\ poll' \in Polls /\ working' = then
      /\ \/ pc' = "poll" /\ poll'.then = then /\ poll'.prev = mdio_addr /\ mdio_addr' = p
         \/ pc' = then /\ mdio_addr' = mdio_addr
  BY <1>1, <1>4, <1>5, <1>6, Restart
<1> USE DEF PInv
<1>8. then = (IF pc = "lookup" THEN "link" ELSE "checked")
  BY DEF then
<1>9. Types'
  BY <1>1, <1>7, <1>8 DEF Types, Places
<1>10. Turns'
  <2>1. pc = "lookup" => i \in 0..Addresses
    BY DEF Turns
  <2>2. pc = "check" => i \in 0..(Threshold + 1)
    BY <1>2 DEF Turns
  <2>3. mac' \in Mac /\ pphy_info'[mac'] # None /\ i' = i
    BY <1>1, <1>3 DEF Turns
  <2> QED
    BY <1>1, <1>7, <1>8, <2>1, <2>2, <2>3 DEF Turns, Setting
<1>11. Negotiated'
  BY <1>1, <1>7 DEF Negotiated
<1>12. Addressed'
  <2>1. Current' = p
    BY <1>1, <1>7, <1>8 DEF Current
  <2>2. pc = "check" => mdio_addr = p
    BY <1>2 DEF Addressed, Current
  <2> QED
    BY <1>1, <1>7, <1>8, <2>1, <2>2 DEF Addressed
<1>13. MappedInv'
  BY <1>1, <1>2, <1>7, <1>8, SameMap DEF Scanning
<1>14. LimitedInv'
  BY <1>7, <1>8, NotLimited DEF Setting
<1> QED
  BY <1>9, <1>10, <1>11, <1>12, <1>13, <1>14

\* getPHYSpeed returns.
LEMMA SpeedReturns ==
  ASSUME PInv, NoPhy \/ CheckFails \/ ReadLink
  PROVE  PInv'
<1>1. /\ UNCHANGED <<dev, tse_phy_mdio_address, mac_type, pphy_info, pmac_info, is_init,
                     link_capability, cmd_config>>
      /\ pc \in {"lookup", "checked", "check"}
  BY DEF NoPhy, CheckFails, ReadLink
<1>2. \E r : Returns(r)
  BY DEF NoPhy, CheckFails, ReadLink
<1>3. ~Scanning /\ working = pc
  BY <1>1 DEF Scanning, working
<1>4. CASE NoPhy \/ CheckFails
  <2>1. phy' = phy /\ mdio_addr' \in Addr
    BY <1>4 DEF NoPhy, CheckFails, PInv, Types
  <2>2. Negotiated'
    BY <1>1, <2>1, SameRegisters
  <2> QED
    BY <1>1, <1>2, <1>3, <2>1, <2>2, ReturnStep DEF PInv, Types
<1>5. CASE ReadLink
  <2> DEFINE p == pphy_info[mac]
  <2>1. p \in Addr
    BY <1>5, <1>3 DEF ReadLink, PInv, Turns, Types
  <2>2. phy' = [phy EXCEPT ![p].loopback = FALSE] /\ mdio_addr' = p
    BY <1>5 DEF ReadLink
  <2>3. phy \in [Addr -> Registers]
    BY DEF PInv, Types
  <2>4. phy' \in [Addr -> Registers]
    BY <2>1, <2>2, <2>3 DEF Registers
  <2>5. \A a \in Addr : phy'[a].adv = phy[a].adv /\ phy'[a].an = phy[a].an /\ phy'[a].link = phy[a].link
    BY <2>1, <2>2, <2>3 DEF Registers
  <2>6. Negotiated'
    BY <1>1, <2>5 DEF PInv, Negotiated
  <2> QED
    BY <1>1, <1>2, <1>3, <2>1, <2>2, <2>4, <2>6, ReturnStep DEF PInv, Types
<1> QED
  BY <1>4, <1>5

\* alt_tse_mac_get_common_speed is called: every mapped PHY advertises all it can.
LEMMA GetCommonStep ==
  ASSUME PInv, GetCommonSpeed
  PROVE  PInv'
<1> USE DEF PInv
<1>1. /\ UNCHANGED <<dev, losses, mdio_addr, tse_phy_mdio_address, mac_type, pphy_info,
                    pmac_info, is_init, link_capability, cmd_config, mac, inner, poll, want>>
      /\ pc = "idle" /\ is_init /\ i' = 1 /\ prev' = mdio_addr /\ pc' = "get_common"
      /\ phy' = [a \in Addr |-> IF pmac_info[a] = None THEN phy[a]
                                ELSE [phy[a] EXCEPT !.adv = dev[a].own]]
  BY DEF GetCommonSpeed
<1>2. working = "idle" /\ working' = "get_common"
  BY <1>1 DEF working
<1>3. phy' \in [Addr -> Registers]
  <2>1. ASSUME NEW a \in Addr
        PROVE  [phy[a] EXCEPT !.adv = dev[a].own] \in Registers /\ phy[a] \in Registers
    BY PhyTypes DEF Registers
  <2> QED
    BY <1>1, <2>1
<1>4. Types'
  BY <1>1, <1>3 DEF Types, Places
<1>5. Turns'
  BY <1>1, <1>2, Constants DEF Turns, Setting
<1>6. Negotiated'
  <2>1. ASSUME NEW a \in Addr
        PROVE  /\ phy'[a].adv \in {phy[a].adv, dev[a].own}
               /\ phy'[a].an = phy[a].an /\ phy'[a].link = phy[a].link
    BY <1>1, PhyTypes DEF Registers
  <2> QED
    BY <1>1, <2>1 DEF Negotiated
<1>7. Addressed'
  BY <1>1, <1>2 DEF Addressed
<1>8. MappedInv'
  BY <1>1, <1>2, SameMap DEF Scanning
<1>9. LimitedInv'
  BY <1>2, NotLimited DEF Setting
<1> QED
  BY <1>4, <1>5, <1>6, <1>7, <1>8, <1>9

\* alt_tse_mac_get_common_speed goes past a MAC.
LEMMA CommonSkipsStep ==
  ASSUME PInv, CommonSkips
  PROVE  PInv'
<1> USE DEF PInv
<1>1. /\ UNCHANGED <<dev, phy, losses, mdio_addr, tse_phy_mdio_address, mac_type,
                    pphy_info, pmac_info, is_init, link_capability, cmd_config, pc, mac, prev,
                    inner, poll, common, want, result>>
      /\ pc = "get_common" /\ i \in Mac /\ i' = i + 1
  BY DEF CommonSkips
<1>2. working = "get_common" /\ working' = "get_common" /\ i' \in 1..(Channels + 1)
  BY <1>1, Constants DEF working, Mac
<1>3. Types'
  BY <1>1 DEF Types
<1>4. Turns'
  BY <1>1, <1>2 DEF Turns, Setting
<1>5. Addressed'
  BY <1>1, <1>2 DEF Addressed
<1>6. MappedInv'
  BY <1>1, <1>2, SameMap DEF Scanning
<1>7. LimitedInv'
  BY <1>2, NotLimited DEF Setting
<1> QED
  BY <1>1, <1>3, <1>4, <1>5, <1>6, <1>7, SameRegisters

\* alt_tse_phy_get_cap negotiates with every partner again.
LEMMA GetCapStep ==
  ASSUME PInv, GetCap
  PROVE  PInv'
<1> USE DEF PInv
<1> DEFINE p == pphy_info[i]
<1>1. /\ UNCHANGED <<dev, losses, tse_phy_mdio_address, mac_type, pphy_info, pmac_info,
                    is_init, link_capability, cmd_config, mac, i, prev, common, want, result>>
      /\ pc = "get_common" /\ i \in Mac /\ p # None /\ inner' = mdio_addr
      /\ RestartAn(phy, p, p, "cap")
  BY DEF GetCap
<1>2. p \in Addr /\ mdio_addr \in Addr /\ working = "get_common" /\ mdio_addr = prev
  BY <1>1 DEF Types, working, Addressed
<1>3. dev' = dev
  BY <1>1
<1> HIDE DEF PInv
<1>4. /\ phy' \in [Addr -> Registers]
      /\ \A a \in Addr : /\ phy'[a].adv \subseteq dev[a].own
                         /\ phy'[a].an = "done" => phy'[a].link \in dev[a].own
                         /\ ~dev[a].able => phy'[a].an = "off"
      /\ mdio_addr' \in Addr /\ poll' \in Polls /\ working' = "cap"
      /\ \/ pc' = "poll" /\ poll'.then = "cap" /\ poll'.prev = p /\ mdio_addr' = p
         \/ pc' = "cap" /\ mdio_addr' = p
  BY <1>1, <1>2, <1>3, Found, Restart
<1> USE DEF PInv
<1>5. Types'
  BY <1>1, <1>2, <1>4 DEF Types, Places
<1>6. Turns'
  BY <1>1, <1>4 DEF Turns, Setting
<1>7. Negotiated'
  BY <1>1, <1>4 DEF Negotiated
<1>8. Addressed'
  <2>1. Current' = p
    BY <1>1, <1>4 DEF Current
  <2> QED
    BY <1>1, <1>2, <1>4, <2>1 DEF Addressed
<1>9. MappedInv'
  BY <1>1, <1>2, <1>4, SameMap DEF Scanning
<1>10. LimitedInv'
  BY <1>4, NotLimited DEF Setting
<1> QED
  BY <1>5, <1>6, <1>7, <1>8, <1>9, <1>10

\* The capabilities are those of the PHY of this MAC.
LEMMA CapReadStep ==
  ASSUME PInv, CapRead
  PROVE  PInv'
<1> USE DEF PInv
<1> DEFINE cap == [own |-> dev[mdio_addr].own, partner |-> dev[mdio_addr].partner, read |-> TRUE]
<1>1. /\ UNCHANGED <<dev, phy, losses, tse_phy_mdio_address, mac_type, pphy_info,
                    pmac_info, is_init, cmd_config, mac, prev, inner, poll, want, result>>
      /\ pc = "cap" /\ mdio_addr' = inner /\ i' = i + 1 /\ pc' = "get_common"
      /\ link_capability' = [link_capability EXCEPT ![pphy_info[i]] = cap]
  BY DEF CapRead
<1>2. working = "cap" /\ working' = "get_common"
  BY <1>1 DEF working
<1>3. i \in Mac /\ mdio_addr = pphy_info[i] /\ mdio_addr \in Addr /\ inner = prev /\ inner \in Addr
  BY <1>1, <1>2 DEF Turns, Addressed, Current, Types
<1>4. cap \in Capabilities /\ cap.own = dev[mdio_addr].own
  BY <1>3, PhyTypes DEF Capabilities
<1> HIDE DEF cap
<1>5. link_capability' = [link_capability EXCEPT ![mdio_addr] = cap]
  BY <1>1, <1>3
<1>6. Types'
  <2>1. link_capability' \in [Addr -> Capabilities]
    BY <1>3, <1>4, <1>5 DEF Types
  <2> QED
    BY <1>1, <1>3, <2>1 DEF Types, Places
<1>7. Turns'
  <2>1. i' \in 1..(Channels + 1)
    BY <1>1, <1>3, Constants DEF Mac
  <2> QED
    BY <1>1, <1>2, <2>1 DEF Turns, Setting
<1>8. Negotiated'
  <2>1. \A a \in Addr : link_capability'[a] = IF a = mdio_addr THEN cap ELSE link_capability[a]
    BY <1>3, <1>5 DEF Types
  <2> QED
    BY <1>1, <1>4, <2>1 DEF Negotiated
<1>9. Addressed'
  BY <1>1, <1>2, <1>3 DEF Addressed
<1>10. MappedInv'
  BY <1>1, <1>2, SameMap DEF Scanning
<1>11. LimitedInv'
  BY <1>2, NotLimited DEF Setting
<1> QED
  BY <1>6, <1>7, <1>8, <1>9, <1>10, <1>11

LEMMA CommonReturnsStep ==
  ASSUME PInv, CommonReturns
  PROVE  PInv'
<1>1. /\ UNCHANGED <<dev, phy, losses, mdio_addr, tse_phy_mdio_address, mac_type, pphy_info,
                     pmac_info, is_init, link_capability, cmd_config>>
      /\ pc = "get_common" /\ \E r : Returns(r)
  BY DEF CommonReturns
<1>2. ~Scanning
  BY <1>1 DEF Scanning, working
<1>3. Negotiated'
  BY <1>1, SameRegisters
<1> QED
  BY <1>1, <1>2, <1>3, ReturnStep DEF PInv, Types

-----------------------------------------------------------------------------
(* alt_tse_mac_set_common_speed                                            *)

LEMMA SetCommonStep ==
  ASSUME PInv, NEW s, SetCommonSpeed(s)
  PROVE  PInv'
<1> USE DEF PInv
<1>1. /\ UNCHANGED <<dev, phy, losses, mdio_addr, tse_phy_mdio_address, mac_type, pphy_info,
                     pmac_info, is_init, link_capability, cmd_config>>
      /\ pc = "idle" /\ is_init
  BY DEF SetCommonSpeed
<1>2. Negotiated' /\ ~Scanning
  BY <1>1, SameRegisters DEF Scanning, working
<1>3. CASE s \in Speeds
  <2>1. /\ want' = s /\ prev' = mdio_addr /\ i' = 1 /\ pc' = "set_common"
        /\ UNCHANGED <<mac, inner, poll, common>>
    BY <1>3 DEF SetCommonSpeed
  <2>2. working' = "set_common"
    BY <2>1 DEF working
  <2>3. Types'
    BY <1>1, <2>1 DEF Types, Places
  <2>4. Turns'
    BY <1>1, <1>3, <2>1, <2>2, Constants DEF Turns, Setting
  <2>5. Addressed'
    BY <2>1, <2>2 DEF Addressed
  <2>6. MappedInv'
    BY <1>1, <1>2, <2>2, SameMap DEF Scanning
  <2>7. LimitedInv'
    <3>1. \A m \in Mac : ~(m < i') /\ ~(working' = "duplex")
      BY <2>1, <2>2, Constants DEF Mac
    <3> QED
      BY <3>1 DEF LimitedInv
  <2> QED
    BY <1>2, <2>3, <2>4, <2>5, <2>6, <2>7
<1>4. CASE s \notin Speeds
  <2>1. Returns(Read(NoCommon, Full))
    BY <1>4 DEF SetCommonSpeed
  <2>2. /\ mdio_addr' \in Addr /\ phy' \in [Addr -> Registers]
        /\ cmd_config' \in [speed : Speeds \cup {None}, half : [Mac -> BOOLEAN]]
    BY <1>1 DEF Types
  <2> HIDE DEF PInv
  <2> QED
    BY <1>1, <1>2, <2>1, <2>2, ReturnStep
<1> QED
  BY <1>3, <1>4

\* The next MAC: the link of this one is bounded, or the driver cannot know it.
LEMMA LimitsNext ==
  ASSUME PInv, pc = "set_common" \/ pc = "duplex", i \in Mac,
         UNCHANGED <<dev, pphy_info, link_capability, want>>,
         i' = i + 1, working' = "set_common",
         \A m \in Mac : m < i /\ pphy_info[m] # None /\ Limited(phy[pphy_info[m]], want)
                          => Limited(phy'[pphy_info[m]], want),
         Known(i) /\ dev[pphy_info[i]].able => Limited(phy'[pphy_info[i]], want)
  PROVE  LimitedInv'
<1>1. Setting
  BY DEF Setting, working
<1>2. ASSUME NEW m \in Mac, Known(m), dev[pphy_info[m]].able, m < i
      PROVE  Limited(phy'[pphy_info[m]], want)
  <2>1. Limited(phy[pphy_info[m]], want) /\ pphy_info[m] # None
    BY <1>1, <1>2 DEF PInv, LimitedInv, Known
  <2> QED
    BY <1>2, <2>1
<1>3. \A m \in Mac : Known(m)' = Known(m)
  BY DEF Known
<1>4. \A m \in Mac : m < i' => m < i \/ m = i
  BY Constants DEF Mac
<1>5. ASSUME NEW m \in Mac, Known(m), dev[pphy_info[m]].able, m < i'
      PROVE  Limited(phy'[pphy_info[m]], want)
  BY <1>2, <1>4, <1>5
<1>6. \A m \in Mac : Known(m)' /\ dev'[pphy_info'[m]].able /\ m < i' => Limited(phy'[pphy_info'[m]], want')
  BY <1>3, <1>5
<1> QED
  BY <1>6 DEF LimitedInv, Limited

LEMMA SetSkipsStep ==
  ASSUME PInv, SetSkips
  PROVE  PInv'
<1>1. /\ UNCHANGED <<dev, phy, losses, mdio_addr, tse_phy_mdio_address, mac_type,
                    pphy_info, pmac_info, is_init, link_capability, cmd_config, pc, mac, prev,
                    inner, poll, common, want, result>>
      /\ pc = "set_common" /\ i \in Mac /\ pphy_info[i] = None /\ i' = i + 1
  BY DEF SetSkips
<1>2. working = "set_common" /\ working' = "set_common" /\ i' \in 1..(Channels + 1)
  BY <1>1, Constants DEF working, Mac
<1>3. Types'
  BY <1>1 DEF PInv, Types
<1>4. Turns'
  BY <1>1, <1>2 DEF PInv, Turns, Setting
<1>5. Addressed'
  BY <1>1, <1>2 DEF Addressed
<1>6. MappedInv'
  BY <1>1, <1>2, SameMap DEF Scanning
<1>7. LimitedInv'
  <2>1. ~Known(i)
    BY <1>1 DEF Known
  <2> QED
    BY <1>1, <1>2, <2>1, LimitsNext
<1>8. Negotiated'
  BY <1>1, SameRegisters
<1> QED
  BY <1>3, <1>4, <1>5, <1>6, <1>7, <1>8 DEF PInv

\* The PHY cannot do the speed that is asked for.
LEMMA SetRefusedStep ==
  ASSUME PInv, pc = "set_common", NEW gb, SetRefused(gb)
  PROVE  PInv'
<1>1. /\ UNCHANGED <<dev, phy, losses, tse_phy_mdio_address, mac_type, pphy_info,
                     pmac_info, is_init, link_capability, cmd_config>>
      /\ mdio_addr' = prev /\ Returns(Read(NoCommon, Full))
  BY DEF SetRefused
<1>2. ~Scanning
  BY DEF Scanning, working
<1>3. Negotiated'
  BY <1>1, SameRegisters
<1> QED
  BY <1>1, <1>2, <1>3, ReturnStep DEF PInv, Types

LEMMA ForcedBits ==
  ASSUME NEW old \in 0..3, NEW s \in Speeds, NEW gb
  PROVE  Forced(old, s, gb) \in 0..3
BY SMTT(30) DEF Forced, Speeds

\* A PHY that cannot negotiate is told its speed.
LEMMA SetForcedStep ==
  ASSUME PInv, pc = "set_common", i \in Mac, pphy_info[i] # None, NEW gb,
         SetForced(pphy_info[i], gb)
  PROVE  PInv'
<1> DEFINE p == pphy_info[i]
<1>1. /\ UNCHANGED <<dev, losses, tse_phy_mdio_address, mac_type, pphy_info, pmac_info,
                    is_init, link_capability, cmd_config, pc, mac, prev, inner, poll, common, want,
                    result>>
      /\ ~dev[p].able /\ mdio_addr' = p /\ i' = i + 1
      /\ phy' = [phy EXCEPT ![p].forced = Forced(@, want, gb)]
  BY DEF SetForced
<1>2. p \in Addr /\ phy \in [Addr -> Registers]
  BY DEF PInv, Types
<1>3. working = "set_common" /\ working' = "set_common" /\ i' \in 1..(Channels + 1)
  BY <1>1, Constants DEF working, Mac
<1>4. want \in Speeds /\ phy[p].forced \in 0..3
  BY <1>2, <1>3 DEF PInv, Turns, Setting, Registers
<1>5. phy' \in [Addr -> Registers]
  <2>1. Forced(phy[p].forced, want, gb) \in 0..3
    BY <1>4, ForcedBits
  <2> QED
    BY <1>1, <1>2, <2>1 DEF Registers
<1>6. \A a \in Addr : phy'[a].adv = phy[a].adv /\ phy'[a].an = phy[a].an /\ phy'[a].link = phy[a].link
  BY <1>1, <1>2 DEF Registers
<1>7. Types'
  BY <1>1, <1>2, <1>5 DEF PInv, Types
<1>8. Turns'
  BY <1>1, <1>3 DEF PInv, Turns, Setting
<1>9. Negotiated'
  BY <1>1, <1>6 DEF PInv, Negotiated
<1>10. Addressed'
  BY <1>1, <1>3 DEF Addressed
<1>11. MappedInv'
  BY <1>1, <1>3, SameMap DEF Scanning
<1>12. LimitedInv'
  <2>1. \A m \in Mac : pphy_info[m] # None => pphy_info[m] \in Addr
    BY MapState
  <2>2. \A a \in Addr : Limited(phy[a], want) => Limited(phy'[a], want)
    BY <1>1, <1>6 DEF Limited
  <2> QED
    BY <1>1, <1>3, <2>1, <2>2, LimitsNext
<1> QED
  BY <1>7, <1>8, <1>9, <1>10, <1>11, <1>12 DEF PInv

\* What the driver takes for the ability to do 1000 Mbps is right where it is known.
LEMMA KnownSpeed ==
  ASSUME PInv, NEW m \in Mac, Known(m), NEW gb \in GbCapable(pphy_info[m]),
         phy[pphy_info[m]].an = "done", want \in SpeedBits(pphy_info[m], gb)
  PROVE  phy[pphy_info[m]].link[1] = want
<1> DEFINE p == pphy_info[m]
<1>1. p \in Addr /\ dev[p].profile = "status" /\ link_capability[p].read
  BY DEF PInv, Types, Known
<1>2. phy[p].link \in dev[p].own /\ link_capability[p].own = dev[p].own /\ phy[p].link[1] \in 0..2
  <2>1. phy[p].link \in Speeds \X {Half, Full}
    BY <1>1, PhyTypes DEF Registers, Modes
  <2> QED
    BY <1>1, <2>1 DEF PInv, Negotiated, Speeds
<1>3. gb = (\E q \in link_capability[p].own : q[1] = 2)
  BY <1>1 DEF GbCapable
<1>4. want = (IF gb THEN phy[p].link[1] ELSE phy[p].link[1] % 2)
  BY <1>1 DEF SpeedBits
<1>5. CASE gb
  BY <1>4, <1>5
<1>6. CASE ~gb
  <2>1. phy[p].link[1] # 2
    BY <1>2, <1>3, <1>6
  <2>2. phy[p].link[1] = 0 \/ phy[p].link[1] = 1
    BY <1>2, <2>1
  <2>3. 0 % 2 = 0 /\ 1 % 2 = 1
    OBVIOUS
  <2> QED
    BY <1>4, <1>6, <2>2, <2>3
<1> QED
  BY <1>5, <1>6

\* A PHY that can: it advertises up to the speed that is set, and negotiates
\* again when its link has another one.
LEMMA SetNegotiatedStep ==
  ASSUME PInv, pc = "set_common", i \in Mac, pphy_info[i] # None,
         NEW gb \in GbCapable(pphy_info[i]), SetNegotiated(pphy_info[i], gb)
  PROVE  PInv'
<1> DEFINE p == pphy_info[i]
           f == Advertise(phy, p, UpTo(want))
           Over == /\ pc' = "duplex" \/ (pc' = "poll" /\ poll'.then = "duplex" /\ poll'.prev = p)
                   /\ i' = i /\ working' = "duplex"
           Stays == pc' = "set_common" /\ i' = i + 1 /\ working' = "set_common"
<1>1. /\ UNCHANGED <<dev, losses, tse_phy_mdio_address, mac_type, pphy_info, pmac_info,
                    is_init, link_capability, cmd_config, mac, prev, inner, common, want, result>>
      /\ dev[p].able
  BY DEF SetNegotiated
<1>2. \/ phy[p].an # "done" /\ phy' = f /\ mdio_addr' = p /\ i' = i + 1 /\ UNCHANGED <<pc, poll>>
      \/ RestartAn(f, p, p, "duplex") /\ i' = i
      \/ /\ phy[p].an = "done" /\ want \in SpeedBits(p, gb)
         /\ phy' = f /\ mdio_addr' = p /\ pc' = "duplex" /\ UNCHANGED <<i, poll>>
  BY DEF SetNegotiated
<1>3. p \in Addr /\ working = "set_common" /\ i \in 1..Channels /\ want \in 0..2
  BY DEF PInv, Types, working, Mac, Turns, Setting, Speeds
<1>4. /\ f \in [Addr -> Registers]
      /\ \A a \in Addr : /\ f[a].adv \subseteq dev[a].own
                         /\ f[a].an = phy[a].an /\ f[a].link = phy[a].link
                         /\ f[a].an = "done" => f[a].link \in dev[a].own
                         /\ ~dev[a].able => f[a].an = "off"
                         /\ a # p => f[a] = phy[a]
      /\ \A m \in f[p].adv : m[1] \in UpTo(want)
  BY <1>3, Found, Advertised
<1> HIDE DEF f
<1>5. dev' = dev /\ \A m \in f[p].adv : m[1] <= want
  BY <1>1, <1>3, <1>4 DEF UpTo
<1>6. /\ phy' \in [Addr -> Registers]
      /\ \A a \in Addr : /\ phy'[a].adv = f[a].adv /\ phy'[a].link = f[a].link
                         /\ a # p => phy'[a] = phy[a]
                         /\ phy'[a].adv \subseteq dev[a].own
                         /\ phy'[a].an = "done" => phy'[a].link \in dev[a].own
                         /\ ~dev[a].able => phy'[a].an = "off"
      /\ mdio_addr' = p /\ poll' \in Polls
      /\ phy'[p].an = "done" => Over /\ phy[p].an = "done" /\ want \in SpeedBits(p, gb)
      /\ Over \/ Stays
  <2>1. CASE RestartAn(f, p, p, "duplex") /\ i' = i
    <3>1. /\ phy' \in [Addr -> Registers]
          /\ \A a \in Addr : /\ phy'[a].adv = f[a].adv /\ phy'[a].link = f[a].link
                             /\ a # p => phy'[a] = f[a]
                             /\ phy'[a].adv \subseteq dev[a].own
                             /\ phy'[a].an = "done" => phy'[a].link \in dev[a].own
                             /\ ~dev[a].able => phy'[a].an = "off"
          /\ dev[p].able => phy'[p].an = "running"
          /\ mdio_addr' \in Addr /\ poll' \in Polls /\ working' = "duplex"
          /\ \/ pc' = "poll" /\ poll'.then = "duplex" /\ poll'.prev = p /\ mdio_addr' = p
             \/ pc' = "duplex" /\ mdio_addr' = p
      BY <1>3, <1>4, <1>5, <2>1, Restart
    <3> QED
      BY <1>1, <1>4, <2>1, <3>1
  <2>2. CASE phy' = f /\ mdio_addr' = p /\ poll' = poll
    <3>1. poll' \in Polls /\ phy'[p].an = phy[p].an
      BY <1>3, <1>4, <2>2 DEF PInv, Types
    <3>2. CASE phy[p].an # "done" /\ i' = i + 1 /\ UNCHANGED <<pc, poll>>
      <4>1. Stays
        BY <3>2 DEF working
      <4> QED
        BY <1>4, <2>2, <3>1, <3>2, <4>1
    <3>3. CASE phy[p].an = "done" /\ want \in SpeedBits(p, gb) /\ pc' = "duplex" /\ i' = i
      <4>1. Over
        BY <3>3 DEF working
      <4> QED
        BY <1>4, <2>2, <3>1, <3>3, <4>1
    <3> QED
      BY <1>2, <2>1, <2>2, <3>2, <3>3
  <2> QED
    BY <1>2, <2>1, <2>2
<1>7. Types'
  BY <1>1, <1>3, <1>6 DEF PInv, Types, Places
<1>8. Turns'
  <2>1. i' \in 1..(Channels + 1) /\ i \in Mac /\ pphy_info'[i] # None /\ mac' \in Mac /\ want' \in Speeds
    BY <1>1, <1>3, <1>6, Constants DEF PInv, Turns, Speeds
  <2> QED
    BY <1>1, <1>6, <2>1 DEF Turns, Setting
<1>9. Negotiated'
  BY <1>1, <1>6 DEF PInv, Negotiated
<1>10. Addressed'
  <2>1. Over => Current' = p
    BY <1>1 DEF Current, working
  <2> QED
    BY <1>6, <2>1 DEF Addressed
<1>11. MappedInv'
  BY <1>1, <1>3, <1>6, SameMap DEF Scanning
<1>12. Known(i) /\ phy'[p].an = "done" => phy'[p].link[1] = want
  BY <1>3, <1>4, <1>6, KnownSpeed
<1>13. Known(i) => Limited(phy'[p], want)
  BY <1>1, <1>3, <1>5, <1>6, <1>12 DEF Limited
<1>14. ASSUME NEW m \in Mac, m < i, pphy_info[m] # None
       PROVE  phy'[pphy_info[m]] = phy[pphy_info[m]]
  <2>1. m # i
    BY <1>3, <1>14 DEF Mac
  <2>2. pphy_info[m] # p /\ pphy_info[m] \in Addr
    BY <1>14, <2>1, MapState
  <2> QED
    BY <1>6, <2>2
<1>15. LimitedInv'
  <2>1. CASE Stays
    BY <1>1, <1>13, <1>14, <2>1, LimitsNext
  <2>2. CASE Over
    <3>1. ASSUME NEW m \in Mac, Known(m), dev[pphy_info[m]].able, m < i
          PROVE  Limited(phy'[pphy_info[m]], want)
      <4>1. Limited(phy[pphy_info[m]], want) /\ pphy_info[m] # None
        BY <1>3, <3>1 DEF PInv, LimitedInv, Known, Setting
      <4> QED
        BY <1>1, <1>14, <3>1, <4>1 DEF Limited
    <3>2. \A m \in Mac : Known(m)' = Known(m)
      BY <1>1 DEF Known
    <3>3. ASSUME NEW m \in Mac, Known(m), dev[pphy_info[m]].able, m < i \/ m = i
          PROVE  Limited(phy'[pphy_info[m]], want)
      <4>1. CASE m < i
        BY <3>1, <3>3, <4>1
      <4>2. CASE m = i
        BY <1>13, <3>3, <4>2 DEF Limited
      <4> QED
        BY <3>3, <4>1, <4>2
    <3>4. \A m \in Mac : Known(m)' /\ dev'[pphy_info'[m]].able /\ (m < i' \/ m = i')
                            => Limited(phy'[pphy_info'[m]], want')
      BY <1>1, <2>2, <3>2, <3>3
    <3> QED
      BY <3>4 DEF LimitedInv, Limited
  <2> QED
    BY <1>6, <2>1, <2>2
<1> QED
  BY <1>7, <1>8, <1>9, <1>10, <1>11, <1>15 DEF PInv

\* A PHY is told the common speed.
LEMMA SetPhyStep ==
  ASSUME PInv, SetPhy
  PROVE  PInv'
<1>1. pc = "set_common" /\ i \in Mac /\ pphy_info[i] # None
  BY DEF SetPhy
<1>2. PICK gb \in GbCapable(pphy_info[i]) :
        SetRefused(gb) \/ SetForced(pphy_info[i], gb) \/ SetNegotiated(pphy_info[i], gb)
  BY DEF SetPhy
<1> QED
  BY <1>1, <1>2, SetRefusedStep, SetForcedStep, SetNegotiatedStep

\* The MAC of a PHY gets the duplex mode of its link.
LEMMA SetDuplexStep ==
  ASSUME PInv, SetDuplex
  PROVE  PInv'
<1>1. /\ UNCHANGED <<dev, phy, losses, mdio_addr, tse_phy_mdio_address, mac_type,
                    pphy_info, pmac_info, is_init, link_capability, mac, prev, inner, poll, common,
                    want, result>>
      /\ pc = "duplex" /\ i' = i + 1 /\ pc' = "set_common"
  BY DEF SetDuplex
<1>2. PICK duplex \in DuplexBits(mdio_addr) :
        cmd_config' = [cmd_config EXCEPT !.half[i] = (duplex = Half)]
  BY DEF SetDuplex, DuplexMac
<1>3. working = "duplex" /\ working' = "set_common"
  BY <1>1 DEF working
<1>4. i \in Mac /\ pphy_info[i] # None /\ mac \in Mac /\ want \in Speeds
  BY <1>1, <1>3 DEF PInv, Turns, Setting
<1>5. i' \in 1..(Channels + 1)
  BY <1>1, <1>4, Constants DEF Mac
<1>6. cmd_config' \in [speed : Speeds \cup {None}, half : [Mac -> BOOLEAN]]
  <2>1. cmd_config \in [speed : Speeds \cup {None}, half : [Mac -> BOOLEAN]] /\ (duplex = Half) \in BOOLEAN
    BY DEF PInv, Types
  <2>2. [cmd_config.half EXCEPT ![i] = (duplex = Half)] \in [Mac -> BOOLEAN]
    BY <2>1
  <2> QED
    BY <1>2, <2>1, <2>2
<1>7. Types'
  BY <1>1, <1>6 DEF PInv, Types, Places
<1>8. Turns'
  BY <1>1, <1>3, <1>4, <1>5 DEF Turns, Setting
<1>9. Negotiated'
  BY <1>1, SameRegisters
<1>10. Addressed'
  BY <1>1, <1>3 DEF Addressed
<1>11. MappedInv'
  BY <1>1, <1>3, SameMap DEF Scanning
<1>12. LimitedInv'
  <2>1. \A m \in Mac : Known(m) /\ dev[pphy_info[m]].able /\ m = i => Limited(phy[pphy_info[m]], want)
    BY <1>3 DEF PInv, LimitedInv, Setting
  <2>2. Known(i) /\ dev[pphy_info[i]].able => Limited(phy'[pphy_info[i]], want)
    BY <1>1, <1>4, <2>1 DEF Limited
  <2>3. \A m \in Mac : phy'[pphy_info[m]] = phy[pphy_info[m]]
    BY <1>1
  <2> QED
    BY <1>1, <1>3, <1>4, <2>2, <2>3, LimitsNext
<1> QED
  BY <1>7, <1>8, <1>9, <1>10, <1>11, <1>12 DEF PInv

LEMMA SetReturnsStep ==
  ASSUME PInv, SetReturns
  PROVE  PInv'
<1>1. /\ UNCHANGED <<dev, phy, losses, tse_phy_mdio_address, mac_type, pphy_info,
                     pmac_info, is_init, link_capability>>
      /\ pc = "set_common" /\ mdio_addr' = prev /\ Returns(Read(want, Full))
      /\ cmd_config' = [cmd_config EXCEPT !.speed = want]
  BY DEF SetReturns
<1>2. working = "set_common" /\ ~Scanning
  BY <1>1 DEF Scanning, working
<1>3. want \in Speeds
  BY <1>2 DEF PInv, Turns, Setting
<1>4. cmd_config' \in [speed : Speeds \cup {None}, half : [Mac -> BOOLEAN]]
  BY <1>1, <1>3 DEF PInv, Types
<1>5. Negotiated'
  BY <1>1, SameRegisters
<1>6. mdio_addr' \in Addr /\ phy' \in [Addr -> Registers]
  BY <1>1 DEF PInv, Types
<1> QED
  BY <1>1, <1>2, <1>4, <1>5, <1>6, ReturnStep

-----------------------------------------------------------------------------
(* The invariant and the properties.                                       *)

LEMMA PhyStart == Init => PInv
<1> SUFFICES ASSUME Init PROVE PInv
  OBVIOUS
<1> USE DEF Init, Locals
<1>1. working = "idle" /\ ~Scanning /\ ~Setting
  BY DEF working, Scanning, Setting
<1>2. ASSUME NEW a \in Addr
      PROVE  /\ dev[a] \in [profile : Profiles, able : BOOLEAN, own : SUBSET Modes, partner : SUBSET Modes]
             /\ phy[a] \in Registers /\ phy[a].adv \subseteq dev[a].own
             /\ phy[a].an # "done" /\ (~dev[a].able => phy[a].an = "off")
  <2>1. dev[a] \in [profile : Profiles, able : BOOLEAN, own : SUBSET Modes, partner : SUBSET Modes]
    BY PhyAssumption DEF PhyAssumption
  <2>2. <<0, Half>> \in Modes /\ 0 \in 0..3
    BY DEF Modes, Speeds, Half
  <2>3. CASE dev[a].able
    <3>1. phy[a] = [adv |-> dev[a].own, loopback |-> TRUE, an |-> "running",
                    link |-> <<0, Half>>, forced |-> 0]
      BY <2>3
    <3> QED
      BY <2>1, <2>2, <2>3, <3>1 DEF Registers
  <2>4. CASE ~dev[a].able
    <3>1. phy[a] = [adv |-> {}, loopback |-> FALSE, an |-> "off", link |-> <<0, Half>>, forced |-> 0]
      BY <2>4
    <3> QED
      BY <2>1, <2>2, <2>4, <3>1 DEF Registers
  <2> QED
    BY <2>3, <2>4
<1>3. Unread \in Capabilities /\ Idle \in Polls /\ ~Unread.read
  BY Constants DEF Unread, Capabilities, Idle, Polls
<1>4. Types
  <2>1. phy \in [Addr -> Registers]
    BY <1>2
  <2>2. tse_phy_mdio_address \in [Mac -> Addr \cup {AUTO_ADDRESS}]
    BY PhyAssumption DEF PhyAssumption
  <2>3. cmd_config \in [speed : Speeds \cup {None}, half : [Mac -> BOOLEAN]]
    OBVIOUS
  <2> QED
    BY <1>3, <2>1, <2>2, <2>3, Constants DEF Types, Places
<1>5. Turns
  BY <1>1, Constants DEF Turns
<1>6. Negotiated
  BY <1>2, <1>3 DEF Negotiated
<1>7. Addressed
  BY <1>1 DEF Addressed
<1>8. MappedInv
  <2>1. \A m, n \in Mac : m # n /\ tse_phy_mdio_address[m] = tse_phy_mdio_address[n]
                           => tse_phy_mdio_address[m] = AUTO_ADDRESS
    BY PhyAssumption DEF PhyAssumption
  <2> QED
    BY <1>1, <2>1 DEF MappedInv
<1>9. LimitedInv
  BY <1>1 DEF LimitedInv
<1> QED
  BY <1>4, <1>5, <1>6, <1>7, <1>8, <1>9 DEF PInv

LEMMA PhyStep == PInv /\ [Next]_vars => PInv'
<1> SUFFICES ASSUME PInv, [Next]_vars PROVE PInv'
  OBVIOUS
<1>1. CASE UNCHANGED vars
  BY <1>1 DEF vars, PInv, Types, Turns, Setting, Negotiated, Addressed, MappedInv, LimitedInv,
              Limited, Known, Current, Scanning, Present, working
<1>2. CASE Call
  BY <1>2, GetSpeedStep, GetCommonStep, SetCommonStep DEF Call
<1>3. CASE Links
  BY <1>3, LinksStep
<1>4. CASE Scan
  BY <1>4, ScanNextStep, ScanMappedStep, ConfigureStep, ScanEndStep DEF Scan
<1>5. CASE PollAn
  BY <1>5, PollStep
<1>6. CASE Speed
  BY <1>6, SpeedGoesOn, SpeedRestarts, SpeedReturns DEF Speed
<1>7. CASE GetCommon
  BY <1>7, CommonSkipsStep, GetCapStep, CapReadStep, CommonReturnsStep DEF GetCommon
<1>8. CASE SetCommon
  BY <1>8, SetSkipsStep, SetPhyStep, SetDuplexStep, SetReturnsStep DEF SetCommon
<1> QED
  BY <1>1, <1>2, <1>3, <1>4, <1>5, <1>6, <1>7, <1>8 DEF Next, Driver

LEMMA PhyInductive == Spec => []PInv
BY PhyStart, PhyStep, PTL DEF Spec

LEMMA PhyImplies == PInv => PhyInv
<1> SUFFICES ASSUME PInv PROVE PhyInv
  OBVIOUS
<1> USE DEF PInv
<1>1. TypeOK
  <2>1. \A a \in Addr : /\ phy[a].adv \subseteq Modes /\ phy[a].link \in Modes
                        /\ phy[a].forced \in 0..3 /\ phy[a].an \in {"off", "running", "done"}
    BY DEF Types, Registers
  <2>2. cmd_config.speed \in Speeds \cup {None}
    BY DEF Types
  <2>3. poll.then \in Places /\ poll.polls \in 0..(Threshold + 1)
    BY DEF Types, Polls, Places
  <2>4. i \in 0..(Addresses + Channels + Threshold)
    <3>1. i \in 0..Addresses \/ i \in 0..(Threshold + 1) \/ i \in 0..(Channels + 1)
      BY Constants DEF Types, Turns, working, Polls, Places, Addr, Mac
    <3> QED
      BY <3>1, Constants
  <2> QED
    BY <2>1, <2>2, <2>3, <2>4 DEF TypeOK, Types
<1>2. RightPhyAnswers
  BY DEF RightPhyAnswers, Addressed
<1>3. Mapped
  <2>1. ASSUME pc = "scan", NEW a \in 0..(i - 1), Present(a), pmac_info[a] = None
        PROVE  \A m \in Mac : tse_phy_mdio_address[m] \notin {a, AUTO_ADDRESS}
    <3>1. i \in 0..Addresses /\ a < i /\ a \in Addr
      BY <2>1, Constants DEF Turns, Addr
    <3>2. Scanning
      BY <2>1 DEF Scanning, working
    <3> QED
      BY <2>1, <3>1, <3>2, ScanState
  <2> QED
    BY <2>1, MapState DEF Mapped
<1> QED
  BY <1>1, <1>2, <1>3 DEF PhyInv

\* The types; the PHY that answers is the one the function was called for,
\* whatever is nested; and MACs and PHYs are in one-to-one correspondence, in
\* whatever order PHYs are found.
THEOREM RightPhy == Spec => []PhyInv
BY PhyInductive, PhyImplies, PTL

\* Where a step of the driver returns to.
LEMMA Leaves ==
  ASSUME PInv, Next
  PROVE  /\ pc = "scan" /\ i = Addresses /\ pc' = "lookup" => mdio_addr' = prev
         /\ pc = "get_common" /\ pc' = "idle" => CommonReturns
         /\ pc = "set_common" /\ pc' = "idle"
              => SetReturns \/ \E gb \in BOOLEAN : SetRefused(gb) /\ pc = "set_common"
<1>1. CASE Links \/ PollAn \/ Call
  <2>1. pc' = pc \/ pc \in {"poll", "idle"}
    BY <1>1 DEF Links, PollAn, Call, GetPHYSpeed, GetCommonSpeed, SetCommonSpeed
  <2> QED
    BY <2>1
<1>2. CASE Scan
  <2>1. i = Addresses => i \notin Addr
    BY Constants DEF Addr
  <2>2. ScanMapped => i \in Addr
    BY DEF ScanMapped
  <2>3. pc \in {"scan", "configure"}
    BY <1>2 DEF Scan, ScanNext, ScanMapped, Configure, ScanDone, ScanFails
  <2>4. i = Addresses /\ pc = "scan" => ScanDone
    BY <1>2, <2>1 DEF Scan, ScanNext, ScanMapped, Configure, ScanFails
  <2> QED
    BY <2>3, <2>4 DEF ScanDone
<1>3. CASE Speed
  <2>1. pc \in {"lookup", "link", "check", "checked"}
    BY <1>3 DEF Speed, NoPhy, SmallMac, FullMac, CheckLink, CheckWaits, CheckRestarts, CheckAgain,
                CheckFails, ReadLink
  <2> QED
    BY <2>1
<1>4. CASE GetCommon
  <2>1. pc \in {"get_common", "cap"} /\ (pc' = "idle" => CommonReturns)
    BY <1>4 DEF GetCommon, CommonSkips, GetCap, CapRead, CommonReturns, RestartAn
  <2> QED
    BY <2>1
<1>5. CASE SetCommon
  <2>1. pc \in {"set_common", "duplex"}
    BY <1>5 DEF SetCommon, SetSkips, SetPhy, SetDuplex, SetReturns
  <2>2. SetSkips \/ SetDuplex => pc' = "set_common"
    BY DEF SetSkips, SetDuplex
  <2>3. ASSUME SetPhy, pc' = "idle" PROVE \E gb \in BOOLEAN : SetRefused(gb) /\ pc = "set_common"
    <3>1. PICK gb \in GbCapable(pphy_info[i]) :
            SetRefused(gb) \/ SetForced(pphy_info[i], gb) \/ SetNegotiated(pphy_info[i], gb)
      BY <2>3 DEF SetPhy
    <3>2. pc = "set_common" /\ gb \in BOOLEAN
      BY <2>3 DEF SetPhy, GbCapable
    <3>3. ~SetForced(pphy_info[i], gb)
      BY <2>3, <3>2 DEF SetForced
    <3>4. ~SetNegotiated(pphy_info[i], gb)
      BY <2>3, <3>2 DEF SetNegotiated, RestartAn
    <3> QED
      BY <3>1, <3>2, <3>3, <3>4
  <2> QED
    BY <1>5, <2>1, <2>2, <2>3 DEF SetCommon
<1> QED
  BY <1>1, <1>2, <1>3, <1>4, <1>5 DEF Next, Driver

\* The functions that record MDIO_ADDR1 to restore it at their end do restore it.
THEOREM AddressRestored == Spec => Restores
<1> DEFINE Kept == \/ pc = "scan" /\ i = Addresses /\ pc' = "lookup"
                   \/ pc \in {"get_common", "set_common"} /\ pc' = "idle"
                   => mdio_addr' = prev
<1>1. PInv /\ [Next]_vars => [Kept]_vars
  <2> SUFFICES ASSUME PInv, Next PROVE Kept
    OBVIOUS
  <2>1. CommonReturns => mdio_addr' = prev
    <3>1. pc = "get_common" => mdio_addr = prev
      BY DEF PInv, Addressed
    <3> QED
      BY <3>1 DEF CommonReturns
  <2>2. SetReturns => mdio_addr' = prev
    BY DEF SetReturns
  <2>3. \A gb \in BOOLEAN : SetRefused(gb) => mdio_addr' = prev
    BY DEF SetRefused
  <2> QED
    BY <2>1, <2>2, <2>3, Leaves
<1> QED
  BY <1>1, PhyInductive, PTL DEF Spec, Restores

\* Only a step of alt_tse_mac_set_common_speed changes the duplex mode of a MAC,
\* and it is that of the MAC of the PHY that answers.
LEMMA OwnDuplex ==
  ASSUME PInv, Next, NEW m \in Mac, Known(m), cmd_config.half[m]' # cmd_config.half[m]
  PROVE  cmd_config.half[m]' = (phy[pphy_info[m]].link[2] = Half)
<1>1. cmd_config \in [speed : Speeds \cup {None}, half : [Mac -> BOOLEAN]] /\ mac \in Mac
  BY DEF PInv, Types, Turns
<1>2. m' = m /\ cmd_config'.half # cmd_config.half
  OBVIOUS
<1>3. ~Links /\ ~PollAn /\ ~Call
  BY <1>2 DEF Links, PollAn, Call, GetPHYSpeed, GetCommonSpeed, SetCommonSpeed
<1>4. ~Scan
  BY <1>2 DEF Scan, ScanNext, ScanMapped, Configure, ScanDone, ScanFails
<1>5. ~Speed
  BY <1>2 DEF Speed, NoPhy, SmallMac, FullMac, CheckLink, CheckWaits, CheckRestarts, CheckAgain,
              CheckFails, ReadLink
<1>6. ~GetCommon
  BY <1>2 DEF GetCommon, CommonSkips, GetCap, CapRead, CommonReturns
<1>7. ~SetSkips /\ ~SetPhy
  BY <1>2 DEF SetSkips, SetPhy, SetRefused, SetForced, SetNegotiated
<1>8. ~SetReturns
  <2>1. SetReturns => cmd_config'.half = cmd_config.half
    BY <1>1 DEF SetReturns
  <2> QED
    BY <1>2, <2>1
<1>9. SetDuplex
  BY <1>3, <1>4, <1>5, <1>6, <1>7, <1>8 DEF Next, Driver, SetCommon
<1>10. PICK duplex \in DuplexBits(mdio_addr) :
         cmd_config' = [cmd_config EXCEPT !.half[i] = (duplex = Half)]
  BY <1>9 DEF SetDuplex, DuplexMac
<1>11. cmd_config'.half = [cmd_config.half EXCEPT ![i] = (duplex = Half)]
  BY <1>1, <1>10
<1>12. m = i
  BY <1>1, <1>11
<1>13. mdio_addr = pphy_info[m]
  BY <1>9, <1>12 DEF PInv, Addressed, Current, SetDuplex
<1>14. duplex = phy[pphy_info[m]].link[2]
  BY <1>13 DEF Known, DuplexBits
<1>15. cmd_config'.half[m] = (duplex = Half)
  BY <1>1, <1>11, <1>12
<1> QED
  BY <1>14, <1>15

\* After set_common_speed no link whose speed the driver can know is faster than
\* its MACs are set, and the duplex mode of a MAC was set to that of its link.
THEOREM SpeedsMatch == Spec => LinksWithinCommon
<1> DEFINE Within ==
      /\ pc = "set_common" /\ pc' = "idle" /\ result.speed' = want =>
           \A m \in Mac : Known(m) /\ phy[pphy_info[m]].an = "done" =>
             phy[pphy_info[m]].link[1] <= cmd_config.speed'
      /\ \A m \in Mac : Known(m) /\ cmd_config.half[m]' # cmd_config.half[m] =>
           cmd_config.half[m]' = (phy[pphy_info[m]].link[2] = Half)
<1>1. PInv /\ [Next]_vars => [Within]_vars
  <2> SUFFICES ASSUME PInv, Next PROVE Within
    OBVIOUS
  <2>1. ASSUME pc = "set_common", pc' = "idle", result.speed' = want,
               NEW m \in Mac, Known(m), phy[pphy_info[m]].an = "done"
        PROVE  phy[pphy_info[m]].link[1] <= cmd_config.speed'
    <3>1. working = "set_common" /\ Setting /\ want \in Speeds
      BY <2>1 DEF working, Setting, PInv, Turns
    <3>2. \A gb \in BOOLEAN : ~SetRefused(gb)
      <4>1. ASSUME NEW gb \in BOOLEAN, SetRefused(gb) PROVE FALSE
        <5>1. result'.speed = NoCommon
          BY <4>1 DEF SetRefused, Returns, Read
        <5> QED
          BY <2>1, <3>1, <5>1 DEF NoCommon, Speeds
      <4> QED
        BY <4>1
    <3>3. SetReturns
      BY <2>1, <3>2, Leaves
    <3>4. cmd_config'.speed = want
      BY <3>3 DEF SetReturns, PInv, Types
    <3>5. m < i
      BY <2>1, <3>3, Constants DEF SetReturns, Mac, PInv, Turns
    <3>6. pphy_info[m] \in Addr
      BY <2>1 DEF Known, PInv, Types
    <3>7. dev[pphy_info[m]].able
      BY <2>1, <3>6 DEF PInv, Negotiated
    <3>8. Limited(phy[pphy_info[m]], want)
      BY <2>1, <3>1, <3>5, <3>7 DEF PInv, LimitedInv
    <3> QED
      BY <2>1, <3>4, <3>8 DEF Limited
  <2> QED
    BY <2>1, OwnDuplex
<1> QED
  BY <1>1, PhyInductive, PTL DEF Spec, LinksWithinCommon

-----------------------------------------------------------------------------
(* The groups of MACs that alt_tse_mac_group_init makes of the table       *)
(* (TseSystem), for every table, order of calls and failure of malloc.     *)

MacType == [base : Nat, channels : Nat, multi : BOOLEAN]
Row == [base : Int, tx : BOOLEAN, rx : BOOLEAN, multi : BOOLEAN, channels : Nat,
        shared : BOOLEAN, number : Nat]

\* The last slots of a full table come first behind it.
TableTypes ==
  /\ tse_system_count \in Nat /\ tse_system_count < MAXNETS + 3
  /\ max_mac_system \in {MAXNETS, tse_system_count} /\ tse_system_count <= max_mac_system
  /\ tse_mac_device \in [Slots -> Row]
  /\ slot \in Nat /\ added \in Nat /\ added <= Len(Macs)
  /\ refused \in BOOLEAN /\ grouped \in BOOLEAN /\ place \in {"idle", "group"}
  /\ shared \subseteq Lists
  /\ known \in Nat /\ known <= added /\ (place = "group" => grouped /\ known = added)
  /\ pmac_groups \in Seq(Seq(Nat))

\* The rows that count are whole, and no other is.
RowsWhole ==
  \A s \in Slots :
    IF s < tse_system_count THEN tse_mac_device[s].tx = TRUE /\ tse_mac_device[s].rx = TRUE
    ELSE ~(tse_mac_device[s].tx /\ tse_mac_device[s].rx)

\* The groups lie apart, below the slot that is looked at, in the rows that count.
GroupsApart ==
  /\ \A g \in DOMAIN pmac_groups : \A j \in DOMAIN pmac_groups[g] :
       /\ pmac_groups[g][j] >= j - 1
       /\ place = "group" => pmac_groups[g][j] < slot
       /\ pmac_groups[g][j] < MAXNETS => pmac_groups[g][j] < tse_system_count
  /\ \A g, h \in DOMAIN pmac_groups : \A j \in DOMAIN pmac_groups[g], k \in DOMAIN pmac_groups[h] :
       pmac_groups[g][j] = pmac_groups[h][k] => g = h /\ j = k

TableInv == TableTypes /\ RowsWhole /\ GroupsApart

LEMMA MacOfTable ==
  ASSUME SystemAssumption, TableTypes, added < Len(Macs)
  PROVE  /\ Macs[added + 1] \in MacType
         /\ Loops(Macs[added + 1]) \in Nat \ {0}
<1>1. Macs \in Seq(MacType)
  BY DEF SystemAssumption, MacType
<1>2. added + 1 \in 1..Len(Macs)
  BY <1>1 DEF TableTypes
<1>3. Macs[added + 1] \in MacType
  BY <1>1, <1>2
<1> QED  BY <1>3 DEF MacType, Loops

\* What alt_tse_system_add_sys does to the table.
LEMMA AddRows ==
  ASSUME SystemAssumption, TableTypes,
         NEW m \in MacType, NEW n \in 0..Loops(m), NEW failed,
         failed \in {"none", "tx", "rx"}, AddSys(m, n, failed)
  PROVE  /\ tse_system_count' = tse_system_count + n
         /\ tse_system_count + Loops(m) < MAXNETS + 3
         /\ tse_mac_device' \in [Slots -> Row]
         /\ \A s \in Slots : s < tse_system_count => tse_mac_device'[s] = tse_mac_device[s]
         /\ \A k \in 0..(n - 1) : /\ tse_system_count + k \in Slots
                                  /\ tse_mac_device'[tse_system_count + k] = Entry(m, k)
         /\ \A s \in Slots : s >= tse_system_count + n =>
              \/ tse_mac_device'[s] = tse_mac_device[s]
              \/ failed # "none" /\ tse_mac_device'[s].rx = FALSE
         /\ max_mac_system' = IF n > 0 THEN tse_system_count' ELSE max_mac_system
<1> DEFINE half == [Entry(m, n) EXCEPT !.tx = (failed = "rx"), !.rx = FALSE]
           end == tse_system_count + n
           new(s) == IF s \in tse_system_count..(end - 1) THEN Entry(m, s - tse_system_count)
                     ELSE IF s = end /\ failed # "none" THEN half ELSE tse_mac_device[s]
<1>1. Loops(m) \in Nat \ {0} /\ n \in Nat /\ n <= Loops(m)
  BY DEF MacType, Loops
<1>2. MAXNETS \in Nat \ {0} /\ tse_system_count \in Nat
  BY DEF SystemAssumption, TableTypes
<1>3. Slots = 0..(MAXNETS + 2)
  BY <1>2 DEF Slots, Spill
<1>4. tse_system_count + Loops(m) \in Slots
  BY DEF AddSys
<1>5. tse_mac_device' = [s \in Slots |-> new(s)] /\ tse_system_count' = end
      /\ max_mac_system' = IF n > 0 THEN end ELSE max_mac_system
  BY DEF AddSys
<1>6. \A k \in Int : Entry(m, k) \in Row
  BY DEF MacType, Row, Entry
<1>7. half \in Row /\ half.rx = FALSE
  <2>1. Entry(m, n) \in Row
    BY <1>1, <1>6
  <2> QED  BY <2>1 DEF Row
<1>8. \A s \in Slots : new(s) \in Row
  BY <1>2, <1>3, <1>6, <1>7 DEF TableTypes
<1>9. tse_mac_device' \in [Slots -> Row]
  <2> HIDE DEF new
  <2> QED  BY <1>5, <1>8
<1>10. \A s \in Slots : tse_mac_device'[s] = new(s)
  <2> HIDE DEF new
  <2> QED  BY <1>5
<1>11. \A s \in Slots : s < tse_system_count => tse_mac_device'[s] = tse_mac_device[s]
  BY <1>1, <1>2, <1>3, <1>10
<1>12. ASSUME NEW k \in 0..(n - 1)
       PROVE  /\ tse_system_count + k \in Slots
              /\ tse_mac_device'[tse_system_count + k] = Entry(m, k)
  <2>1. tse_system_count + k \in Slots /\ k \in Int
        /\ tse_system_count + k \in tse_system_count..(end - 1)
        /\ (tse_system_count + k) - tse_system_count = k
    BY <1>1, <1>2, <1>3, <1>4
  <2> QED  BY <2>1, <1>10
<1>13. ASSUME NEW s \in Slots, s >= tse_system_count + n
       PROVE  \/ tse_mac_device'[s] = tse_mac_device[s]
              \/ failed # "none" /\ tse_mac_device'[s].rx = FALSE
  <2>1. s \notin tse_system_count..(end - 1)
    BY <1>1, <1>2, <1>3, <1>13
  <2>2. CASE s = end /\ failed # "none"
    BY <2>1, <2>2, <1>7, <1>10
  <2>3. CASE ~(s = end /\ failed # "none")
    BY <2>1, <2>3, <1>10
  <2> QED  BY <2>2, <2>3
<1>14. tse_system_count + Loops(m) < MAXNETS + 3
  BY <1>1, <1>2, <1>3, <1>4
<1> QED  BY <1>5, <1>9, <1>11, <1>12, <1>13, <1>14

\* alt_tse_sys_enable_mdio_sharing touches two fields of the rows.
LEMMA ShareRows ==
  ASSUME SystemAssumption, TableTypes, NEW list \in Lists, EnableSharing(list)
  PROVE  /\ tse_mac_device' \in [Slots -> Row]
         /\ \A s \in Slots :
              /\ tse_mac_device'[s].base = tse_mac_device[s].base
              /\ tse_mac_device'[s].tx = tse_mac_device[s].tx
              /\ tse_mac_device'[s].rx = tse_mac_device[s].rx
              /\ tse_mac_device'[s].multi = tse_mac_device[s].multi
              /\ tse_mac_device'[s].channels = tse_mac_device[s].channels
<1> DEFINE taken == {list[k] : k \in {l \in DOMAIN list : \A r \in Refused(list) : l < r}}
           with(s) == [tse_mac_device[s] EXCEPT !.shared = TRUE, !.number = Len(list)]
           new(s) == IF s < max_mac_system /\ tse_mac_device[s].base \in taken
                       THEN with(s) ELSE tse_mac_device[s]
<1>1. tse_mac_device' = [s \in Slots |-> new(s)]
  BY DEF EnableSharing
<1>2. list \in Seq(Int) /\ Len(list) \in Nat
  BY DEF SystemAssumption
<1>3. \A s \in Slots : tse_mac_device[s] \in Row
  BY DEF TableTypes
<1>4. \A s \in Slots : with(s) \in Row
  BY <1>2, <1>3 DEF Row
<1>5. \A s \in Slots :
        /\ with(s).base = tse_mac_device[s].base
        /\ with(s).tx = tse_mac_device[s].tx
        /\ with(s).rx = tse_mac_device[s].rx
        /\ with(s).multi = tse_mac_device[s].multi
        /\ with(s).channels = tse_mac_device[s].channels
  BY <1>3 DEF Row
<1> HIDE DEF with, taken
<1>6. \A s \in Slots : new(s) \in {with(s), tse_mac_device[s]}
  OBVIOUS
<1> HIDE DEF new
<1>7. \A s \in Slots : tse_mac_device'[s] \in {with(s), tse_mac_device[s]}
  BY <1>1, <1>6
<1>8. \A s \in Slots : new(s) \in Row
  BY <1>3, <1>4, <1>6
<1>9. tse_mac_device' \in [Slots -> Row]
  BY <1>1, <1>8
<1> QED  BY <1>5, <1>7, <1>9

LEMMA SlotsOfGroups ==
  ASSUME TableInv, NEW g \in DOMAIN pmac_groups, NEW j \in DOMAIN pmac_groups[g]
  PROVE  /\ pmac_groups[g] \in Seq(Nat)
         /\ pmac_groups[g][j] \in Nat /\ j \in Nat
<1>1. pmac_groups \in Seq(Seq(Nat))
  BY DEF TableInv, TableTypes
<1>2. g \in 1..Len(pmac_groups)
  BY <1>1
<1>3. pmac_groups[g] \in Seq(Nat)
  BY <1>1, <1>2
<1>4. \A q \in Seq(Nat) : \A k \in DOMAIN q : q[k] \in Nat /\ k \in Nat
  OBVIOUS
<1> QED  BY <1>3, <1>4

LEMMA TableInit == ASSUME SystemAssumption, SystemInit PROVE TableInv
<1>1. MAXNETS \in Nat \ {0} /\ Slots = 0..(MAXNETS + 2)
  BY DEF SystemAssumption, Slots, Spill
<1>2. Empty \in Row /\ Empty.tx = FALSE
  BY DEF Empty, NoBase, Row
<1>3. TableTypes
  <2>1. tse_mac_device \in [Slots -> Row]
    BY <1>2 DEF SystemInit
  <2>2. pmac_groups \in Seq(Seq(Nat))
    BY DEF SystemInit
  <2>3. Len(Macs) \in Nat
    BY DEF SystemAssumption
  <2>4. /\ tse_system_count = 0 /\ max_mac_system = MAXNETS /\ slot = 0 /\ added = 0 /\ known = 0
        /\ refused = FALSE /\ grouped = FALSE /\ place = "idle" /\ shared = {}
    BY DEF SystemInit
  <2>5. tse_system_count \in Nat /\ tse_system_count < MAXNETS + 3 /\ tse_system_count <= max_mac_system
        /\ max_mac_system \in {MAXNETS, tse_system_count}
    BY <1>1, <2>4
  <2>6. slot \in Nat /\ added \in Nat /\ added <= Len(Macs) /\ known \in Nat /\ known <= added
    BY <2>3, <2>4
  <2>7. shared \subseteq Lists /\ refused \in BOOLEAN /\ grouped \in BOOLEAN /\ place = "idle"
    BY <2>4
  <2> QED  BY <2>1, <2>2, <2>5, <2>6, <2>7 DEF TableTypes
<1>4. RowsWhole
  <2>1. \A s \in Slots : tse_mac_device[s] = Empty /\ ~ s < tse_system_count
    BY <1>1 DEF SystemInit
  <2> QED  BY <1>2, <2>1 DEF RowsWhole
<1>5. GroupsApart
  BY DEF GroupsApart, SystemInit
<1> QED  BY <1>3, <1>4, <1>5 DEF TableInv

LEMMA TableAdd == ASSUME SystemAssumption, TableInv, AddNext PROVE TableInv'
<1> DEFINE m == Macs[added + 1]
<1>1. added < Len(Macs)
  BY DEF AddNext
<1>2. m \in MacType /\ Loops(m) \in Nat \ {0}
  BY <1>1, MacOfTable DEF TableInv
<1> HIDE DEF m
<1>3. PICK n \in 0..Loops(m) : \E failed \in {"none", "tx", "rx"} : AddSys(m, n, failed)
  BY DEF m, AddNext
<1>4. PICK failed \in {"none", "tx", "rx"} : AddSys(m, n, failed)
  BY <1>3
<1>5. /\ tse_system_count' = tse_system_count + n
      /\ tse_system_count + Loops(m) < MAXNETS + 3
      /\ tse_mac_device' \in [Slots -> Row]
      /\ \A s \in Slots : s < tse_system_count => tse_mac_device'[s] = tse_mac_device[s]
      /\ \A k \in 0..(n - 1) : /\ tse_system_count + k \in Slots
                               /\ tse_mac_device'[tse_system_count + k] = Entry(m, k)
      /\ \A s \in Slots : s >= tse_system_count + n =>
           \/ tse_mac_device'[s] = tse_mac_device[s]
           \/ failed # "none" /\ tse_mac_device'[s].rx = FALSE
      /\ max_mac_system' = IF n > 0 THEN tse_system_count' ELSE max_mac_system
  BY <1>2, <1>4, AddRows DEF TableInv
<1>6. /\ place = "idle" /\ UNCHANGED <<grouped, place, slot, pmac_groups, known, shared>>
      /\ refused' = (refused \/ failed # "none")
      /\ added' = IF failed = "none" THEN added + 1 ELSE added
  BY <1>4 DEF AddSys, groupVars
<1>7. /\ MAXNETS \in Nat \ {0} /\ Slots = 0..(MAXNETS + 2)
      /\ n \in Nat /\ n <= Loops(m) /\ Len(Macs) \in Nat /\ tse_system_count \in Nat
  BY <1>2 DEF SystemAssumption, Slots, Spill, TableInv, TableTypes
<1>8. TableTypes'
  <2>1. added' \in Nat /\ added' <= Len(Macs) /\ known' <= added' /\ known' \in Nat
    BY <1>1, <1>6, <1>7 DEF TableInv, TableTypes
  <2>2. tse_system_count' \in Nat /\ tse_system_count' < MAXNETS + 3
    BY <1>2, <1>5, <1>7
  <2>3. max_mac_system' \in {MAXNETS, tse_system_count'} /\ tse_system_count' <= max_mac_system'
    <3>1. CASE n > 0
      BY <1>5, <2>2, <3>1
    <3>2. CASE n = 0
      BY <1>5, <1>7, <3>2 DEF TableInv, TableTypes
    <3> QED  BY <1>7, <3>1, <3>2
  <2>4. refused' \in BOOLEAN /\ grouped' \in BOOLEAN /\ place' = "idle" /\ slot' \in Nat
        /\ shared' \subseteq Lists /\ pmac_groups' \in Seq(Seq(Nat))
    BY <1>6 DEF TableInv, TableTypes
  <2> QED  BY <1>5, <2>1, <2>2, <2>3, <2>4 DEF TableTypes, Slots
<1>9. RowsWhole'
  <2>1. ASSUME NEW s \in Slots, s < tse_system_count'
        PROVE  tse_mac_device'[s].tx = TRUE /\ tse_mac_device'[s].rx = TRUE
    <3>1. CASE s < tse_system_count
      BY <1>5, <3>1 DEF TableInv, RowsWhole
    <3>2. CASE s >= tse_system_count
      <4>1. s - tse_system_count \in 0..(n - 1) /\ tse_system_count + (s - tse_system_count) = s
        BY <1>5, <1>7, <2>1, <3>2
      <4>2. tse_mac_device'[s] = Entry(m, s - tse_system_count)
        BY <1>5, <4>1
      <4> QED  BY <4>2 DEF Entry
    <3>3. s < tse_system_count \/ s >= tse_system_count
      BY <1>7
    <3> QED  BY <3>1, <3>2, <3>3
  <2>2. ASSUME NEW s \in Slots, ~ s < tse_system_count'
        PROVE  ~(tse_mac_device'[s].tx /\ tse_mac_device'[s].rx)
    <3>1. s >= tse_system_count + n /\ ~ s < tse_system_count
      BY <1>5, <1>7, <2>2
    <3>2. CASE tse_mac_device'[s] = tse_mac_device[s]
      BY <3>1, <3>2 DEF TableInv, RowsWhole
    <3>3. CASE tse_mac_device'[s].rx = FALSE
      BY <3>3
    <3> QED  BY <1>5, <3>1, <3>2, <3>3
  <2> QED  BY <2>1, <2>2 DEF RowsWhole, Slots
<1>10. GroupsApart'
  <2>1. pmac_groups' = pmac_groups /\ place' = "idle"
    BY <1>6
  <2>2. ASSUME NEW g \in DOMAIN pmac_groups, NEW j \in DOMAIN pmac_groups[g]
        PROVE  /\ pmac_groups[g][j] >= j - 1
               /\ pmac_groups[g][j] < MAXNETS => pmac_groups[g][j] < tse_system_count'
    <3>1. pmac_groups[g][j] \in Nat
      BY SlotsOfGroups
    <3>2. /\ pmac_groups[g][j] >= j - 1
          /\ pmac_groups[g][j] < MAXNETS => pmac_groups[g][j] < tse_system_count
      BY DEF TableInv, GroupsApart
    <3> QED  BY <1>5, <1>7, <3>1, <3>2
  <2>3. \A g, h \in DOMAIN pmac_groups : \A j \in DOMAIN pmac_groups[g], k \in DOMAIN pmac_groups[h] :
          pmac_groups[g][j] = pmac_groups[h][k] => g = h /\ j = k
    BY DEF TableInv, GroupsApart
  <2> QED  BY <2>1, <2>2, <2>3 DEF GroupsApart
<1> QED  BY <1>8, <1>9, <1>10 DEF TableInv

LEMMA TableShare ==
  ASSUME SystemAssumption, TableInv, NEW list \in Lists, EnableSharing(list)
  PROVE  TableInv'
<1>1. /\ tse_mac_device' \in [Slots -> Row]
      /\ \A s \in Slots : /\ tse_mac_device'[s].tx = tse_mac_device[s].tx
                                 /\ tse_mac_device'[s].rx = tse_mac_device[s].rx
  BY ShareRows DEF TableInv
<1>2. /\ place = "idle"
      /\ UNCHANGED <<tse_system_count, max_mac_system, grouped, place, slot, pmac_groups, added, known, refused>>
      /\ shared' \in {shared \cup {list}, shared}
  BY DEF EnableSharing, groupVars
<1>3. TableTypes'
  BY <1>1, <1>2 DEF TableInv, TableTypes, Slots
<1>4. RowsWhole'
  BY <1>1, <1>2 DEF TableInv, RowsWhole, Slots
<1>5. GroupsApart'
  BY <1>2 DEF TableInv, GroupsApart
<1> QED  BY <1>3, <1>4, <1>5 DEF TableInv

\* The group at the slot that is looked at, and what of it is in the table.
LEMMA GroupAt ==
  ASSUME SystemAssumption, TableInv, place = "group", slot < max_mac_system
  PROVE  /\ slot \in Slots /\ tse_mac_device[slot] \in Row
         /\ Channel(slot) \in Nat
         /\ GroupOf(slot) \in Seq(Nat)
         /\ Len(GroupOf(slot)) = Channel(slot)
         /\ \A j \in 1..Channel(slot) : GroupOf(slot)[j] = slot + j - 1
         /\ \A s \in slot..(slot + Channel(slot) - 1) :
              TRUE \in Defined(s) /\ s < MAXNETS => s < tse_system_count
<1>1. slot \in Slots
  BY DEF SystemAssumption, Slots, Spill, TableInv, TableTypes
<1>2. tse_mac_device[slot] \in Row
  BY <1>1 DEF TableInv, TableTypes
<1>3. Channel(slot) \in Nat
  BY <1>2 DEF Row, Channel
<1>4. GroupOf(slot) = [j \in 1..Channel(slot) |-> slot + j - 1]
  BY DEF GroupOf
<1>5. slot \in Nat
  BY DEF TableInv, TableTypes
<1>6. \A j \in 1..Channel(slot) : slot + j - 1 \in Nat
  BY <1>3, <1>5
<1>7. ASSUME NEW s \in slot..(slot + Channel(slot) - 1),
             TRUE \in Defined(s), s < MAXNETS
      PROVE  s < tse_system_count
  <2>1. s \in Slots
    BY <1>3, <1>5, <1>7 DEF SystemAssumption, Slots, Spill
  <2>2. tse_mac_device[s].tx /\ tse_mac_device[s].rx
    BY <1>7 DEF Defined
  <2> QED  BY <2>1, <2>2 DEF TableInv, RowsWhole
<1> HIDE DEF Channel, GroupOf
<1>8. GroupOf(slot) \in Seq(Nat) /\ Len(GroupOf(slot)) = Channel(slot)
  BY <1>3, <1>4, <1>6
<1> QED  BY <1>1, <1>2, <1>3, <1>4, <1>7, <1>8

LEMMA TableGroup ==
  ASSUME SystemAssumption, TableInv, AddGroup
  PROVE  TableInv'
<1> DEFINE new == GroupOf(slot)
           c == Channel(slot)
           last == Len(pmac_groups) + 1
<1>1. /\ place = "group" /\ slot < max_mac_system
      /\ \A s \in slot..(slot + c - 1) : TRUE \in Defined(s)
      /\ pmac_groups' = Append(pmac_groups, new)
      /\ slot' = slot + c
      /\ UNCHANGED <<tse_mac_device, tse_system_count, max_mac_system, grouped, place, added, known, shared, refused>>
  BY DEF AddGroup, tableVars, Skip
<1>2. /\ c \in Nat /\ new \in Seq(Nat) /\ Len(new) = c
      /\ \A j \in 1..c : new[j] = slot + j - 1
      /\ \A s \in slot..(slot + c - 1) : s < MAXNETS => s < tse_system_count
  BY <1>1, GroupAt
<1> HIDE DEF new, c
<1>3. slot \in Nat /\ pmac_groups \in Seq(Seq(Nat)) /\ Len(pmac_groups) \in Nat
  BY DEF TableInv, TableTypes
<1>4. pmac_groups' \in Seq(Seq(Nat)) /\ DOMAIN pmac_groups' = 1..last
      /\ DOMAIN pmac_groups = 1..(last - 1)
  BY <1>1, <1>2, <1>3
<1>5. pmac_groups'[last] = new /\ \A g \in 1..(last - 1) : pmac_groups'[g] = pmac_groups[g]
  BY <1>1, <1>2, <1>3
<1>6. DOMAIN new = 1..c
  BY <1>2
<1>7. TableTypes'
  BY <1>1, <1>2, <1>3, <1>4 DEF TableInv, TableTypes, Slots
<1>8. RowsWhole'
  BY <1>1 DEF TableInv, RowsWhole, Slots
<1>9. ASSUME NEW g \in 1..(last - 1), NEW j \in DOMAIN pmac_groups[g]
      PROVE  /\ pmac_groups[g][j] \in Nat /\ j \in Nat
             /\ pmac_groups[g][j] >= j - 1
             /\ pmac_groups[g][j] < slot
             /\ pmac_groups[g][j] < MAXNETS => pmac_groups[g][j] < tse_system_count
  <2>1. g \in DOMAIN pmac_groups
    BY <1>4
  <2>2. pmac_groups[g][j] \in Nat /\ j \in Nat
    BY <2>1, SlotsOfGroups
  <2> QED  BY <1>1, <2>1, <2>2 DEF TableInv, GroupsApart
<1>10. ASSUME NEW j \in 1..c
       PROVE  /\ new[j] \in Nat /\ new[j] >= j - 1 /\ new[j] >= slot /\ new[j] < slot + c
              /\ new[j] < MAXNETS => new[j] < tse_system_count
  <2>1. new[j] = slot + j - 1 /\ slot + j - 1 \in slot..(slot + c - 1)
    BY <1>2, <1>3
  <2> QED  BY <1>2, <1>3, <2>1
<1>11. ASSUME NEW g \in DOMAIN pmac_groups', NEW j \in DOMAIN pmac_groups'[g]
       PROVE  /\ pmac_groups'[g][j] >= j - 1
              /\ pmac_groups'[g][j] < slot'
              /\ pmac_groups'[g][j] < MAXNETS => pmac_groups'[g][j] < tse_system_count'
  <2>1. CASE g = last
    BY <1>1, <1>5, <1>6, <1>10, <2>1
  <2>2. CASE g # last
    <3>1. g \in 1..(last - 1)
      BY <1>3, <1>4, <2>2
    <3> QED  BY <1>1, <1>2, <1>3, <1>5, <1>9, <3>1
  <2> QED  BY <2>1, <2>2
<1>12. ASSUME NEW g \in DOMAIN pmac_groups', NEW h \in DOMAIN pmac_groups',
              NEW j \in DOMAIN pmac_groups'[g], NEW k \in DOMAIN pmac_groups'[h],
              pmac_groups'[g][j] = pmac_groups'[h][k]
       PROVE  g = h /\ j = k
  <2>1. CASE g = last /\ h = last
    <3>1. j \in 1..c /\ k \in 1..c /\ new[j] = new[k]
      BY <1>5, <1>6, <1>12, <2>1
    <3>2. new[j] = slot + j - 1 /\ new[k] = slot + k - 1
      BY <1>2, <3>1
    <3>3. c \in Nat /\ slot \in Nat
      BY <1>2, <1>3
    <3>4. slot + j - 1 = slot + k - 1
      BY <3>1, <3>2
    <3>6. j \in Int /\ k \in Int /\ slot \in Int
      BY <3>1, <3>3
    <3>5. j = k
      BY <3>4, <3>6
    <3> QED  BY <2>1, <3>5
  <2>2. CASE g = last /\ h # last
    <3>1. h \in 1..(last - 1)
      BY <1>3, <1>4, <2>2
    <3>2. j \in 1..c /\ k \in DOMAIN pmac_groups[h] /\ new[j] = pmac_groups[h][k]
      BY <1>5, <1>6, <1>12, <2>2, <3>1
    <3>3. new[j] \in Nat /\ new[j] >= slot /\ pmac_groups[h][k] < slot
      BY <1>9, <1>10, <3>1, <3>2
    <3> QED  BY <1>3, <3>2, <3>3
  <2>3. CASE g # last /\ h = last
    <3>1. g \in 1..(last - 1)
      BY <1>3, <1>4, <2>3
    <3>2. k \in 1..c /\ j \in DOMAIN pmac_groups[g] /\ new[k] = pmac_groups[g][j]
      BY <1>5, <1>6, <1>12, <2>3, <3>1
    <3>3. new[k] \in Nat /\ new[k] >= slot /\ pmac_groups[g][j] < slot
      BY <1>9, <1>10, <3>1, <3>2
    <3> QED  BY <1>3, <3>2, <3>3
  <2>4. CASE g # last /\ h # last
    <3>1. g \in 1..(last - 1) /\ h \in 1..(last - 1)
      <4>1. last \in Int /\ g \in 1..last /\ h \in 1..last
        BY <1>3, <1>4
      <4> HIDE DEF last
      <4> QED  BY <4>1, <2>4
    <3>2. /\ j \in DOMAIN pmac_groups[g] /\ k \in DOMAIN pmac_groups[h]
          /\ pmac_groups[g][j] = pmac_groups[h][k]
      BY <1>5, <1>12, <3>1
    <3> QED  BY <1>4, <3>1, <3>2 DEF TableInv, GroupsApart
  <2> QED  BY <2>1, <2>2, <2>3, <2>4
<1>13. GroupsApart'
  BY <1>11, <1>12 DEF GroupsApart
<1> QED  BY <1>7, <1>8, <1>13 DEF TableInv

\* Steps that leave the table and the groups as they are.
LEMMA TableFrame ==
  ASSUME SystemAssumption, TableInv,
         UNCHANGED <<tse_mac_device, tse_system_count, max_mac_system, pmac_groups, added, shared>>,
         place' \in {"idle", "group"}, grouped' \in BOOLEAN, refused' \in BOOLEAN, slot' \in Nat,
         known' \in Nat, known' <= added,
         place' = "group" => grouped' /\ known' = added /\ place = "group" /\ slot <= slot'
  PROVE  TableInv'
<1>1. TableTypes'
  BY DEF TableInv, TableTypes, Slots
<1>2. RowsWhole'
  BY DEF TableInv, RowsWhole, Slots
<1>3. ASSUME NEW g \in DOMAIN pmac_groups, NEW j \in DOMAIN pmac_groups[g]
      PROVE  /\ pmac_groups[g][j] >= j - 1
             /\ place' = "group" => pmac_groups[g][j] < slot'
             /\ pmac_groups[g][j] < MAXNETS => pmac_groups[g][j] < tse_system_count
  <2>1. pmac_groups[g][j] \in Nat
    BY SlotsOfGroups
  <2>2. slot \in Nat
    BY DEF TableInv, TableTypes
  <2> QED  BY <2>1, <2>2 DEF TableInv, GroupsApart
<1>4. GroupsApart'
  BY <1>3 DEF TableInv, GroupsApart
<1> QED  BY <1>1, <1>2, <1>4 DEF TableInv

LEMMA TablePhyInit ==
  ASSUME SystemAssumption, TableInv, PhyInit
  PROVE  TableInv'
<1>1. /\ UNCHANGED <<tse_mac_device, tse_system_count, max_mac_system, added, shared>>
      /\ grouped' = TRUE /\ place' = "group" /\ slot' = 0 /\ pmac_groups' = <<>> /\ known' = added
  BY DEF PhyInit, tableVars
<1>2. refused' \in BOOLEAN
  BY DEF PhyInit, TableInv, TableTypes
<1>3. TableTypes'
  BY <1>1, <1>2 DEF TableInv, TableTypes, Slots
<1>4. RowsWhole'
  BY <1>1 DEF TableInv, RowsWhole, Slots
<1>5. GroupsApart'
  BY <1>1 DEF GroupsApart
<1> QED  BY <1>3, <1>4, <1>5 DEF TableInv

LEMMA TableStep ==
  ASSUME SystemAssumption, TableInv, [SystemNext]_(systemVars)
  PROVE  TableInv'
<1> USE DEF tableVars, groupVars
<1>1. CASE AddNext
  BY <1>1, TableAdd
<1>2. CASE PhyInit
  BY <1>2, TablePhyInit
<1>3. CASE \E list \in Lists : EnableSharing(list)
  BY <1>3, TableShare
<1>4. CASE AddGroup
  BY <1>4, TableGroup
<1>5. TableTypes
  BY DEF TableInv
<1>6. CASE AddProfile
  BY <1>5, <1>6, TableFrame DEF AddProfile, TableTypes
<1>7. CASE SkipSlot
  BY <1>5, <1>7, TableFrame DEF SkipSlot, TableTypes
<1>8. CASE GroupFails
  BY <1>5, <1>8, TableFrame DEF GroupFails, TableTypes
<1>9. CASE GroupsDone
  BY <1>5, <1>9, TableFrame DEF GroupsDone, TableTypes
<1>10. CASE UNCHANGED systemVars
  BY <1>5, <1>10, TableFrame DEF systemVars, TableTypes
<1> QED  BY <1>1, <1>2, <1>3, <1>4, <1>6, <1>7, <1>8, <1>9, <1>10 DEF SystemNext

LEMMA TableSound == ASSUME SystemAssumption, TableInv PROVE OneGroup /\ Wired
<1>1. \A x \in Members : /\ x[1] \in DOMAIN pmac_groups /\ x[2] \in DOMAIN pmac_groups[x[1]]
                                /\ x = <<x[1], x[2]>>
                                /\ SlotAt(x) = pmac_groups[x[1]][x[2]]
  BY DEF Members, SlotAt
<1>2. ASSUME NEW x \in Members, NEW y \in Members, SlotAt(x) = SlotAt(y)
      PROVE  x = y
  BY <1>1, <1>2 DEF TableInv, GroupsApart
<1>3. ASSUME NEW x \in Members, SlotAt(x) < MAXNETS
      PROVE  Defined(SlotAt(x)) = {TRUE}
  <2>1. SlotAt(x) \in Nat /\ SlotAt(x) < tse_system_count
    <3>1. SlotAt(x) \in Nat
      BY <1>1, SlotsOfGroups
    <3> QED  BY <1>1, <1>3, <3>1 DEF TableInv, GroupsApart
  <2>2. SlotAt(x) \in Slots
    BY <1>3, <2>1 DEF SystemAssumption, Slots, Spill
  <2> QED  BY <1>3, <2>1, <2>2 DEF TableInv, RowsWhole, Defined
<1> QED  BY <1>2, <1>3 DEF OneGroup, Wired

\* Whatever malloc refuses and whatever the application shares in between, a slot of
\* the table is in one group at most, and a group holds no MAC of which the names of
\* the DMA controllers are missing (alt_tse_mac_group_init, altera_avalon_tse.c:1121-1253).
THEOREM GroupsStaySound ==
  SystemAssumption => (SystemSpec => [](OneGroup /\ Wired))
<1> SUFFICES ASSUME SystemAssumption
    PROVE  SystemSpec => [](OneGroup /\ Wired)
  OBVIOUS
<1>1. SystemInit => TableInv
  BY TableInit
<1>2. TableInv /\ [SystemNext]_(systemVars) => TableInv'
  BY TableStep
<1>3. TableInv => OneGroup /\ Wired
  BY TableSound
<1> QED  BY <1>1, <1>2, <1>3, PTL DEF SystemSpec

-----------------------------------------------------------------------------
(* The groups are complete where lists name neighbours in the table.       *)

FirstMac(list) == CHOOSE first \in 1..Len(Macs) : Run(list, first)
Names(list, k) == k \in FirstMac(list)..(FirstMac(list) + Len(list) - 1)

\* As long as there was memory and room.
Fit == refused = FALSE /\ tse_system_count <= MAXNETS

\* at[k] is where the rows of MAC k begin.
Placed(at) ==
  /\ at \in [1..added -> Nat]
  /\ \A k \in 1..added : at[k] + Rows(k) <= tse_system_count
  /\ \A k, l \in 1..added : k < l => at[k] + Rows(k) <= at[l]
  /\ \A s \in Nat : s < tse_system_count => \E k \in 1..added : at[k] <= s /\ s < at[k] + Rows(k)
  /\ \A a, b \in 1..added : a <= b /\ (\A k \in a..(b - 1) : Rows(k) = 1) => at[b] = at[a] + (b - a)
  /\ \A k \in 1..added : \A c \in 0..(Rows(k) - 1) :
       /\ tse_mac_device[at[k] + c].base = Macs[k].base + c
       /\ tse_mac_device[at[k] + c].multi = Macs[k].multi
       /\ tse_mac_device[at[k] + c].channels = Macs[k].channels
  /\ added = 0 => tse_system_count = 0
  /\ added > 0 => at[added] + Rows(added) = tse_system_count
  /\ \A s \in Slots : s >= tse_system_count => tse_mac_device[s].base = NoBase

\* Lists that have been accepted name MACs that are in the table.
Accepted ==
  \A list \in shared : /\ FirstMac(list) + Len(list) - 1 <= added
                       /\ grouped => FirstMac(list) + Len(list) - 1 <= known

\* Until the groups are made, the rows of the lists are marked, and no others.
ListMarked(list, at) ==
  \A k \in 1..added : Names(list, k) =>
    tse_mac_device[at[k]].shared = TRUE /\ tse_mac_device[at[k]].number = Len(list)
OthersNot(k, at) ==
  \A c \in 0..(Rows(k) - 1) :
    tse_mac_device[at[k] + c].shared = TRUE => c = 0 /\ \E list \in shared : Names(list, k)
RowsMarked(at) ==
  /\ \A list \in shared : ListMarked(list, at)
  /\ \A k \in 1..added : OthersNot(k, at)
Marked(at) == Accepted /\ (~(grouped /\ place = "idle") => RowsMarked(at))

Covered(s) == \E g \in DOMAIN pmac_groups : \E j \in DOMAIN pmac_groups[g] : pmac_groups[g][j] = s
Whole(s, n) ==
  \E g \in DOMAIN pmac_groups : /\ DOMAIN pmac_groups[g] = 1..n
                                /\ \A j \in 1..n : pmac_groups[g][j] = s + j - 1
Past(s) == place = "idle" \/ s < slot

\* What lies below the slot that is looked at is in the groups, and that slot is
\* the first one of a group.
Complete(at) ==
  grouped =>
    /\ place = "group" =>
         /\ \A k \in 1..added : Macs[k].multi /\ at[k] < slot => at[k] + Rows(k) <= slot
         /\ \A list \in shared : at[FirstMac(list)] < slot => at[FirstMac(list)] + Len(list) <= slot
    /\ \A k \in 1..known :
         /\ \A c \in 0..(Rows(k) - 1) : Past(at[k] + c) => Covered(at[k] + c)
         /\ Macs[k].multi /\ Past(at[k]) => Whole(at[k], Rows(k))
    /\ \A list \in shared : Past(at[FirstMac(list)]) => Whole(at[FirstMac(list)], Len(list))

FitInv == Fit => \E at : Placed(at) /\ Marked(at) /\ Complete(at)

LEMMA MacFacts ==
  ASSUME SystemAssumption, NEW k \in 1..Len(Macs)
  PROVE  /\ Macs[k] \in MacType /\ Rows(k) \in Nat \ {0}
         /\ Macs[k].multi => Rows(k) = Macs[k].channels
<1>1. Macs \in Seq(MacType) /\ (Macs[k].multi => Macs[k].channels > 0)
  BY DEF SystemAssumption, MacType
<1>2. Macs[k] \in MacType
  BY <1>1
<1> QED  BY <1>1, <1>2 DEF MacType, Rows, Loops

LEMMA RunFacts ==
  ASSUME SystemAssumption, ListsOfNeighbours, NEW list \in Lists
  PROVE  /\ Run(list, FirstMac(list)) /\ FirstMac(list) \in 1..Len(Macs)
         /\ Len(list) \in Nat \ {0}
<1>1. list \in Seq(Int)
  BY DEF SystemAssumption
<1>2. Len(list) \in Nat
  BY <1>1
<1>3. \E first \in 1..Len(Macs) : Run(list, first)
  BY DEF ListsOfNeighbours
<1>4. Run(list, FirstMac(list)) /\ FirstMac(list) \in 1..Len(Macs)
  BY <1>3 DEF FirstMac
<1> QED  BY <1>2, <1>4 DEF Run

LEMMA ZeroIn == \A n \in Nat \ {0} : 0 \in 0..(n - 1)
OBVIOUS

LEMMA MacAt ==
  ASSUME SystemAssumption, ListsOfNeighbours,
         NEW k \in 1..Len(Macs), NEW l \in 1..Len(Macs), Macs[k].base = Macs[l].base
  PROVE  k = l
<1>1. Rows(k) \in Nat \ {0} /\ Rows(l) \in Nat \ {0} /\ Macs[k] \in MacType /\ Macs[l] \in MacType
  BY MacFacts
<1>2. Macs[k].base + 0 = Macs[l].base + 0
  OBVIOUS
<1>3. 0 \in 0..(Rows(k) - 1) /\ 0 \in 0..(Rows(l) - 1)
  BY <1>1, ZeroIn
<1> QED  BY <1>2, <1>3 DEF ListsOfNeighbours

\* Lists with a MAC in common name the same ones.
LEMMA RunsAgree ==
  ASSUME SystemAssumption, ListsOfNeighbours, NEW l1 \in Lists, NEW l2 \in Lists,
         NEW k, Names(l1, k), Names(l2, k)
  PROVE  FirstMac(l1) = FirstMac(l2) /\ Len(l1) = Len(l2)
<1> DEFINE a1 == FirstMac(l1)  b1 == FirstMac(l1) + Len(l1) - 1
           a2 == FirstMac(l2)  b2 == FirstMac(l2) + Len(l2) - 1
<1>1. /\ a1 \in 1..Len(Macs) /\ Len(l1) \in Nat \ {0} /\ b1 <= Len(Macs)
      /\ MacsOf(l1) = {Macs[m].base : m \in a1..b1}
  BY RunFacts DEF Run
<1>2. /\ a2 \in 1..Len(Macs) /\ Len(l2) \in Nat \ {0} /\ b2 <= Len(Macs)
      /\ MacsOf(l2) = {Macs[m].base : m \in a2..b2}
  BY RunFacts DEF Run
<1>3. Len(Macs) \in Nat
  BY DEF SystemAssumption
<1>4. k \in a1..b1 /\ k \in a2..b2
  BY DEF Names
<1>5. b1 \in Int /\ b2 \in Int /\ a1 \in Int /\ a2 \in Int /\ a1 >= 1 /\ a2 >= 1 /\ a1 <= b1 /\ a2 <= b2
  <2>1. a1 \in 1..Len(Macs) /\ a2 \in 1..Len(Macs) /\ Len(l1) \in Nat \ {0} /\ Len(l2) \in Nat \ {0}
    BY <1>1, <1>2
  <2>2. \A n \in Nat : \A a \in 1..n, m \in Nat \ {0} :
          a + m - 1 \in Int /\ a \in Int /\ a >= 1 /\ a <= a + m - 1
    OBVIOUS
  <2> QED  BY <1>3, <2>1, <2>2
<1> HIDE DEF a1, a2, b1, b2
<1>6. MacsOf(l1) = MacsOf(l2)
  <2>1. Macs[k].base \in MacsOf(l1) /\ Macs[k].base \in MacsOf(l2)
    BY <1>1, <1>2, <1>4
  <2> QED  BY <2>1 DEF ListsOfNeighbours
<1>7. a1..b1 \subseteq 1..Len(Macs) /\ a2..b2 \subseteq 1..Len(Macs)
  <2>1. b1 <= Len(Macs) /\ b2 <= Len(Macs)
    BY <1>1, <1>2
  <2> QED  BY <1>3, <1>5, <2>1
<1>8. \A m \in a1..b1 : m \in a2..b2
  <2> SUFFICES ASSUME NEW m \in a1..b1 PROVE m \in a2..b2
    OBVIOUS
  <2>1. PICK n \in a2..b2 : Macs[m].base = Macs[n].base
    BY <1>1, <1>2, <1>6
  <2> QED  BY <1>7, <2>1, MacAt
<1>9. \A m \in a2..b2 : m \in a1..b1
  <2> SUFFICES ASSUME NEW m \in a2..b2 PROVE m \in a1..b1
    OBVIOUS
  <2>1. PICK n \in a1..b1 : Macs[m].base = Macs[n].base
    BY <1>1, <1>2, <1>6
  <2> QED  BY <1>7, <2>1, MacAt
<1>10. a1 \in a1..b1 /\ b1 \in a1..b1 /\ a2 \in a2..b2 /\ b2 \in a2..b2
  BY <1>5
<1>11. a1 \in a2..b2 /\ b1 \in a2..b2 /\ a2 \in a1..b1 /\ b2 \in a1..b1
  BY <1>8, <1>9, <1>10
<1>12. a1 = a2 /\ b1 = b2
  BY <1>5, <1>11
<1> QED  BY <1>1, <1>2, <1>3, <1>12 DEF a1, a2, b1, b2

\* A list names exactly the MACs of its run.
LEMMA NamesBase ==
  ASSUME SystemAssumption, ListsOfNeighbours, NEW list \in Lists,
         NEW k \in 1..Len(Macs), NEW c \in 0..(Rows(k) - 1)
  PROVE  Macs[k].base + c \in MacsOf(list) <=> c = 0 /\ Names(list, k)
<1>1. /\ MacsOf(list) = {Macs[m].base : m \in FirstMac(list)..(FirstMac(list) + Len(list) - 1)}
      /\ FirstMac(list) \in 1..Len(Macs) /\ Len(list) \in Nat \ {0}
      /\ FirstMac(list) + Len(list) - 1 <= Len(Macs)
  BY RunFacts DEF Run
<1>2. Macs[k].base \in Nat /\ Rows(k) \in Nat \ {0}
  BY MacFacts DEF MacType
<1>3. ASSUME Macs[k].base + c \in MacsOf(list) PROVE c = 0 /\ Names(list, k)
  <2>1. PICK m \in FirstMac(list)..(FirstMac(list) + Len(list) - 1) : Macs[k].base + c = Macs[m].base
    BY <1>1, <1>3
  <2>2. m \in 1..Len(Macs)
    BY <1>1
  <2>3. Macs[m].base \in Nat /\ Rows(m) \in Nat \ {0}
    BY <2>2, MacFacts DEF MacType
  <2>4. 0 \in 0..(Rows(m) - 1) /\ Macs[k].base + c = Macs[m].base + 0
    <3>1. 0 \in 0..(Rows(m) - 1)
      BY <2>3, ZeroIn
    <3>2. Macs[m].base + 0 = Macs[m].base
      BY <2>3
    <3> QED  BY <2>1, <3>1, <3>2
  <2>5. k = m /\ c = 0
    BY <2>2, <2>4 DEF ListsOfNeighbours
  <2> QED  BY <2>1, <2>5 DEF Names
<1>4. ASSUME c = 0, Names(list, k) PROVE Macs[k].base + c \in MacsOf(list)
  <2>1. Macs[k].base + c = Macs[k].base
    BY <1>2, <1>4
  <2> QED  BY <1>1, <1>4, <2>1 DEF Names
<1> QED  BY <1>3, <1>4

LEMMA PlaceFacts ==
  ASSUME SystemAssumption, TableInv, NEW at, Placed(at), NEW k \in 1..added
  PROVE  /\ k \in 1..Len(Macs) /\ at[k] \in Nat /\ Rows(k) \in Nat \ {0}
         /\ \A c \in 0..(Rows(k) - 1) :
              at[k] + c \in Slots /\ at[k] + c \in Nat /\ at[k] + c < tse_system_count
<1>1. added \in Nat /\ Len(Macs) \in Nat /\ added <= Len(Macs)
      /\ tse_system_count \in Nat /\ tse_system_count < MAXNETS + 3
      /\ MAXNETS \in Nat \ {0} /\ Slots = 0..(MAXNETS + 2)
  BY DEF SystemAssumption, Slots, Spill, TableInv, TableTypes
<1>2. k \in 1..Len(Macs)
  BY <1>1
<1>3. Rows(k) \in Nat \ {0}
  BY <1>2, MacFacts
<1>4. at[k] \in Nat /\ at[k] + Rows(k) <= tse_system_count
  BY DEF Placed
<1>5. \A n \in Nat \ {0}, p \in Nat : p + n <= tse_system_count =>
        \A c \in 0..(n - 1) : p + c \in 0..(MAXNETS + 2) /\ p + c \in Nat /\ p + c < tse_system_count
  BY <1>1
<1> QED  BY <1>1, <1>2, <1>3, <1>4, <1>5

LEMMA RowOfSlot ==
  ASSUME SystemAssumption, TableInv, NEW at, Placed(at), NEW s \in Nat, s < tse_system_count
  PROVE  \E k \in 1..added : \E c \in 0..(Rows(k) - 1) : s = at[k] + c
<1>1. PICK k \in 1..added : at[k] <= s /\ s < at[k] + Rows(k)
  BY DEF Placed
<1>2. at[k] \in Nat /\ Rows(k) \in Nat \ {0}
  BY PlaceFacts
<1>3. \A n \in Nat \ {0}, p \in Nat : p <= s /\ s < p + n => s - p \in 0..(n - 1) /\ s = p + (s - p)
  OBVIOUS
<1>4. s - at[k] \in 0..(Rows(k) - 1) /\ s = at[k] + (s - at[k])
  BY <1>1, <1>2, <1>3
<1> QED  BY <1>4

LEMMA RowsDiffer ==
  ASSUME SystemAssumption, TableInv, NEW at, Placed(at),
         NEW k \in 1..added, NEW l \in 1..added,
         NEW c \in 0..(Rows(k) - 1), NEW d \in 0..(Rows(l) - 1), at[k] + c = at[l] + d
  PROVE  k = l /\ c = d
<1>1. /\ at[k] \in Nat /\ Rows(k) \in Nat \ {0} /\ at[l] \in Nat /\ Rows(l) \in Nat \ {0}
      /\ k \in Int /\ l \in Int /\ c \in Nat /\ d \in Nat /\ c < Rows(k) /\ d < Rows(l)
  <2>1. /\ at[k] \in Nat /\ Rows(k) \in Nat \ {0} /\ at[l] \in Nat /\ Rows(l) \in Nat \ {0}
    BY PlaceFacts
  <2>2. k \in Int /\ l \in Int
    OBVIOUS
  <2>3. \A n \in Nat \ {0} : \A x \in 0..(n - 1) : x \in Nat /\ x < n
    OBVIOUS
  <2> QED  BY <2>1, <2>2, <2>3
<1>2. (k < l => at[k] + Rows(k) <= at[l]) /\ (l < k => at[l] + Rows(l) <= at[k])
  BY DEF Placed
<1>3. ~(k < l) /\ ~(l < k)
  <2>1. \A p, q, n, x, y \in Nat : p + x = q + y /\ x < n => ~(p + n <= q)
    OBVIOUS
  <2>2. Rows(k) \in Nat /\ Rows(l) \in Nat /\ at[l] + d = at[k] + c
    BY <1>1
  <2> QED  BY <1>1, <1>2, <2>1, <2>2
<1>4. k = l
  BY <1>1, <1>3
<1> QED  BY <1>1, <1>4

\* The rows of a list follow each other.
LEMMA RunPlaces ==
  ASSUME SystemAssumption, ListsOfNeighbours, TableInv, NEW at, Placed(at),
         NEW list \in Lists, FirstMac(list) + Len(list) - 1 <= added,
         NEW k, Names(list, k)
  PROVE  /\ k \in 1..added /\ FirstMac(list) \in 1..added
         /\ at[k] = at[FirstMac(list)] + (k - FirstMac(list))
         /\ at[FirstMac(list)] + Len(list) <= tse_system_count
         /\ Rows(k) = 1 /\ Macs[k].multi = FALSE
<1> DEFINE a == FirstMac(list)
           n == Len(list)
<1>1. /\ a \in 1..Len(Macs) /\ n \in Nat \ {0}
      /\ \A m \in a..(a + n - 1) : Macs[m].multi = FALSE /\ Rows(m) = 1
  BY RunFacts DEF Run
<1>2. k \in a..(a + n - 1)
  BY DEF Names
<1>3. a + n - 1 <= added /\ added \in Nat /\ Len(Macs) \in Nat
  BY DEF TableInv, TableTypes, SystemAssumption
<1> HIDE DEF a, n
<1>4. \A m \in a..(a + n - 1) : m \in 1..added
  BY <1>1, <1>3
<1>5. a \in a..(a + n - 1) /\ a + n - 1 \in a..(a + n - 1)
  BY <1>1, <1>3
<1>6. ASSUME NEW m \in a..(a + n - 1) PROVE at[m] = at[a] + (m - a)
  <2>1. m \in 1..added /\ a \in 1..added /\ a <= m
    BY <1>1, <1>4, <1>5
  <2>2. \A j \in a..(m - 1) : j \in a..(a + n - 1)
    BY <1>1, <1>6
  <2>3. \A j \in a..(m - 1) : Rows(j) = 1
    BY <1>1, <2>2
  <2> QED  BY <2>1, <2>3 DEF Placed
<1>7. /\ at[a + n - 1] = at[a] + (n - 1)
  <2>1. (a + n - 1) - a = n - 1
    BY <1>1
  <2> QED  BY <1>5, <1>6, <2>1
<1>8. at[a + n - 1] + 1 <= tse_system_count
  BY <1>1, <1>4, <1>5 DEF Placed
<1>9. at[a] + n <= tse_system_count
  <2>1. at[a] \in Nat
    BY <1>4, <1>5 DEF Placed
  <2> QED  BY <1>1, <1>7, <1>8, <2>1
<1> QED  BY <1>1, <1>2, <1>4, <1>5, <1>6, <1>9 DEF a, n

LEMMA FitInit == ASSUME SystemAssumption, SystemInit PROVE FitInv
<1> DEFINE at == [k \in 1..0 |-> 0]
<1>1. at \in [1..0 -> Nat] /\ 1..0 = {}
  OBVIOUS
<1>2. added = 0 /\ known = 0 /\ tse_system_count = 0 /\ shared = {} /\ grouped = FALSE
      /\ tse_mac_device = [s \in Slots |-> Empty]
  BY DEF SystemInit
<1> HIDE DEF at
<1>3. Placed(at)
  <2>1. \A s \in Slots : tse_mac_device[s].base = NoBase
    BY <1>2 DEF Empty
  <2>2. \A s \in Nat : ~ (s < 0)
    OBVIOUS
  <2> QED  BY <1>1, <1>2, <2>1, <2>2 DEF Placed
<1>4. Marked(at)
  BY <1>1, <1>2 DEF Marked, Accepted, RowsMarked
<1>5. Complete(at)
  BY <1>2 DEF Complete
<1> QED  BY <1>3, <1>4, <1>5 DEF FitInv

LEMMA FitAdd ==
  ASSUME SystemAssumption, ListsOfNeighbours, TableInv, FitInv, Fit', AddNext
  PROVE  FitInv'
<1> DEFINE m == Macs[added + 1]
           n == Rows(added + 1)
<1>1. added < Len(Macs)
  BY DEF AddNext
<1>2. m \in MacType /\ n \in Nat \ {0}
  BY <1>1, MacOfTable DEF TableInv, Rows
<1>3. PICK q \in 0..Loops(m) : \E failed \in {"none", "tx", "rx"} : AddSys(m, q, failed)
  BY DEF m, AddNext
<1>4. PICK failed \in {"none", "tx", "rx"} : AddSys(m, q, failed)
  BY <1>3
<1>5. failed = "none" /\ q = n /\ refused = FALSE
  <2>1. refused' = (refused \/ failed # "none") /\ refused' = FALSE /\ refused \in BOOLEAN
    BY <1>4 DEF AddSys, Fit, TableInv, TableTypes
  <2>2. (failed = "none") <=> (q = Loops(m))
    BY <1>4 DEF AddSys
  <2> QED  BY <2>1, <2>2 DEF m, n, Rows
<1>6. n = Loops(m)
  BY DEF m, n, Rows
<1> HIDE DEF m
<1>7. /\ tse_system_count' = tse_system_count + q
      /\ tse_system_count + Loops(m) < MAXNETS + 3
      /\ tse_mac_device' \in [Slots -> Row]
      /\ \A s \in Slots : s < tse_system_count => tse_mac_device'[s] = tse_mac_device[s]
      /\ \A k \in 0..(q - 1) : /\ tse_system_count + k \in Slots
                               /\ tse_mac_device'[tse_system_count + k] = Entry(m, k)
      /\ \A s \in Slots : s >= tse_system_count + q =>
           \/ tse_mac_device'[s] = tse_mac_device[s]
           \/ failed # "none" /\ tse_mac_device'[s].rx = FALSE
  BY <1>2, <1>4, AddRows DEF TableInv
<1>8. /\ tse_system_count' = tse_system_count + n
      /\ \A s \in Slots : s < tse_system_count => tse_mac_device'[s] = tse_mac_device[s]
      /\ \A k \in 0..(n - 1) : tse_mac_device'[tse_system_count + k] = Entry(m, k)
      /\ \A s \in Slots : s >= tse_system_count + n => tse_mac_device'[s] = tse_mac_device[s]
  BY <1>5, <1>7
<1>9. /\ place = "idle" /\ UNCHANGED <<grouped, place, slot, pmac_groups, known, shared>>
      /\ added' = added + 1
  BY <1>4, <1>5 DEF AddSys, groupVars
<1>10. /\ added \in Nat /\ known \in Nat /\ known <= added /\ tse_system_count \in Nat
       /\ shared \subseteq Lists /\ Len(Macs) \in Nat
  BY DEF TableInv, TableTypes, SystemAssumption
<1>11. Fit
  <2>1. tse_system_count + n <= MAXNETS /\ MAXNETS \in Nat
    BY <1>8 DEF Fit, SystemAssumption
  <2> QED  BY <1>2, <1>5, <1>10, <2>1 DEF Fit
<1>12. PICK at : Placed(at) /\ Marked(at) /\ Complete(at)
  BY <1>11 DEF FitInv
<1>22. PICK new : new = [k \in 1..(added + 1) |-> IF k <= added THEN at[k] ELSE tse_system_count]
  OBVIOUS
<1>13. at \in [1..added -> Nat]
  BY <1>12 DEF Placed
<1>14. /\ new \in [1..(added + 1) -> Nat] /\ new[added + 1] = tse_system_count
       /\ \A k \in 1..added : new[k] = at[k]
  BY <1>10, <1>13, <1>22
<1>15. \A k \in 1..(added + 1) : k \in 1..added \/ k = added + 1
  BY <1>10
<1>16. 1..added \subseteq 1..(added + 1) /\ 1..known \subseteq 1..added
  BY <1>10
<1>17. ASSUME NEW k \in 1..added
       PROVE  /\ at[k] \in Nat /\ Rows(k) \in Nat \ {0} /\ at[k] + Rows(k) <= tse_system_count
              /\ \A c \in 0..(Rows(k) - 1) :
                   tse_mac_device'[new[k] + c] = tse_mac_device[at[k] + c]
  BY <1>8, <1>12, <1>14, PlaceFacts DEF Placed
<1>18. ASSUME NEW c \in 0..(n - 1)
       PROVE  tse_mac_device'[new[added + 1] + c] = Entry(m, c)
  BY <1>8, <1>14
<1>19. Placed(new)'
  <2>1. new \in [1..added' -> Nat]
    BY <1>9, <1>14
  <2>2. ASSUME NEW k \in 1..added' PROVE new[k] + Rows(k) <= tse_system_count'
    <3>1. CASE k \in 1..added
      <4>1. new[k] = at[k] /\ at[k] \in Nat /\ Rows(k) \in Nat /\ at[k] + Rows(k) <= tse_system_count
        BY <1>14, <1>17, <3>1
      <4>2. n \in Nat
        BY <1>2
      <4> HIDE DEF n
      <4> QED  BY <1>8, <1>10, <4>1, <4>2
    <3>2. CASE k = added + 1
      BY <1>8, <1>14, <3>2
    <3> QED  BY <1>9, <1>15, <3>1, <3>2
  <2>3. ASSUME NEW k \in 1..added', NEW l \in 1..added', k < l PROVE new[k] + Rows(k) <= new[l]
    <3>1. k \in 1..added
      BY <1>9, <1>10, <2>3
    <3>2. CASE l \in 1..added
      BY <1>12, <1>14, <2>3, <3>1, <3>2 DEF Placed
    <3>3. CASE l = added + 1
      BY <1>14, <1>17, <3>1, <3>3
    <3> QED  BY <1>9, <1>15, <3>2, <3>3
  <2>4. ASSUME NEW s \in Nat, s < tse_system_count'
        PROVE  \E k \in 1..added' : new[k] <= s /\ s < new[k] + Rows(k)
    <3>1. CASE s < tse_system_count
      <4>1. PICK k \in 1..added : at[k] <= s /\ s < at[k] + Rows(k)
        BY <1>12, <3>1 DEF Placed
      <4> QED  BY <1>9, <1>14, <1>16, <4>1
    <3>2. CASE s >= tse_system_count
      <4>1. added + 1 \in 1..added' /\ new[added + 1] <= s /\ s < new[added + 1] + Rows(added + 1)
        BY <1>8, <1>9, <1>10, <1>14, <2>4, <3>2
      <4> QED  BY <4>1
    <3>3. s < tse_system_count \/ s >= tse_system_count
      BY <1>10
    <3> QED  BY <3>1, <3>2, <3>3
  <2>5. ASSUME NEW a \in 1..added', NEW b \in 1..added', a <= b, \A k \in a..(b - 1) : Rows(k) = 1
        PROVE  new[b] = new[a] + (b - a)
    <3>1. CASE b \in 1..added
      <4>1. a \in 1..added
        BY <1>9, <1>10, <2>5, <3>1
      <4> QED  BY <1>12, <1>14, <2>5, <3>1, <4>1 DEF Placed
    <3>2. CASE b = added + 1 /\ a \in 1..added
      <4>1. added \in 1..added /\ a <= added /\ \A k \in a..(added - 1) : Rows(k) = 1
        BY <1>10, <2>5, <3>2
      <4>2. at[added] = at[a] + (added - a)
        BY <1>12, <4>1, <3>2 DEF Placed
      <4>3. added \in a..(b - 1)
        BY <1>10, <3>2, <4>1
      <4>4. Rows(added) = 1
        BY <2>5, <4>3
      <4>5. added > 0
        BY <4>1
      <4>6. at[added] + 1 = tse_system_count
        BY <1>12, <4>4, <4>5 DEF Placed
      <4>7. at[a] \in Nat
        BY <1>17, <3>2
      <4>8. new[b] = tse_system_count /\ new[a] = at[a]
        BY <1>14, <3>2
      <4>9. \A p, x, y \in Int : (p + (y - x)) + 1 = p + ((y + 1) - x)
        OBVIOUS
      <4>10. a \in Int /\ added \in Int /\ at[a] \in Int
        BY <3>2, <4>1, <4>7
      <4>11. tse_system_count = (at[a] + (added - a)) + 1
        BY <4>2, <4>6
      <4>12. (at[a] + (added - a)) + 1 = at[a] + ((added + 1) - a)
        BY <4>9, <4>10
      <4> QED  BY <3>2, <4>8, <4>11, <4>12
    <3>3. CASE b = added + 1 /\ a = added + 1
      BY <1>10, <1>14, <3>3
    <3> QED  BY <1>9, <1>15, <3>1, <3>2, <3>3
  <2>6. ASSUME NEW k \in 1..added', NEW c \in 0..(Rows(k) - 1)
        PROVE  /\ tse_mac_device'[new[k] + c].base = Macs[k].base + c
               /\ tse_mac_device'[new[k] + c].multi = Macs[k].multi
               /\ tse_mac_device'[new[k] + c].channels = Macs[k].channels
    <3>1. CASE k \in 1..added
      <4>1. tse_mac_device'[new[k] + c] = tse_mac_device[at[k] + c]
        BY <1>17, <3>1
      <4>2. /\ tse_mac_device[at[k] + c].base = Macs[k].base + c
            /\ tse_mac_device[at[k] + c].multi = Macs[k].multi
            /\ tse_mac_device[at[k] + c].channels = Macs[k].channels
        BY <1>12, <3>1 DEF Placed
      <4> QED  BY <4>1, <4>2
    <3>2. CASE k = added + 1
      <4>1. tse_mac_device'[new[k] + c] = Entry(m, c)
        BY <1>18, <3>2
      <4> QED  BY <3>2, <4>1 DEF Entry, m
    <3> QED  BY <1>9, <1>15, <3>1, <3>2
  <2>7. new[added'] + Rows(added') = tse_system_count' /\ added' # 0
    BY <1>8, <1>9, <1>10, <1>14
  <2>8. ASSUME NEW s \in Slots, s >= tse_system_count'
        PROVE  tse_mac_device'[s].base = NoBase
    <3>1. s \in Nat /\ s >= tse_system_count + n /\ s >= tse_system_count
      BY <1>2, <1>8, <1>10, <2>8 DEF Slots
    <3> QED  BY <1>8, <1>12, <3>1 DEF Placed
  <2>9. Slots' = Slots
    BY DEF Slots
  <2> HIDE DEF n
  <2> QED  BY <2>1, <2>2, <2>3, <2>4, <2>5, <2>6, <2>7, <2>8, <2>9, Zenon DEF Placed
<1>20. Marked(new)'
  <2>1. ASSUME NEW list \in shared
        PROVE  /\ FirstMac(list) + Len(list) - 1 <= added
               /\ grouped => FirstMac(list) + Len(list) - 1 <= known
    BY <1>12 DEF Marked, Accepted
  <2>2. ASSUME NEW list \in shared PROVE FirstMac(list) + Len(list) - 1 \in Int
    <3>1. list \in Lists
      BY <1>10
    <3>2. FirstMac(list) \in 1..Len(Macs) /\ Len(list) \in Nat
      BY <3>1, RunFacts
    <3> QED  BY <1>10, <3>2
  <2>3. ASSUME ~(grouped /\ place = "idle"), NEW list \in shared, NEW k \in 1..added', Names(list, k)
        PROVE  tse_mac_device'[new[k]].shared = TRUE /\ tse_mac_device'[new[k]].number = Len(list)
    <3>1. k \in 1..added
      BY <1>9, <1>10, <2>1, <2>2, <2>3 DEF Names
    <3>2. 0 \in 0..(Rows(k) - 1) /\ at[k] + 0 = at[k] /\ new[k] + 0 = new[k]
      BY <1>14, <1>17, <3>1, ZeroIn
    <3>3. tse_mac_device'[new[k]] = tse_mac_device[at[k]]
      BY <1>17, <3>1, <3>2
    <3> QED  BY <1>12, <2>3, <3>1, <3>3 DEF Marked, RowsMarked, ListMarked
  <2>4. ASSUME ~(grouped /\ place = "idle"), NEW k \in 1..added', NEW c \in 0..(Rows(k) - 1),
               tse_mac_device'[new[k] + c].shared = TRUE
        PROVE  c = 0 /\ \E list \in shared : Names(list, k)
    <3>1. CASE k \in 1..added
      BY <1>12, <1>17, <2>4, <3>1 DEF Marked, RowsMarked, OthersNot
    <3>2. CASE k = added + 1
      <4>1. tse_mac_device'[new[k] + c] = Entry(m, c)
        BY <1>18, <3>2
      <4> QED  BY <2>4, <4>1 DEF Entry
    <3> QED  BY <1>9, <1>15, <3>1, <3>2
  <2>5. \A list \in shared : FirstMac(list) + Len(list) - 1 <= added + 1
    BY <1>10, <2>1, <2>2
  <2>6. Accepted'
    BY <1>9, <2>1, <2>5 DEF Accepted
  <2>7. grouped' = grouped /\ place' = place /\ shared' = shared
    BY <1>9
  <2>8. ASSUME ~(grouped /\ place = "idle"), NEW list \in shared PROVE ListMarked(list, new)'
    BY <2>3, <2>8 DEF ListMarked
  <2>9. ASSUME ~(grouped /\ place = "idle"), NEW k \in 1..added' PROVE OthersNot(k, new)'
    BY <2>4, <2>7, <2>9 DEF OthersNot
  <2>10. ASSUME ~(grouped /\ place = "idle") PROVE RowsMarked(new)'
    BY <2>7, <2>8, <2>9, <2>10 DEF RowsMarked
  <2> QED  BY <2>6, <2>7, <2>10 DEF Marked
<1>21. Complete(new)'
  <2>1. \A k \in 1..known : new[k] = at[k]
    BY <1>14, <1>16
  <2>2. \A list \in shared : grouped => new[FirstMac(list)] = at[FirstMac(list)]
    <3> SUFFICES ASSUME NEW list \in shared PROVE new[FirstMac(list)] = at[FirstMac(list)]
      OBVIOUS
    <3>1. list \in Lists /\ FirstMac(list) + Len(list) - 1 <= added
      BY <1>10, <1>12 DEF Marked, Accepted
    <3>2. FirstMac(list) \in 1..Len(Macs) /\ Len(list) \in Nat \ {0}
      BY <3>1, RunFacts
    <3>3. FirstMac(list) \in 1..added
      BY <1>10, <3>1, <3>2
    <3> QED  BY <1>14, <3>3
  <2>3. place' = "idle" /\ grouped' = grouped /\ known' = known /\ shared' = shared
        /\ pmac_groups' = pmac_groups /\ place = "idle"
    BY <1>9
  <2>4. \A s : Past(s) /\ Past(s)' /\ (Covered(s)' <=> Covered(s))
    BY <2>3 DEF Past, Covered
  <2>5. \A s, w : Whole(s, w)' <=> Whole(s, w)
    BY <2>3 DEF Whole
  <2>6. ASSUME grouped, NEW k \in 1..known
        PROVE  /\ \A c \in 0..(Rows(k) - 1) : Covered(new[k] + c)
               /\ Macs[k].multi => Whole(new[k], Rows(k))
    BY <1>12, <2>1, <2>4, <2>6 DEF Complete
  <2>7. ASSUME grouped, NEW list \in shared PROVE Whole(new[FirstMac(list)], Len(list))
    BY <1>12, <2>2, <2>4, <2>7 DEF Complete
  <2> QED  BY <2>3, <2>4, <2>5, <2>6, <2>7 DEF Complete
<1> QED  BY <1>19, <1>20, <1>21 DEF FitInv

\* What accepting a list does to the rows of the table.
LEMMA ShareMarks ==
  ASSUME SystemAssumption, ListsOfNeighbours, TableInv, NEW at, Placed(at),
         NEW list \in Lists, EnableSharing(list)
  PROVE  /\ FirstMac(list) + Len(list) - 1 <= added
         /\ Refused(list) = {}
         /\ \A k \in 1..added : \A c \in 0..(Rows(k) - 1) :
              IF c = 0 /\ Names(list, k)
              THEN /\ tse_mac_device'[at[k] + c].shared = TRUE
                   /\ tse_mac_device'[at[k] + c].number = Len(list)
              ELSE tse_mac_device'[at[k] + c] = tse_mac_device[at[k] + c]
<1> DEFINE taken == {list[x] : x \in {l \in DOMAIN list : \A r \in Refused(list) : l < r}}
<1>1. /\ \A x \in DOMAIN list : \E s \in Slots : tse_mac_device[s].base = list[x]
      /\ tse_mac_device' =
           [s \in Slots |-> IF s < max_mac_system /\ tse_mac_device[s].base \in taken
                                   THEN [tse_mac_device[s] EXCEPT !.shared = TRUE, !.number = Len(list)]
                                   ELSE tse_mac_device[s]]
  BY DEF EnableSharing
<1>2. /\ Run(list, FirstMac(list)) /\ FirstMac(list) \in 1..Len(Macs) /\ Len(list) \in Nat \ {0}
      /\ FirstMac(list) + Len(list) - 1 <= Len(Macs)
      /\ MacsOf(list) = {Macs[k].base : k \in FirstMac(list)..(FirstMac(list) + Len(list) - 1)}
      /\ \A k \in FirstMac(list)..(FirstMac(list) + Len(list) - 1) : Macs[k].multi = FALSE
  BY RunFacts DEF Run
<1>3. /\ Len(Macs) \in Nat /\ added \in Nat /\ added <= Len(Macs)
      /\ tse_system_count \in Nat /\ tse_system_count <= max_mac_system /\ max_mac_system \in Nat
      /\ Slots = 0..(MAXNETS + 2) /\ MAXNETS \in Nat \ {0} /\ max_mac_system <= MAXNETS + 2
  BY DEF SystemAssumption, Slots, Spill, TableInv, TableTypes
\* A row whose base the list names is that of one of its MACs.
<1>4. ASSUME NEW s \in Slots, tse_mac_device[s].base \in MacsOf(list)
      PROVE  \E k \in 1..added : Names(list, k) /\ s = at[k]
  <2>1. PICK j \in FirstMac(list)..(FirstMac(list) + Len(list) - 1) : tse_mac_device[s].base = Macs[j].base
    BY <1>2, <1>4
  <2>2. j \in 1..Len(Macs)
    BY <1>2, <1>3
  <2>3. Macs[j].base \in Nat
    BY <2>2, MacFacts DEF MacType
  <2>4. tse_mac_device[s].base # NoBase
    BY <2>1, <2>3 DEF NoBase
  <2>5. s \in Nat /\ s < tse_system_count
    BY <1>3, <2>4 DEF Placed
  <2>6. PICK k \in 1..added : \E c \in 0..(Rows(k) - 1) : s = at[k] + c
    BY <2>5, RowOfSlot
  <2>7. PICK c \in 0..(Rows(k) - 1) : s = at[k] + c
    BY <2>6
  <2>8. tse_mac_device[s].base = Macs[k].base + c
    BY <2>7 DEF Placed
  <2>9. k \in 1..Len(Macs) /\ at[k] \in Nat
    BY PlaceFacts
  <2>10. c = 0 /\ Names(list, k)
    BY <1>4, <2>8, <2>9, NamesBase
  <2> QED  BY <2>7, <2>9, <2>10
<1>5. ASSUME NEW k, Names(list, k) PROVE k \in 1..added
  <2>0. k \in FirstMac(list)..(FirstMac(list) + Len(list) - 1)
    BY <1>5 DEF Names
  <2>1. k \in 1..Len(Macs) /\ Macs[k].base \in MacsOf(list)
    <3>1. Macs[k].base \in MacsOf(list)
      BY <1>2, <2>0
    <3>2. \A n \in Nat : \A a \in 1..n, m \in Nat \ {0} : a + m - 1 <= n => a..(a + m - 1) \subseteq 1..n
      OBVIOUS
    <3>3. FirstMac(list)..(FirstMac(list) + Len(list) - 1) \subseteq 1..Len(Macs)
      BY <1>2, <1>3, <3>2
    <3> QED  BY <2>0, <3>1, <3>3
  <2>2. PICK x \in DOMAIN list : list[x] = Macs[k].base
    BY <2>1 DEF MacsOf
  <2>3. PICK s \in Slots : tse_mac_device[s].base = Macs[k].base
    BY <1>1, <2>2
  <2>4. PICK l \in 1..added : s = at[l]
    BY <1>4, <2>1, <2>3
  <2>5. l \in 1..Len(Macs) /\ at[l] \in Nat /\ Rows(l) \in Nat \ {0}
    BY PlaceFacts
  <2>6. 0 \in 0..(Rows(l) - 1) /\ at[l] + 0 = s
    BY <2>4, <2>5, ZeroIn
  <2>7. tse_mac_device[s].base = Macs[l].base + 0
    BY <2>6 DEF Placed
  <2>8. Macs[l].base \in Nat
    BY <2>5, MacFacts DEF MacType
  <2>9. Macs[k].base = Macs[l].base
    BY <2>3, <2>7, <2>8
  <2> QED  BY <2>1, <2>5, <2>9, MacAt
<1>6. FirstMac(list) + Len(list) - 1 <= added
  <2>1. FirstMac(list) + Len(list) - 1 \in FirstMac(list)..(FirstMac(list) + Len(list) - 1)
    BY <1>2, <1>3
  <2>2. FirstMac(list) + Len(list) - 1 \in 1..added
    BY <1>5, <2>1 DEF Names
  <2> QED  BY <1>3, <2>2
<1>7. Refused(list) = {}
  <2> SUFFICES ASSUME NEW x \in DOMAIN list, NEW s \in 0..(max_mac_system - 1),
                      tse_mac_device[s].base = list[x], tse_mac_device[s].multi
               PROVE  FALSE
    BY DEF Refused
  <2>1. s \in Slots /\ tse_mac_device[s].base \in MacsOf(list)
    BY <1>3 DEF MacsOf
  <2>2. PICK k \in 1..added : Names(list, k) /\ s = at[k]
    BY <1>4, <2>1
  <2>3. at[k] \in Nat /\ Rows(k) \in Nat \ {0}
    BY PlaceFacts
  <2>4. 0 \in 0..(Rows(k) - 1) /\ at[k] + 0 = s
    BY <2>2, <2>3, ZeroIn
  <2>5. tse_mac_device[s].multi = Macs[k].multi
    BY <2>4 DEF Placed
  <2> QED  BY <1>2, <2>2, <2>5 DEF Names
<1>8. taken = MacsOf(list)
  BY <1>7 DEF MacsOf
<1> HIDE DEF taken
<1>9. ASSUME NEW k \in 1..added, NEW c \in 0..(Rows(k) - 1)
      PROVE  IF c = 0 /\ Names(list, k)
             THEN /\ tse_mac_device'[at[k] + c].shared = TRUE
                  /\ tse_mac_device'[at[k] + c].number = Len(list)
             ELSE tse_mac_device'[at[k] + c] = tse_mac_device[at[k] + c]
  <2>1. at[k] + c \in Slots /\ at[k] + c < tse_system_count /\ at[k] + c \in Nat /\ k \in 1..Len(Macs)
    BY PlaceFacts
  <2>2. tse_mac_device[at[k] + c].base = Macs[k].base + c
    BY DEF Placed
  <2>3. tse_mac_device[at[k] + c].base \in taken <=> c = 0 /\ Names(list, k)
    BY <1>8, <2>1, <2>2, NamesBase
  <2>4. at[k] + c < max_mac_system
    <3>1. \A x, y, z \in Nat : x < y /\ y <= z => x < z
      OBVIOUS
    <3> QED  BY <1>3, <2>1, <3>1
  <2>5. tse_mac_device'[at[k] + c] =
          IF tse_mac_device[at[k] + c].base \in taken
          THEN [tse_mac_device[at[k] + c] EXCEPT !.shared = TRUE, !.number = Len(list)]
          ELSE tse_mac_device[at[k] + c]
    BY <1>1, <2>1, <2>4
  <2>6. tse_mac_device[at[k] + c] \in Row
    BY <2>1 DEF TableInv, TableTypes
  <2>7. CASE c = 0 /\ Names(list, k)
    <3>1. tse_mac_device'[at[k] + c] = [tse_mac_device[at[k] + c] EXCEPT !.shared = TRUE, !.number = Len(list)]
      BY <2>3, <2>5, <2>7
    <3> QED  BY <2>6, <2>7, <3>1 DEF Row
  <2>8. CASE ~(c = 0 /\ Names(list, k))
    BY <2>3, <2>5, <2>8
  <2> QED  BY <2>7, <2>8
<1> QED  BY <1>6, <1>7, <1>9

LEMMA FitShare ==
  ASSUME SystemAssumption, ListsOfNeighbours, TableInv, FitInv, Fit',
         NEW list \in Lists, EnableSharing(list)
  PROVE  FitInv'
<1>1. /\ place = "idle"
      /\ UNCHANGED <<tse_system_count, grouped, place, slot, pmac_groups, added, known, refused>>
      /\ shared' = IF Refused(list) = {} /\ ~grouped THEN shared \cup {list} ELSE shared
  BY DEF EnableSharing, groupVars
<1>2. Fit
  BY <1>1 DEF Fit
<1>3. PICK at : Placed(at) /\ Marked(at) /\ Complete(at)
  BY <1>2 DEF FitInv
<1>4. /\ FirstMac(list) + Len(list) - 1 <= added
      /\ Refused(list) = {}
      /\ \A k \in 1..added : \A c \in 0..(Rows(k) - 1) :
           IF c = 0 /\ Names(list, k)
           THEN /\ tse_mac_device'[at[k] + c].shared = TRUE
                /\ tse_mac_device'[at[k] + c].number = Len(list)
           ELSE tse_mac_device'[at[k] + c] = tse_mac_device[at[k] + c]
  BY <1>3, ShareMarks
<1>5. shared \subseteq Lists /\ grouped \in BOOLEAN
  BY DEF TableInv, TableTypes
<1>6. \A s \in Slots :
        /\ tse_mac_device'[s].base = tse_mac_device[s].base
        /\ tse_mac_device'[s].multi = tse_mac_device[s].multi
        /\ tse_mac_device'[s].channels = tse_mac_device[s].channels
  BY ShareRows DEF TableInv
<1>7. Placed(at)'
  <2>1. \A k \in 1..added : \A c \in 0..(Rows(k) - 1) :
          /\ tse_mac_device'[at[k] + c].base = Macs[k].base + c
          /\ tse_mac_device'[at[k] + c].multi = Macs[k].multi
          /\ tse_mac_device'[at[k] + c].channels = Macs[k].channels
    BY <1>3, <1>6, PlaceFacts DEF Placed
  <2>2. \A s \in Slots : s >= tse_system_count => tse_mac_device'[s].base = NoBase
    BY <1>3, <1>6 DEF Placed
  <2>3. Slots' = Slots
    BY DEF Slots
  <2> QED  BY <1>1, <1>3, <2>1, <2>2, <2>3 DEF Placed
<1>8. Marked(at)'
  <2>1. CASE grouped
    <3>1. shared' = shared
      BY <1>1, <2>1
    <3> QED  BY <1>1, <1>3, <2>1, <3>1 DEF Marked, Accepted
  <2>2. CASE ~grouped
    <3>1. shared' = shared \cup {list}
      BY <1>1, <1>4, <2>2
    <3>2. RowsMarked(at) /\ Accepted
      BY <1>3, <2>2 DEF Marked
    <3>3. Accepted'
      BY <1>1, <1>4, <2>2, <3>1, <3>2 DEF Accepted
    <3>4. ASSUME NEW other \in shared', NEW k \in 1..added, Names(other, k)
          PROVE  tse_mac_device'[at[k]].shared = TRUE /\ tse_mac_device'[at[k]].number = Len(other)
      <4>1. at[k] \in Nat /\ Rows(k) \in Nat \ {0}
        BY <1>3, PlaceFacts
      <4>2. 0 \in 0..(Rows(k) - 1) /\ at[k] + 0 = at[k]
        BY <4>1, ZeroIn
      <4>3. IF Names(list, k)
            THEN tse_mac_device'[at[k]].shared = TRUE /\ tse_mac_device'[at[k]].number = Len(list)
            ELSE tse_mac_device'[at[k]] = tse_mac_device[at[k]]
        BY <1>4, <4>2
      <4>4. CASE Names(list, k)
        <5>1. other \in Lists
          BY <1>5, <3>1
        <5>2. Len(other) = Len(list)
          BY <3>4, <4>4, <5>1, RunsAgree
        <5> QED  BY <4>3, <4>4, <5>2
      <4>5. CASE ~Names(list, k)
        <5>1. other \in shared
          BY <3>1, <3>4, <4>5
        <5> QED  BY <3>2, <3>4, <4>3, <4>5, <5>1 DEF RowsMarked, ListMarked
      <4> QED  BY <4>4, <4>5
    <3>5. ASSUME NEW k \in 1..added, NEW c \in 0..(Rows(k) - 1), tse_mac_device'[at[k] + c].shared = TRUE
          PROVE  c = 0 /\ \E other \in shared' : Names(other, k)
      <4>1. CASE c = 0 /\ Names(list, k)
        BY <3>1, <4>1
      <4>2. CASE ~(c = 0 /\ Names(list, k))
        <5>1. tse_mac_device'[at[k] + c] = tse_mac_device[at[k] + c]
          BY <1>4, <4>2
        <5>2. c = 0 /\ \E other \in shared : Names(other, k)
          BY <3>2, <3>5, <5>1 DEF RowsMarked, OthersNot
        <5> QED  BY <3>1, <5>2
      <4> QED  BY <4>1, <4>2
    <3>6. ASSUME NEW other \in shared' PROVE ListMarked(other, at)'
      BY <1>1, <3>4, <3>6 DEF ListMarked
    <3>7. ASSUME NEW k \in 1..added PROVE OthersNot(k, at)'
      BY <3>5, <3>7 DEF OthersNot
    <3>8. RowsMarked(at)'
      BY <1>1, <3>6, <3>7 DEF RowsMarked
    <3> QED  BY <3>3, <3>8 DEF Marked
  <2> QED  BY <2>1, <2>2
<1>9. Complete(at)'
  <2>1. CASE grouped
    <3>1. shared' = shared
      BY <1>1, <2>1
    <3>2. \A q : (Past(q)' <=> Past(q)) /\ (Covered(q)' <=> Covered(q))
      BY <1>1 DEF Past, Covered
    <3>3. \A q, w : Whole(q, w)' <=> Whole(q, w)
      BY <1>1 DEF Whole
    <3> QED  BY <1>1, <1>3, <3>1, <3>2, <3>3 DEF Complete
  <2>2. CASE ~grouped
    BY <1>1, <2>2 DEF Complete
  <2> QED  BY <2>1, <2>2
<1> QED  BY <1>7, <1>8, <1>9 DEF FitInv

\* The rows of a group that begins where the driver looks: those of one MAC with
\* channels, those of one list, or a single one.
LEMMA BlockAt ==
  ASSUME SystemAssumption, ListsOfNeighbours, TableInv, Fit, NEW at,
         Placed(at), Marked(at), Complete(at), place = "group", slot < tse_system_count
  PROVE  /\ \A k \in 1..added :
              Macs[k].multi /\ slot <= at[k] /\ at[k] < slot + Channel(slot) =>
                at[k] = slot /\ Rows(k) = Channel(slot)
         /\ \A list \in shared :
              slot <= at[FirstMac(list)] /\ at[FirstMac(list)] < slot + Channel(slot) =>
                at[FirstMac(list)] = slot /\ Len(list) = Channel(slot)
<1>1. /\ slot \in Nat /\ grouped /\ shared \subseteq Lists /\ known = added
      /\ added \in Nat /\ Len(Macs) \in Nat /\ added <= Len(Macs)
  BY DEF TableInv, TableTypes, SystemAssumption
<1>2. PICK k \in 1..added : \E d \in 0..(Rows(k) - 1) : slot = at[k] + d
  BY <1>1, RowOfSlot
<1>3. PICK d \in 0..(Rows(k) - 1) : slot = at[k] + d
  BY <1>2
<1>4. /\ at[k] \in Nat /\ Rows(k) \in Nat \ {0} /\ d \in Nat /\ d < Rows(k) /\ k \in 1..Len(Macs)
  <2>1. at[k] \in Nat /\ Rows(k) \in Nat \ {0} /\ k \in 1..Len(Macs)
    BY PlaceFacts
  <2>2. \A n \in Nat \ {0} : \A x \in 0..(n - 1) : x \in Nat /\ x < n
    OBVIOUS
  <2> QED  BY <2>1, <2>2
<1>5. /\ tse_mac_device[slot].multi = Macs[k].multi
      /\ tse_mac_device[slot].channels = Macs[k].channels
  BY <1>3 DEF Placed
<1>6. slot \in Slots /\ tse_mac_device[slot] \in Row
  BY <1>3, PlaceFacts DEF TableInv, TableTypes
<1>7. RowsMarked(at) /\ Accepted
  BY DEF Marked
<1>8. \A list \in shared :
        /\ list \in Lists /\ FirstMac(list) + Len(list) - 1 <= added
        /\ Names(list, FirstMac(list))
        /\ FirstMac(list) \in 1..added /\ Len(list) \in Nat \ {0}
  <2> SUFFICES ASSUME NEW list \in shared
               PROVE  /\ list \in Lists /\ FirstMac(list) + Len(list) - 1 <= added
                      /\ Names(list, FirstMac(list))
                      /\ FirstMac(list) \in 1..added /\ Len(list) \in Nat \ {0}
    OBVIOUS
  <2>1. list \in Lists /\ FirstMac(list) + Len(list) - 1 <= added
    BY <1>1, <1>7 DEF Accepted
  <2>2. FirstMac(list) \in 1..Len(Macs) /\ Len(list) \in Nat \ {0}
    BY <2>1, RunFacts
  <2>3. Names(list, FirstMac(list))
    <3>1. \A a \in 1..Len(Macs), n \in Nat \ {0} : a \in a..(a + n - 1)
      BY <1>1
    <3> QED  BY <2>2, <3>1 DEF Names
  <2>4. FirstMac(list) \in 1..added
    BY <2>1, <2>3, RunPlaces
  <2> QED  BY <2>1, <2>2, <2>3, <2>4
<1>9. ASSUME NEW list \in shared
      PROVE  Macs[FirstMac(list)].multi = FALSE /\ Rows(FirstMac(list)) = 1
  BY <1>8, RunPlaces
<1>10. CASE Macs[k].multi = TRUE
  <2>1. Channel(slot) = Rows(k)
    <3>1. Channel(slot) = tse_mac_device[slot].channels
      BY <1>5, <1>10 DEF Channel
    <3> QED  BY <1>4, <1>5, <1>10, <3>1, MacFacts
  <2>2. at[k] < slot => at[k] + Rows(k) <= slot
    BY <1>1, <1>10 DEF Complete
  <2>3. slot = at[k]
    <3>1. \A s, p, x, n \in Nat : s = p + x /\ x < n /\ (p < s => p + n <= s) => s = p
      OBVIOUS
    <3>2. Rows(k) \in Nat
      BY <1>4
    <3> QED  BY <1>1, <1>3, <1>4, <2>2, <3>1, <3>2
  <2>4. ASSUME NEW l \in 1..added, slot <= at[l], at[l] < slot + Rows(k) PROVE l = k
    <3>1. at[l] \in Nat /\ Rows(l) \in Nat \ {0}
      BY PlaceFacts
    <3>2. \A x, y \in Nat, n \in Nat \ {0} : x <= y /\ y < x + n => y - x \in 0..(n - 1) /\ x + (y - x) = y + 0
      OBVIOUS
    <3>3. at[l] - at[k] \in 0..(Rows(k) - 1) /\ at[k] + (at[l] - at[k]) = at[l] + 0
      BY <1>4, <2>3, <2>4, <3>1, <3>2
    <3>4. 0 \in 0..(Rows(l) - 1)
      BY <3>1, ZeroIn
    <3> QED  BY <3>3, <3>4, RowsDiffer
  <2>5. ASSUME NEW list \in shared, slot <= at[FirstMac(list)], at[FirstMac(list)] < slot + Rows(k) PROVE FALSE
    BY <1>8, <1>9, <1>10, <2>4, <2>5
  <2> QED  BY <2>1, <2>3, <2>4, <2>5
<1>11. CASE Macs[k].multi = FALSE /\ tse_mac_device[slot].shared = TRUE
  <2>1. d = 0 /\ \E list \in shared : Names(list, k)
    BY <1>3, <1>7, <1>11 DEF RowsMarked, OthersNot
  <2>2. PICK list \in shared : Names(list, k)
    BY <2>1
  <2> DEFINE a == FirstMac(list)
             n == Len(list)
  <2>3. slot = at[k]
    BY <1>3, <1>4, <2>1
  <2>4. Channel(slot) = n
    <3>1. tse_mac_device[slot].number = n
      BY <1>7, <2>2, <2>3 DEF RowsMarked, ListMarked
    <3> QED  BY <1>5, <1>11, <3>1 DEF Channel
  <2>5. /\ at[k] = at[a] + (k - a) /\ a \in 1..added /\ n \in Nat \ {0} /\ k \in a..(a + n - 1)
    BY <1>8, <2>2, RunPlaces DEF Names
  <2>6. at[a] < slot => at[a] + n <= slot
    BY <1>1, <2>2 DEF Complete
  <2>7. at[a] \in Nat
    BY <2>5, PlaceFacts
  <2> HIDE DEF a, n
  <2>8. at[a] = slot
    <3>1. \A s, p \in Nat : \A b, m, l \in Int :
            l \in b..(b + m - 1) /\ s = p + (l - b) /\ (p < s => p + m <= s) => p = s
      OBVIOUS
    <3>2. a \in Int /\ n \in Int /\ k \in Int
      BY <2>5
    <3>3. k \in a..(a + n - 1) /\ slot = at[a] + (k - a)
      BY <2>3, <2>5
    <3> QED  BY <1>1, <2>6, <2>7, <3>1, <3>2, <3>3
  <2>9. ASSUME NEW l \in 1..added, slot <= at[l], at[l] < slot + n PROVE Names(list, l)
    <3>1. at[l] \in Nat /\ Rows(l) \in Nat \ {0}
      BY PlaceFacts
    <3> DEFINE x == at[l] - at[a]
    <3>2. x \in 0..(n - 1)
      BY <2>5, <2>7, <2>8, <2>9, <3>1
    <3>3. a + x \in a..(a + n - 1) /\ (a + x) - a = x
      BY <2>5, <3>2
    <3>4. Names(list, a + x)
      BY <3>3 DEF Names, a, n
    <3> HIDE DEF x
    <3>5. at[a + x] = at[a] + x /\ a + x \in 1..added /\ Rows(a + x) = 1
      <4>1. list \in Lists /\ FirstMac(list) + Len(list) - 1 <= added
        BY <1>8
      <4>2. at[a + x] = at[FirstMac(list)] + ((a + x) - FirstMac(list)) /\ a + x \in 1..added /\ Rows(a + x) = 1
        BY <3>4, <4>1, RunPlaces
      <4>3. (a + x) - FirstMac(list) = x
        BY <3>3 DEF a
      <4> QED  BY <4>2, <4>3 DEF a
    <3>6. at[a + x] + 0 = at[l] + 0
      <4>1. at[a] + x = at[l]
        BY <2>7, <3>1 DEF x
      <4> QED  BY <3>5, <4>1
    <3>7. 0 \in 0..(Rows(l) - 1) /\ 0 \in 0..(Rows(a + x) - 1)
      BY <3>1, <3>5, ZeroIn
    <3>8. a + x = l
      BY <3>5, <3>6, <3>7, RowsDiffer
    <3> QED  BY <3>4, <3>8
  <2>10. ASSUME NEW l \in 1..added, slot <= at[l], at[l] < slot + n PROVE Macs[l].multi = FALSE
    BY <1>8, <2>9, <2>10, RunPlaces
  <2>11. ASSUME NEW other \in shared, slot <= at[FirstMac(other)], at[FirstMac(other)] < slot + n
         PROVE  at[FirstMac(other)] = slot /\ Len(other) = n
    <3>1. Names(list, FirstMac(other)) /\ Names(other, FirstMac(other)) /\ other \in Lists /\ list \in Lists
      BY <1>8, <2>9, <2>11
    <3>2. FirstMac(list) = FirstMac(other) /\ Len(list) = Len(other)
      BY <3>1, RunsAgree
    <3> QED  BY <2>8, <3>2 DEF a, n
  <2> QED  BY <2>4, <2>10, <2>11
<1>12. CASE Macs[k].multi = FALSE /\ tse_mac_device[slot].shared = FALSE
  <2>1. Channel(slot) = 1
    BY <1>5, <1>12 DEF Channel
  <2>2. ASSUME NEW l \in 1..added, slot <= at[l], at[l] < slot + 1 PROVE l = k /\ at[l] = slot
    <3>1. at[l] \in Nat /\ Rows(l) \in Nat \ {0}
      BY PlaceFacts
    <3>2. at[l] = slot /\ at[k] + d = at[l] + 0
      <4>1. \A s, p \in Nat : s <= p /\ p < s + 1 => p = s /\ s = p + 0
        OBVIOUS
      <4>2. at[l] = slot /\ slot = at[l] + 0
        BY <1>1, <2>2, <3>1, <4>1
      <4> QED  BY <1>3, <4>2
    <3>3. 0 \in 0..(Rows(l) - 1)
      BY <3>1, ZeroIn
    <3> QED  BY <3>2, <3>3, RowsDiffer
  <2>3. ASSUME NEW list \in shared, slot <= at[FirstMac(list)], at[FirstMac(list)] < slot + 1 PROVE FALSE
    <3>1. FirstMac(list) \in 1..added /\ Names(list, FirstMac(list))
      BY <1>8
    <3>2. at[FirstMac(list)] = slot
      BY <2>2, <2>3, <3>1
    <3>3. tse_mac_device[at[FirstMac(list)]].shared = TRUE
      BY <1>7, <3>1 DEF RowsMarked, ListMarked
    <3> QED  BY <1>12, <3>2, <3>3
  <2> QED  BY <1>12, <2>1, <2>2, <2>3
<1>13. Macs[k].multi \in BOOLEAN /\ tse_mac_device[slot].shared \in BOOLEAN
  BY <1>4, <1>6, MacFacts DEF MacType, Row
<1> QED  BY <1>10, <1>11, <1>12, <1>13

\* Where the rows of an accepted list are.
LEMMA ListPlace ==
  ASSUME SystemAssumption, ListsOfNeighbours, TableInv, NEW at, Placed(at), Accepted,
         NEW list \in shared
  PROVE  /\ list \in Lists /\ FirstMac(list) + Len(list) - 1 <= added
         /\ FirstMac(list) \in 1..added /\ Len(list) \in Nat \ {0}
         /\ at[FirstMac(list)] \in Nat /\ at[FirstMac(list)] + Len(list) <= tse_system_count
<1>1. list \in Lists /\ FirstMac(list) + Len(list) - 1 <= added /\ Len(Macs) \in Nat
  BY DEF Accepted, TableInv, TableTypes, SystemAssumption
<1>2. FirstMac(list) \in 1..Len(Macs) /\ Len(list) \in Nat \ {0}
  BY <1>1, RunFacts
<1>3. Names(list, FirstMac(list))
  <2>1. \A a \in 1..Len(Macs), n \in Nat \ {0} : a \in a..(a + n - 1)
    BY <1>1
  <2> QED  BY <1>2, <2>1 DEF Names
<1>4. FirstMac(list) \in 1..added /\ at[FirstMac(list)] + Len(list) <= tse_system_count
  BY <1>1, <1>3, RunPlaces
<1> QED  BY <1>1, <1>2, <1>4, PlaceFacts

\* As long as there is room the search stays in the table.
LEMMA InTable ==
  ASSUME SystemAssumption, TableInv, Fit
  PROVE  /\ max_mac_system <= MAXNETS /\ tse_system_count <= max_mac_system
         /\ max_mac_system \in Nat /\ tse_system_count \in Nat /\ MAXNETS \in Nat \ {0} /\ slot \in Nat
         /\ slot < max_mac_system => slot \in Slots
<1>1. /\ max_mac_system \in {MAXNETS, tse_system_count} /\ tse_system_count <= max_mac_system
      /\ tse_system_count \in Nat /\ slot \in Nat /\ MAXNETS \in Nat \ {0}
      /\ tse_system_count <= MAXNETS
  BY DEF TableInv, TableTypes, Fit, SystemAssumption
<1> QED  BY <1>1 DEF Slots, Spill

\* The walk over the table changes neither the table nor the marks in it.
LEMMA WalkKeeps ==
  ASSUME NEW at, Placed(at), Marked(at), place = "group",
         UNCHANGED <<tse_mac_device, tse_system_count, added, known, shared, grouped>>
  PROVE  Placed(at)' /\ Marked(at)'
<1>1. Slots' = Slots
  BY DEF Slots
<1>2. Placed(at)'
  BY <1>1 DEF Placed
<1>3. Accepted' /\ RowsMarked(at)
  BY DEF Marked, Accepted
<1>4. RowsMarked(at)'
  BY <1>3 DEF RowsMarked, ListMarked, OthersNot
<1> QED  BY <1>2, <1>3, <1>4 DEF Marked

LEMMA FitSame ==
  ASSUME FitInv, Fit',
         UNCHANGED <<tse_mac_device, tse_system_count, pmac_groups, grouped, place, slot, added,
                     known, shared, refused>>
  PROVE  FitInv'
<1>1. Fit
  BY DEF Fit
<1>2. PICK at : Placed(at) /\ Marked(at) /\ Complete(at)
  BY <1>1 DEF FitInv
<1>3. Placed(at)'
  <2>1. Slots' = Slots
    BY DEF Slots
  <2> QED  BY <1>2, <2>1 DEF Placed
<1>4. Marked(at)'
  BY <1>2 DEF Marked, Accepted, RowsMarked, ListMarked, OthersNot
<1>5. Complete(at)'
  BY <1>2 DEF Complete, Past, Covered, Whole
<1> QED  BY <1>3, <1>4, <1>5 DEF FitInv

LEMMA FitPhyInit ==
  ASSUME SystemAssumption, ListsOfNeighbours, TableInv, FitInv, Fit', PhyInit
  PROVE  FitInv'
<1>1. /\ grouped = FALSE /\ grouped' = TRUE /\ place' = "group" /\ slot' = 0
      /\ known' = added
      /\ UNCHANGED <<tse_mac_device, tse_system_count, added, shared>>
      /\ refused = FALSE
  <2>1. \E stored \in 0..Defaults \cup {Defaults} : refused' = (refused \/ stored < Defaults)
    BY DEF PhyInit
  <2>2. refused' = FALSE /\ refused \in BOOLEAN
    BY DEF Fit, TableInv, TableTypes
  <2>3. grouped = FALSE
    BY DEF PhyInit, TableInv, TableTypes
  <2> QED  BY <2>1, <2>2, <2>3 DEF PhyInit, tableVars
<1>2. Fit
  BY <1>1 DEF Fit
<1>3. PICK at : Placed(at) /\ Marked(at) /\ Complete(at)
  BY <1>2 DEF FitInv
<1>4. Placed(at)'
  <2>1. Slots' = Slots
    BY DEF Slots
  <2> QED  BY <1>1, <1>3, <2>1 DEF Placed
<1>5. Accepted /\ RowsMarked(at)
  BY <1>1, <1>3 DEF Marked
<1>6. Marked(at)'
  <2>1. Accepted'
    BY <1>1, <1>5 DEF Accepted
  <2>2. RowsMarked(at)'
    BY <1>1, <1>5 DEF RowsMarked, ListMarked, OthersNot
  <2> QED  BY <2>1, <2>2 DEF Marked
<1>7. Complete(at)'
  <2>1. ASSUME NEW p \in Nat PROVE ~(p < 0) /\ ~Past(p)'
    BY <1>1, <2>1 DEF Past
  <2>2. \A k \in 1..added : at[k] \in Nat /\ \A c \in 0..(Rows(k) - 1) : at[k] + c \in Nat
    BY <1>3, PlaceFacts
  <2>3. \A list \in shared : at[FirstMac(list)] \in Nat
    BY <1>3, <1>5, ListPlace
  <2> QED  BY <1>1, <2>1, <2>2, <2>3 DEF Complete
<1> QED  BY <1>4, <1>6, <1>7 DEF FitInv

LEMMA FitSkip ==
  ASSUME SystemAssumption, ListsOfNeighbours, TableInv, FitInv, Fit', SkipSlot
  PROVE  FitInv'
<1>1. /\ place = "group" /\ slot < max_mac_system /\ FALSE \in Defined(slot) /\ slot' = slot + 1
      /\ UNCHANGED <<tse_mac_device, tse_system_count, pmac_groups, grouped, place, added, known,
                     shared, refused>>
  BY DEF SkipSlot, tableVars
<1>2. Fit
  BY <1>1 DEF Fit
<1>3. PICK at : Placed(at) /\ Marked(at) /\ Complete(at)
  BY <1>2 DEF FitInv
<1>4. Placed(at)' /\ Marked(at)'
  BY <1>1, <1>3, WalkKeeps
<1>5. tse_system_count <= slot
  <2>1. /\ slot \in Slots /\ slot < MAXNETS /\ slot \in Nat /\ tse_system_count \in Nat
    BY <1>1, <1>2, InTable
  <2>2. ~(tse_mac_device[slot].tx /\ tse_mac_device[slot].rx)
    BY <1>1, <2>1 DEF Defined
  <2>3. ~(slot < tse_system_count)
    BY <2>1, <2>2 DEF TableInv, RowsWhole
  <2> QED  BY <2>1, <2>3
<1>6. slot \in Nat /\ tse_system_count \in Nat /\ known \in Nat /\ added \in Nat /\ known <= added
  BY DEF TableInv, TableTypes
<1>7. \A k \in 1..added : at[k] + Rows(k) <= slot /\ at[k] + Rows(k) <= slot + 1
  <2> SUFFICES ASSUME NEW k \in 1..added PROVE at[k] + Rows(k) <= slot /\ at[k] + Rows(k) <= slot + 1
    OBVIOUS
  <2>1. at[k] \in Nat /\ Rows(k) \in Nat /\ at[k] + Rows(k) <= tse_system_count
    BY <1>3, PlaceFacts DEF Placed
  <2> QED  BY <1>5, <1>6, <2>1
<1>8. Accepted
  BY <1>3 DEF Marked
<1>9. \A list \in shared : /\ at[FirstMac(list)] + Len(list) <= slot + 1
                           /\ at[FirstMac(list)] < slot
  <2> SUFFICES ASSUME NEW list \in shared
               PROVE  at[FirstMac(list)] + Len(list) <= slot + 1 /\ at[FirstMac(list)] < slot
    OBVIOUS
  <2>1. /\ at[FirstMac(list)] \in Nat /\ Len(list) \in Nat \ {0}
        /\ at[FirstMac(list)] + Len(list) <= tse_system_count
    BY <1>3, <1>8, ListPlace
  <2> QED  BY <1>5, <1>6, <2>1
<1>10. \A k \in 1..added : at[k] < slot /\ \A c \in 0..(Rows(k) - 1) : at[k] + c < slot
  <2> SUFFICES ASSUME NEW k \in 1..added
               PROVE  at[k] < slot /\ \A c \in 0..(Rows(k) - 1) : at[k] + c < slot
    OBVIOUS
  <2>1. at[k] \in Nat /\ Rows(k) \in Nat \ {0} /\ at[k] + Rows(k) <= slot
    BY <1>3, <1>7, PlaceFacts
  <2>2. \A p \in Nat, n \in Nat \ {0} : p + n <= slot => p < slot /\ \A c \in 0..(n - 1) : p + c < slot
    BY <1>6
  <2> QED  BY <2>1, <2>2
<1>11. Complete(at)'
  <2>1. grouped = TRUE /\ 1..known \subseteq 1..added
    BY <1>1, <1>6 DEF TableInv, TableTypes
  <2>2. \A k \in 1..known : /\ \A c \in 0..(Rows(k) - 1) : Covered(at[k] + c)
                            /\ Macs[k].multi => Whole(at[k], Rows(k))
    BY <1>3, <1>10, <2>1 DEF Complete, Past
  <2>3. \A list \in shared : Whole(at[FirstMac(list)], Len(list))
    BY <1>3, <1>9, <2>1 DEF Complete, Past
  <2>4. \A q, w : (Covered(q)' <=> Covered(q)) /\ (Whole(q, w)' <=> Whole(q, w))
    BY <1>1 DEF Covered, Whole
  <2> QED  BY <1>1, <1>7, <1>9, <2>2, <2>3, <2>4 DEF Complete
<1> QED  BY <1>4, <1>11 DEF FitInv

LEMMA FitGroup ==
  ASSUME SystemAssumption, ListsOfNeighbours, TableInv, FitInv, Fit', AddGroup
  PROVE  FitInv'
<1> DEFINE n == Channel(slot)
           group == GroupOf(slot)
<1>1. /\ place = "group" /\ slot < max_mac_system /\ slot' = slot + n
      /\ \A s \in slot..(slot + n - 1) : TRUE \in Defined(s)
      /\ pmac_groups' = Append(pmac_groups, group)
      /\ UNCHANGED <<tse_mac_device, tse_system_count, grouped, place, added, known, shared, refused>>
  BY DEF AddGroup, tableVars, Skip
<1>2. Fit
  BY <1>1 DEF Fit
<1>3. PICK at : Placed(at) /\ Marked(at) /\ Complete(at)
  BY <1>2 DEF FitInv
<1>4. Placed(at)' /\ Marked(at)'
  BY <1>1, <1>3, WalkKeeps
<1>5. /\ n \in Nat /\ group \in Seq(Nat) /\ Len(group) = n
      /\ \A j \in 1..n : group[j] = slot + j - 1
      /\ \A s \in slot..(slot + n - 1) : TRUE \in Defined(s) /\ s < MAXNETS => s < tse_system_count
  BY <1>1, GroupAt
<1>6. /\ slot \in Nat /\ known \in Nat /\ added \in Nat /\ known <= added /\ grouped = TRUE
      /\ pmac_groups \in Seq(Seq(Nat))
  BY <1>1 DEF TableInv, TableTypes
<1>7. slot < MAXNETS
  BY <1>1, <1>2, InTable
<1>8. Accepted
  BY <1>3 DEF Marked
<1> HIDE DEF n, group
\* What is new in the groups.
<1>9. /\ \A g \in DOMAIN pmac_groups : g \in DOMAIN pmac_groups' /\ pmac_groups'[g] = pmac_groups[g]
      /\ \E g \in DOMAIN pmac_groups' : pmac_groups'[g] = group /\ DOMAIN pmac_groups'[g] = 1..n
  <2>1. /\ DOMAIN pmac_groups = 1..Len(pmac_groups)
        /\ DOMAIN pmac_groups' = 1..(Len(pmac_groups) + 1)
        /\ Len(pmac_groups) \in Nat
        /\ \A g \in 1..Len(pmac_groups) : pmac_groups'[g] = pmac_groups[g]
        /\ pmac_groups'[Len(pmac_groups) + 1] = group
    BY <1>1, <1>5, <1>6
  <2>2. Len(pmac_groups) + 1 \in DOMAIN pmac_groups' /\ DOMAIN pmac_groups \subseteq DOMAIN pmac_groups'
    BY <2>1
  <2>3. DOMAIN group = 1..n
    BY <1>5
  <2> QED  BY <2>1, <2>2, <2>3
<1>10. \A s : Covered(s) => Covered(s)'
  BY <1>9 DEF Covered
<1>11. \A s, w : Whole(s, w) => Whole(s, w)'
  BY <1>9 DEF Whole
<1>12. \A s, w : s = slot /\ w = n => Whole(s, w)'
  BY <1>5, <1>9 DEF Whole
<1>13. \A s \in Nat : slot <= s /\ s < slot + n => Covered(s)'
  <2> SUFFICES ASSUME NEW s \in Nat, slot <= s, s < slot + n PROVE Covered(s)'
    OBVIOUS
  <2>1. s - slot + 1 \in 1..n /\ slot + (s - slot + 1) - 1 = s
    BY <1>5, <1>6
  <2>2. group[s - slot + 1] = s
    BY <1>5, <2>1
  <2> QED  BY <1>9, <2>1, <2>2 DEF Covered
\* What begins in the new group fills it.
<1>14. /\ \A k \in 1..added :
            Macs[k].multi /\ slot <= at[k] /\ at[k] < slot + n => at[k] = slot /\ Rows(k) = n
       /\ \A list \in shared :
            slot <= at[FirstMac(list)] /\ at[FirstMac(list)] < slot + n => at[FirstMac(list)] = slot /\ Len(list) = n
  <2>1. CASE n = 0
    <3>1. \A k \in 1..added : at[k] \in Nat
      BY <1>3, PlaceFacts
    <3>2. \A list \in shared : at[FirstMac(list)] \in Nat
      BY <1>3, <1>8, ListPlace
    <3>3. \A p \in Nat : ~(slot <= p /\ p < slot + n)
      BY <1>6, <2>1
    <3> QED  BY <3>1, <3>2, <3>3
  <2>2. CASE n # 0
    <3>1. slot \in slot..(slot + n - 1)
      BY <1>5, <1>6, <2>2
    <3>2. slot < tse_system_count
      BY <1>1, <1>5, <1>7, <3>1
    <3> QED  BY <1>1, <1>2, <1>3, <3>2, BlockAt DEF n
  <2> QED  BY <2>1, <2>2
<1>15. \A p \in Nat : /\ p < slot' <=> p < slot \/ (slot <= p /\ p < slot + n)
                      /\ Past(p) <=> p < slot
                      /\ Past(p)' <=> p < slot'
  BY <1>1, <1>5, <1>6 DEF Past
<1>16. 1..known \subseteq 1..added
  BY <1>6
<1>17. ASSUME NEW k \in 1..added
       PROVE  at[k] \in Nat /\ \A c \in 0..(Rows(k) - 1) : at[k] + c \in Nat
  BY <1>3, PlaceFacts
<1>18. ASSUME NEW k \in 1..added, Macs[k].multi, at[k] < slot'
       PROVE  at[k] + Rows(k) <= slot'
  <2>1. CASE at[k] < slot
    <3>1. at[k] + Rows(k) <= slot
      BY <1>1, <1>3, <1>6, <1>18, <2>1 DEF Complete
    <3>2. Rows(k) \in Nat
      BY <1>3, PlaceFacts
    <3> QED  BY <1>1, <1>5, <1>6, <1>17, <3>1, <3>2
  <2>2. CASE slot <= at[k] /\ at[k] < slot + n
    <3>1. at[k] = slot /\ Rows(k) = n
      BY <1>14, <1>18, <2>2
    <3> QED  BY <1>1, <1>5, <1>6, <3>1
  <2> QED  BY <1>15, <1>17, <1>18, <2>1, <2>2
<1>19. ASSUME NEW list \in shared
       PROVE  /\ at[FirstMac(list)] < slot' => at[FirstMac(list)] + Len(list) <= slot'
              /\ at[FirstMac(list)] < slot' => Whole(at[FirstMac(list)], Len(list))'
  <2>1. at[FirstMac(list)] \in Nat /\ Len(list) \in Nat
    BY <1>3, <1>8, ListPlace
  <2>2. CASE at[FirstMac(list)] < slot
    <3>1. at[FirstMac(list)] + Len(list) <= slot /\ Whole(at[FirstMac(list)], Len(list))
      BY <1>1, <1>3, <1>6, <1>15, <2>1, <2>2 DEF Complete
    <3>2. at[FirstMac(list)] + Len(list) <= slot'
      BY <1>1, <1>5, <1>6, <2>1, <3>1
    <3> QED  BY <1>11, <3>1, <3>2
  <2>3. CASE slot <= at[FirstMac(list)] /\ at[FirstMac(list)] < slot + n
    <3>1. at[FirstMac(list)] = slot /\ Len(list) = n
      BY <1>14, <2>3
    <3>2. slot + n <= slot'
      BY <1>1, <1>5, <1>6
    <3> QED  BY <1>12, <3>1, <3>2
  <2> QED  BY <1>15, <2>1, <2>2, <2>3
<1>20. ASSUME NEW k \in 1..known, NEW c \in 0..(Rows(k) - 1), at[k] + c < slot'
       PROVE  Covered(at[k] + c)'
  <2>1. at[k] + c \in Nat
    BY <1>16, <1>17
  <2>2. CASE at[k] + c < slot
    <3>1. Past(at[k] + c)
      BY <2>2 DEF Past
    <3> QED  BY <1>3, <1>6, <1>10, <3>1 DEF Complete
  <2> QED  BY <1>13, <1>15, <1>20, <2>1, <2>2
<1>21. ASSUME NEW k \in 1..known, Macs[k].multi, at[k] < slot'
       PROVE  Whole(at[k], Rows(k))'
  <2>1. at[k] \in Nat /\ k \in 1..added
    BY <1>16, <1>17
  <2>2. CASE at[k] < slot
    <3>1. Past(at[k])
      BY <2>2 DEF Past
    <3>2. Whole(at[k], Rows(k))
      BY <1>3, <1>6, <1>21, <3>1 DEF Complete
    <3> QED  BY <1>11, <3>2
  <2>3. CASE slot <= at[k] /\ at[k] < slot + n
    <3>1. at[k] = slot /\ Rows(k) = n
      BY <1>14, <1>21, <2>1, <2>3
    <3> QED  BY <1>12, <3>1
  <2> QED  BY <1>15, <1>21, <2>1, <2>2, <2>3
<1>22. Complete(at)'
  <2>1. \A k \in 1..known : /\ \A c \in 0..(Rows(k) - 1) : Past(at[k] + c)' => Covered(at[k] + c)'
                            /\ Macs[k].multi /\ Past(at[k])' => Whole(at[k], Rows(k))'
    BY <1>15, <1>16, <1>17, <1>20, <1>21
  <2>2. \A list \in shared : Past(at[FirstMac(list)])' => Whole(at[FirstMac(list)], Len(list))'
    <3>1. \A list \in shared : at[FirstMac(list)] \in Nat
      BY <1>3, <1>8, ListPlace
    <3> QED  BY <1>15, <1>19, <3>1
  <2> QED  BY <1>1, <1>18, <1>19, <2>1, <2>2 DEF Complete
<1> QED  BY <1>4, <1>22 DEF FitInv

LEMMA FitDone ==
  ASSUME SystemAssumption, ListsOfNeighbours, TableInv, FitInv, Fit', GroupsDone
  PROVE  FitInv'
<1>1. /\ place = "group" /\ slot >= max_mac_system /\ place' = "idle"
      /\ UNCHANGED <<tse_mac_device, tse_system_count, pmac_groups, grouped, added, known, shared, refused>>
  BY DEF GroupsDone, tableVars
<1>2. Fit
  BY <1>1 DEF Fit
<1>3. PICK at : Placed(at) /\ Marked(at) /\ Complete(at)
  BY <1>2 DEF FitInv
<1>4. Placed(at)' /\ Marked(at)'
  BY <1>1, <1>3, WalkKeeps
<1>5. /\ tse_system_count <= slot /\ tse_system_count \in Nat /\ slot \in Nat
      /\ known \in Nat /\ added \in Nat /\ known <= added /\ grouped = TRUE
  <2>1. tse_system_count <= max_mac_system /\ max_mac_system \in Nat /\ slot \in Nat /\ tse_system_count \in Nat
    BY <1>2, InTable
  <2>2. known \in Nat /\ added \in Nat /\ known <= added /\ grouped = TRUE
    BY <1>1 DEF TableInv, TableTypes
  <2> QED  BY <1>1, <2>1, <2>2
<1>6. \A k \in 1..added : at[k] < slot /\ \A c \in 0..(Rows(k) - 1) : at[k] + c < slot
  <2> SUFFICES ASSUME NEW k \in 1..added
               PROVE  at[k] < slot /\ \A c \in 0..(Rows(k) - 1) : at[k] + c < slot
    OBVIOUS
  <2>1. at[k] \in Nat /\ Rows(k) \in Nat \ {0} /\ at[k] + Rows(k) <= tse_system_count
    BY <1>3, PlaceFacts DEF Placed
  <2>2. \A p \in Nat, n \in Nat \ {0} : p + n <= tse_system_count =>
          p < slot /\ \A c \in 0..(n - 1) : p + c < slot
    BY <1>5
  <2> QED  BY <2>1, <2>2
<1>7. \A list \in shared : at[FirstMac(list)] < slot
  <2> SUFFICES ASSUME NEW list \in shared PROVE at[FirstMac(list)] < slot
    OBVIOUS
  <2>1. /\ at[FirstMac(list)] \in Nat /\ Len(list) \in Nat \ {0}
        /\ at[FirstMac(list)] + Len(list) <= tse_system_count
    BY <1>3, ListPlace DEF Marked
  <2> QED  BY <1>5, <2>1
<1>8. Complete(at)'
  <2>1. 1..known \subseteq 1..added
    BY <1>5
  <2>2. \A k \in 1..known : /\ \A c \in 0..(Rows(k) - 1) : Covered(at[k] + c)
                            /\ Macs[k].multi => Whole(at[k], Rows(k))
    BY <1>3, <1>5, <1>6, <2>1 DEF Complete, Past
  <2>3. \A list \in shared : Whole(at[FirstMac(list)], Len(list))
    BY <1>3, <1>5, <1>7 DEF Complete, Past
  <2>4. \A q, w : (Covered(q)' <=> Covered(q)) /\ (Whole(q, w)' <=> Whole(q, w))
    BY <1>1 DEF Covered, Whole
  <2> QED  BY <1>1, <2>2, <2>3, <2>4 DEF Complete
<1> QED  BY <1>4, <1>8 DEF FitInv

LEMMA FitStep ==
  ASSUME SystemAssumption, ListsOfNeighbours, TableInv, FitInv,
         SystemNext \/ UNCHANGED systemVars
  PROVE  FitInv'
<1> SUFFICES ASSUME Fit' PROVE FitInv'
  BY DEF FitInv
<1>1. CASE AddNext
  BY <1>1, FitAdd
<1>2. CASE AddProfile
  BY <1>2, FitSame DEF AddProfile, tableVars, groupVars
<1>3. CASE PhyInit
  BY <1>3, FitPhyInit
<1>4. CASE \E list \in Lists : EnableSharing(list)
  BY <1>4, FitShare
<1>5. CASE SkipSlot
  BY <1>5, FitSkip
<1>6. CASE AddGroup
  BY <1>6, FitGroup
<1>7. CASE GroupFails
  BY <1>7 DEF GroupFails, Fit
<1>8. CASE GroupsDone
  BY <1>8, FitDone
<1>9. CASE UNCHANGED systemVars
  BY <1>9, FitSame DEF systemVars
<1> QED  BY <1>1, <1>2, <1>3, <1>4, <1>5, <1>6, <1>7, <1>8, <1>9 DEF SystemNext

\* The MACs of a group that is whole and begins at slot s.
LEMMA WholeIsTogether ==
  ASSUME NEW s \in Nat, NEW n \in Nat, Whole(s, n), NEW bases,
         bases = {tse_mac_device[s + j - 1].base : j \in 1..n}
  PROVE  Together(bases)
<1>1. PICK g \in DOMAIN pmac_groups : /\ DOMAIN pmac_groups[g] = 1..n
                                      /\ \A j \in 1..n : pmac_groups[g][j] = s + j - 1
  BY DEF Whole
<1>2. {tse_mac_device[pmac_groups[g][j]].base : j \in DOMAIN pmac_groups[g]} = bases
  BY <1>1
<1> QED  BY <1>2 DEF Together

LEMMA FitSound ==
  ASSUME SystemAssumption, ListsOfNeighbours, TableInv, FitInv, Fit
  PROVE  AddedFound /\ ChannelsGrouped /\ SharedTogether
<1>1. PICK at : Placed(at) /\ Marked(at) /\ Complete(at)
  BY DEF FitInv
<1>2. SUFFICES ASSUME grouped, place = "idle"
               PROVE  /\ \A entry \in KnownMacs : \A c \in 0..(Loops(entry) - 1) :
                           Infos(entry.base + c) # {}
                      /\ \A entry \in KnownMacs : entry.multi =>
                           Together({entry.base + c : c \in 0..(entry.channels - 1)})
                      /\ \A list \in shared : Together({list[x] : x \in DOMAIN list})
  BY DEF AddedFound, ChannelsGrouped, SharedTogether, Initialised
<1>3. /\ tse_system_count \in Nat /\ MAXNETS \in Nat \ {0} /\ tse_system_count <= MAXNETS
      /\ added \in Nat /\ known \in Nat /\ known <= added /\ Len(Macs) \in Nat
      /\ pmac_groups \in Seq(Seq(Nat))
  BY DEF TableInv, TableTypes, Fit, SystemAssumption
<1>4. /\ \A k \in 1..known : /\ \A c \in 0..(Rows(k) - 1) : Covered(at[k] + c)
                             /\ Macs[k].multi => Whole(at[k], Rows(k))
      /\ \A list \in shared : Whole(at[FirstMac(list)], Len(list))
      /\ Accepted
  BY <1>1, <1>2 DEF Complete, Past, Marked
<1>5. 1..known \subseteq 1..added
  BY <1>3
<1>6. ASSUME NEW k \in 1..known, NEW c \in 0..(Rows(k) - 1)
      PROVE  Infos(Macs[k].base + c) # {}
  <2>1. PICK g \in DOMAIN pmac_groups : \E j \in DOMAIN pmac_groups[g] : pmac_groups[g][j] = at[k] + c
    BY <1>4 DEF Covered
  <2>2. PICK j \in DOMAIN pmac_groups[g] : pmac_groups[g][j] = at[k] + c
    BY <2>1
  <2>3. at[k] + c \in Nat /\ at[k] + c < tse_system_count
    BY <1>1, <1>5, PlaceFacts
  <2>4. pmac_groups[g] \in Seq(Nat)
    BY <1>3
  <2>5. j \in Nat \ {0}
    BY <2>2, <2>4
  <2>6. pmac_groups[g][j] >= j - 1
    BY DEF TableInv, GroupsApart
  <2>7. j \in 1..MAXNETS
    <3>1. \A x \in Nat \ {0}, y, z \in Nat : y >= x - 1 /\ y < z /\ z <= MAXNETS => x \in 1..MAXNETS
      BY <1>3
    <3> QED  BY <1>3, <2>2, <2>3, <2>5, <2>6, <3>1
  <2>8. <<g, j>> \in Members
    BY <2>7 DEF Members
  <2>9. tse_mac_device[SlotAt(<<g, j>>)].base = Macs[k].base + c
    BY <1>1, <1>5, <2>2 DEF Placed, SlotAt
  <2> QED  BY <2>8, <2>9 DEF Infos
<1>7. ASSUME NEW k \in 1..known, Macs[k].multi
      PROVE  Together({Macs[k].base + c : c \in 0..(Macs[k].channels - 1)})
  <2>1. k \in 1..added /\ k \in 1..Len(Macs) /\ at[k] \in Nat
    BY <1>1, <1>5, PlaceFacts
  <2>2. Macs[k] \in MacType /\ Rows(k) = Macs[k].channels /\ Rows(k) \in Nat
    BY <1>7, <2>1, MacFacts
  <2> DEFINE Base(j) == Macs[k].base + (j - 1)
  <2>3. ASSUME NEW j \in 1..Rows(k) PROVE tse_mac_device[at[k] + j - 1].base = Base(j)
    <3>1. j - 1 \in 0..(Rows(k) - 1) /\ at[k] + j - 1 = at[k] + (j - 1)
      BY <2>1, <2>2
    <3> QED  BY <1>1, <2>1, <3>1 DEF Placed
  <2>4. {Base(j) : j \in 1..Rows(k)} = {Macs[k].base + c : c \in 0..(Macs[k].channels - 1)}
    <3>1. \A j \in 1..Rows(k) : j - 1 \in 0..(Rows(k) - 1)
      BY <2>2
    <3>2. \A c \in 0..(Rows(k) - 1) : c + 1 \in 1..Rows(k) /\ (c + 1) - 1 = c
      BY <2>2
    <3> QED  BY <2>2, <3>1, <3>2
  <2> HIDE DEF Base
  <2>5. {tse_mac_device[at[k] + j - 1].base : j \in 1..Rows(k)}
          = {Macs[k].base + c : c \in 0..(Macs[k].channels - 1)}
    BY <2>3, <2>4
  <2>6. Whole(at[k], Rows(k))
    BY <1>4, <1>7
  <2> QED  BY <2>1, <2>2, <2>5, <2>6, WholeIsTogether
<1>8. ASSUME NEW list \in shared
      PROVE  Together({list[x] : x \in DOMAIN list})
  <2> DEFINE a == FirstMac(list)
             n == Len(list)
             Base(j) == Macs[a + j - 1].base
  <2>1. /\ list \in Lists /\ a + n - 1 <= added /\ a \in 1..added /\ n \in Nat \ {0}
        /\ at[a] \in Nat
    BY <1>1, <1>4, ListPlace
  <2>2. MacsOf(list) = {Macs[k].base : k \in a..(a + n - 1)}
    BY <2>1, RunFacts DEF Run
  <2>3. \A k \in a..(a + n - 1) : k \in 1..added /\ at[k] = at[a] + (k - a) /\ Rows(k) = 1
    BY <1>1, <2>1, RunPlaces DEF Names
  <2>4. \A j \in 1..n : a + j - 1 \in a..(a + n - 1) /\ (a + j - 1) - a = j - 1
    BY <2>1
  <2>5. \A k \in a..(a + n - 1) : k - a + 1 \in 1..n /\ a + (k - a + 1) - 1 = k
    BY <2>1
  <2> HIDE DEF a, n
  <2>6. ASSUME NEW j \in 1..n PROVE tse_mac_device[at[a] + j - 1].base = Base(j)
    <3> DEFINE k == a + j - 1
    <3>1. k \in 1..added /\ at[k] = at[a] + (j - 1) /\ Rows(k) = 1
      BY <2>3, <2>4
    <3>2. k \in 1..Len(Macs) /\ at[k] \in Nat
      BY <1>1, <3>1, PlaceFacts
    <3>3. Macs[k].base \in Nat
      BY <3>2, MacFacts DEF MacType
    <3>4. at[k] + 0 = at[a] + j - 1
      BY <2>1, <3>1
    <3> HIDE DEF k
    <3>5. 0 \in 0..(Rows(k) - 1)
      BY <3>1
    <3>6. tse_mac_device[at[k] + 0].base = Macs[k].base + 0
      BY <1>1, <3>1, <3>5 DEF Placed
    <3>7. tse_mac_device[at[a] + j - 1].base = Macs[k].base
      BY <3>3, <3>4, <3>6
    <3> QED  BY <3>7 DEF k
  <2>7. {Base(j) : j \in 1..n} = MacsOf(list)
    BY <2>2, <2>4, <2>5
  <2> HIDE DEF Base
  <2>8. {tse_mac_device[at[a] + j - 1].base : j \in 1..n} = MacsOf(list)
    BY <2>6, <2>7
  <2>9. Whole(at[a], n) /\ n \in Nat
    BY <1>4, <2>1 DEF a, n
  <2>10. Together(MacsOf(list))
    BY <2>1, <2>8, <2>9, WholeIsTogether
  <2> QED  BY <2>10 DEF MacsOf
<1>9. \A entry \in KnownMacs : \E k \in 1..known : entry = Macs[k] /\ Loops(entry) = Rows(k)
  BY DEF KnownMacs, Rows
<1>10. ASSUME NEW entry \in KnownMacs, NEW c \in 0..(Loops(entry) - 1)
       PROVE  Infos(entry.base + c) # {}
  <2>1. PICK k \in 1..known : entry = Macs[k] /\ Loops(entry) = Rows(k)
    BY <1>9
  <2>2. c \in 0..(Rows(k) - 1)
    BY <2>1
  <2> QED  BY <1>6, <2>1, <2>2
<1>11. ASSUME NEW entry \in KnownMacs, entry.multi
       PROVE  Together({entry.base + c : c \in 0..(entry.channels - 1)})
  <2>1. PICK k \in 1..known : entry = Macs[k]
    BY <1>9
  <2> QED  BY <1>7, <1>11, <2>1
<1> QED  BY <1>8, <1>10, <1>11

\* As long as malloc delivers and the table has room, the groups hold every MAC that
\* was added before they were made: each is found by its base, the channels of a
\* multi-channel MAC are together, and so are the MACs of a list that was accepted for
\* sharing, if it is the only one, and no others with them (alt_tse_mac_group_init,
\* alt_tse_sys_enable_mdio_sharing, altera_avalon_tse.c:328-427, 1121-1253).
THEOREM GroupsComplete ==
  SystemAssumption /\ ListsOfNeighbours =>
    (SystemSpec => [](Fit => AddedFound /\ ChannelsGrouped /\ SharedTogether))
<1> SUFFICES ASSUME SystemAssumption, ListsOfNeighbours
    PROVE  SystemSpec =>
             [](Fit => AddedFound /\ ChannelsGrouped /\ SharedTogether)
  OBVIOUS
<1>1. SystemInit => TableInv /\ FitInv
  BY TableInit, FitInit
<1>2. TableInv /\ FitInv /\ [SystemNext]_(systemVars) => TableInv' /\ FitInv'
  BY TableStep, FitStep
<1>3. TableInv /\ FitInv =>
        (Fit => AddedFound /\ ChannelsGrouped /\ SharedTogether)
  BY FitSound
<1> QED  BY <1>1, <1>2, <1>3, PTL DEF SystemSpec

-----------------------------------------------------------------------------
(* The rows of the table and the profiles of the PHYs: the number of the   *)
(* profile that is found and the speed that is read from it.               *)

Profile == [oui : Nat, model : 0..63, status : Nat, speed : Nat, duplex : Nat,
            reader : {"none", "DP83848C_link_status_read", "PEF7071_link_status_read"}]

\* The fields of a register that the profiles name.
LEMMA FieldsAt ==
  ASSUME NEW x \in Nat
  PROVE  /\ Phys!FieldAt(x, 10, 6) = (x \div 1024) % 64
         /\ Phys!FieldAt(x, 4, 6) = (x \div 16) % 64
         /\ Phys!FieldAt(x, 1, 1) = (x \div 2) % 2
         /\ Phys!FieldAt(x, 2, 1) = (x \div 4) % 2
         /\ Phys!FieldAt(x, 3, 1) = (x \div 8) % 2
         /\ Phys!FieldAt(x, 3, 2) = (x \div 8) % 4
         /\ Phys!FieldAt(x, 13, 1) = (x \div 8192) % 2
         /\ Phys!FieldAt(x, 14, 2) = (x \div 16384) % 4
<1>1. /\ 2^1 = 2 /\ 2^2 = 4 /\ 2^3 = 8 /\ 2^4 = 16 /\ 2^6 = 64 /\ 2^10 = 1024
      /\ 2^13 = 8192 /\ 2^14 = 16384
  OBVIOUS
<1> QED  BY <1>1 DEF Phys!FieldAt

\* A PHY gives maker and model of its profile, whatever its revision.
LEMMA Identified ==
  ASSUME NEW p \in Profile, NEW revision \in 0..15
  PROVE  /\ Phys!Oui(Phys!Id1(p), Phys!Id2(p, revision)) = p.oui
         /\ Phys!Model(Phys!Id2(p, revision)) = p.model
<1> DEFINE id == Phys!Id2(p, revision)
<1>1. PICK oui \in Nat, model \in 0..63 : p.oui = oui /\ p.model = model
  BY DEF Profile
<1>2. id = (oui % 64) * 1024 + model * 16 + revision
  BY <1>1 DEF Phys!Id2
<1>3. /\ id \in Nat /\ (id \div 16) % 64 = model
      /\ (oui \div 64) * 64 + ((id \div 1024) % 64) = oui
  BY <1>2
<1>4. Phys!FieldAt(id, 10, 6) = (id \div 1024) % 64
  BY <1>3, FieldsAt
<1>5. Phys!FieldAt(id, 4, 6) = (id \div 16) % 64
  BY <1>3, FieldsAt
<1>6. Phys!Oui(Phys!Id1(p), id) = (oui \div 64) * 64 + ((id \div 1024) % 64)
  BY <1>1, <1>4 DEF Phys!Oui, Phys!Id1
<1> QED  BY <1>1, <1>3, <1>5, <1>6 DEF Phys!Model

LEMMA FiveProfiles ==
  /\ DOMAIN Phys!pphy_profiles = 1..5
  /\ Phys!pphy_profiles[1] = Phys!MV88E1111
  /\ Phys!pphy_profiles[2] = Phys!MV88E1145
  /\ Phys!pphy_profiles[3] = Phys!DP83865
  /\ Phys!pphy_profiles[4] = Phys!DP83848C
  /\ Phys!pphy_profiles[5] = Phys!PEF7071
BY DEF Phys!pphy_profiles

LEMMA FieldsOfProfiles ==
  /\ Phys!MV88E1111 = [oui |-> 20547, model |-> 12, status |-> 17, speed |-> 14,
         duplex |-> 13, reader |-> "none"]
  /\ Phys!MV88E1145 = [oui |-> 20547, model |-> 13, status |-> 17, speed |-> 14,
         duplex |-> 13, reader |-> "none"]
  /\ Phys!DP83865 = [oui |-> 524311, model |-> 7, status |-> 17, speed |-> 3,
         duplex |-> 1, reader |-> "none"]
  /\ Phys!DP83848C = [oui |-> 524311, model |-> 9, status |-> 0, speed |-> 0,
         duplex |-> 0, reader |-> "DP83848C_link_status_read"]
  /\ Phys!PEF7071 = [oui |-> 3496297, model |-> 0, status |-> 0, speed |-> 0,
         duplex |-> 0, reader |-> "PEF7071_link_status_read"]
<1>1. Phys!Oui(54629, 41985) = 3496297 /\ Phys!Model(41985) = 0
  BY FieldsAt DEF Phys!Oui, Phys!Model
<1> QED
  BY <1>1 DEF Phys!ByRegister, Phys!ByFunction, Phys!MV88E1111,
              Phys!MV88E1145, Phys!DP83865, Phys!DP83848C,
              Phys!PEF7071

LEMMA ProfileTypes ==
  /\ \A k \in 1..5 : Phys!pphy_profiles[k] \in Profile
  /\ \A k, l \in 1..5 :
       /\ Phys!pphy_profiles[k].oui = Phys!pphy_profiles[l].oui
       /\ Phys!pphy_profiles[k].model = Phys!pphy_profiles[l].model
       => k = l
<1>1. ASSUME NEW k \in 1..5 PROVE Phys!pphy_profiles[k] \in Profile
  BY FiveProfiles, FieldsOfProfiles DEF Profile
<1>2. ASSUME NEW k \in 1..5, NEW l \in 1..5,
             Phys!pphy_profiles[k].oui = Phys!pphy_profiles[l].oui,
             Phys!pphy_profiles[k].model = Phys!pphy_profiles[l].model
      PROVE  k = l
  BY <1>2, FiveProfiles, FieldsOfProfiles
<1> QED  BY <1>1, <1>2

\* The profile that is found is the one of the PHY.
LEMMA ProfileFound ==
  ASSUME NEW k \in 1..5, NEW revision \in 0..15
  PROVE  LET p == Phys!pphy_profiles[k] IN
         Phys!Found(Phys!Id1(p), Phys!Id2(p, revision)) = k
<1> DEFINE p == Phys!pphy_profiles[k]
           id1 == Phys!Id1(p)
           id2 == Phys!Id2(p, revision)
           those == {l \in DOMAIN Phys!pphy_profiles :
                       Phys!Matches(Phys!pphy_profiles[l], id1, id2)}
<1>1. \A l \in 1..5 : Phys!Matches(Phys!pphy_profiles[l],
          id1, id2) <=> l = k
  BY ProfileTypes, Identified DEF Phys!Matches
<1>2. those = {k}
  BY <1>1, FiveProfiles
<1>3. (CHOOSE l \in {k} : \A m \in {k} : l <= m) = k
  OBVIOUS
<1> QED  BY <1>2, <1>3 DEF Phys!Found

LEMMA ProfilesDiffer ==
  /\ \A p \in {Phys!MV88E1111, Phys!MV88E1145} :
       p # Phys!DP83865 /\ p # Phys!DP83848C /\ p # Phys!PEF7071
  /\ Phys!DP83865 \notin {Phys!MV88E1111, Phys!MV88E1145}
  /\ Phys!DP83848C \notin {Phys!MV88E1111, Phys!MV88E1145}
  /\ Phys!PEF7071 \notin {Phys!MV88E1111, Phys!MV88E1145}
  /\ Phys!DP83865 # Phys!DP83848C
  /\ Phys!DP83865 # Phys!PEF7071
  /\ Phys!DP83848C # Phys!PEF7071
BY FieldsOfProfiles

LEMMA LinkRegisters ==
  ASSUME NEW speed, NEW duplex, NEW others
  PROVE  /\ \A p \in {Phys!MV88E1111, Phys!MV88E1145} :
              Phys!LinkRegister(p, speed, duplex, others)
                = [r \in {17} |-> speed * 16384 + duplex * 8192 + others * 1024]
         /\ Phys!LinkRegister(Phys!DP83865, speed, duplex, others)
              = [r \in {17} |-> speed * 8 + duplex * 2 + others * 4]
         /\ Phys!LinkRegister(Phys!DP83848C, speed, duplex, others)
              = [r \in {16} |-> (1 - speed) * 2 + duplex * 4 + others]
         /\ Phys!LinkRegister(Phys!PEF7071, speed, duplex, others)
              = [r \in {24} |-> speed + duplex * 8 + others * 4]
<1>1. ASSUME NEW p \in {Phys!MV88E1111, Phys!MV88E1145}
      PROVE  Phys!LinkRegister(p, speed, duplex, others)
               = [r \in {17} |-> speed * 16384 + duplex * 8192 + others * 1024]
  BY ProfilesDiffer DEF Phys!LinkRegister
<1>2. Phys!LinkRegister(Phys!DP83865, speed, duplex, others)
        = [r \in {17} |-> speed * 8 + duplex * 2 + others * 4]
  BY ProfilesDiffer DEF Phys!LinkRegister
<1>3. Phys!LinkRegister(Phys!DP83848C, speed, duplex, others)
        = [r \in {16} |-> (1 - speed) * 2 + duplex * 4 + others]
  BY ProfilesDiffer DEF Phys!LinkRegister
<1>4. Phys!LinkRegister(Phys!PEF7071, speed, duplex, others)
        = [r \in {24} |-> speed + duplex * 8 + others * 4]
  BY ProfilesDiffer DEF Phys!LinkRegister
<1> QED  BY <1>1, <1>2, <1>3, <1>4

LEMMA LinkRead ==
  ASSUME NEW k \in 1..5,
         NEW speed \in Phys!Reachable(Phys!pphy_profiles[k]),
         NEW duplex \in 0..1, NEW others \in 0..1
  PROVE  LET p == Phys!pphy_profiles[k] IN
         Phys!Result(p, Phys!LinkRegister(p, speed, duplex, others))
           = Phys!ALT_TSE_SPEED_DUPLEX(speed, duplex)
<1> DEFINE p == Phys!pphy_profiles[k]
           x == Phys!LinkRegister(p, speed, duplex, others)
<1>1. speed \in 0..2
  BY DEF Phys!Reachable, Phys!Speeds
<1>2. CASE k \in {1, 2}
  <2>1. p \in {Phys!MV88E1111, Phys!MV88E1145}
    BY <1>2, FiveProfiles
  <2>2. x = [r \in {17} |-> speed * 16384 + duplex * 8192 + others * 1024]
    BY <2>1, LinkRegisters
  <2>3. p.reader = "none" /\ p.status = 17 /\ p.speed = 14 /\ p.duplex = 13
    BY <2>1, FieldsOfProfiles
  <2>4. /\ Phys!FieldAt(x[17], 14, 2) = speed
        /\ Phys!FieldAt(x[17], 13, 1) = duplex
    <3>1. PICK w : w = x[17]
      OBVIOUS
    <3>2. w = speed * 16384 + duplex * 8192 + others * 1024
      BY <3>1, <2>2
    <3>3. w \in Nat /\ (w \div 16384) % 4 = speed /\ (w \div 8192) % 2 = duplex
      BY <1>1, <3>2
    <3>4. Phys!FieldAt(w, 14, 2) = (w \div 16384) % 4
      BY <3>3, FieldsAt
    <3>5. Phys!FieldAt(w, 13, 1) = (w \div 8192) % 2
      BY <3>3, FieldsAt
    <3> QED  BY <3>1, <3>3, <3>4, <3>5
  <2> QED  BY <2>3, <2>4 DEF Phys!Result
<1>3. CASE k = 3
  <2>1. p = Phys!DP83865
    BY <1>3, FiveProfiles
  <2>2. x = [r \in {17} |-> speed * 8 + duplex * 2 + others * 4]
    BY <2>1, LinkRegisters
  <2>3. p.reader = "none" /\ p.status = 17 /\ p.speed = 3 /\ p.duplex = 1
    BY <2>1, FieldsOfProfiles
  <2>4. /\ Phys!FieldAt(x[17], 3, 2) = speed
        /\ Phys!FieldAt(x[17], 1, 1) = duplex
    <3>1. PICK w : w = x[17]
      OBVIOUS
    <3>2. w = speed * 8 + duplex * 2 + others * 4
      BY <3>1, <2>2
    <3>3. w \in Nat /\ (w \div 8) % 4 = speed /\ (w \div 2) % 2 = duplex
      BY <1>1, <3>2
    <3>4. Phys!FieldAt(w, 3, 2) = (w \div 8) % 4
      BY <3>3, FieldsAt
    <3>5. Phys!FieldAt(w, 1, 1) = (w \div 2) % 2
      BY <3>3, FieldsAt
    <3> QED  BY <3>1, <3>3, <3>4, <3>5
  <2> QED  BY <2>3, <2>4 DEF Phys!Result
<1>4. CASE k = 4
  <2>1. p = Phys!DP83848C
    BY <1>4, FiveProfiles
  <2>3. speed \in 0..1
    BY <2>1 DEF Phys!Reachable
  <2>4. x = [r \in {16} |-> (1 - speed) * 2 + duplex * 4 + others]
    BY <2>1, LinkRegisters
  <2>5. p.reader = "DP83848C_link_status_read"
    BY <2>1, FieldsOfProfiles
  <2>6. /\ Phys!FieldAt(x[16], 1, 1) = 1 - speed
        /\ Phys!FieldAt(x[16], 2, 1) = duplex
    <3>1. PICK w : w = x[16]
      OBVIOUS
    <3>2. w = (1 - speed) * 2 + duplex * 4 + others
      BY <3>1, <2>4
    <3>3. w \in Nat /\ (w \div 2) % 2 = 1 - speed /\ (w \div 4) % 2 = duplex
      BY <1>1, <2>3, <3>2
    <3>4. Phys!FieldAt(w, 1, 1) = (w \div 2) % 2
      BY <3>3, FieldsAt
    <3>5. Phys!FieldAt(w, 2, 1) = (w \div 4) % 2
      BY <3>3, FieldsAt
    <3> QED  BY <3>1, <3>3, <3>4, <3>5
  <2>7. Phys!Result(p, x) = (IF 1 - speed = 1 THEN 8 ELSE 4) + duplex
    BY <2>5, <2>6 DEF Phys!Result, Phys!DP83848C_link_status_read
  <2> QED  BY <2>3, <2>7 DEF Phys!ALT_TSE_SPEED_DUPLEX, Phys!Invalid
<1>5. CASE k = 5
  <2>1. p = Phys!PEF7071
    BY <1>5, FiveProfiles
  <2>3. x = [r \in {24} |-> speed + duplex * 8 + others * 4]
    BY <2>1, LinkRegisters
  <2>4. p.reader = "PEF7071_link_status_read"
    BY <2>1, FieldsOfProfiles
  <2>5. x[24] % 4 = speed /\ Phys!FieldAt(x[24], 3, 1) = duplex
    <3>1. PICK w : w = x[24]
      OBVIOUS
    <3>2. w = speed + duplex * 8 + others * 4
      BY <3>1, <2>3
    <3>3. w \in Nat /\ w % 4 = speed /\ (w \div 8) % 2 = duplex
      BY <1>1, <3>2
    <3>4. Phys!FieldAt(w, 3, 1) = (w \div 8) % 2
      BY <3>3, FieldsAt
    <3> QED  BY <3>1, <3>3, <3>4
  <2>6. Phys!Result(p, x)
          = (CASE speed = 0 -> 8 [] speed = 1 -> 4 [] speed = 2 -> 2 [] speed = 3 -> 0) + duplex
    BY <2>4, <2>5 DEF Phys!Result, Phys!PEF7071_link_status_read
  <2> QED  BY <1>1, <2>6 DEF Phys!ALT_TSE_SPEED_DUPLEX, Phys!Invalid
<1> QED  BY <1>2, <1>3, <1>4, <1>5

LEMMA PhysKnown == SetUpAssumption => Phys!KnownPhys
<1> SUFFICES ASSUME SetUpAssumption PROVE Phys!KnownPhys
  OBVIOUS
<1>1. Revisions \subseteq 0..15
  BY DEF SetUpAssumption
<1> QED  BY <1>1, ProfileFound, LinkRead, FiveProfiles DEF Phys!KnownPhys

(* A row of the table is the same whether a macro writes it or the          *)
(* structures of its components are copied to it.                          *)

\* A structure whose fields have different names is given the values by position.
Injective(struct) == \A j, k \in DOMAIN struct : struct[j] = struct[k] => j = k

LEMMA InitialisedAt ==
  ASSUME NEW struct, NEW values, Injective(struct)
  PROVE  LET r == Table!Initialised(struct, values) IN
         /\ DOMAIN r = {struct[j] : j \in DOMAIN struct}
         /\ \A j \in DOMAIN struct : r[struct[j]] = values[j]
<1>1. Table!ToSet(struct) = {struct[j] : j \in DOMAIN struct}
  BY DEF Table!ToSet
<1>2. ASSUME NEW j \in DOMAIN struct
      PROVE  Table!Initialised(struct, values)[struct[j]] = values[j]
  <2>1. (CHOOSE k \in DOMAIN struct : struct[k] = struct[j]) = j
    BY DEF Injective
  <2> QED  BY <1>1, <2>1 DEF Table!Initialised
<1> QED  BY <1>1, <1>2 DEF Table!Initialised

LEMMA InfoFields ==
  LET info == Table!alt_tse_system_info IN
  /\ DOMAIN info = 1..26
  /\ Injective(info)
BY DEF Injective, Table!alt_tse_system_info
LEMMA MacFields ==
  LET m == Table!alt_tse_system_mac IN
  /\ DOMAIN m = 1..12
  /\ Injective(m)
BY DEF Injective, Table!alt_tse_system_mac
LEMMA MsgdmaFields ==
  LET dma == Table!alt_tse_system_msgdma IN
  /\ DOMAIN dma = 1..3
  /\ Injective(dma)
BY DEF Injective, Table!alt_tse_system_msgdma
LEMMA DescFields ==
  LET desc == Table!alt_tse_system_desc_mem IN
  /\ DOMAIN desc = 1..2
  /\ Injective(desc)
BY DEF Injective, Table!alt_tse_system_desc_mem
LEMMA FifoFields ==
  LET fifo == Table!alt_tse_system_shared_fifo IN
  /\ DOMAIN fifo = 1..7
  /\ Injective(fifo)
BY DEF Injective, Table!alt_tse_system_shared_fifo
LEMMA PhyFields ==
  LET phys == Table!alt_tse_system_phy IN
  /\ DOMAIN phys = 1..2
  /\ Injective(phys)
BY DEF Injective, Table!alt_tse_system_phy

LEMMA BothAt ==
  ASSUME NEW f, NEW g
  PROVE  /\ DOMAIN Table!Both(f, g) = DOMAIN f \cup DOMAIN g
         /\ \A x \in DOMAIN f : Table!Both(f, g)[x] = f[x]
         /\ \A x \in (DOMAIN g) \ (DOMAIN f) : Table!Both(f, g)[x] = g[x]
BY DEF Table!Both

\* The structures of the components, by the names of their fields.
LEMMA MacValues ==
  ASSUME NEW s, NEW k
  PROVE  LET r == Table!Initialised(Table!alt_tse_system_mac,
                    Table!Mac(s)) IN
         /\ DOMAIN r = {"tse_mac_base", "tse_tx_depth", "tse_rx_depth", "tse_use_mdio",
                         "tse_en_maclite", "tse_maclite_gige", "tse_multichannel_mac",
                         "tse_num_of_channel", "tse_mdio_shared",
                         "tse_number_of_mac_mdio_shared", "tse_pcs_ena", "tse_pcs_sgmii"}
         /\ r["tse_mac_base"] = Table!Par("BASE", 0)
         /\ r["tse_tx_depth"] = Table!Num(s.depth % 65536)
         /\ r["tse_rx_depth"] = Table!Num(s.depth % 65536)
         /\ r["tse_use_mdio"] = Table!Par("USE_MDIO", 0)
         /\ r["tse_en_maclite"] = Table!Par("ENABLE_MACLITE", 0)
         /\ r["tse_maclite_gige"] = Table!Par("MACLITE_GIGE", 0)
         /\ r["tse_multichannel_mac"] = Table!Par("IS_MULTICHANNEL_MAC", 0)
         /\ r["tse_num_of_channel"] = Table!Num(s.channels)
         /\ r["tse_mdio_shared"] = Table!Num(0)
         /\ r["tse_number_of_mac_mdio_shared"] = Table!Num(0)
         /\ r["tse_pcs_ena"] = Table!Par("PCS", 0)
         /\ r["tse_pcs_sgmii"] = Table!Par("PCS_SGMII", 0)
<1> DEFINE struct == Table!alt_tse_system_mac
           values == Table!Mac(s)
           r == Table!Initialised(struct, values)
<1>0. DOMAIN struct = 1..12
  BY MacFields
<1>5. Injective(struct)
  BY MacFields
<1> HIDE DEF struct, values
<1>1. /\ DOMAIN r = {struct[j] : j \in DOMAIN struct}
      /\ \A j \in DOMAIN struct : r[struct[j]] = values[j]
  BY <1>5, InitialisedAt
<1>2. /\ struct[1] = "tse_mac_base" /\ values[1] = Table!Par("BASE", 0)
      /\ struct[2] = "tse_tx_depth" /\ values[2] = Table!Num(s.depth % 65536)
      /\ struct[3] = "tse_rx_depth" /\ values[3] = Table!Num(s.depth % 65536)
      /\ struct[4] = "tse_use_mdio" /\ values[4] = Table!Par("USE_MDIO", 0)
      /\ struct[5] = "tse_en_maclite" /\ values[5] = Table!Par("ENABLE_MACLITE", 0)
      /\ struct[6] = "tse_maclite_gige" /\ values[6] = Table!Par("MACLITE_GIGE", 0)
      /\ struct[7] = "tse_multichannel_mac"
      /\ values[7] = Table!Par("IS_MULTICHANNEL_MAC", 0)
      /\ struct[8] = "tse_num_of_channel" /\ values[8] = Table!Num(s.channels)
      /\ struct[9] = "tse_mdio_shared" /\ values[9] = Table!Num(0)
      /\ struct[10] = "tse_number_of_mac_mdio_shared" /\ values[10] = Table!Num(0)
      /\ struct[11] = "tse_pcs_ena" /\ values[11] = Table!Par("PCS", 0)
      /\ struct[12] = "tse_pcs_sgmii" /\ values[12] = Table!Par("PCS_SGMII", 0)
  BY DEF struct, values, Table!alt_tse_system_mac, Table!Mac
<1> HIDE DEF r
<1>3. {struct[j] : j \in DOMAIN struct} =
                     {"tse_mac_base", "tse_tx_depth", "tse_rx_depth", "tse_use_mdio",
                      "tse_en_maclite", "tse_maclite_gige", "tse_multichannel_mac",
                      "tse_num_of_channel", "tse_mdio_shared",
                      "tse_number_of_mac_mdio_shared", "tse_pcs_ena", "tse_pcs_sgmii"}
  BY <1>0, <1>2
<1>4. /\ r["tse_mac_base"] = Table!Par("BASE", 0)
      /\ r["tse_tx_depth"] = Table!Num(s.depth % 65536)
      /\ r["tse_rx_depth"] = Table!Num(s.depth % 65536)
      /\ r["tse_use_mdio"] = Table!Par("USE_MDIO", 0)
      /\ r["tse_en_maclite"] = Table!Par("ENABLE_MACLITE", 0)
      /\ r["tse_maclite_gige"] = Table!Par("MACLITE_GIGE", 0)
      /\ r["tse_multichannel_mac"] = Table!Par("IS_MULTICHANNEL_MAC", 0)
      /\ r["tse_num_of_channel"] = Table!Num(s.channels)
      /\ r["tse_mdio_shared"] = Table!Num(0)
      /\ r["tse_number_of_mac_mdio_shared"] = Table!Num(0)
      /\ r["tse_pcs_ena"] = Table!Par("PCS", 0)
      /\ r["tse_pcs_sgmii"] = Table!Par("PCS_SGMII", 0)
  BY <1>0, <1>1, <1>2
<1>6. DOMAIN r = {"tse_mac_base", "tse_tx_depth", "tse_rx_depth", "tse_use_mdio",
                 "tse_en_maclite", "tse_maclite_gige", "tse_multichannel_mac",
                 "tse_num_of_channel", "tse_mdio_shared",
                 "tse_number_of_mac_mdio_shared", "tse_pcs_ena", "tse_pcs_sgmii"}
  BY <1>1, <1>3
<1> QED  BY <1>4, <1>6 DEF struct, values, r

LEMMA MsgdmaValues ==
  ASSUME NEW s, NEW k
  PROVE  LET r == Table!Initialised(Table!alt_tse_system_msgdma,
                    Table!Msgdma(k)) IN
         /\ DOMAIN r = {"tse_msgdma_tx", "tse_msgdma_rx", "tse_msgdma_rx_irq"}
         /\ r["tse_msgdma_tx"] = Table!Par("TX_CSR_NAME", k)
         /\ r["tse_msgdma_rx"] = Table!Par("RX_CSR_NAME", k)
         /\ r["tse_msgdma_rx_irq"] = Table!Par("RX_CSR_IRQ", k)
<1> DEFINE struct == Table!alt_tse_system_msgdma
           values == Table!Msgdma(k)
           r == Table!Initialised(struct, values)
<1>0. DOMAIN struct = 1..3
  BY MsgdmaFields
<1>5. Injective(struct)
  BY MsgdmaFields
<1> HIDE DEF struct, values
<1>1. /\ DOMAIN r = {struct[j] : j \in DOMAIN struct}
      /\ \A j \in DOMAIN struct : r[struct[j]] = values[j]
  BY <1>5, InitialisedAt
<1>2. /\ struct[1] = "tse_msgdma_tx" /\ values[1] = Table!Par("TX_CSR_NAME", k)
      /\ struct[2] = "tse_msgdma_rx" /\ values[2] = Table!Par("RX_CSR_NAME", k)
      /\ struct[3] = "tse_msgdma_rx_irq" /\ values[3] = Table!Par("RX_CSR_IRQ", k)
  BY DEF struct, values, Table!alt_tse_system_msgdma, Table!Msgdma
<1> HIDE DEF r
<1>3. {struct[j] : j \in DOMAIN struct} =
                     {"tse_msgdma_tx", "tse_msgdma_rx", "tse_msgdma_rx_irq"}
  BY <1>0, <1>2
<1>4. /\ r["tse_msgdma_tx"] = Table!Par("TX_CSR_NAME", k)
      /\ r["tse_msgdma_rx"] = Table!Par("RX_CSR_NAME", k)
      /\ r["tse_msgdma_rx_irq"] = Table!Par("RX_CSR_IRQ", k)
  BY <1>0, <1>1, <1>2
<1>6. DOMAIN r = {"tse_msgdma_tx", "tse_msgdma_rx", "tse_msgdma_rx_irq"}
  BY <1>1, <1>3
<1> QED  BY <1>4, <1>6 DEF struct, values, r

LEMMA DescValues ==
  ASSUME NEW s, NEW k
  PROVE  LET r == Table!Initialised(Table!alt_tse_system_desc_mem,
                    (IF s.ext THEN Table!DescMem(k) ELSE Table!NoDescMem)) IN
         /\ DOMAIN r = {"ext_desc_mem", "desc_mem_base"}
         /\ r["ext_desc_mem"] = (IF s.ext THEN Table!Num(1)
                                 ELSE Table!Num(0))
         /\ r["desc_mem_base"] = (IF s.ext THEN Table!Par("DESC_MEM_BASE", k)
                                  ELSE Table!Num(0))
<1> DEFINE struct == Table!alt_tse_system_desc_mem
           values == (IF s.ext THEN Table!DescMem(k) ELSE Table!NoDescMem)
           r == Table!Initialised(struct, values)
<1>0. DOMAIN struct = 1..2
  BY DescFields
<1>5. Injective(struct)
  BY DescFields
<1> HIDE DEF struct, values
<1>1. /\ DOMAIN r = {struct[j] : j \in DOMAIN struct}
      /\ \A j \in DOMAIN struct : r[struct[j]] = values[j]
  BY <1>5, InitialisedAt
<1>2. /\ struct[1] = "ext_desc_mem"
      /\ values[1] = (IF s.ext THEN Table!Num(1) ELSE Table!Num(0))
      /\ struct[2] = "desc_mem_base"
      /\ values[2] = (IF s.ext THEN Table!Par("DESC_MEM_BASE", k)
                      ELSE Table!Num(0))
  BY DEF struct, values, Table!alt_tse_system_desc_mem, Table!DescMem,
      Table!NoDescMem
<1> HIDE DEF r
<1>3. {struct[j] : j \in DOMAIN struct} = {"ext_desc_mem", "desc_mem_base"}
  BY <1>0, <1>2
<1>4. /\ r["ext_desc_mem"] = (IF s.ext THEN Table!Num(1) ELSE Table!Num(0))
      /\ r["desc_mem_base"] = (IF s.ext THEN Table!Par("DESC_MEM_BASE", k)
                               ELSE Table!Num(0))
  BY <1>0, <1>1, <1>2
<1>6. DOMAIN r = {"ext_desc_mem", "desc_mem_base"}
  BY <1>1, <1>3
<1> QED  BY <1>4, <1>6 DEF struct, values, r

LEMMA FifoValues ==
  ASSUME NEW s, NEW k
  PROVE  LET r == Table!Initialised(Table!alt_tse_system_shared_fifo,
                    (IF s.fifo THEN Table!SharedFifo(k) ELSE Table!NoSharedFifo)) IN
         /\ DOMAIN r = {"use_shared_fifo", "tse_shared_fifo_tx_ctrl_base",
                         "tse_shared_fifo_tx_stat_base", "tse_shared_fifo_tx_depth",
                         "tse_shared_fifo_rx_ctrl_base", "tse_shared_fifo_rx_stat_base",
                         "tse_shared_fifo_rx_depth"}
         /\ r["use_shared_fifo"] = (IF s.fifo THEN Table!Num(1)
                                    ELSE Table!Num(0))
         /\ r["tse_shared_fifo_tx_ctrl_base"] =
                (IF s.fifo THEN Table!Par("TX_CONTROL_BASE", k)
                 ELSE Table!Num(0))
         /\ r["tse_shared_fifo_tx_stat_base"] =
                (IF s.fifo THEN Table!Par("TX_FILL_LEVEL_BASE", k)
                 ELSE Table!Num(0))
         /\ r["tse_shared_fifo_tx_depth"] = (IF s.fifo THEN Table!Num(2040)
                                             ELSE Table!Num(0))
         /\ r["tse_shared_fifo_rx_ctrl_base"] =
                (IF s.fifo THEN Table!Par("RX_CONTROL_BASE", k)
                 ELSE Table!Num(0))
         /\ r["tse_shared_fifo_rx_stat_base"] =
                (IF s.fifo THEN Table!Par("RX_FILL_LEVEL_BASE", k)
                 ELSE Table!Num(0))
         /\ r["tse_shared_fifo_rx_depth"] = (IF s.fifo THEN Table!Num(2040)
                                             ELSE Table!Num(0))
<1> DEFINE struct == Table!alt_tse_system_shared_fifo
           values == (IF s.fifo THEN Table!SharedFifo(k) ELSE Table!NoSharedFifo)
           r == Table!Initialised(struct, values)
<1>0. DOMAIN struct = 1..7
  BY FifoFields
<1>5. Injective(struct)
  BY FifoFields
<1> HIDE DEF struct, values
<1>1. /\ DOMAIN r = {struct[j] : j \in DOMAIN struct}
      /\ \A j \in DOMAIN struct : r[struct[j]] = values[j]
  BY <1>5, InitialisedAt
<1>2. /\ struct[1] = "use_shared_fifo"
      /\ values[1] = (IF s.fifo THEN Table!Num(1) ELSE Table!Num(0))
      /\ struct[2] = "tse_shared_fifo_tx_ctrl_base"
      /\ values[2] = (IF s.fifo THEN Table!Par("TX_CONTROL_BASE", k)
                      ELSE Table!Num(0))
      /\ struct[3] = "tse_shared_fifo_tx_stat_base"
      /\ values[3] = (IF s.fifo THEN Table!Par("TX_FILL_LEVEL_BASE", k)
                      ELSE Table!Num(0))
      /\ struct[4] = "tse_shared_fifo_tx_depth"
      /\ values[4] = (IF s.fifo THEN Table!Num(2040) ELSE Table!Num(0))
      /\ struct[5] = "tse_shared_fifo_rx_ctrl_base"
      /\ values[5] = (IF s.fifo THEN Table!Par("RX_CONTROL_BASE", k)
                      ELSE Table!Num(0))
      /\ struct[6] = "tse_shared_fifo_rx_stat_base"
      /\ values[6] = (IF s.fifo THEN Table!Par("RX_FILL_LEVEL_BASE", k)
                      ELSE Table!Num(0))
      /\ struct[7] = "tse_shared_fifo_rx_depth"
      /\ values[7] = (IF s.fifo THEN Table!Num(2040) ELSE Table!Num(0))
  BY DEF struct, values, Table!alt_tse_system_shared_fifo, Table!SharedFifo,
      Table!NoSharedFifo
<1> HIDE DEF r
<1>3. {struct[j] : j \in DOMAIN struct} =
                     {"use_shared_fifo", "tse_shared_fifo_tx_ctrl_base",
                      "tse_shared_fifo_tx_stat_base", "tse_shared_fifo_tx_depth",
                      "tse_shared_fifo_rx_ctrl_base", "tse_shared_fifo_rx_stat_base",
                      "tse_shared_fifo_rx_depth"}
  BY <1>0, <1>2
<1>4. /\ r["use_shared_fifo"] = (IF s.fifo THEN Table!Num(1)
                                 ELSE Table!Num(0))
      /\ r["tse_shared_fifo_tx_ctrl_base"] =
             (IF s.fifo THEN Table!Par("TX_CONTROL_BASE", k)
              ELSE Table!Num(0))
      /\ r["tse_shared_fifo_tx_stat_base"] =
             (IF s.fifo THEN Table!Par("TX_FILL_LEVEL_BASE", k)
              ELSE Table!Num(0))
      /\ r["tse_shared_fifo_tx_depth"] = (IF s.fifo THEN Table!Num(2040)
                                          ELSE Table!Num(0))
      /\ r["tse_shared_fifo_rx_ctrl_base"] =
             (IF s.fifo THEN Table!Par("RX_CONTROL_BASE", k)
              ELSE Table!Num(0))
      /\ r["tse_shared_fifo_rx_stat_base"] =
             (IF s.fifo THEN Table!Par("RX_FILL_LEVEL_BASE", k)
              ELSE Table!Num(0))
      /\ r["tse_shared_fifo_rx_depth"] = (IF s.fifo THEN Table!Num(2040)
                                          ELSE Table!Num(0))
  BY <1>0, <1>1, <1>2
<1>6. DOMAIN r = {"use_shared_fifo", "tse_shared_fifo_tx_ctrl_base",
                 "tse_shared_fifo_tx_stat_base", "tse_shared_fifo_tx_depth",
                 "tse_shared_fifo_rx_ctrl_base", "tse_shared_fifo_rx_stat_base",
                 "tse_shared_fifo_rx_depth"}
  BY <1>1, <1>3
<1> QED  BY <1>4, <1>6 DEF struct, values, r

LEMMA PhyValues ==
  ASSUME NEW s, NEW k
  PROVE  LET r == Table!Initialised(Table!alt_tse_system_phy,
                    Table!Phy(k)) IN
         /\ DOMAIN r = {"tse_phy_mdio_address", "tse_phy_cfg"}
         /\ r["tse_phy_mdio_address"] = Table!Par("PHY_ADDRESS", k)
         /\ r["tse_phy_cfg"] = Table!Par("PHY_CFG", k)
<1> DEFINE struct == Table!alt_tse_system_phy
           values == Table!Phy(k)
           r == Table!Initialised(struct, values)
<1>0. DOMAIN struct = 1..2
  BY PhyFields
<1>5. Injective(struct)
  BY PhyFields
<1> HIDE DEF struct, values
<1>1. /\ DOMAIN r = {struct[j] : j \in DOMAIN struct}
      /\ \A j \in DOMAIN struct : r[struct[j]] = values[j]
  BY <1>5, InitialisedAt
<1>2. /\ struct[1] = "tse_phy_mdio_address"
      /\ values[1] = Table!Par("PHY_ADDRESS", k)
      /\ struct[2] = "tse_phy_cfg" /\ values[2] = Table!Par("PHY_CFG", k)
  BY DEF struct, values, Table!alt_tse_system_phy, Table!Phy
<1> HIDE DEF r
<1>3. {struct[j] : j \in DOMAIN struct} = {"tse_phy_mdio_address", "tse_phy_cfg"}
  BY <1>0, <1>2
<1>4. /\ r["tse_phy_mdio_address"] = Table!Par("PHY_ADDRESS", k)
      /\ r["tse_phy_cfg"] = Table!Par("PHY_CFG", k)
  BY <1>0, <1>1, <1>2
<1>6. DOMAIN r = {"tse_phy_mdio_address", "tse_phy_cfg"}
  BY <1>1, <1>3
<1> QED  BY <1>4, <1>6 DEF struct, values, r

\* A row written with a macro, by the names of its fields.
LEMMA WrittenValues ==
  ASSUME NEW s, NEW k
  PROVE  LET r == Table!Written(s, k) IN
         /\ r["tse_mac_base"] = Table!Par("BASE", 1024 * k)
         /\ r["tse_tx_depth"] = Table!Num(s.depth)
         /\ r["tse_rx_depth"] = Table!Num(s.depth)
         /\ r["tse_use_mdio"] = Table!Par("USE_MDIO", 0)
         /\ r["tse_en_maclite"] = Table!Par("ENABLE_MACLITE", 0)
         /\ r["tse_maclite_gige"] = Table!Par("MACLITE_GIGE", 0)
         /\ r["tse_multichannel_mac"] = Table!Par("IS_MULTICHANNEL_MAC", 0)
         /\ r["tse_num_of_channel"] = Table!Num(s.channels)
         /\ r["tse_mdio_shared"] = (IF s.macs = 0 THEN Table!Num(0)
                                    ELSE Table!Num(1))
         /\ r["tse_number_of_mac_mdio_shared"] = (IF s.macs = 0 THEN Table!Num(0)
                                                  ELSE Table!Num(s.macs))
         /\ r["tse_pcs_ena"] = Table!Par("PCS", 0)
         /\ r["tse_pcs_sgmii"] = Table!Par("PCS_SGMII", 0)
         /\ r["tse_msgdma_tx"] = Table!Par("TX_CSR_NAME", k)
         /\ r["tse_msgdma_rx"] = Table!Par("RX_CSR_NAME", k)
         /\ r["tse_msgdma_rx_irq"] = Table!Par("RX_CSR_IRQ", k)
         /\ r["ext_desc_mem"] = (IF s.ext THEN Table!Num(1)
                                 ELSE Table!Num(0))
         /\ r["desc_mem_base"] = (IF s.ext THEN Table!Par("DESC_MEM_BASE", k)
                                  ELSE Table!Num(0))
         /\ r["use_shared_fifo"] = (IF s.fifo THEN Table!Num(1)
                                    ELSE Table!Num(0))
         /\ r["tse_shared_fifo_tx_ctrl_base"] =
                (IF s.fifo THEN Table!Par("TX_CONTROL_BASE", k)
                 ELSE Table!Num(0))
         /\ r["tse_shared_fifo_tx_stat_base"] =
                (IF s.fifo THEN Table!Par("TX_FILL_LEVEL_BASE", k)
                 ELSE Table!Num(0))
         /\ r["tse_shared_fifo_tx_depth"] = (IF s.fifo THEN Table!Num(2040)
                                             ELSE Table!Num(0))
         /\ r["tse_shared_fifo_rx_ctrl_base"] =
                (IF s.fifo THEN Table!Par("RX_CONTROL_BASE", k)
                 ELSE Table!Num(0))
         /\ r["tse_shared_fifo_rx_stat_base"] =
                (IF s.fifo THEN Table!Par("RX_FILL_LEVEL_BASE", k)
                 ELSE Table!Num(0))
         /\ r["tse_shared_fifo_rx_depth"] = (IF s.fifo THEN Table!Num(2040)
                                             ELSE Table!Num(0))
         /\ r["tse_phy_mdio_address"] = Table!Par("PHY_ADDRESS", k)
         /\ r["tse_phy_cfg"] = Table!Par("PHY_CFG", k)
<1> DEFINE struct == Table!alt_tse_system_info
           values == IF s.macs = 0 THEN Table!Macro(s, k)
                     ELSE Table!MacroSharing(s, k)
           r == Table!Initialised(struct, values)
<1>0. DOMAIN struct = 1..26
  BY InfoFields
<1>6. Injective(struct)
  BY InfoFields
<1> HIDE DEF struct, values
<1>1. \A j \in DOMAIN struct : r[struct[j]] = values[j]
  BY <1>6, InitialisedAt
<1>2. /\ struct[1] = "tse_mac_base"
      /\ struct[2] = "tse_tx_depth"
      /\ struct[3] = "tse_rx_depth"
      /\ struct[4] = "tse_use_mdio"
      /\ struct[5] = "tse_en_maclite"
      /\ struct[6] = "tse_maclite_gige"
      /\ struct[7] = "tse_multichannel_mac"
      /\ struct[8] = "tse_num_of_channel"
      /\ struct[9] = "tse_mdio_shared"
      /\ struct[10] = "tse_number_of_mac_mdio_shared"
      /\ struct[11] = "tse_pcs_ena"
      /\ struct[12] = "tse_pcs_sgmii"
      /\ struct[13] = "tse_msgdma_tx"
      /\ struct[14] = "tse_msgdma_rx"
      /\ struct[15] = "tse_msgdma_rx_irq"
      /\ struct[16] = "ext_desc_mem"
      /\ struct[17] = "desc_mem_base"
      /\ struct[18] = "use_shared_fifo"
      /\ struct[19] = "tse_shared_fifo_tx_ctrl_base"
      /\ struct[20] = "tse_shared_fifo_tx_stat_base"
      /\ struct[21] = "tse_shared_fifo_tx_depth"
      /\ struct[22] = "tse_shared_fifo_rx_ctrl_base"
      /\ struct[23] = "tse_shared_fifo_rx_stat_base"
      /\ struct[24] = "tse_shared_fifo_rx_depth"
      /\ struct[25] = "tse_phy_mdio_address"
      /\ struct[26] = "tse_phy_cfg"
  BY DEF struct, Table!alt_tse_system_info
<1>3. /\ values[1] = Table!Par("BASE", 1024 * k)
      /\ values[2] = Table!Num(s.depth)
      /\ values[3] = Table!Num(s.depth)
      /\ values[4] = Table!Par("USE_MDIO", 0)
      /\ values[5] = Table!Par("ENABLE_MACLITE", 0)
      /\ values[6] = Table!Par("MACLITE_GIGE", 0)
      /\ values[7] = Table!Par("IS_MULTICHANNEL_MAC", 0)
      /\ values[8] = Table!Num(s.channels)
      /\ values[9] = (IF s.macs = 0 THEN Table!Num(0) ELSE Table!Num(1))
      /\ values[10] = (IF s.macs = 0 THEN Table!Num(0)
                       ELSE Table!Num(s.macs))
      /\ values[11] = Table!Par("PCS", 0)
      /\ values[12] = Table!Par("PCS_SGMII", 0)
      /\ values[13] = Table!Par("TX_CSR_NAME", k)
      /\ values[14] = Table!Par("RX_CSR_NAME", k)
      /\ values[15] = Table!Par("RX_CSR_IRQ", k)
      /\ values[16] = (IF s.ext THEN Table!Num(1) ELSE Table!Num(0))
      /\ values[17] = (IF s.ext THEN Table!Par("DESC_MEM_BASE", k)
                       ELSE Table!Num(0))
      /\ values[18] = (IF s.fifo THEN Table!Num(1) ELSE Table!Num(0))
      /\ values[19] = (IF s.fifo THEN Table!Par("TX_CONTROL_BASE", k)
                       ELSE Table!Num(0))
      /\ values[20] = (IF s.fifo THEN Table!Par("TX_FILL_LEVEL_BASE", k)
                       ELSE Table!Num(0))
      /\ values[21] = (IF s.fifo THEN Table!Num(2040) ELSE Table!Num(0))
      /\ values[22] = (IF s.fifo THEN Table!Par("RX_CONTROL_BASE", k)
                       ELSE Table!Num(0))
      /\ values[23] = (IF s.fifo THEN Table!Par("RX_FILL_LEVEL_BASE", k)
                       ELSE Table!Num(0))
      /\ values[24] = (IF s.fifo THEN Table!Num(2040) ELSE Table!Num(0))
      /\ values[25] = Table!Par("PHY_ADDRESS", k)
      /\ values[26] = Table!Par("PHY_CFG", k)
  <2> DEFINE m == Table!Macro(s, k)
  <2>1. DOMAIN m = 1..26 /\ m[1] = Table!Par("BASE", 1024 * k)
        /\ m[2] = Table!Num(s.depth)
        /\ m[3] = Table!Num(s.depth)
        /\ m[4] = Table!Par("USE_MDIO", 0)
        /\ m[5] = Table!Par("ENABLE_MACLITE", 0)
        /\ m[6] = Table!Par("MACLITE_GIGE", 0)
        /\ m[7] = Table!Par("IS_MULTICHANNEL_MAC", 0)
        /\ m[8] = Table!Num(s.channels)
        /\ m[9] = Table!Num(0)
        /\ m[10] = Table!Num(0)
        /\ m[11] = Table!Par("PCS", 0)
        /\ m[12] = Table!Par("PCS_SGMII", 0)
        /\ m[13] = Table!Par("TX_CSR_NAME", k)
        /\ m[14] = Table!Par("RX_CSR_NAME", k)
        /\ m[15] = Table!Par("RX_CSR_IRQ", k)
        /\ m[16] = (IF s.ext THEN Table!Num(1) ELSE Table!Num(0))
        /\ m[17] = (IF s.ext THEN Table!Par("DESC_MEM_BASE", k)
                    ELSE Table!Num(0))
        /\ m[18] = (IF s.fifo THEN Table!Num(1) ELSE Table!Num(0))
        /\ m[19] = (IF s.fifo THEN Table!Par("TX_CONTROL_BASE", k)
                    ELSE Table!Num(0))
        /\ m[20] = (IF s.fifo THEN Table!Par("TX_FILL_LEVEL_BASE", k)
                    ELSE Table!Num(0))
        /\ m[21] = (IF s.fifo THEN Table!Num(2040) ELSE Table!Num(0))
        /\ m[22] = (IF s.fifo THEN Table!Par("RX_CONTROL_BASE", k)
                    ELSE Table!Num(0))
        /\ m[23] = (IF s.fifo THEN Table!Par("RX_FILL_LEVEL_BASE", k)
                    ELSE Table!Num(0))
        /\ m[24] = (IF s.fifo THEN Table!Num(2040) ELSE Table!Num(0))
        /\ m[25] = Table!Par("PHY_ADDRESS", k)
        /\ m[26] = Table!Par("PHY_CFG", k)
    <3>1. m = <<Table!Par("BASE", 1024 * k), Table!Num(s.depth),
              Table!Num(s.depth), Table!Par("USE_MDIO", 0),
              Table!Par("ENABLE_MACLITE", 0), Table!Par("MACLITE_GIGE", 0),
              Table!Par("IS_MULTICHANNEL_MAC", 0), Table!Num(s.channels),
              Table!Num(0), Table!Num(0), Table!Par("PCS", 0),
              Table!Par("PCS_SGMII", 0), Table!Par("TX_CSR_NAME", k),
              Table!Par("RX_CSR_NAME", k), Table!Par("RX_CSR_IRQ", k),
              (IF s.ext THEN Table!Num(1) ELSE Table!Num(0)),
              (IF s.ext THEN Table!Par("DESC_MEM_BASE", k) ELSE Table!Num(0)),
              (IF s.fifo THEN Table!Num(1) ELSE Table!Num(0)),
              (IF s.fifo THEN Table!Par("TX_CONTROL_BASE", k) ELSE Table!Num(0)),
              (IF s.fifo THEN Table!Par("TX_FILL_LEVEL_BASE", k) ELSE Table!Num(0)),
              (IF s.fifo THEN Table!Num(2040) ELSE Table!Num(0)),
              (IF s.fifo THEN Table!Par("RX_CONTROL_BASE", k) ELSE Table!Num(0)),
              (IF s.fifo THEN Table!Par("RX_FILL_LEVEL_BASE", k) ELSE Table!Num(0)),
              (IF s.fifo THEN Table!Num(2040) ELSE Table!Num(0)),
              Table!Par("PHY_ADDRESS", k), Table!Par("PHY_CFG", k)>>
      BY DEF Table!Macro
    <3> HIDE DEF m
    <3> QED  BY <3>1
  <2>2. values = IF s.macs = 0 THEN m ELSE [m EXCEPT ![9] = Table!Num(1),
            ![10] = Table!Num(s.macs)]
    BY DEF values, Table!MacroSharing
  <2> HIDE DEF m
  <2>3. CASE s.macs = 0
    BY <2>1, <2>2, <2>3
  <2>4. CASE s.macs # 0
    BY <2>1, <2>2, <2>4
  <2> QED  BY <2>3, <2>4
<1>4. r = Table!Written(s, k)
  BY DEF struct, values, Table!Written
<1> HIDE DEF r
<1>5. /\ r["tse_mac_base"] = Table!Par("BASE", 1024 * k)
      /\ r["tse_tx_depth"] = Table!Num(s.depth)
      /\ r["tse_rx_depth"] = Table!Num(s.depth)
      /\ r["tse_use_mdio"] = Table!Par("USE_MDIO", 0)
      /\ r["tse_en_maclite"] = Table!Par("ENABLE_MACLITE", 0)
      /\ r["tse_maclite_gige"] = Table!Par("MACLITE_GIGE", 0)
      /\ r["tse_multichannel_mac"] = Table!Par("IS_MULTICHANNEL_MAC", 0)
      /\ r["tse_num_of_channel"] = Table!Num(s.channels)
      /\ r["tse_mdio_shared"] = (IF s.macs = 0 THEN Table!Num(0)
                                 ELSE Table!Num(1))
      /\ r["tse_number_of_mac_mdio_shared"] = (IF s.macs = 0 THEN Table!Num(0)
                                               ELSE Table!Num(s.macs))
      /\ r["tse_pcs_ena"] = Table!Par("PCS", 0)
      /\ r["tse_pcs_sgmii"] = Table!Par("PCS_SGMII", 0)
      /\ r["tse_msgdma_tx"] = Table!Par("TX_CSR_NAME", k)
      /\ r["tse_msgdma_rx"] = Table!Par("RX_CSR_NAME", k)
      /\ r["tse_msgdma_rx_irq"] = Table!Par("RX_CSR_IRQ", k)
      /\ r["ext_desc_mem"] = (IF s.ext THEN Table!Num(1) ELSE Table!Num(0))
      /\ r["desc_mem_base"] = (IF s.ext THEN Table!Par("DESC_MEM_BASE", k)
                               ELSE Table!Num(0))
      /\ r["use_shared_fifo"] = (IF s.fifo THEN Table!Num(1)
                                 ELSE Table!Num(0))
      /\ r["tse_shared_fifo_tx_ctrl_base"] =
             (IF s.fifo THEN Table!Par("TX_CONTROL_BASE", k)
              ELSE Table!Num(0))
      /\ r["tse_shared_fifo_tx_stat_base"] =
             (IF s.fifo THEN Table!Par("TX_FILL_LEVEL_BASE", k)
              ELSE Table!Num(0))
      /\ r["tse_shared_fifo_tx_depth"] = (IF s.fifo THEN Table!Num(2040)
                                          ELSE Table!Num(0))
      /\ r["tse_shared_fifo_rx_ctrl_base"] =
             (IF s.fifo THEN Table!Par("RX_CONTROL_BASE", k)
              ELSE Table!Num(0))
      /\ r["tse_shared_fifo_rx_stat_base"] =
             (IF s.fifo THEN Table!Par("RX_FILL_LEVEL_BASE", k)
              ELSE Table!Num(0))
      /\ r["tse_shared_fifo_rx_depth"] = (IF s.fifo THEN Table!Num(2040)
                                          ELSE Table!Num(0))
      /\ r["tse_phy_mdio_address"] = Table!Par("PHY_ADDRESS", k)
      /\ r["tse_phy_cfg"] = Table!Par("PHY_CFG", k)
  BY <1>0, <1>1, <1>2, <1>3
<1> QED  BY <1>4, <1>5 DEF r

\* A row made of the structures, by the names of its fields.
LEMMA CopiedValues ==
  ASSUME NEW s, NEW k \in Int
  PROVE  LET r == Table!Copied(s, k) IN
         /\ DOMAIN r = {"tse_mac_base", "tse_tx_depth", "tse_rx_depth", "tse_use_mdio",
                         "tse_en_maclite", "tse_maclite_gige", "tse_multichannel_mac",
                         "tse_num_of_channel", "tse_mdio_shared",
                         "tse_number_of_mac_mdio_shared", "tse_pcs_ena", "tse_pcs_sgmii",
                         "tse_msgdma_tx", "tse_msgdma_rx", "tse_msgdma_rx_irq",
                         "ext_desc_mem", "desc_mem_base", "use_shared_fifo",
                         "tse_shared_fifo_tx_ctrl_base", "tse_shared_fifo_tx_stat_base",
                         "tse_shared_fifo_tx_depth", "tse_shared_fifo_rx_ctrl_base",
                         "tse_shared_fifo_rx_stat_base", "tse_shared_fifo_rx_depth",
                         "tse_phy_mdio_address", "tse_phy_cfg"}
         /\ r["tse_mac_base"] = Table!Par("BASE", 1024 * k)
         /\ r["tse_tx_depth"] = Table!Num(s.depth % 65536)
         /\ r["tse_rx_depth"] = Table!Num(s.depth % 65536)
         /\ r["tse_use_mdio"] = Table!Par("USE_MDIO", 0)
         /\ r["tse_en_maclite"] = Table!Par("ENABLE_MACLITE", 0)
         /\ r["tse_maclite_gige"] = Table!Par("MACLITE_GIGE", 0)
         /\ r["tse_multichannel_mac"] = Table!Par("IS_MULTICHANNEL_MAC", 0)
         /\ r["tse_num_of_channel"] = Table!Num(s.channels)
         /\ r["tse_mdio_shared"] = Table!Num(0)
         /\ r["tse_number_of_mac_mdio_shared"] = Table!Num(0)
         /\ r["tse_pcs_ena"] = Table!Par("PCS", 0)
         /\ r["tse_pcs_sgmii"] = Table!Par("PCS_SGMII", 0)
         /\ r["tse_msgdma_tx"] = Table!Par("TX_CSR_NAME", k)
         /\ r["tse_msgdma_rx"] = Table!Par("RX_CSR_NAME", k)
         /\ r["tse_msgdma_rx_irq"] = Table!Par("RX_CSR_IRQ", k)
         /\ r["ext_desc_mem"] = (IF s.ext THEN Table!Num(1)
                                 ELSE Table!Num(0))
         /\ r["desc_mem_base"] = (IF s.ext THEN Table!Par("DESC_MEM_BASE", k)
                                  ELSE Table!Num(0))
         /\ r["use_shared_fifo"] = (IF s.fifo THEN Table!Num(1)
                                    ELSE Table!Num(0))
         /\ r["tse_shared_fifo_tx_ctrl_base"] =
                (IF s.fifo THEN Table!Par("TX_CONTROL_BASE", k)
                 ELSE Table!Num(0))
         /\ r["tse_shared_fifo_tx_stat_base"] =
                (IF s.fifo THEN Table!Par("TX_FILL_LEVEL_BASE", k)
                 ELSE Table!Num(0))
         /\ r["tse_shared_fifo_tx_depth"] = (IF s.fifo THEN Table!Num(2040)
                                             ELSE Table!Num(0))
         /\ r["tse_shared_fifo_rx_ctrl_base"] =
                (IF s.fifo THEN Table!Par("RX_CONTROL_BASE", k)
                 ELSE Table!Num(0))
         /\ r["tse_shared_fifo_rx_stat_base"] =
                (IF s.fifo THEN Table!Par("RX_FILL_LEVEL_BASE", k)
                 ELSE Table!Num(0))
         /\ r["tse_shared_fifo_rx_depth"] = (IF s.fifo THEN Table!Num(2040)
                                             ELSE Table!Num(0))
         /\ r["tse_phy_mdio_address"] = Table!Par("PHY_ADDRESS", k)
         /\ r["tse_phy_cfg"] = Table!Par("PHY_CFG", k)
<1> DEFINE mac_values == Table!Initialised(Table!alt_tse_system_mac,
    Table!Mac(s))
           base == [mac_values EXCEPT !.tse_mac_base = Table!Par("BASE",
               mac_values.tse_mac_base[2] + 1024 * k)]
           dma == Table!Initialised(Table!alt_tse_system_msgdma,
               Table!Msgdma(k))
           memory == Table!Initialised(Table!alt_tse_system_desc_mem,
                       IF s.ext THEN Table!DescMem(k) ELSE Table!NoDescMem)
           fifo == Table!Initialised(Table!alt_tse_system_shared_fifo,
                     IF s.fifo THEN Table!SharedFifo(k) ELSE Table!NoSharedFifo)
           phys == Table!Initialised(Table!alt_tse_system_phy,
               Table!Phy(k))
           with4 == Table!Both(fifo, phys)
           with3 == Table!Both(memory, with4)
           with2 == Table!Both(dma, with3)
           r == Table!Both(base, with2)
<1>1. r = Table!Copied(s, k)
  BY DEF Table!Copied
<1>2. /\ DOMAIN base = {"tse_mac_base", "tse_tx_depth", "tse_rx_depth", "tse_use_mdio",
                       "tse_en_maclite", "tse_maclite_gige", "tse_multichannel_mac",
                       "tse_num_of_channel", "tse_mdio_shared",
                       "tse_number_of_mac_mdio_shared", "tse_pcs_ena", "tse_pcs_sgmii"}
      /\ base["tse_mac_base"] = Table!Par("BASE", 1024 * k)
      /\ base["tse_tx_depth"] = Table!Num(s.depth % 65536)
      /\ base["tse_rx_depth"] = Table!Num(s.depth % 65536)
      /\ base["tse_use_mdio"] = Table!Par("USE_MDIO", 0)
      /\ base["tse_en_maclite"] = Table!Par("ENABLE_MACLITE", 0)
      /\ base["tse_maclite_gige"] = Table!Par("MACLITE_GIGE", 0)
      /\ base["tse_multichannel_mac"] = Table!Par("IS_MULTICHANNEL_MAC", 0)
      /\ base["tse_num_of_channel"] = Table!Num(s.channels)
      /\ base["tse_mdio_shared"] = Table!Num(0)
      /\ base["tse_number_of_mac_mdio_shared"] = Table!Num(0)
      /\ base["tse_pcs_ena"] = Table!Par("PCS", 0)
      /\ base["tse_pcs_sgmii"] = Table!Par("PCS_SGMII", 0)
  <2>1. Table!Par("BASE", 0)[2] + 1024 * k = 1024 * k
    BY DEF Table!Par
  <2>2. /\ DOMAIN mac_values = {"tse_mac_base", "tse_tx_depth", "tse_rx_depth",
               "tse_use_mdio",
                               "tse_en_maclite", "tse_maclite_gige",
                               "tse_multichannel_mac",
                               "tse_num_of_channel", "tse_mdio_shared",
                               "tse_number_of_mac_mdio_shared", "tse_pcs_ena",
                               "tse_pcs_sgmii"}
        /\ mac_values["tse_mac_base"] = Table!Par("BASE", 0)
        /\ mac_values["tse_tx_depth"] = Table!Num(s.depth % 65536)
        /\ mac_values["tse_rx_depth"] = Table!Num(s.depth % 65536)
        /\ mac_values["tse_use_mdio"] = Table!Par("USE_MDIO", 0)
        /\ mac_values["tse_en_maclite"] = Table!Par("ENABLE_MACLITE", 0)
        /\ mac_values["tse_maclite_gige"] = Table!Par("MACLITE_GIGE", 0)
        /\ mac_values["tse_multichannel_mac"] = Table!Par("IS_MULTICHANNEL_MAC", 0)
        /\ mac_values["tse_num_of_channel"] = Table!Num(s.channels)
        /\ mac_values["tse_mdio_shared"] = Table!Num(0)
        /\ mac_values["tse_number_of_mac_mdio_shared"] = Table!Num(0)
        /\ mac_values["tse_pcs_ena"] = Table!Par("PCS", 0)
        /\ mac_values["tse_pcs_sgmii"] = Table!Par("PCS_SGMII", 0)
    BY MacValues
  <2> HIDE DEF mac_values
  <2> QED  BY <2>1, <2>2
<1>3. /\ DOMAIN dma = {"tse_msgdma_tx", "tse_msgdma_rx", "tse_msgdma_rx_irq"}
      /\ dma["tse_msgdma_tx"] = Table!Par("TX_CSR_NAME", k)
      /\ dma["tse_msgdma_rx"] = Table!Par("RX_CSR_NAME", k)
      /\ dma["tse_msgdma_rx_irq"] = Table!Par("RX_CSR_IRQ", k)
  BY MsgdmaValues
<1>4. /\ DOMAIN memory = {"ext_desc_mem", "desc_mem_base"}
      /\ memory["ext_desc_mem"] = (IF s.ext THEN Table!Num(1)
                                   ELSE Table!Num(0))
      /\ memory["desc_mem_base"] = (IF s.ext THEN Table!Par("DESC_MEM_BASE", k)
                                    ELSE Table!Num(0))
  BY DescValues
<1>5. /\ DOMAIN fifo = {"use_shared_fifo", "tse_shared_fifo_tx_ctrl_base",
                  "tse_shared_fifo_tx_stat_base", "tse_shared_fifo_tx_depth",
                  "tse_shared_fifo_rx_ctrl_base", "tse_shared_fifo_rx_stat_base",
                  "tse_shared_fifo_rx_depth"}
      /\ fifo["use_shared_fifo"] = (IF s.fifo THEN Table!Num(1)
                                    ELSE Table!Num(0))
      /\ fifo["tse_shared_fifo_tx_ctrl_base"] =
             (IF s.fifo THEN Table!Par("TX_CONTROL_BASE", k)
              ELSE Table!Num(0))
      /\ fifo["tse_shared_fifo_tx_stat_base"] =
             (IF s.fifo THEN Table!Par("TX_FILL_LEVEL_BASE", k)
              ELSE Table!Num(0))
      /\ fifo["tse_shared_fifo_tx_depth"] = (IF s.fifo THEN Table!Num(2040)
                                             ELSE Table!Num(0))
      /\ fifo["tse_shared_fifo_rx_ctrl_base"] =
             (IF s.fifo THEN Table!Par("RX_CONTROL_BASE", k)
              ELSE Table!Num(0))
      /\ fifo["tse_shared_fifo_rx_stat_base"] =
             (IF s.fifo THEN Table!Par("RX_FILL_LEVEL_BASE", k)
              ELSE Table!Num(0))
      /\ fifo["tse_shared_fifo_rx_depth"] = (IF s.fifo THEN Table!Num(2040)
                                             ELSE Table!Num(0))
  BY FifoValues
<1>6. /\ DOMAIN phys = {"tse_phy_mdio_address", "tse_phy_cfg"}
      /\ phys["tse_phy_mdio_address"] = Table!Par("PHY_ADDRESS", k)
      /\ phys["tse_phy_cfg"] = Table!Par("PHY_CFG", k)
  BY PhyValues
<1> HIDE DEF base, dma, memory, fifo, phys
<1>7. /\ DOMAIN with4 = {"use_shared_fifo", "tse_shared_fifo_tx_ctrl_base",
                  "tse_shared_fifo_tx_stat_base", "tse_shared_fifo_tx_depth",
                  "tse_shared_fifo_rx_ctrl_base", "tse_shared_fifo_rx_stat_base",
                  "tse_shared_fifo_rx_depth", "tse_phy_mdio_address", "tse_phy_cfg"}
      /\ with4["use_shared_fifo"] = (IF s.fifo THEN Table!Num(1)
                                     ELSE Table!Num(0))
      /\ with4["tse_shared_fifo_tx_ctrl_base"] =
             (IF s.fifo THEN Table!Par("TX_CONTROL_BASE", k)
              ELSE Table!Num(0))
      /\ with4["tse_shared_fifo_tx_stat_base"] =
             (IF s.fifo THEN Table!Par("TX_FILL_LEVEL_BASE", k)
              ELSE Table!Num(0))
      /\ with4["tse_shared_fifo_tx_depth"] = (IF s.fifo THEN Table!Num(2040)
                                              ELSE Table!Num(0))
      /\ with4["tse_shared_fifo_rx_ctrl_base"] =
             (IF s.fifo THEN Table!Par("RX_CONTROL_BASE", k)
              ELSE Table!Num(0))
      /\ with4["tse_shared_fifo_rx_stat_base"] =
             (IF s.fifo THEN Table!Par("RX_FILL_LEVEL_BASE", k)
              ELSE Table!Num(0))
      /\ with4["tse_shared_fifo_rx_depth"] = (IF s.fifo THEN Table!Num(2040)
                                              ELSE Table!Num(0))
      /\ with4["tse_phy_mdio_address"] = Table!Par("PHY_ADDRESS", k)
      /\ with4["tse_phy_cfg"] = Table!Par("PHY_CFG", k)
  <2>1. /\ DOMAIN with4 = DOMAIN fifo \cup DOMAIN phys
        /\ \A x \in DOMAIN fifo : with4[x] = fifo[x]
        /\ \A x \in (DOMAIN phys) \ (DOMAIN fifo) : with4[x] = phys[x]
    BY BothAt
  <2> HIDE DEF with4
  <2> QED  BY <1>5, <1>6, <2>1
<1> HIDE DEF with4
<1>8. /\ DOMAIN with3 = {"ext_desc_mem", "desc_mem_base", "use_shared_fifo",
                  "tse_shared_fifo_tx_ctrl_base", "tse_shared_fifo_tx_stat_base",
                  "tse_shared_fifo_tx_depth", "tse_shared_fifo_rx_ctrl_base",
                  "tse_shared_fifo_rx_stat_base", "tse_shared_fifo_rx_depth",
                  "tse_phy_mdio_address", "tse_phy_cfg"}
      /\ with3["ext_desc_mem"] = (IF s.ext THEN Table!Num(1)
                                  ELSE Table!Num(0))
      /\ with3["desc_mem_base"] = (IF s.ext THEN Table!Par("DESC_MEM_BASE", k)
                                   ELSE Table!Num(0))
      /\ with3["use_shared_fifo"] = (IF s.fifo THEN Table!Num(1)
                                     ELSE Table!Num(0))
      /\ with3["tse_shared_fifo_tx_ctrl_base"] =
             (IF s.fifo THEN Table!Par("TX_CONTROL_BASE", k)
              ELSE Table!Num(0))
      /\ with3["tse_shared_fifo_tx_stat_base"] =
             (IF s.fifo THEN Table!Par("TX_FILL_LEVEL_BASE", k)
              ELSE Table!Num(0))
      /\ with3["tse_shared_fifo_tx_depth"] = (IF s.fifo THEN Table!Num(2040)
                                              ELSE Table!Num(0))
      /\ with3["tse_shared_fifo_rx_ctrl_base"] =
             (IF s.fifo THEN Table!Par("RX_CONTROL_BASE", k)
              ELSE Table!Num(0))
      /\ with3["tse_shared_fifo_rx_stat_base"] =
             (IF s.fifo THEN Table!Par("RX_FILL_LEVEL_BASE", k)
              ELSE Table!Num(0))
      /\ with3["tse_shared_fifo_rx_depth"] = (IF s.fifo THEN Table!Num(2040)
                                              ELSE Table!Num(0))
      /\ with3["tse_phy_mdio_address"] = Table!Par("PHY_ADDRESS", k)
      /\ with3["tse_phy_cfg"] = Table!Par("PHY_CFG", k)
  <2>1. /\ DOMAIN with3 = DOMAIN memory \cup DOMAIN with4
        /\ \A x \in DOMAIN memory : with3[x] = memory[x]
        /\ \A x \in (DOMAIN with4) \ (DOMAIN memory) : with3[x] = with4[x]
    BY BothAt
  <2> HIDE DEF with3
  <2> QED  BY <1>4, <1>7, <2>1
<1> HIDE DEF with3
<1>9. /\ DOMAIN with2 = {"tse_msgdma_tx", "tse_msgdma_rx", "tse_msgdma_rx_irq",
                  "ext_desc_mem", "desc_mem_base", "use_shared_fifo",
                  "tse_shared_fifo_tx_ctrl_base", "tse_shared_fifo_tx_stat_base",
                  "tse_shared_fifo_tx_depth", "tse_shared_fifo_rx_ctrl_base",
                  "tse_shared_fifo_rx_stat_base", "tse_shared_fifo_rx_depth",
                  "tse_phy_mdio_address", "tse_phy_cfg"}
      /\ with2["tse_msgdma_tx"] = Table!Par("TX_CSR_NAME", k)
      /\ with2["tse_msgdma_rx"] = Table!Par("RX_CSR_NAME", k)
      /\ with2["tse_msgdma_rx_irq"] = Table!Par("RX_CSR_IRQ", k)
      /\ with2["ext_desc_mem"] = (IF s.ext THEN Table!Num(1)
                                  ELSE Table!Num(0))
      /\ with2["desc_mem_base"] = (IF s.ext THEN Table!Par("DESC_MEM_BASE", k)
                                   ELSE Table!Num(0))
      /\ with2["use_shared_fifo"] = (IF s.fifo THEN Table!Num(1)
                                     ELSE Table!Num(0))
      /\ with2["tse_shared_fifo_tx_ctrl_base"] =
             (IF s.fifo THEN Table!Par("TX_CONTROL_BASE", k)
              ELSE Table!Num(0))
      /\ with2["tse_shared_fifo_tx_stat_base"] =
             (IF s.fifo THEN Table!Par("TX_FILL_LEVEL_BASE", k)
              ELSE Table!Num(0))
      /\ with2["tse_shared_fifo_tx_depth"] = (IF s.fifo THEN Table!Num(2040)
                                              ELSE Table!Num(0))
      /\ with2["tse_shared_fifo_rx_ctrl_base"] =
             (IF s.fifo THEN Table!Par("RX_CONTROL_BASE", k)
              ELSE Table!Num(0))
      /\ with2["tse_shared_fifo_rx_stat_base"] =
             (IF s.fifo THEN Table!Par("RX_FILL_LEVEL_BASE", k)
              ELSE Table!Num(0))
      /\ with2["tse_shared_fifo_rx_depth"] = (IF s.fifo THEN Table!Num(2040)
                                              ELSE Table!Num(0))
      /\ with2["tse_phy_mdio_address"] = Table!Par("PHY_ADDRESS", k)
      /\ with2["tse_phy_cfg"] = Table!Par("PHY_CFG", k)
  <2>1. /\ DOMAIN with2 = DOMAIN dma \cup DOMAIN with3
        /\ \A x \in DOMAIN dma : with2[x] = dma[x]
        /\ \A x \in (DOMAIN with3) \ (DOMAIN dma) : with2[x] = with3[x]
    BY BothAt
  <2> HIDE DEF with2
  <2> QED  BY <1>3, <1>8, <2>1
<1> HIDE DEF with2
<1>10. /\ DOMAIN r = {"tse_mac_base", "tse_tx_depth", "tse_rx_depth", "tse_use_mdio",
                  "tse_en_maclite", "tse_maclite_gige", "tse_multichannel_mac",
                  "tse_num_of_channel", "tse_mdio_shared",
                  "tse_number_of_mac_mdio_shared", "tse_pcs_ena", "tse_pcs_sgmii",
                  "tse_msgdma_tx", "tse_msgdma_rx", "tse_msgdma_rx_irq",
                  "ext_desc_mem", "desc_mem_base", "use_shared_fifo",
                  "tse_shared_fifo_tx_ctrl_base", "tse_shared_fifo_tx_stat_base",
                  "tse_shared_fifo_tx_depth", "tse_shared_fifo_rx_ctrl_base",
                  "tse_shared_fifo_rx_stat_base", "tse_shared_fifo_rx_depth",
                  "tse_phy_mdio_address", "tse_phy_cfg"}
      /\ r["tse_mac_base"] = Table!Par("BASE", 1024 * k)
      /\ r["tse_tx_depth"] = Table!Num(s.depth % 65536)
      /\ r["tse_rx_depth"] = Table!Num(s.depth % 65536)
      /\ r["tse_use_mdio"] = Table!Par("USE_MDIO", 0)
      /\ r["tse_en_maclite"] = Table!Par("ENABLE_MACLITE", 0)
      /\ r["tse_maclite_gige"] = Table!Par("MACLITE_GIGE", 0)
      /\ r["tse_multichannel_mac"] = Table!Par("IS_MULTICHANNEL_MAC", 0)
      /\ r["tse_num_of_channel"] = Table!Num(s.channels)
      /\ r["tse_mdio_shared"] = Table!Num(0)
      /\ r["tse_number_of_mac_mdio_shared"] = Table!Num(0)
      /\ r["tse_pcs_ena"] = Table!Par("PCS", 0)
      /\ r["tse_pcs_sgmii"] = Table!Par("PCS_SGMII", 0)
      /\ r["tse_msgdma_tx"] = Table!Par("TX_CSR_NAME", k)
      /\ r["tse_msgdma_rx"] = Table!Par("RX_CSR_NAME", k)
      /\ r["tse_msgdma_rx_irq"] = Table!Par("RX_CSR_IRQ", k)
      /\ r["ext_desc_mem"] = (IF s.ext THEN Table!Num(1) ELSE Table!Num(0))
      /\ r["desc_mem_base"] = (IF s.ext THEN Table!Par("DESC_MEM_BASE", k)
                               ELSE Table!Num(0))
      /\ r["use_shared_fifo"] = (IF s.fifo THEN Table!Num(1)
                                 ELSE Table!Num(0))
      /\ r["tse_shared_fifo_tx_ctrl_base"] =
             (IF s.fifo THEN Table!Par("TX_CONTROL_BASE", k)
              ELSE Table!Num(0))
      /\ r["tse_shared_fifo_tx_stat_base"] =
             (IF s.fifo THEN Table!Par("TX_FILL_LEVEL_BASE", k)
              ELSE Table!Num(0))
      /\ r["tse_shared_fifo_tx_depth"] = (IF s.fifo THEN Table!Num(2040)
                                          ELSE Table!Num(0))
      /\ r["tse_shared_fifo_rx_ctrl_base"] =
             (IF s.fifo THEN Table!Par("RX_CONTROL_BASE", k)
              ELSE Table!Num(0))
      /\ r["tse_shared_fifo_rx_stat_base"] =
             (IF s.fifo THEN Table!Par("RX_FILL_LEVEL_BASE", k)
              ELSE Table!Num(0))
      /\ r["tse_shared_fifo_rx_depth"] = (IF s.fifo THEN Table!Num(2040)
                                          ELSE Table!Num(0))
      /\ r["tse_phy_mdio_address"] = Table!Par("PHY_ADDRESS", k)
      /\ r["tse_phy_cfg"] = Table!Par("PHY_CFG", k)
  <2>1. /\ DOMAIN r = DOMAIN base \cup DOMAIN with2
        /\ \A x \in DOMAIN base : r[x] = base[x]
        /\ \A x \in (DOMAIN with2) \ (DOMAIN base) : r[x] = with2[x]
    BY BothAt
  <2> HIDE DEF r
  <2> QED  BY <1>2, <1>9, <2>1
<1> HIDE DEF r
<1> QED  BY <1>1, <1>10

LEMMA SystemFacts ==
  ASSUME Depths \subseteq Nat, MaxChannels \in Nat, NEW s \in Table!Systems
  PROVE  s.depth \in Nat /\ s.channels \in Nat /\ s.macs \in {0, 2}
<1>1. s.depth \in Depths /\ s.channels \in 1..MaxChannels /\ s.macs \in {0, 2}
  BY DEF Table!Systems
<1>2. \A n \in 1..MaxChannels : n \in Nat
  OBVIOUS
<1>3. s.channels \in Nat
  BY <1>1, <1>2
<1>4. s.depth \in Nat
  BY <1>1
<1> QED  BY <1>1, <1>3, <1>4

\* For the systems that can be described in both ways the rows are the same.
LEMMA RowsSame ==
  ASSUME NEW s \in Table!Systems, Depths \subseteq Nat, MaxChannels \in Nat
  PROVE  Table!SameRow(s)
<1> SUFFICES ASSUME s.macs = 0 \/ s.channels = 1, NEW k \in 0..(s.channels - 1),
                    NEW field \in Table!ToSet(Table!alt_tse_system_info)
             PROVE  \/ Table!Written(s, k)[field]
                         = Table!Shared(s, Table!Copied(s, k))[field]
                    \/ field \in {"tse_tx_depth", "tse_rx_depth"} /\ s.depth > 65535
  BY DEF Table!SameRow
<1> DEFINE w == Table!Written(s, k)
           c == Table!Copied(s, k)
           r == Table!Shared(s, c)
<1>1. s.depth \in Nat /\ s.macs \in {0, 2} /\ k \in Int
  BY SystemFacts
<1>2. field \in {"tse_mac_base", "tse_tx_depth", "tse_rx_depth", "tse_use_mdio",
               "tse_en_maclite", "tse_maclite_gige", "tse_multichannel_mac",
               "tse_num_of_channel", "tse_mdio_shared",
               "tse_number_of_mac_mdio_shared", "tse_pcs_ena", "tse_pcs_sgmii",
               "tse_msgdma_tx", "tse_msgdma_rx", "tse_msgdma_rx_irq",
               "ext_desc_mem", "desc_mem_base", "use_shared_fifo",
               "tse_shared_fifo_tx_ctrl_base", "tse_shared_fifo_tx_stat_base",
               "tse_shared_fifo_tx_depth", "tse_shared_fifo_rx_ctrl_base",
               "tse_shared_fifo_rx_stat_base", "tse_shared_fifo_rx_depth",
               "tse_phy_mdio_address", "tse_phy_cfg"}
  BY DEF Table!ToSet, Table!alt_tse_system_info
<1>3. /\ w["tse_mac_base"] = Table!Par("BASE", 1024 * k)
      /\ w["tse_tx_depth"] = Table!Num(s.depth)
      /\ w["tse_rx_depth"] = Table!Num(s.depth)
      /\ w["tse_use_mdio"] = Table!Par("USE_MDIO", 0)
      /\ w["tse_en_maclite"] = Table!Par("ENABLE_MACLITE", 0)
      /\ w["tse_maclite_gige"] = Table!Par("MACLITE_GIGE", 0)
      /\ w["tse_multichannel_mac"] = Table!Par("IS_MULTICHANNEL_MAC", 0)
      /\ w["tse_num_of_channel"] = Table!Num(s.channels)
      /\ w["tse_mdio_shared"] = (IF s.macs = 0 THEN Table!Num(0)
                                 ELSE Table!Num(1))
      /\ w["tse_number_of_mac_mdio_shared"] = (IF s.macs = 0 THEN Table!Num(0)
                                               ELSE Table!Num(s.macs))
      /\ w["tse_pcs_ena"] = Table!Par("PCS", 0)
      /\ w["tse_pcs_sgmii"] = Table!Par("PCS_SGMII", 0)
      /\ w["tse_msgdma_tx"] = Table!Par("TX_CSR_NAME", k)
      /\ w["tse_msgdma_rx"] = Table!Par("RX_CSR_NAME", k)
      /\ w["tse_msgdma_rx_irq"] = Table!Par("RX_CSR_IRQ", k)
      /\ w["ext_desc_mem"] = (IF s.ext THEN Table!Num(1) ELSE Table!Num(0))
      /\ w["desc_mem_base"] = (IF s.ext THEN Table!Par("DESC_MEM_BASE", k)
                               ELSE Table!Num(0))
      /\ w["use_shared_fifo"] = (IF s.fifo THEN Table!Num(1)
                                 ELSE Table!Num(0))
      /\ w["tse_shared_fifo_tx_ctrl_base"] =
             (IF s.fifo THEN Table!Par("TX_CONTROL_BASE", k)
              ELSE Table!Num(0))
      /\ w["tse_shared_fifo_tx_stat_base"] =
             (IF s.fifo THEN Table!Par("TX_FILL_LEVEL_BASE", k)
              ELSE Table!Num(0))
      /\ w["tse_shared_fifo_tx_depth"] = (IF s.fifo THEN Table!Num(2040)
                                          ELSE Table!Num(0))
      /\ w["tse_shared_fifo_rx_ctrl_base"] =
             (IF s.fifo THEN Table!Par("RX_CONTROL_BASE", k)
              ELSE Table!Num(0))
      /\ w["tse_shared_fifo_rx_stat_base"] =
             (IF s.fifo THEN Table!Par("RX_FILL_LEVEL_BASE", k)
              ELSE Table!Num(0))
      /\ w["tse_shared_fifo_rx_depth"] = (IF s.fifo THEN Table!Num(2040)
                                          ELSE Table!Num(0))
      /\ w["tse_phy_mdio_address"] = Table!Par("PHY_ADDRESS", k)
      /\ w["tse_phy_cfg"] = Table!Par("PHY_CFG", k)
  BY WrittenValues
<1>4. /\ DOMAIN c = {"tse_mac_base", "tse_tx_depth", "tse_rx_depth", "tse_use_mdio",
                    "tse_en_maclite", "tse_maclite_gige", "tse_multichannel_mac",
                    "tse_num_of_channel", "tse_mdio_shared",
                    "tse_number_of_mac_mdio_shared", "tse_pcs_ena", "tse_pcs_sgmii",
                    "tse_msgdma_tx", "tse_msgdma_rx", "tse_msgdma_rx_irq",
                    "ext_desc_mem", "desc_mem_base", "use_shared_fifo",
                    "tse_shared_fifo_tx_ctrl_base", "tse_shared_fifo_tx_stat_base",
                    "tse_shared_fifo_tx_depth", "tse_shared_fifo_rx_ctrl_base",
                    "tse_shared_fifo_rx_stat_base", "tse_shared_fifo_rx_depth",
                    "tse_phy_mdio_address", "tse_phy_cfg"}
      /\ c["tse_mac_base"] = Table!Par("BASE", 1024 * k)
      /\ c["tse_tx_depth"] = Table!Num(s.depth % 65536)
      /\ c["tse_rx_depth"] = Table!Num(s.depth % 65536)
      /\ c["tse_use_mdio"] = Table!Par("USE_MDIO", 0)
      /\ c["tse_en_maclite"] = Table!Par("ENABLE_MACLITE", 0)
      /\ c["tse_maclite_gige"] = Table!Par("MACLITE_GIGE", 0)
      /\ c["tse_multichannel_mac"] = Table!Par("IS_MULTICHANNEL_MAC", 0)
      /\ c["tse_num_of_channel"] = Table!Num(s.channels)
      /\ c["tse_mdio_shared"] = Table!Num(0)
      /\ c["tse_number_of_mac_mdio_shared"] = Table!Num(0)
      /\ c["tse_pcs_ena"] = Table!Par("PCS", 0)
      /\ c["tse_pcs_sgmii"] = Table!Par("PCS_SGMII", 0)
      /\ c["tse_msgdma_tx"] = Table!Par("TX_CSR_NAME", k)
      /\ c["tse_msgdma_rx"] = Table!Par("RX_CSR_NAME", k)
      /\ c["tse_msgdma_rx_irq"] = Table!Par("RX_CSR_IRQ", k)
      /\ c["ext_desc_mem"] = (IF s.ext THEN Table!Num(1) ELSE Table!Num(0))
      /\ c["desc_mem_base"] = (IF s.ext THEN Table!Par("DESC_MEM_BASE", k)
                               ELSE Table!Num(0))
      /\ c["use_shared_fifo"] = (IF s.fifo THEN Table!Num(1)
                                 ELSE Table!Num(0))
      /\ c["tse_shared_fifo_tx_ctrl_base"] =
             (IF s.fifo THEN Table!Par("TX_CONTROL_BASE", k)
              ELSE Table!Num(0))
      /\ c["tse_shared_fifo_tx_stat_base"] =
             (IF s.fifo THEN Table!Par("TX_FILL_LEVEL_BASE", k)
              ELSE Table!Num(0))
      /\ c["tse_shared_fifo_tx_depth"] = (IF s.fifo THEN Table!Num(2040)
                                          ELSE Table!Num(0))
      /\ c["tse_shared_fifo_rx_ctrl_base"] =
             (IF s.fifo THEN Table!Par("RX_CONTROL_BASE", k)
              ELSE Table!Num(0))
      /\ c["tse_shared_fifo_rx_stat_base"] =
             (IF s.fifo THEN Table!Par("RX_FILL_LEVEL_BASE", k)
              ELSE Table!Num(0))
      /\ c["tse_shared_fifo_rx_depth"] = (IF s.fifo THEN Table!Num(2040)
                                          ELSE Table!Num(0))
      /\ c["tse_phy_mdio_address"] = Table!Par("PHY_ADDRESS", k)
      /\ c["tse_phy_cfg"] = Table!Par("PHY_CFG", k)
  BY <1>1, CopiedValues
<1>5. r = IF s.macs > 0 /\ s.channels = 1
            THEN [c EXCEPT !.tse_mdio_shared = Table!Num(1),
                           !.tse_number_of_mac_mdio_shared = Table!Num(s.macs)]
            ELSE c
  BY DEF Table!Shared
<1> HIDE DEF w, c, r
<1>6. /\ r["tse_mac_base"] = Table!Par("BASE", 1024 * k)
      /\ r["tse_tx_depth"] = Table!Num(s.depth % 65536)
      /\ r["tse_rx_depth"] = Table!Num(s.depth % 65536)
      /\ r["tse_use_mdio"] = Table!Par("USE_MDIO", 0)
      /\ r["tse_en_maclite"] = Table!Par("ENABLE_MACLITE", 0)
      /\ r["tse_maclite_gige"] = Table!Par("MACLITE_GIGE", 0)
      /\ r["tse_multichannel_mac"] = Table!Par("IS_MULTICHANNEL_MAC", 0)
      /\ r["tse_num_of_channel"] = Table!Num(s.channels)
      /\ r["tse_mdio_shared"] = (IF s.macs = 0 THEN Table!Num(0)
                                 ELSE Table!Num(1))
      /\ r["tse_number_of_mac_mdio_shared"] = (IF s.macs = 0 THEN Table!Num(0)
                                               ELSE Table!Num(s.macs))
      /\ r["tse_pcs_ena"] = Table!Par("PCS", 0)
      /\ r["tse_pcs_sgmii"] = Table!Par("PCS_SGMII", 0)
      /\ r["tse_msgdma_tx"] = Table!Par("TX_CSR_NAME", k)
      /\ r["tse_msgdma_rx"] = Table!Par("RX_CSR_NAME", k)
      /\ r["tse_msgdma_rx_irq"] = Table!Par("RX_CSR_IRQ", k)
      /\ r["ext_desc_mem"] = (IF s.ext THEN Table!Num(1) ELSE Table!Num(0))
      /\ r["desc_mem_base"] = (IF s.ext THEN Table!Par("DESC_MEM_BASE", k)
                               ELSE Table!Num(0))
      /\ r["use_shared_fifo"] = (IF s.fifo THEN Table!Num(1)
                                 ELSE Table!Num(0))
      /\ r["tse_shared_fifo_tx_ctrl_base"] =
             (IF s.fifo THEN Table!Par("TX_CONTROL_BASE", k)
              ELSE Table!Num(0))
      /\ r["tse_shared_fifo_tx_stat_base"] =
             (IF s.fifo THEN Table!Par("TX_FILL_LEVEL_BASE", k)
              ELSE Table!Num(0))
      /\ r["tse_shared_fifo_tx_depth"] = (IF s.fifo THEN Table!Num(2040)
                                          ELSE Table!Num(0))
      /\ r["tse_shared_fifo_rx_ctrl_base"] =
             (IF s.fifo THEN Table!Par("RX_CONTROL_BASE", k)
              ELSE Table!Num(0))
      /\ r["tse_shared_fifo_rx_stat_base"] =
             (IF s.fifo THEN Table!Par("RX_FILL_LEVEL_BASE", k)
              ELSE Table!Num(0))
      /\ r["tse_shared_fifo_rx_depth"] = (IF s.fifo THEN Table!Num(2040)
                                          ELSE Table!Num(0))
      /\ r["tse_phy_mdio_address"] = Table!Par("PHY_ADDRESS", k)
      /\ r["tse_phy_cfg"] = Table!Par("PHY_CFG", k)
  <2>1. CASE s.macs = 0
    BY <1>4, <1>5, <2>1
  <2>2. CASE s.macs = 2
    BY <1>4, <1>5, <2>2
  <2> QED  BY <1>1, <2>1, <2>2
<1>7. s.depth > 65535 \/ s.depth % 65536 = s.depth
  BY <1>1
<1>8. \/ w[field] = r[field]
      \/ field \in {"tse_tx_depth", "tse_rx_depth"} /\ s.depth > 65535
  BY <1>2, <1>3, <1>6, <1>7
<1> QED  BY <1>8 DEF w, r, c

-----------------------------------------------------------------------------
(* All of it is set up right.                                              *)

\* The part of a behaviour stays, and so does the system a row is made for.
Parts == part = "table" => system \in Table!Systems

LEMMA PartsStart == PartInit => SystemInit /\ Parts
BY DEF PartInit, Parts

LEMMA PartsStay ==
  Parts /\ [PartNext]_<<part, system, systemVars, mdioVars>>
    => Parts' /\ [SystemNext]_(systemVars)
<1> SUFFICES ASSUME Parts, [PartNext]_<<part, system, systemVars, mdioVars>>
             PROVE  Parts' /\ [SystemNext]_(systemVars)
  OBVIOUS
<1>1. CASE PartNext
  BY <1>1 DEF PartNext, Parts
<1>2. CASE UNCHANGED <<part, system, systemVars, mdioVars>>
  BY <1>2 DEF Parts
<1> QED  BY <1>1, <1>2

LEMMA PartsRight ==
  ASSUME SystemAssumption, SetUpAssumption, TableInv, FitInv, Parts
  PROVE  TableAndGroups
<1>1. Depths \subseteq Nat /\ MaxChannels \in Nat /\ ListsOfNeighbours
  BY DEF SetUpAssumption
<1>2. part = "table" => Table!SameRow(system) /\ Phys!KnownPhys
  BY <1>1, RowsSame, PhysKnown DEF Parts
<1>3. SystemTypeOK
  <2>1. MAXNETS \in Nat
    BY DEF SystemAssumption
  <2>2. tse_system_count \in Slots /\ max_mac_system \in Slots
    BY <2>1 DEF Slots, Spill, TableInv, TableTypes
  <2>3. \A g \in DOMAIN pmac_groups : \A j \in DOMAIN pmac_groups[g] : pmac_groups[g][j] \in Nat
    BY SlotsOfGroups
  <2> QED  BY <2>2, <2>3 DEF SystemTypeOK, TableInv, TableTypes
<1>4. ASSUME ~refused /\ tse_system_count <= MAXNETS
      PROVE  AddedFound /\ ChannelsGrouped /\ SharedTogether
  <2>1. Fit
    BY <1>4 DEF Fit, TableInv, TableTypes
  <2> QED  BY <1>1, <2>1, FitSound
<1>5. OneGroup /\ Wired
  BY TableSound
<1>6. GroupsRight
  BY <1>3, <1>4, <1>5 DEF GroupsRight
<1> QED  BY <1>2, <1>6 DEF TableAndGroups

\* Whatever the rows and the PHYs, a row of the table says the same in both ways to
\* write it as long as the depth of the FIFO fits 16 bits; each PHY is found by its own
\* profile at every revision, and its speed and duplex are read as they are; and of the
\* groups made of the table, no slot is in two, no MAC lacks its DMA controllers, and
\* those that were added are all there, with their channels and lists together
\* (altera_avalon_tse_system_info.h:41-275, altera_avalon_tse.c:296-427, 970-1253).
THEOREM SetUpRight == PartSpec => []TableAndGroups
<1> SystemAssumption /\ SetUpAssumption
  BY SystemAssumption, SetUpAssumption
<1> DEFINE Inv == TableInv /\ FitInv /\ Parts
<1>0. ListsOfNeighbours
  BY DEF SetUpAssumption
<1>1. PartInit => Inv
  BY PartsStart, TableInit, FitInit
<1>2. Inv /\ [PartNext]_<<part, system, systemVars, mdioVars>> => Inv'
  BY <1>0, PartsStay, TableStep, FitStep
<1>3. Inv => TableAndGroups
  BY PartsRight
<1> QED  BY <1>1, <1>2, <1>3, PTL DEF PartSpec
==========================================================================================

----------------------------------- MODULE TsePhy -----------------------------------
(***************************************************************************)
(* The part of the TSE driver that finds the PHYs of a group of MACs and   *)
(* negotiates their links (altera_avalon_tse.c), over the one MDIO port of *)
(* the group: MDIO_ADDR1 says which PHY answers.  The registers of a PHY   *)
(* are kept as the modes they stand for.  A step of the driver is what it  *)
(* does between two looks at a PHY that can change under it: the links are *)
(* negotiated, come up and go down at any time.                            *)
(***************************************************************************)
EXTENDS Integers

CONSTANTS
  Channels,             \* MACs of the group
  Addresses,            \* MDIO addresses, 0..31 in the code
  Populations,          \* which PHYs are at which address
  Configured,           \* choices of tse_phy_mdio_address in tse_mac_device
  MacTypes,             \* choices of mac_type
  Threshold,            \* looks at a PHY before the driver gives up
  MaxLosses,            \* links that go down
  MallocFails, InvalidSpeed

None == -2
AUTO_ADDRESS == -1              \* TSE_PHY_AUTO_ADDRESS
Mac == 1..Channels
Addr == 0..(Addresses - 1)

Speeds == 0..2          \* TSE_PHY_SPEED_10, _100 and _1000
Invalid == 3            \* TSE_PHY_SPEED_INVALID
NoCommon == -1
Half == 0  Full == 1
Modes == Speeds \X {Half, Full}
Unread == [own |-> {}, partner |-> {}, read |-> FALSE]
Default == [speed |-> 1, duplex |-> Full]

\* The profile of a PHY, whether it can negotiate, its modes and
\* those of its link partner.  The speed is in the PHY specific status register,
\* or a function of the profile reads it, or the profile is not known.  No two
\* MACs of tse_mac_device name the same address.
Profiles == {"status", "reader", "unknown", "absent"}
Absent == [profile |-> "absent", able |-> FALSE, own |-> {}, partner |-> {}]

ASSUME PhyAssumption ==
  /\ Channels \in Nat \ {0} /\ Addresses \in Nat \ {0}
  /\ Threshold \in Nat /\ MaxLosses \in Nat
  /\ \A p \in Populations, a \in Addr :
       p[a] \in [profile : Profiles, able : BOOLEAN, own : SUBSET Modes, partner : SUBSET Modes]
  /\ Configured \subseteq [Mac -> Addr \cup {AUTO_ADDRESS}]
  /\ \A c \in Configured, m, n \in Mac : m # n /\ c[m] = c[n] => c[m] = AUTO_ADDRESS
  /\ MacTypes \subseteq [Mac -> {"full", "10_100", "1000"}]

VARIABLES
  dev, phy, losses,     \* the PHYs, their registers and links
  mdio_addr,            \* MDIO_ADDR1 of the first MAC of the group
  tse_phy_mdio_address, mac_type,
  pphy_info, pmac_info, \* the PHY of a MAC, the MAC of a PHY
  link_capability,
  cmd_config,           \* speed and duplex of the MACs
  is_init,
  pc, mac, i,           \* where the driver is, and for which MAC, channel or address
  prev, inner, poll,    \* what its functions have saved and count
  common, want,         \* speeds of get_common_speed, argument of set_common_speed
  result                \* of the last call

hwVars == <<dev, phy, losses>>
infoVars == <<tse_phy_mdio_address, mac_type, pphy_info, pmac_info, is_init>>
callVars == <<mac, i, prev, inner, poll, common, want>>
vars == <<hwVars, mdio_addr, infoVars, link_capability, cmd_config, pc, callVars, result>>

-----------------------------------------------------------------------------
(* The PHYs.                                                               *)

Present(a) == dev[a] # Absent
\* The mode two partners agree on: the highest speed, full duplex first.
Best(S) == CHOOSE m \in S : \A n \in S : n[1] < m[1] \/ (n[1] = m[1] /\ n[2] <= m[2])

AnCompletes(a) ==
  /\ Present(a) /\ phy[a].an = "running" /\ ~phy[a].loopback
  /\ phy[a].adv \cap dev[a].partner # {}
  /\ phy' = [phy EXCEPT ![a].an = "done", ![a].link = Best(phy[a].adv \cap dev[a].partner)]
  /\ UNCHANGED losses

LinkLost(a) ==
  /\ Present(a) /\ phy[a].an = "done" /\ losses < MaxLosses
  /\ phy' = [phy EXCEPT ![a].an = "running"] /\ losses' = losses + 1

Links ==
  /\ \E a \in Addr : AnCompletes(a) \/ LinkLost(a)
  /\ UNCHANGED <<dev, mdio_addr, infoVars, link_capability, cmd_config, pc, callVars, result>>

-----------------------------------------------------------------------------
(* Access to the PHYs.                                                     *)

\* mutant: the address is not written before the access
NotSelected(p) == mdio_addr
\* The PHY that answers after alt_tse_phy_wr_mdio_addr(pphy, pphy->mdio_address).
Selected(p) == p

\* alt_tse_phy_set_adv_1000, _100 and _10: exactly the speeds S, or not those of S.
Advertise(f, p, S) == [f EXCEPT ![Selected(p)].adv = {m \in dev[Selected(p)].own : m[1] \in S}]
Silence(f, p, S) == [f EXCEPT ![Selected(p)].adv = {m \in @ : m[1] \notin S}]

Idle == [prev |-> 0, polls |-> 0, then |-> "idle", result |-> "none"]

\* alt_tse_phy_restart_an(pphy) of a caller that goes on at `then' and has left
\* registers f in the PHYs and `from' in MDIO_ADDR1.
RestartAn(f, p, from, then) ==
  LET a == Selected(p) IN
  IF dev[a].able
    THEN /\ phy' = [f EXCEPT ![a].an = "running"]
         /\ mdio_addr' = a
         /\ poll' = [prev |-> from, polls |-> 0, then |-> then, result |-> "none"]
         /\ pc' = "poll"
    ELSE /\ phy' = f /\ pc' = then
         /\ mdio_addr' = from
         /\ poll' = [Idle EXCEPT !.result = "not_capable"]

GivesUp(looks) == looks > Threshold

AnReturns(r) ==
  /\ pc' = poll.then /\ mdio_addr' = poll.prev
  /\ poll' = [Idle EXCEPT !.result = r]

PollAn ==
  /\ pc = "poll"
  /\ \/ /\ phy[mdio_addr].an = "done"
        /\ AnReturns("complete")
     \/ /\ phy[mdio_addr].an # "done" /\ GivesUp(poll.polls)
        /\ AnReturns("not_complete")
     \/ /\ phy[mdio_addr].an # "done" /\ ~GivesUp(poll.polls)
        /\ poll' = [poll EXCEPT !.polls = @ + 1]
        /\ UNCHANGED <<pc, mdio_addr>>
  /\ UNCHANGED <<hwVars, infoVars, link_capability, cmd_config, mac, i, prev, inner,
                 common, want, result>>

-----------------------------------------------------------------------------
(* alt_tse_phy_init for the group, at the first call of getPHYSpeed.       *)

\* alt_tse_mac_associate_phy: a MAC that has this address, else an automatic one;
\* the first of them gets the PHY.
Candidates(a) ==
  LET explicit == {m \in Mac : tse_phy_mdio_address[m] = a} IN
  IF explicit # {} THEN explicit ELSE {m \in Mac : tse_phy_mdio_address[m] = AUTO_ADDRESS}
First(S) == CHOOSE m \in S : \A n \in S : m <= n

\* An absent PHY; one that no MAC takes is left alone.
ScanNext ==
  /\ pc = "scan" /\ i \in Addr /\ (~Present(i) \/ Candidates(i) = {})
  /\ mdio_addr' = i /\ i' = i + 1
  /\ UNCHANGED <<hwVars, infoVars, link_capability, cmd_config, pc, mac, prev, inner, poll,
                 common, want, result>>

ScanMapped ==
  /\ pc = "scan" /\ i \in Addr /\ Present(i) /\ Candidates(i) # {}
  /\ LET m == First(Candidates(i)) IN
     /\ pphy_info' = [pphy_info EXCEPT ![m] = i]
     /\ pmac_info' = [pmac_info EXCEPT ![i] = m]
     /\ tse_phy_mdio_address' = [tse_phy_mdio_address EXCEPT ![m] = i]
  /\ RestartAn(Advertise([phy EXCEPT ![i].loopback = FALSE], i, Speeds), i, i, "configure")
  /\ UNCHANGED <<dev, losses, mac_type, is_init, link_capability, cmd_config, mac, i, prev,
                 inner, common, want, result>>

\* The profile's phy_cfg resets a PHY that has no link: it negotiates still.
Configure ==
  /\ pc = "configure"
  /\ i' = i + 1 /\ pc' = "scan"
  /\ UNCHANGED <<hwVars, mdio_addr, infoVars, link_capability, cmd_config, mac, prev, inner,
                 poll, common, want, result>>

\* mutant: MDIO_ADDR1 is left at the last PHY
NotRestored == mdio_addr
\* MDIO_ADDR1 as the function found it.
Restored == prev

ScanDone ==
  /\ pc = "scan" /\ i = Addresses
  /\ mdio_addr' = Restored /\ is_init' = TRUE /\ pc' = "lookup"
  /\ UNCHANGED <<hwVars, tse_phy_mdio_address, mac_type, pphy_info, pmac_info, link_capability,
                 cmd_config, callVars, result>>

\* malloc fails: alt_tse_mac_get_phy returns at once, and alt_tse_phy_init goes on.
ScanFails ==
  /\ MallocFails /\ pc = "scan" /\ i \in Addr /\ Present(i)
  /\ mdio_addr' = i /\ is_init' = TRUE /\ pc' = "lookup"
  /\ UNCHANGED <<hwVars, tse_phy_mdio_address, mac_type, pphy_info, pmac_info, link_capability,
                 cmd_config, callVars, result>>

Scan == ScanNext \/ ScanMapped \/ Configure \/ ScanDone \/ ScanFails

-----------------------------------------------------------------------------
(* getPHYSpeed.  `result' keeps the speed and the duplex bit, or the error. *)

NoSpeeds == [speeds |-> {}, complete |-> FALSE]
Locals ==
  mac = 1 /\ i = 0 /\ prev = 0 /\ inner = 0 /\ poll = Idle /\ common = NoSpeeds /\ want = 0
\* A function returns r, and its locals are gone.
Returns(r) ==
  /\ result' = r /\ pc' = "idle" /\ mac' = 1 /\ i' = 0 /\ prev' = 0 /\ inner' = 0
  /\ poll' = Idle /\ common' = NoSpeeds /\ want' = 0
Failed(error) == [speed |-> Default.speed, duplex |-> Default.duplex, error |-> error]
NoResult == [speed |-> None, duplex |-> Full, error |-> "none"]
Read(speed, duplex) == [speed |-> speed, duplex |-> duplex, error |-> "none"]

GetPHYSpeed(m) ==
  /\ pc = "idle"
  /\ mac' = m /\ i' = 0 /\ prev' = mdio_addr
  /\ pc' = IF is_init THEN "lookup" ELSE "scan"
  /\ result' = NoResult
  /\ UNCHANGED <<hwVars, mdio_addr, infoVars, link_capability, cmd_config, inner, poll,
                 common, want>>

NoPhy ==
  /\ pc = "lookup" /\ pphy_info[mac] = None
  /\ Returns(Failed("no_phy"))
  /\ UNCHANGED <<hwVars, mdio_addr, infoVars, link_capability, cmd_config>>

\* A small MAC stops advertising what it cannot do and negotiates again.
SmallMac ==
  /\ pc = "lookup" /\ pphy_info[mac] # None /\ mac_type[mac] # "full"
  /\ LET p == pphy_info[mac] IN
     RestartAn(Silence(phy, p, IF mac_type[mac] = "10_100" THEN {2} ELSE {0, 1}), p,
               mdio_addr, "link")
  /\ UNCHANGED <<dev, losses, infoVars, link_capability, cmd_config, mac, i, prev, inner,
                 common, want, result>>

FullMac ==
  /\ pc = "lookup" /\ pphy_info[mac] # None /\ mac_type[mac] = "full"
  /\ pc' = "link"
  /\ UNCHANGED <<hwVars, mdio_addr, infoVars, link_capability, cmd_config, callVars, result>>

\* alt_tse_phy_check_link
CheckLink ==
  /\ pc = "link"
  /\ inner' = mdio_addr /\ mdio_addr' = Selected(pphy_info[mac])
  /\ i' = 0 /\ pc' = "check"
  /\ UNCHANGED <<hwVars, infoVars, link_capability, cmd_config, mac, prev, poll, common, want,
                 result>>

LinkUp == ~phy[mdio_addr].loopback /\ phy[mdio_addr].an = "done"

\* i counts the looks; it goes on counting after Threshold, which nothing tells.
CheckWaits ==
  /\ pc = "check" /\ ~LinkUp /\ ~GivesUp(i)
  /\ i' = i + 1
  /\ UNCHANGED <<hwVars, mdio_addr, infoVars, link_capability, cmd_config, pc, mac, prev,
                 inner, poll, common, want, result>>

CheckRestarts ==
  /\ pc = "check" /\ ~LinkUp /\ GivesUp(i)
  /\ RestartAn(phy, pphy_info[mac], mdio_addr, "checked")
  /\ UNCHANGED <<dev, losses, infoVars, link_capability, cmd_config, mac, i, prev, inner,
                 common, want, result>>

\* mutant: every answer is one to look again for
LooksAlways(answer) == TRUE
\* The link is looked at again for any answer but NOT_COMPLETE.
LooksAgain(answer) == answer # "not_complete"

CheckAgain ==
  /\ pc = "checked" /\ LooksAgain(poll.result)
  /\ pc' = "check"
  /\ UNCHANGED <<hwVars, mdio_addr, infoVars, link_capability, cmd_config, callVars, result>>

CheckFails ==
  /\ pc = "checked" /\ ~LooksAgain(poll.result)
  /\ mdio_addr' = inner
  /\ Returns(Failed("an_not_complete"))
  /\ UNCHANGED <<hwVars, infoVars, link_capability, cmd_config>>

\* The speed and duplex bits of the PHY specific status register.
StatusSpeeds(a) == IF InvalidSpeed THEN {phy[a].link[1], Invalid} ELSE {phy[a].link[1]}

\* MDIO_ADDR1 stays at this PHY: getPHYSpeed does not restore it.
ReadLink ==
  /\ pc = "check" /\ LinkUp
  /\ LET p == pphy_info[mac]  a == Selected(p) IN
     /\ mdio_addr' = a
     /\ phy' = [phy EXCEPT ![a].loopback = FALSE]
     /\ \/ dev[p].profile = "unknown" /\ Returns(Failed("no_profile"))
        \/ /\ dev[p].profile # "unknown"
           /\ \E speed \in StatusSpeeds(a) :
                \/ speed # Invalid /\ Returns(Read(speed, phy[a].link[2]))
                \/ /\ speed = Invalid /\ dev[p].profile = "status"
                   /\ Returns([Read(None, phy[a].link[2]) EXCEPT !.error = "invalid_speed"])
                \/ /\ speed = Invalid /\ dev[p].profile = "reader"
                   /\ Returns(Read(None, phy[a].link[2]))
  /\ UNCHANGED <<dev, losses, infoVars, link_capability, cmd_config>>

Speed ==
  NoPhy \/ SmallMac \/ FullMac \/ CheckLink \/ CheckWaits \/ CheckRestarts \/ CheckAgain
    \/ CheckFails \/ ReadLink

-----------------------------------------------------------------------------
(* alt_tse_mac_get_common_speed                                            *)

GetCommonSpeed ==
  /\ pc = "idle" /\ is_init
  /\ phy' = [a \in Addr |-> IF pmac_info[a] = None THEN phy[a]
                            ELSE [phy[a] EXCEPT !.adv = dev[a].own]]
  /\ prev' = mdio_addr /\ i' = 1 /\ common' = [speeds |-> Speeds, complete |-> FALSE]
  /\ pc' = "get_common" /\ result' = NoResult
  /\ UNCHANGED <<dev, losses, mdio_addr, infoVars, link_capability, cmd_config, mac, inner,
                 poll, want>>

\* No PHY, or alt_tse_phy_get_cap finds one that cannot negotiate.
CommonSkips ==
  /\ pc = "get_common" /\ i \in Mac
  /\ (pphy_info[i] # None => ~dev[pphy_info[i]].able)
  /\ i' = i + 1
  /\ UNCHANGED <<hwVars, mdio_addr, infoVars, link_capability, cmd_config, pc, mac, prev,
                 inner, poll, common, want, result>>

GetCap ==
  /\ pc = "get_common" /\ i \in Mac
  /\ pphy_info[i] # None /\ dev[pphy_info[i]].able
  /\ inner' = mdio_addr
  /\ RestartAn(phy, pphy_info[i], Selected(pphy_info[i]), "cap")
  /\ UNCHANGED <<dev, losses, infoVars, link_capability, cmd_config, mac, i, prev, common,
                 want, result>>

\* What a MAC can do, and the speeds a PHY and its partner both have.
MacSpeeds(m) ==
  CASE mac_type[m] = "full" -> Speeds
    [] mac_type[m] = "10_100" -> {0, 1}
    [] mac_type[m] = "1000" -> {2}
SharedSpeeds(c) == {m[1] : m \in (c.own \cap c.partner) \ {<<2, Half>>}}

\* The capabilities are stored in any case, and used when the link is up.
CapRead ==
  /\ pc = "cap"
  /\ LET cap == [own |-> dev[mdio_addr].own, partner |-> dev[mdio_addr].partner,
                 read |-> TRUE] IN
     /\ link_capability' = [link_capability EXCEPT ![pphy_info[i]] = cap]
     /\ common' = IF phy[mdio_addr].an = "done"
                    THEN [speeds |-> common.speeds \cap MacSpeeds(i) \cap SharedSpeeds(cap),
                          complete |-> TRUE]
                    ELSE common
  /\ mdio_addr' = inner /\ i' = i + 1 /\ pc' = "get_common"
  /\ UNCHANGED <<hwVars, infoVars, cmd_config, mac, prev, inner, poll, want, result>>

CommonReturns ==
  /\ pc = "get_common" /\ i > Channels
  /\ Returns(Read(IF common.complete /\ common.speeds # {}
                    THEN CHOOSE s \in common.speeds : \A t \in common.speeds : t <= s
                    ELSE NoCommon, Full))
  /\ UNCHANGED <<hwVars, mdio_addr, infoVars, link_capability, cmd_config>>

GetCommon == CommonSkips \/ GetCap \/ CapRead \/ CommonReturns

-----------------------------------------------------------------------------
(* alt_tse_mac_set_common_speed                                            *)

SetCommonSpeed(s) ==
  /\ pc = "idle" /\ is_init
  /\ IF s \in Speeds
       THEN /\ want' = s /\ prev' = mdio_addr /\ i' = 1 /\ pc' = "set_common"
            /\ result' = NoResult
            /\ UNCHANGED <<mac, inner, poll, common>>
       ELSE Returns(Read(NoCommon, Full))
  /\ UNCHANGED <<hwVars, mdio_addr, infoVars, link_capability, cmd_config>>

\* What the driver takes for the ability to do 1000 Mbps: anything, when
\* link_capability has not been written since malloc.
GbCapable(p) ==
  IF link_capability[p].read THEN {\E m \in link_capability[p].own : m[1] = 2} ELSE BOOLEAN

\* The speed bits of the CONTROL register of a PHY without auto-negotiation.
Forced(old, s, gb) == IF gb THEN s ELSE (2 * (old \div 2)) + (s % 2)

\* The speed and the duplex bit at status_reg_location: for a profile with a
\* reader that is register 0, whose low bits are 0.  An unknown PHY has no
\* profile, so the location is what lies at address 0.
SpeedBits(a, gb) ==
  CASE dev[a].profile = "status" -> {IF gb THEN phy[a].link[1] ELSE phy[a].link[1] % 2}
    [] dev[a].profile = "reader" -> {0}
    [] dev[a].profile = "unknown" -> Speeds
DuplexBits(a) ==
  CASE dev[a].profile = "status" -> {phy[a].link[2]}
    [] dev[a].profile = "reader" -> {0}
    [] dev[a].profile = "unknown" -> {Half, Full}

SetSkips ==
  /\ pc = "set_common" /\ i \in Mac /\ pphy_info[i] = None
  /\ i' = i + 1
  /\ UNCHANGED <<hwVars, mdio_addr, infoVars, link_capability, cmd_config, pc, mac, prev,
                 inner, poll, common, want, result>>

SetRefused(gb) ==
  /\ ~gb /\ want = 2
  /\ mdio_addr' = Restored
  /\ Returns(Read(NoCommon, Full))
  /\ UNCHANGED <<hwVars, infoVars, link_capability, cmd_config>>

SetForced(p, gb) ==
  LET a == Selected(p) IN
  /\ (gb \/ want # 2) /\ ~dev[a].able
  /\ phy' = [phy EXCEPT ![a].forced = Forced(@, want, gb)]
  /\ mdio_addr' = a /\ i' = i + 1
  /\ UNCHANGED <<dev, losses, infoVars, link_capability, cmd_config, pc, mac, prev, inner, poll,
                 common, want, result>>

\* mutant: the speeds above are not taken out of the advertisement
AnySpeed(s) == Speeds
UpTo(s) == 0..s

SetNegotiated(p, gb) ==
  LET a == Selected(p)
      f == Advertise(phy, p, UpTo(want)) IN
  /\ (gb \/ want # 2) /\ dev[a].able
  /\ \/ /\ phy[a].an # "done"
        /\ phy' = f /\ mdio_addr' = a /\ i' = i + 1
        /\ UNCHANGED <<pc, poll>>
     \/ \E speed \in SpeedBits(a, gb) :
          /\ phy[a].an = "done" /\ speed # want
          /\ RestartAn(f, p, a, "duplex")
          /\ UNCHANGED i
     \/ /\ phy[a].an = "done" /\ want \in SpeedBits(a, gb)
        /\ phy' = f /\ mdio_addr' = a /\ pc' = "duplex"
        /\ UNCHANGED <<i, poll>>
  /\ UNCHANGED <<dev, losses, infoVars, link_capability, cmd_config, mac, prev, inner, common,
                 want, result>>

SetPhy ==
  /\ pc = "set_common" /\ i \in Mac /\ pphy_info[i] # None
  /\ \E gb \in GbCapable(pphy_info[i]) :
       SetRefused(gb) \/ SetForced(pphy_info[i], gb) \/ SetNegotiated(pphy_info[i], gb)

\* alt_tse_mac_set_duplex is for the MAC of this PHY.
DuplexMac(m) == m

SetDuplex ==
  /\ pc = "duplex"
  /\ \E duplex \in DuplexBits(mdio_addr) :
       cmd_config' = [cmd_config EXCEPT !.half[DuplexMac(i)] = (duplex = Half)]
  /\ i' = i + 1 /\ pc' = "set_common"
  /\ UNCHANGED <<hwVars, mdio_addr, infoVars, link_capability, mac, prev, inner, poll, common,
                 want, result>>

\* alt_tse_mac_set_speed of the first MAC of the group
SetReturns ==
  /\ pc = "set_common" /\ i > Channels
  /\ cmd_config' = [cmd_config EXCEPT !.speed = want]
  /\ mdio_addr' = Restored
  /\ Returns(Read(want, Full))
  /\ UNCHANGED <<hwVars, infoVars, link_capability>>

SetCommon == SetSkips \/ SetPhy \/ SetDuplex \/ SetReturns

-----------------------------------------------------------------------------
Driver == Scan \/ PollAn \/ Speed \/ GetCommon \/ SetCommon

Init ==
  /\ dev \in Populations
  /\ phy = [a \in Addr |->
              IF ~dev[a].able
                THEN [adv |-> {}, loopback |-> FALSE, an |-> "off", link |-> <<0, Half>>, forced |-> 0]
                ELSE [adv |-> dev[a].own, loopback |-> TRUE, an |-> "running",
                      link |-> <<0, Half>>, forced |-> 0]]
  /\ losses = 0 /\ mdio_addr = 0
  /\ tse_phy_mdio_address \in Configured
  /\ mac_type \in MacTypes
  /\ pphy_info = [m \in Mac |-> None] /\ pmac_info = [a \in Addr |-> None]
  /\ link_capability = [a \in Addr |-> Unread]
  /\ cmd_config = [speed |-> None, half |-> [m \in Mac |-> FALSE]]
  /\ is_init = FALSE /\ pc = "idle" /\ Locals /\ result = NoResult

Call ==
  \/ \E m \in Mac : GetPHYSpeed(m)
  \/ GetCommonSpeed
  \/ \E s \in Speeds \cup {Invalid} : SetCommonSpeed(s)

Next == Call \/ Driver \/ Links
Spec == Init /\ [][Next]_vars
FairSpec == Spec /\ WF_vars(Driver)

-----------------------------------------------------------------------------
Places == {"idle", "scan", "configure", "poll", "lookup", "link", "check", "checked",
           "get_common", "cap", "set_common", "duplex"}

TypeOK ==
  /\ \A a \in Addr : phy[a].adv \subseteq Modes /\ phy[a].link \in Modes /\ phy[a].forced \in 0..3
  /\ \A a \in Addr : phy[a].an \in {"off", "running", "done"}
  /\ mdio_addr \in Addr
  /\ tse_phy_mdio_address \in [Mac -> Addr \cup {AUTO_ADDRESS}]
  /\ pphy_info \in [Mac -> Addr \cup {None}] /\ pmac_info \in [Addr -> Mac \cup {None}]
  /\ cmd_config.speed \in Speeds \cup {None} /\ is_init \in BOOLEAN
  /\ pc \in Places /\ poll.then \in Places /\ poll.polls \in 0..(Threshold + 1)
  /\ prev \in Addr /\ inner \in Addr /\ i \in 0..(Addresses + Channels + Threshold)

\* The PHY the driver works on at the places where it waits or reads.
Current ==
  LET working == IF pc = "poll" THEN poll.then ELSE pc IN
  CASE working = "configure" -> i
    [] working \in {"link", "check", "checked"} -> pphy_info[mac]
    [] working \in {"cap", "duplex"} -> pphy_info[i]
    [] OTHER -> None

\* Whatever is nested, the PHY that answers is the one the function was called
\* for: MDIO_ADDR1 is saved, changed and restored by five functions that call
\* each other.
RightPhyAnswers == pc \in {"poll", "configure", "check", "checked", "cap", "duplex"} => mdio_addr = Current

\* MACs and PHYs are in one-to-one correspondence whatever the order in which
\* PHYs are found: an automatic MAC never takes the PHY that another one names,
\* and the scan leaves no PHY over while there is an automatic MAC.
Mapped ==
  /\ \A m \in Mac : pphy_info[m] # None =>
       pmac_info[pphy_info[m]] = m /\ tse_phy_mdio_address[m] = pphy_info[m]
  /\ \A a \in Addr : pmac_info[a] # None => pphy_info[pmac_info[a]] = a
  /\ \A m, n \in Mac : m # n /\ tse_phy_mdio_address[m] = tse_phy_mdio_address[n]
                        => tse_phy_mdio_address[m] = AUTO_ADDRESS
  /\ pc = "scan" => \A a \in 0..(i - 1) : Present(a) /\ pmac_info[a] = None =>
                      \A m \in Mac : tse_phy_mdio_address[m] \notin {a, AUTO_ADDRESS}

PhyInv == TypeOK /\ RightPhyAnswers /\ Mapped

\* "Record previous MDIO address, to be restored at the end of function"
\* (altera_avalon_tse.c:1284, 1949, 2051): the functions that say so do, a scan
\* that runs out of memory excepted.
Restores ==
  [][\/ pc = "scan" /\ i = Addresses /\ pc' = "lookup"
     \/ pc \in {"get_common", "set_common"} /\ pc' = "idle"
     => mdio_addr' = prev]_vars

\* The PHYs whose speed and duplex mode the driver knows where to read, and
\* whose capabilities it has read.
Known(m) == /\ pphy_info[m] # None /\ dev[pphy_info[m]].profile = "status"
            /\ link_capability[pphy_info[m]].read

\* After set_common_speed no link is faster than the group's MACs are set, be it
\* up before or come up meanwhile, and the duplex mode of a MAC was set to that
\* of its own link (altera_avalon_tse.c:2114-2170).
LinksWithinCommon ==
  [][/\ pc = "set_common" /\ pc' = "idle" /\ result.speed' = want =>
          \A m \in Mac : Known(m) /\ phy[pphy_info[m]].an = "done" =>
            phy[pphy_info[m]].link[1] <= cmd_config.speed'
     /\ \A m \in Mac : Known(m) /\ cmd_config.half[m]' # cmd_config.half[m] =>
          cmd_config.half[m]' = (phy[pphy_info[m]].link[2] = Half)]_vars

\* Every call returns when each PHY can negotiate, as soon as links stop going
\* down (altera_avalon_tse.c:1600-1612, 1653-1674).
CallsReturn ==
  (\A a \in Addr : Present(a) => dev[a].able) => (pc # "idle" ~> pc = "idle")
======================================================================================

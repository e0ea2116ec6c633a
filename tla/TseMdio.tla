----------------------------------- MODULE TseMdio -----------------------------------
(***************************************************************************)
(* The functions that change single fields of the registers of the MAC and *)
(* of the PHYs (altera_avalon_tse.c), and tse_init of the firmware, access *)
(* by access: a field is changed by a read and a write of its register,    *)
(* MDIO_ADDR1 says which PHY answers, and the hardware clears RESET,       *)
(* RESTART_AN and SW_RESET when it is done with them.                      *)
(***************************************************************************)
EXTENDS TseRegisters

CONSTANTS
  Phys,             \* MDIO addresses that have a PHY
  Able,             \* modes of a PHY: those of the driver, and "T4"
  MaxCalls          \* bound: functions called in a behaviour

VARIABLES
  mac,              \* registers of the MAC by name
  phy, pcs,         \* registers behind the two MDIO windows
  todo,             \* accesses the running function has still to make
  f, who,           \* that function and the PHY it is for
  temp, loaded,     \* the register it has read to change a field
  saved,            \* the register it will restore
  calls,
  before, addr1,    \* history: registers of `who' and MDIO_ADDR1 at the call
  disturbed         \* history: `who' has had RESET set since then

regs == <<mac, phy, pcs>>
progress == <<todo, temp, loaded, saved>>
call == <<f, who, calls, before, addr1>>
mdioVars == <<regs, progress, call, disturbed>>

None == -1
Numbers == {0, 1, 4, 9, 15, 16, 20, 27}     \* registers of a PHY that are used
ReadOnly == {Mdio.STATUS, Mdio.EXT_STATUS}
Modes == {"T4", "100full", "100half", "10full", "10half", "1000full", "1000half"}
MdioAssumption == Phys \subseteq 0..31 /\ Able \in [Phys -> SUBSET Modes]

-----------------------------------------------------------------------------
(* The bus.                                                                *)

AddrOf(bits) == CHOOSE a \in 0..31 : Bits(a) = bits
Selected == AddrOf(mac["MDIO_ADDR1"])

\* IORD of a word.  Nobody drives the MDIO line for an address without a PHY.
Reading(w) ==
  LET r == Decode(w) IN
  CASE r[1] = "mdio1" -> IF Selected \in Phys THEN phy[Selected][r[2]] ELSE 0..15
    [] r[1] = "mdio0" -> pcs[r[2]]
    [] OTHER -> mac[r[1]]

\* IOWR of a word.
Write(w, bits) ==
  LET r == Decode(w) IN
  \/ /\ r[1] = "mdio1"
     /\ phy' = IF Selected \in Phys /\ r[2] \notin ReadOnly
                 THEN [phy EXCEPT ![Selected][r[2]] = bits] ELSE phy
     /\ UNCHANGED <<mac, pcs>>
  \/ /\ r[1] = "mdio0" /\ pcs' = [pcs EXCEPT ![r[2]] = bits]
     /\ UNCHANGED <<mac, phy>>
  \/ /\ r[1] \notin {"mdio0", "mdio1"} /\ mac' = [mac EXCEPT ![r[1]] = bits]
     /\ UNCHANGED <<phy, pcs>>

-----------------------------------------------------------------------------
(* What functions do.                                                      *)

NoCap == <<0, 0>>
Op(do, w, clear, bits, cap) ==
  [do |-> do, word |-> w, clear |-> clear, bits |-> bits, cap |-> cap]
Set(w, clear, bits) == Op("set", w, clear, bits, NoCap)
Put(w, bits) == Op("put", w, {}, bits, NoCap)
Save(w) == Op("save", w, {}, {}, NoCap)
Restore(w) == Op("restore", w, {}, {}, NoCap)
Unless(w, bits) == Op("unless", w, {}, bits, NoCap)
Await(w, bits) == Op("await", w, {}, bits, NoCap)       \* until it is these bits
Holds(w, bits) == Op("holds", w, {}, bits, NoCap)       \* until these are set
Clear(w, bits) == Op("clear", w, {}, bits, NoCap)       \* until these are clear
Brief(w, bits) == Op("brief", w, {}, bits, NoCap)       \* or the time is out

MDIO_ADDR1 == Field("MDIO_ADDR1", 0)
mdio1(k) == Field("mdio1", k)
CMD_CONFIG == (ConfigMacros.first + 8) \div 4

\* mutant: the mask covers every bit from lsb_num on
MaskToTop(lsb, length) == lsb..15
\* The mask of bit_length bits, shifted by lsb_num.
bit_mask(lsb, length) == lsb..(lsb + length - 1)

\* alt_tse_phy_wr_mdio_reg
WriteField(k, lsb, length, data) ==
  Set(mdio1(k), bit_mask(lsb, length),
      {b \in bit_mask(lsb, length) : b - lsb \in Bits(data)})

\* A bit that is set to what alt_tse_phy_rd_mdio_reg returns for another one.
CopyBit(k, bit, from, at) ==
  Op("set", mdio1(k), bit_mask(bit, 1), {bit}, <<from, at>>)

\* `Restore previous MDIO address'
Selecting(a, ops) ==
  <<Save(MDIO_ADDR1), Put(MDIO_ADDR1, Bits(a))>> \o ops \o <<Restore(MDIO_ADDR1)>>

SetAdv(k, bit, from, at, enable) ==
  IF enable THEN CopyBit(k, bit, from, at) ELSE WriteField(k, bit, 1, 0)

set_adv_1000(on) ==
  <<SetAdv(Mdio.T_CTRL, TCtrl.FULL_ADV, Mdio.EXT_STATUS, ExtStatus.BASE1000_T_FULL, on),
    SetAdv(Mdio.T_CTRL, TCtrl.HALF_ADV, Mdio.EXT_STATUS, ExtStatus.BASE1000_T_HALF, on)>>
set_adv_100(on) ==
  <<SetAdv(Mdio.ADV, Adv.BASE100_T4, Mdio.STATUS, Stat.BASE100_T4, on),
    SetAdv(Mdio.ADV, Adv.BASE100_TX_FULL, Mdio.STATUS, Stat.BASE100_X_FULL, on),
    SetAdv(Mdio.ADV, Adv.BASE100_TX_HALF, Mdio.STATUS, Stat.BASE100_X_HALF, on)>>
set_adv_10(on) ==
  <<SetAdv(Mdio.ADV, Adv.BASE10_TX_FULL, Mdio.STATUS, Stat.BASE10_T_FULL, on),
    SetAdv(Mdio.ADV, Adv.BASE10_TX_HALF, Mdio.STATUS, Stat.BASE10_T_HALF, on)>>
set_adv(speed, on) ==
  CASE speed = 2 -> set_adv_1000(on) [] speed = 1 -> set_adv_100(on) [] speed = 0 -> set_adv_10(on)

loopback == <<WriteField(Mdio.CONTROL, Control.LOOPBACK, 1, 0)>>
restart_an ==
  <<WriteField(Mdio.CONTROL, Control.AN_ENA, 1, 1), WriteField(Mdio.CONTROL, Control.RESTART_AN, 1, 1)>>

\* alt_tse_phy_set_common_speed for a PHY without auto-negotiation.
force(speed, gb) ==
  (IF gb THEN <<WriteField(Mdio.CONTROL, Control.SPEED_MSB, 1, speed \div 2)>> ELSE <<>>)
    \o <<WriteField(Mdio.CONTROL, Control.SPEED_LSB, 1, speed)>>

\* The functions of the profiles and of the application, which get the registers
\* of the MAC and not the address of a PHY.
phy_reset == Set(mdio1(Mdio.CONTROL), {}, {PCS_CTL_sw_reset})
marvell_phy_cfg ==
  <<Unless(mdio1(Mdio.STATUS), {PCS_ST_an_done}), Put(mdio1(0) + 16, Bits(120)), phy_reset>>
marvell_cfg(mode, timing) ==
  <<Set(mdio1(27), 0..3, Bits(mode)),                           \* reg1b
    Set(mdio1(20), {1, 7}, IF timing THEN {1, 7} ELSE {}),      \* reg14
    phy_reset>>
PEF7071_config == <<Set(mdio1(20), {14, 15}, {8})>>
cfg_pcs(sgmii) ==
  <<Set(Field("mdio0", 0) + ALTERA_TSE_PCS_IF_MODE, {0, 1}, IF sgmii THEN {0, 1} ELSE {})>>

\* COMMAND_CONFIG: alt_tse_mac_set_speed and _set_duplex, tse_mac_setMIImode and
\* _setGMIImode, tse_mac_SwReset.
set_speed(s) ==
  <<Set(CMD_CONFIG, {Cmd.ETH_SPEED, Cmd.ENA_10},
        CASE s = 2 -> {Cmd.ETH_SPEED} [] s = 1 -> {} [] s = 0 -> {Cmd.ENA_10})>>
set_duplex(full) == <<Set(CMD_CONFIG, {Cmd.HD_ENA}, IF full THEN {} ELSE {Cmd.HD_ENA})>>
setMIImode == <<Set(CMD_CONFIG, {Cmd.ETH_SPEED}, {})>>
setGMIImode == <<Set(CMD_CONFIG, {}, {Cmd.ETH_SPEED})>>
SwReset ==
  <<Save(CMD_CONFIG), Put(CMD_CONFIG, {Cmd.SW_RESET, Cmd.ETH_SPEED}),
    Brief(CMD_CONFIG, {Cmd.SW_RESET}), Restore(CMD_CONFIG)>>

\* The MAC address of the firmware, as its frames carry it (create_eth).
mac_src == <<222, 173, 190, 239, 202, 254>>
Off == {23, 9, 5}                                               \* 0x00800220
On == {23, 9, 5, 4, 3, 1, 0}                                    \* 0x0080023B
FIFO_DEPTH == 128

\* tse_init, by the numbers of the words.
tse_init ==
  <<Put(15, {}), Put(2, Off), Await(2, Off),
    Put(9, Bits(FIFO_DEPTH - 16)), Put(14, Bits(3)), Put(13, Bits(8)),
    Put(7, Bits(FIFO_DEPTH - 16)), Put(12, Bits(8)), Put(11, Bits(8)), Put(10, {}), Put(8, {}),
    Put(3, BitsOfBytes(<<222, 173, 190, 239>>)), Put(4, BitsOfBytes(<<202, 254, 0, 0>>)),
    Put(5, Bits(1280 + 54)), Put(23, Bits(12)), Put(6, 0..15), Put(2, Off), Await(2, Off),
    Set(2, {}, {13}), Clear(2, {13}), Set(2, {}, On), Holds(2, On), Put(58, {})>>

-----------------------------------------------------------------------------
(* Calls.                                                                  *)

Fn(name, x, on) == [fn |-> name, x |-> x, on |-> on]
OfPhy == {Fn("set_adv", s, on) : s \in 0..2, on \in BOOLEAN}
         \cup {Fn("force", s, FALSE) : s \in 0..1} \cup {Fn("force", s, TRUE) : s \in 0..2}
         \cup {Fn("loopback", 0, FALSE), Fn("restart_an", 0, TRUE)}
OfAddress == {Fn("marvell_phy_cfg", 0, TRUE), Fn("PEF7071_config", 0, TRUE),
              Fn("marvell_cfg", 15, FALSE), Fn("marvell_cfg", 4, FALSE), Fn("marvell_cfg", 11, TRUE)}
OfMac == {Fn("set_speed", s, TRUE) : s \in 0..2} \cup {Fn("SwReset", 0, TRUE)}
         \cup {Fn(name, 0, on) : name \in {"set_duplex", "setMode", "cfg_pcs"}, on \in BOOLEAN}

Ops(g, a) ==
  CASE g.fn = "set_adv" -> Selecting(a, set_adv(g.x, g.on))
    [] g.fn = "force" -> Selecting(a, force(g.x, g.on))
    [] g.fn = "loopback" -> Selecting(a, loopback)
    [] g.fn = "restart_an" -> Selecting(a, restart_an)
    [] g.fn = "marvell_phy_cfg" -> marvell_phy_cfg
    [] g.fn = "marvell_cfg" -> marvell_cfg(g.x, g.on)
    [] g.fn = "PEF7071_config" -> PEF7071_config
    [] g.fn = "set_speed" -> set_speed(g.x)
    [] g.fn = "set_duplex" -> set_duplex(g.on)
    [] g.fn = "setMode" -> IF g.on THEN setGMIImode ELSE setMIImode
    [] g.fn = "cfg_pcs" -> cfg_pcs(g.on)
    [] g.fn = "SwReset" -> SwReset

Resetting(a) == Control.RESET \in phy[a][Mdio.CONTROL]

Begin(g, a) ==
  /\ todo = <<>> /\ calls < MaxCalls
  /\ f' = g /\ who' = a /\ todo' = Ops(g, a) /\ calls' = calls + 1
  /\ before' = IF a = None THEN <<>> ELSE phy[a]
  /\ addr1' = mac["MDIO_ADDR1"] /\ disturbed' = (a # None /\ Resetting(a))
  /\ UNCHANGED <<regs, temp, loaded, saved>>

Call ==
  \/ \E g \in OfPhy, a \in Phys : Begin(g, a)
  \/ \E g \in OfAddress : Selected \in Phys /\ Begin(g, Selected)
  \/ \E g \in OfMac : Begin(g, None)

-----------------------------------------------------------------------------
(* Steps of the running function, one access each.                         *)

op == Head(todo)
Done == todo' = Tail(todo) /\ UNCHANGED <<call, disturbed>>

\* A capability never changes, so it is read together with the register.
Load ==
  /\ op.do = "set" /\ ~loaded
  /\ temp' = Reading(op.word) /\ loaded' = TRUE
  /\ UNCHANGED <<regs, call, todo, saved, disturbed>>

Value == IF op.cap = NoCap THEN op.bits
         ELSE IF op.cap[2] \in phy[who][op.cap[1]] THEN op.bits ELSE {}

Store ==
  /\ op.do = "set" /\ loaded
  /\ Write(op.word, (temp \ op.clear) \cup Value)
  /\ loaded' = FALSE /\ temp' = {}
  /\ Done /\ UNCHANGED saved

PutWord ==
  /\ op.do = "put" /\ Write(op.word, op.bits)
  /\ Done /\ UNCHANGED <<temp, loaded, saved>>

SaveWord ==
  /\ op.do = "save" /\ saved' = Reading(op.word)
  /\ Done /\ UNCHANGED <<regs, temp, loaded>>

RestoreWord ==
  /\ op.do = "restore" /\ Write(op.word, saved) /\ saved' = {}
  /\ Done /\ UNCHANGED <<temp, loaded>>

UnlessBit ==
  /\ op.do = "unless"
  /\ todo' = IF Reading(op.word) \cap op.bits # {} THEN <<>> ELSE Tail(todo)
  /\ UNCHANGED <<regs, call, temp, loaded, saved, disturbed>>

WaitEnds ==
  /\ \/ op.do = "await" /\ Reading(op.word) = op.bits
     \/ op.do = "holds" /\ op.bits \subseteq Reading(op.word)
     \/ op.do \in {"clear", "brief"} /\ Reading(op.word) \cap op.bits = {}
     \/ op.do = "brief"
  /\ Done /\ UNCHANGED <<regs, temp, loaded, saved>>

Access ==
  todo # <<>> /\ (Load \/ Store \/ PutWord \/ SaveWord \/ RestoreWord \/ UnlessBit \/ WaitEnds)

-----------------------------------------------------------------------------
(* The hardware.                                                           *)

\* The modes that are in a register, each at its bit.
ModeBits ==
  [adv |-> [m \in {"T4", "100full", "100half", "10full", "10half"} |->
     CASE m = "T4" -> 9 [] m = "100full" -> 8 [] m = "100half" -> 7 [] m = "10full" -> 6
       [] m = "10half" -> 5],
   gigabit |-> [m \in {"1000full", "1000half"} |-> IF m = "1000full" THEN 9 ELSE 8],
   status |-> [m \in {"T4", "100full", "100half", "10full", "10half"} |->
     CASE m = "T4" -> 15 [] m = "100full" -> 14 [] m = "100half" -> 13 [] m = "10full" -> 12
       [] m = "10half" -> 11],
   ext |-> [m \in {"1000full", "1000half"} |-> IF m = "1000full" THEN 13 ELSE 12]]
Encoded(modes, at) == {at[m] : m \in modes \cap DOMAIN at}
Decoded(bits, at) == {m \in DOMAIN at : at[m] \in bits}

\* What a reset of PHY a leaves in its registers r: those of the standard are set.
AfterReset(a, r) ==
  [r EXCEPT ![Mdio.CONTROL] = {Control.AN_ENA},
            ![Mdio.STATUS] = Encoded(Able[a], ModeBits.status) \cup {Stat.AN_ABILITY},
            ![Mdio.ADV] = Encoded(Able[a], ModeBits.adv) \cup {0},
            ![Mdio.T_CTRL] = Encoded(Able[a], ModeBits.gigabit),
            ![Mdio.EXT_STATUS] = Encoded(Able[a], ModeBits.ext)]

MacResets ==
  /\ Cmd.SW_RESET \in mac["COMMAND_CONFIG"]
  /\ mac' = [mac EXCEPT !["COMMAND_CONFIG"] = @ \ {Cmd.SW_RESET, Cmd.TX_ENA, Cmd.RX_ENA}]
  /\ UNCHANGED <<phy, pcs, disturbed>>

PhyResets(a) ==
  /\ Resetting(a) /\ phy' = [phy EXCEPT ![a] = AfterReset(a, @)]
  /\ disturbed' = (disturbed \/ a = who)
  /\ UNCHANGED <<mac, pcs>>

Restarts(a) ==
  /\ ~Resetting(a) /\ Control.RESTART_AN \in phy[a][Mdio.CONTROL]
  /\ phy' = [phy EXCEPT ![a][Mdio.CONTROL] = @ \ {Control.RESTART_AN},
                        ![a][Mdio.STATUS] = @ \ {Stat.AN_COMPLETE}]
  /\ UNCHANGED <<mac, pcs, disturbed>>

Negotiated(a) ==
  /\ ~Resetting(a) /\ Stat.AN_COMPLETE \notin phy[a][Mdio.STATUS]
  /\ phy[a][Mdio.CONTROL] \cap {Control.AN_ENA, Control.RESTART_AN} = {Control.AN_ENA}
  /\ phy' = [phy EXCEPT ![a][Mdio.STATUS] = @ \cup {Stat.AN_COMPLETE}]
  /\ UNCHANGED <<mac, pcs, disturbed>>

Hardware ==
  /\ MacResets \/ \E a \in Phys : PhyResets(a) \/ Restarts(a) \/ Negotiated(a)
  /\ UNCHANGED <<progress, call>>

-----------------------------------------------------------------------------
MdioInit ==
  /\ mac = [r \in {np_tse_mac[w + 1][1] : w \in (2..16) \cup {23, 58}} |-> {}]
  /\ phy = [a \in Phys |-> AfterReset(a, [k \in Numbers |-> {1, 10, 14}])]
  /\ pcs = [k \in {ALTERA_TSE_PCS_IF_MODE} |-> {1, 5}]
  /\ f = Fn("tse_init", 0, TRUE) /\ who = None /\ todo = tse_init
  /\ temp = {} /\ loaded = FALSE /\ saved = {} /\ calls = 0
  /\ before = <<>> /\ addr1 = {} /\ disturbed = FALSE

MdioNext == Call \/ Access \/ Hardware
MdioSpec == MdioInit /\ [][MdioNext]_mdioVars

-----------------------------------------------------------------------------
(* What the functions promise, in terms of what a PHY does.                *)

\* The settings of a PHY.
Settings(r) ==
  [adv |-> Decoded(r[4], ModeBits.adv) \cup Decoded(r[9], ModeBits.gigabit),
   an |-> 12 \in r[0], loopback |-> 14 \in r[0],
   speed |-> (IF 6 \in r[0] THEN 2 ELSE 0) + (IF 13 \in r[0] THEN 1 ELSE 0),
   mode |-> r[27] \cap 0..3, delays |-> r[20] \cap {1, 7}, leds |-> r[20] \cap {8, 14, 15},
   crossover |-> r[16],
   rest |-> <<r[0] \ {6, 9, 12, 13, 14, 15}, r[4] \ 5..9, r[9] \ {8, 9},
              r[20] \ {1, 7, 8, 14, 15}, r[27] \ 0..3>>]

AtSpeed(s) ==
  CASE s = 0 -> {"10full", "10half"} [] s = 1 -> {"T4", "100full", "100half"}
    [] s = 2 -> {"1000full", "1000half"}

\* The settings after a call of g for PHY a, which are one atomic change.
Promised(g, a, s) ==
  CASE g.fn = "set_adv" ->
         [s EXCEPT !.adv = (@ \ AtSpeed(g.x)) \cup (IF g.on THEN AtSpeed(g.x) \cap Able[a] ELSE {})]
    [] g.fn = "force" -> [s EXCEPT !.speed = IF g.on THEN g.x ELSE 2 * (@ \div 2) + g.x]
    [] g.fn = "loopback" -> [s EXCEPT !.loopback = FALSE]
    [] g.fn = "restart_an" -> [s EXCEPT !.an = TRUE]
    [] g.fn = "marvell_cfg" -> [s EXCEPT !.mode = Bits(g.x), !.delays = IF g.on THEN {1, 7} ELSE {}]
    [] g.fn = "PEF7071_config" -> [s EXCEPT !.leds = {8}]
    [] OTHER -> s

\* Returning a function leaves MDIO_ADDR1 as it was, has made the change it is
\* for in the PHY it is for, and nothing else (a PHY that resets itself at the
\* time apart); and no other PHY changes but by a reset of its own.  That the MAC
\* is on says that tse_init has set its address, the one the headers of its
\* frames carry, and a length for the longest of them
\* (altera_avalon_tse.c:889-921, 1784-1935, 2198-2275; hello_world_small.c:156-193).
FieldChange ==
  /\ todo # <<>> /\ todo' = <<>> =>
      /\ mac'["MDIO_ADDR1"] = addr1
      /\ who # None /\ f.fn # "marvell_phy_cfg" /\ ~disturbed' =>
           Settings(phy'[who]) = Promised(f, who, Settings(before))
  /\ \A a \in Phys : phy'[a] # phy[a] /\ Settings(phy'[a]) # Settings(phy[a]) =>
      (todo # <<>> /\ a = who) \/ Resetting(a)
  /\ mac' # mac /\ {Cmd.TX_ENA, Cmd.RX_ENA} \cap mac'["COMMAND_CONFIG"] # {} =>
      /\ mac'["MAC_0"] = BitsOfBytes(SubSeq(mac_src, 1, 4))
      /\ mac'["MAC_1"] = BitsOfBytes(SubSeq(mac_src, 5, 6) \o <<0, 0>>)
      /\ mac'["FRM_LENGTH"] = Bits(1280 + 54)
      /\ \A r \in {"RX_SECTION_EMPTY", "TX_SECTION_EMPTY"} : mac'[r] = Bits(128 - 16)
======================================================================================

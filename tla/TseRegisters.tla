-------------------------------- MODULE TseRegisters --------------------------------
(***************************************************************************)
(* The registers of the TSE MAC and of the PHYs behind its two MDIO        *)
(* windows, in the three ways the software names them: byte offsets in the *)
(* macros of altera_eth_tse_regs.h, which are those of the hardware, the   *)
(* fields of struct np_tse_mac, and the word numbers of the firmware.  A   *)
(* register is a set of bits.                                              *)
(***************************************************************************)
EXTENDS Integers, Sequences

\* The bits of a number, and of four bytes, the lowest first.
Bits(n) == {b \in 0..30 : (n \div (2^b)) % 2 = 1}
BitsOfBytes(bytes) == {b \in 0..31 : (bytes[1 + (b \div 8)] \div (2^(b % 8))) % 2 = 1}

-----------------------------------------------------------------------------
(* Names.  A register of an array or an MDIO window has a number in it.    *)

Plain(names) == [k \in DOMAIN names |-> <<names[k], 0>>]
Reserved(n) == [k \in 1..n |-> <<"reserved", 0>>]
Array(name, n) == [k \in 1..n |-> <<name, k - 1>>]

Config == Plain(<<"REV", "SCRATCH", "COMMAND_CONFIG", "MAC_0", "MAC_1", "FRM_LENGTH",
  "PAUSE_QUANT", "RX_SECTION_EMPTY", "RX_SECTION_FULL", "TX_SECTION_EMPTY",
  "TX_SECTION_FULL", "RX_ALMOST_EMPTY", "RX_ALMOST_FULL", "TX_ALMOST_EMPTY",
  "TX_ALMOST_FULL", "MDIO_ADDR0", "MDIO_ADDR1">>)
Status == Plain(<<"REG_STAT", "TX_IPG_LENGTH">>)
Counters == Plain(<<"aMACID_1", "aMACID_2", "aFramesTransmittedOK", "aFramesReceivedOK",
  "aFramesCheckSequenceErrors", "aAlignmentErrors", "aOctetsTransmittedOK",
  "aOctetsReceivedOK", "aTxPAUSEMACCtrlFrames", "aRxPAUSEMACCtrlFrames", "ifInErrors",
  "ifOutErrors", "ifInUcastPkts", "ifInMulticastPkts", "ifInBroadcastPkts", "ifOutDiscards",
  "ifOutUcastPkts", "ifOutMulticastPkts", "ifOutBroadcastPkts", "etherStatsDropEvent",
  "etherStatsOctets", "etherStatsPkts", "etherStatsUndersizePkts", "etherStatsOversizePkts",
  "etherStatsPkts64Octets", "etherStatsPkts65to127Octets", "etherStatsPkts128to255Octets",
  "etherStatsPkts256to511Octets", "etherStatsPkts512to1023Octets",
  "etherStatsPkts1024to1518Octets", "etherStatsPkts1519toXOctets", "etherStatsJabbers",
  "etherStatsFragments">>)
CmdStat == Plain(<<"TX_CMD_STAT", "RX_CMD_STAT">>)
Supplemental == Plain(<<"smac0_0", "smac0_1", "smac1_0", "smac1_1", "smac2_0", "smac2_1",
  "smac3_0", "smac3_1">>)
Msb == Plain(<<"msb_aOctetsTransmittedOK", "msb_aOctetsReceivedOK", "msb_etherStatsOctets">>)

\* Registers of a PHY or of the PCS.
np_tse_mdio(window) == Array(window, 32)

\* The words of struct np_tse_mac.
np_tse_mac ==
  Config \o Reserved(5) \o Status \o Counters \o Reserved(1) \o CmdStat \o Msb \o Reserved(1)
    \o Array("hashtable", 64) \o np_tse_mdio("mdio0") \o np_tse_mdio("mdio1")
    \o Supplemental \o Reserved(56)

\* The word of a field of the struct.
Field(name, k) == (CHOOSE w \in DOMAIN np_tse_mac : np_tse_mac[w] = <<name, k>>) - 1

-----------------------------------------------------------------------------
(* The byte offsets of the macros, a run of neighbours at a time.          *)

ConfigMacros == [first |-> 0, names |-> Config]               \* 0x00..0x40
StatusMacros == [first |-> 88, names |-> Status]              \* 0x58, 0x5c
CounterMacros == [first |-> 96, names |-> Counters]           \* 0x60..0xE0
CmdStatMacros == [first |-> 232, names |-> CmdStat]           \* 0xE8, 0xEC
HashMacro == [first |-> 256, names |-> Array("hashtable", 64)]
MdioMacro(mdio) ==
  [first |-> 512 + mdio * 128, names |-> np_tse_mdio(IF mdio = 0 THEN "mdio0" ELSE "mdio1")]
SupplementalMacros == [first |-> 768, names |-> Supplemental] \* 0x300..0x31C

Macros == {ConfigMacros, StatusMacros, CounterMacros, CmdStatMacros, HashMacro,
           MdioMacro(0), MdioMacro(1), SupplementalMacros}

\* The register the hardware has at a word, which is the one the macros say.
Decode(w) ==
  LET at == {run \in Macros : 4 * w \in run.first..(run.first + 4 * Len(run.names) - 1)} IN
  IF at = {} THEN <<"reserved", 0>>
  ELSE LET run == CHOOSE r \in at : TRUE IN run.names[1 + (w - (run.first \div 4))]

-----------------------------------------------------------------------------
(* Bits.                                                                   *)

\* COMMAND_CONFIG
Cmd == [TX_ENA |-> 0, RX_ENA |-> 1, XON_GEN |-> 2, ETH_SPEED |-> 3, PROMIS_EN |-> 4,
  PAD_EN |-> 5, CRC_FWD |-> 6, PAUSE_FWD |-> 7, PAUSE_IGNORE |-> 8, TX_ADDR_INS |-> 9,
  HD_ENA |-> 10, EXCESS_COL |-> 11, LATE_COL |-> 12, SW_RESET |-> 13, MHASH_SEL |-> 14,
  LOOPBACK |-> 15, TX_ADDR_SEL |-> 16, MAGIC_ENA |-> 19, SLEEP |-> 20, WAKEUP |-> 21,
  XOFF_GEN |-> 22, CNTL_FRM_ENA |-> 23, NO_LENGTH_CHECK |-> 24, ENA_10 |-> 25,
  RX_ERR_DISC |-> 26, CNT_RESET |-> 31]

\* Registers of a PHY.
Mdio == [CONTROL |-> 0, STATUS |-> 1, ADV |-> 4, T_CTRL |-> 9, EXT_STATUS |-> 15]
Control == [RESET |-> 15, LOOPBACK |-> 14, SPEED_LSB |-> 13, AN_ENA |-> 12,
  RESTART_AN |-> 9, SPEED_MSB |-> 6]
Stat == [BASE100_T4 |-> 15, BASE100_X_FULL |-> 14, BASE100_X_HALF |-> 13,
  BASE10_T_FULL |-> 12, BASE10_T_HALF |-> 11, AN_COMPLETE |-> 5, AN_ABILITY |-> 3]
Adv == [BASE100_T4 |-> 9, BASE100_TX_FULL |-> 8, BASE100_TX_HALF |-> 7,
  BASE10_TX_FULL |-> 6, BASE10_TX_HALF |-> 5]
TCtrl == [FULL_ADV |-> 9, HALF_ADV |-> 8]
ExtStatus == [BASE1000_T_FULL |-> 13, BASE1000_T_HALF |-> 12]
PCS_CTL_sw_reset == 15
PCS_ST_an_done == 5
ALTERA_TSE_PCS_IF_MODE == 20                                  \* 0x14
=====================================================================================

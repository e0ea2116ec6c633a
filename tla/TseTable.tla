---------------------------------- MODULE TseTable ----------------------------------
(***************************************************************************)
(* The two ways to fill the table tse_mac_device: rows written with the    *)
(* macros of altera_avalon_tse_system_info.h, whose values meet the fields *)
(* of alt_tse_system_info by position only, and alt_tse_system_add_sys,    *)
(* which copies the structures of the components field by field.           *)
(***************************************************************************)
EXTENDS Integers, Sequences, SequencesExt

CONSTANTS
  MaxChannels,              \* bound: channels of a MAC
  Depths                    \* depths of the FIFOs of the MAC

\* A parameter of system.h, or the k-th of an array, and a number.
Par(name, k) == <<name, k>>
Num(n) == <<"number", n>>

\* The structures of the components, and alt_tse_system_info, field by field.
alt_tse_system_mac ==
  <<"tse_mac_base", "tse_tx_depth", "tse_rx_depth", "tse_use_mdio", "tse_en_maclite",
    "tse_maclite_gige", "tse_multichannel_mac", "tse_num_of_channel", "tse_mdio_shared",
    "tse_number_of_mac_mdio_shared", "tse_pcs_ena", "tse_pcs_sgmii">>
alt_tse_system_msgdma == <<"tse_msgdma_tx", "tse_msgdma_rx", "tse_msgdma_rx_irq">>
alt_tse_system_desc_mem == <<"ext_desc_mem", "desc_mem_base">>
alt_tse_system_shared_fifo ==
  <<"use_shared_fifo",
    "tse_shared_fifo_tx_ctrl_base", "tse_shared_fifo_tx_stat_base", "tse_shared_fifo_tx_depth",
    "tse_shared_fifo_rx_ctrl_base", "tse_shared_fifo_rx_stat_base", "tse_shared_fifo_rx_depth">>
alt_tse_system_phy == <<"tse_phy_mdio_address", "tse_phy_cfg">>
alt_tse_system_info ==
  <<"tse_mac_base", "tse_tx_depth", "tse_rx_depth", "tse_use_mdio", "tse_en_maclite",
    "tse_maclite_gige", "tse_multichannel_mac", "tse_num_of_channel", "tse_mdio_shared",
    "tse_number_of_mac_mdio_shared", "tse_pcs_ena", "tse_pcs_sgmii",
    "tse_msgdma_tx", "tse_msgdma_rx", "tse_msgdma_rx_irq", "ext_desc_mem", "desc_mem_base",
    "use_shared_fifo",
    "tse_shared_fifo_tx_ctrl_base", "tse_shared_fifo_tx_stat_base", "tse_shared_fifo_tx_depth",
    "tse_shared_fifo_rx_ctrl_base", "tse_shared_fifo_rx_stat_base", "tse_shared_fifo_rx_depth",
    "tse_phy_mdio_address", "tse_phy_cfg">>

\* An initialiser without names: the k-th value is that of the k-th field.
Initialised(struct, values) ==
  [field \in ToSet(struct) |-> values[CHOOSE k \in DOMAIN struct : struct[k] = field]]

\* The fields of two structures.
Both(f, g) == [field \in DOMAIN f \cup DOMAIN g |-> IF field \in DOMAIN f THEN f[field] ELSE g[field]]

-----------------------------------------------------------------------------
(* A system: a MAC of `channels' channels with FIFOs of a depth, descriptor *)
(* memory of its own, shared FIFOs, and MDIO shared by `macs' of them.      *)

Systems == [depth : Depths, channels : 1..MaxChannels, ext : BOOLEAN, fifo : BOOLEAN, macs : {0, 2}]

\* TSE_SYSTEM_SHARED_FIFO
SharedFifo(k) ==
  <<Num(1), Par("TX_CONTROL_BASE", k), Par("TX_FILL_LEVEL_BASE", k), Num(2040),
    Par("RX_CONTROL_BASE", k), Par("RX_FILL_LEVEL_BASE", k), Num(2040)>>
NoSharedFifo == [k \in 1..7 |-> Num(0)]                  \* TSE_SYSTEM_NO_SHARED_FIFO
Msgdma(k) == <<Par("TX_CSR_NAME", k), Par("RX_CSR_NAME", k), Par("RX_CSR_IRQ", k)>>
DescMem(k) == <<Num(1), Par("DESC_MEM_BASE", k)>>        \* TSE_SYSTEM_DESC_MEM
NoDescMem == <<Num(0), Num(0)>>                          \* TSE_SYSTEM_NO_DESC_MEM
Phy(k) == <<Par("PHY_ADDRESS", k), Par("PHY_CFG", k)>>   \* TSE_SYSTEM_PHY

\* TSE_SYSTEM_MAC; alt_tse_system_mac keeps the depths in 16 bits.
Mac(s) ==
  <<Par("BASE", 0), Num(s.depth % 65536), Num(s.depth % 65536), Par("USE_MDIO", 0),
    Par("ENABLE_MACLITE", 0), Par("MACLITE_GIGE", 0), Par("IS_MULTICHANNEL_MAC", 0), Num(s.channels),
    Num(0), Num(0), Par("PCS", 0), Par("PCS_SGMII", 0)>>

\* A row by the macro for the system, TSE_SYSTEM_EXT_MEM_NO_SHARED_FIFO and the
\* three others, with the offset of channel k.
Macro(s, k) ==
  LET Memory(value) == IF s.ext THEN value ELSE Num(0)
      Fifo(value) == IF s.fifo THEN value ELSE Num(0) IN
  <<Par("BASE", 1024 * k), Num(s.depth), Num(s.depth), Par("USE_MDIO", 0),
    Par("ENABLE_MACLITE", 0), Par("MACLITE_GIGE", 0), Par("IS_MULTICHANNEL_MAC", 0), Num(s.channels),
    Num(0), Num(0), Par("PCS", 0), Par("PCS_SGMII", 0),
    Par("TX_CSR_NAME", k), Par("RX_CSR_NAME", k), Par("RX_CSR_IRQ", k),
    Memory(Num(1)), Memory(Par("DESC_MEM_BASE", k)),
    Fifo(Num(1)),
    Fifo(Par("TX_CONTROL_BASE", k)), Fifo(Par("TX_FILL_LEVEL_BASE", k)), Fifo(Num(2040)),
    Fifo(Par("RX_CONTROL_BASE", k)), Fifo(Par("RX_FILL_LEVEL_BASE", k)), Fifo(Num(2040)),
    Par("PHY_ADDRESS", k), Par("PHY_CFG", k)>>
\* The same by the four that end in _ENABLE_MDIO_SHARING.
MacroSharing(s, k) == [Macro(s, k) EXCEPT ![9] = Num(1), ![10] = Num(s.macs)]
Written(s, k) ==
  Initialised(alt_tse_system_info, IF s.macs = 0 THEN Macro(s, k) ELSE MacroSharing(s, k))

\* A row by alt_tse_system_add_sys, for channel k, with null pointers for what
\* the system has not, and then by alt_tse_sys_enable_mdio_sharing.
Copied(s, k) ==
  LET mac == Initialised(alt_tse_system_mac, Mac(s))
      base == [mac EXCEPT !.tse_mac_base = Par("BASE", mac.tse_mac_base[2] + 1024 * k)] IN
  Both(base,
  Both(Initialised(alt_tse_system_msgdma, Msgdma(k)),
  Both(Initialised(alt_tse_system_desc_mem, IF s.ext THEN DescMem(k) ELSE NoDescMem),
  Both(Initialised(alt_tse_system_shared_fifo, IF s.fifo THEN SharedFifo(k) ELSE NoSharedFifo),
       Initialised(alt_tse_system_phy, Phy(k))))))
Shared(s, row) ==
  IF s.macs > 0 /\ s.channels = 1
    THEN [row EXCEPT !.tse_mdio_shared = Num(1), !.tse_number_of_mac_mdio_shared = Num(s.macs)]
    ELSE row

\* Both ways give the same row, field by field, for the systems that both can
\* describe: MDIO of a MAC with channels is never "shared", and a FIFO of 65536
\* words has no depth in alt_tse_system_mac.
SameRow(s) ==
  s.macs = 0 \/ s.channels = 1 =>
    \A k \in 0..(s.channels - 1), field \in ToSet(alt_tse_system_info) :
      \/ Written(s, k)[field] = Shared(s, Copied(s, k))[field]
      \/ field \in {"tse_tx_depth", "tse_rx_depth"} /\ s.depth > 65535
=====================================================================================

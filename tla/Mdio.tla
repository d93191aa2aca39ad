-------------------------------- MODULE Mdio --------------------------------
(***************************************************************************)
(* The configuration of the PHY chip over MDIO: the driver's               *)
(* configure_ael2005_phy_chips (sw/driver/ael2005_conf.c, and the same in  *)
(* sw/my_driver/ael2005_simple_conf.c) and the card's                      *)
(* mdio_host_interface.v.                                                  *)
(*                                                                         *)
(* A register of the PHY takes two transactions, one that sets the address *)
(* and one that writes.  The driver clears a flag, writes the transaction  *)
(* to the card and sleeps until the interrupt handler sets the flag.       *)
(* Transactions are numbered in the order of the tables.                   *)
(***************************************************************************)
EXTENDS Naturals, Sequences

CONSTANTS
  Resets,  \* registers in reset[]
  Others,  \* registers in sr_edc[] and regs1[]
  Sleeps   \* the sleeps in step 1 that are not too many (20)

ASSUME MdioAssumption ==
  /\ Resets \in Nat /\ Others \in Nat /\ Resets + Others > 0
  /\ Sleeps \in Nat /\ Resets <= Sleeps

Transactions == 2 * (Resets + Others)

VARIABLES
  confAt, turn, timeout,   \* configure_ael2005_phy_chips
  rdy,                     \* mdio_access_rdy
  wire,                    \* the register write under way, or none
  hostFsm, hostData,       \* host_int_fsm, host_data_in
  access,                  \* mdio_access
  done,                    \* generate_interrupt_50mhz
  intFsm,                  \* interrupt_fsm
  irq,                     \* an interrupt the host has not handled
  handler,                 \* installed for it: "none", "mdio", "card"
  phy                      \* the transactions the PHY got

confVars == <<confAt, turn, timeout>>
hostVars == <<hostFsm, hostData, access, done, intFsm>>
mdioVars == <<confVars, rdy, wire, hostVars, irq, handler, phy>>

None == Transactions

MdioInit ==
  /\ confAt = "off" /\ turn = 0 /\ timeout = 0
  /\ rdy = FALSE
  /\ wire = None
  /\ hostFsm = "s7" /\ hostData = None /\ access = FALSE /\ done = FALSE
  /\ intFsm = "s0"
  /\ irq = FALSE
  /\ handler = "none"
  /\ phy = <<>>

-----------------------------------------------------------------------------
(* The driver. *)
ConfStart ==
  /\ confAt = "off"
  /\ confAt' = "clear" /\ turn' = 0 /\ timeout' = 0
  /\ handler' = "mdio"
  /\ UNCHANGED <<rdy, wire, hostVars, irq, phy>>

(* A mutant of ConfClear: the flag stays as the last transaction left it.  *)
ConfClearNot ==
  /\ confAt = "clear"
  /\ confAt' = "write"
  /\ UNCHANGED <<turn, timeout, rdy, wire, hostVars, irq, handler, phy>>

ConfClear ==
  /\ confAt = "clear"
  /\ confAt' = "write"
  /\ rdy' = FALSE
  /\ UNCHANGED <<turn, timeout, wire, hostVars, irq, handler, phy>>

(* A mutant of ConfWrite: the flag is cleared after the write. *)
ConfWriteClears ==
  \/ /\ confAt = "write" /\ wire = None
     /\ confAt' = "late"
     /\ wire' = turn
     /\ UNCHANGED <<turn, timeout, rdy, hostVars, irq, handler, phy>>
  \/ /\ confAt = "late"
     /\ confAt' = "sleep"
     /\ rdy' = FALSE
     /\ UNCHANGED <<turn, timeout, wire, hostVars, irq, handler, phy>>

ConfWrite ==
  /\ confAt = "write" /\ wire = None
  /\ confAt' = "sleep"
  /\ wire' = turn
  /\ UNCHANGED <<turn, timeout, rdy, hostVars, irq, handler, phy>>

(* Step 1, set address: every sleep counts, for all of the table together. *)
Counts == turn < 2 * Resets /\ turn % 2 = 0

(* msleep is over: too many of them, the flag is set, or sleep again. *)
ConfSleep ==
  /\ confAt = "sleep"
  /\ timeout' = IF Counts THEN timeout + 1 ELSE timeout
  /\ IF timeout' > Sleeps THEN confAt' = "failed" /\ UNCHANGED turn
     ELSE IF ~rdy THEN UNCHANGED <<confAt, turn>>
     ELSE /\ turn' = turn + 1
          /\ confAt' = IF turn + 1 = Transactions THEN "done" ELSE "clear"
  /\ UNCHANGED <<rdy, wire, hostVars, irq, handler, phy>>

(* mdio_access_interrupt_handler *)
MdioInterrupt ==
  /\ irq /\ handler = "mdio"
  /\ irq' = FALSE
  /\ rdy' = TRUE
  /\ UNCHANGED <<confVars, wire, hostVars, handler, phy>>

Conf == ConfClear \/ ConfWrite \/ ConfSleep

-----------------------------------------------------------------------------
(* The card. tlp_rx_fsm takes the write and raises mdio_access for a while *)
(* that the slow clock sees.                                               *)
HostReceive ==
  /\ wire # None /\ ~access
  /\ wire' = None
  /\ hostData' = wire
  /\ access' = TRUE
  /\ UNCHANGED <<confVars, rdy, hostFsm, done, intFsm, irq, handler, phy>>

(* host_int_fsm sees it in s7, and only there. *)
HostTake ==
  /\ access
  /\ access' = FALSE
  /\ hostFsm' = IF hostFsm = "s7" THEN "s8" ELSE hostFsm
  /\ done' = IF hostFsm = "s7" THEN FALSE ELSE done
  /\ UNCHANGED <<confVars, rdy, wire, hostData, intFsm, irq, handler, phy>>

HostStart ==
  /\ hostFsm = "s8"
  /\ hostFsm' = "s10"
  /\ phy' = Append(phy, hostData)
  /\ UNCHANGED <<confVars, rdy, wire, hostData, access, done, intFsm, irq, handler>>

(* A transaction takes thousands of cycles: the other machine has long     *)
(* seen the end of the last pulse.                                         *)
HostDone ==
  /\ hostFsm = "s10" /\ intFsm = "s0"
  /\ hostFsm' = "s7"
  /\ done' = TRUE
  /\ UNCHANGED <<confVars, rdy, wire, hostData, access, intFsm, irq, handler, phy>>

(* The pulse lasts for five cycles of the fast clock: it does not end      *)
(* unseen by a machine that waits for it.                                  *)
HostFall ==
  /\ hostFsm = "s7" /\ done /\ intFsm # "s0"
  /\ done' = FALSE
  /\ UNCHANGED <<confVars, rdy, wire, hostFsm, hostData, access, intFsm, irq,
                 handler, phy>>

(* interrupt_fsm: the interrupt is sent, and the end of the pulse awaited. *)
IntStep ==
  /\ \/ intFsm = "s0" /\ done /\ intFsm' = "s1" /\ UNCHANGED irq
     \/ intFsm = "s1" /\ ~irq /\ intFsm' = "s2" /\ irq' = TRUE
     \/ intFsm = "s2" /\ ~done /\ intFsm' = "s0" /\ UNCHANGED irq
  /\ UNCHANGED <<confVars, rdy, wire, hostFsm, hostData, access, done, handler,
                 phy>>

Host == HostReceive \/ HostTake \/ HostStart \/ HostDone \/ HostFall \/ IntStep

-----------------------------------------------------------------------------
(* The PHY gets every transaction, once, in order, and all of them before  *)
(* the configuration is said to be finished: none is overwritten in the    *)
(* card by the next one, which has no queue and ignores a write it cannot  *)
(* take.                                                                   *)
PhyExact ==
  /\ \A k \in DOMAIN phy : phy[k] = k - 1
  /\ confAt = "done" => Len(phy) = Transactions

(* While the driver sleeps, which it does without a limit after the first  *)
(* registers, its transaction is on its way, or under way, or its          *)
(* interrupt is to come: none is missed because the flag was cleared late  *)
(* or the card dropped the write.                                          *)
Awaited ==
  confAt = "sleep" /\ ~rdy =>
    \/ wire # None \/ access \/ hostFsm # "s7"
    \/ done /\ intFsm = "s0"
    \/ intFsm = "s1"
    \/ irq
=============================================================================

----------------------------- MODULE E82545Regs -----------------------------
(***************************************************************************)
(* The register file of the E1000 of bhyve/pci_e82545.c, with the EEPROM   *)
(* and the interrupt logic: every register that the host writes, and       *)
(* e82545_reset, which CTRL.RST runs.                                      *)
(*                                                                         *)
(* A value is a set of its parts: "low", the bits every register keeps,    *)
(* and "reserved", the bits that a mask strips; {} is also what a reset    *)
(* gives to a plain register.  Accesses that are not 4 bytes wide or not   *)
(* aligned change nothing.                                                 *)
(***************************************************************************)
EXTENDS E82545Intr, E82545Nvm, Sequences

CONSTANTS
  Regs,    (* the plain registers the host uses                            *)
  Bases,   (* the values of half a ring address                            *)
  Idx      (* the entries of the address filter the host uses              *)

(* Registers that are only stored: those that keep all bits, those that a  *)
(* driver reset leaves alone, and those that no reset clears.              *)
Unmasked   == {"FCAL", "TIPG", "MTA", "VFTA", "CTRL"}
DriverKept == {"FCAL", "FCAH", "FCT", "VET", "FCTTV", "TIPG", "AIT", "TIDV",
               "TADV", "MTA", "VFTA"}
NeverReset == {"CTRL", "RSRPD"}
Plain == Unmasked \cup DriverKept \cup NeverReset \cup
           {"LEDCTL", "PBA", "FCRTL", "FCRTH", "RDTR", "RXDCTL", "RADV",
            "RXCSUM", "TXCW", "TXDCTL"}

ASSUME RegsAssumption ==
  /\ Regs \subseteq Plain /\ "CTRL" \in Regs
  /\ Idx \subseteq 0 .. 15
  /\ 0 \in Bases

VARIABLES
  nvm,     (* the EEPROM                                                   *)
  plain,   (* the plain registers                                          *)
  ring,    (* per direction: on, ctl (RCTL or TCTL), BAL, BAH, and base,   *)
           (* the address esc_rdba or esc_tdba that the device uses        *)
  uni,     (* esc_uni: per entry, whether it is valid, and the address     *)
  mdi,     (* MDIC: the ready bit, and the data                            *)
  dead     (* an assertion failed                                          *)

regFileVars == <<plain, ring, uni, mdi>>
regVars == <<intr, resetting, nvm, plain, ring, uni, mdi, dead>>

InitRing == [on |-> FALSE, ctl |-> {}, BAL |-> 0, BAH |-> 0, base |-> <<0, 0>>]

RegInit ==
  /\ IntrInit
  /\ nvm = InitNvm
  /\ plain = [r \in Regs |-> {}]
  /\ ring = [d \in {"rx", "tx"} |-> InitRing]
  /\ uni = [i \in Idx |-> [valid |-> i = 0, addr |-> <<0, 0>>]]
  /\ mdi = [ready |-> FALSE, data |-> "zero"]
  /\ dead = FALSE

Alive == ~dead

(* A write to plain register r                                             *)
WritePlain(r, v) ==
  /\ Alive
  /\ r # "CTRL"
  /\ plain' = [plain EXCEPT ![r] = IF r \in Unmasked THEN v ELSE v \ {"reserved"}]
  /\ UNCHANGED <<intr, resetting, nvm, ring, uni, mdi, dead>>

(* e82545_rx_update_rdba, e82545_tx_update_tdba                            *)
update_base(q) == [q EXCEPT !.base = <<q.BAH, q.BAL>>]

(* RDBAL and TDBAL: "Apparently legal" on a ring in use                    *)
WriteBAL(d, v) ==
  /\ Alive
  /\ LET q == [ring[d] EXCEPT !.BAL = v]
     IN  ring' = [ring EXCEPT ![d] = IF q.on THEN update_base(q) ELSE q]
  /\ UNCHANGED <<intr, resetting, nvm, plain, uni, mdi, dead>>

(* RDBAH and TDBAH.  The first asserts that the receiver is off; the       *)
(* assertion of the second is commented out.                               *)
WriteBAH(d, v) ==
  /\ Alive
  /\ dead' = (d = "rx" /\ ring[d].on)
  /\ ring' = IF dead' THEN ring ELSE [ring EXCEPT ![d].BAH = v]
  /\ UNCHANGED <<intr, resetting, nvm, plain, uni, mdi>>

(* e82545_rx_ctl saves RCTL always, e82545_tx_ctl saves TCTL only when EN  *)
(* changes.                                                                *)
WriteRingCtl(d, v) ==
  /\ Alive
  /\ LET on == "EN" \in v
         q  == [ring[d] EXCEPT !.ctl = v \ {"reserved"}, !.on = on]
     IN  ring' = [ring EXCEPT ![d] =
           IF on = ring[d].on THEN IF d = "rx" THEN q ELSE ring[d]
           ELSE IF on THEN update_base(q)
           ELSE [q EXCEPT !.base = <<0, 0>>]]
  /\ UNCHANGED <<intr, resetting, nvm, plain, uni, mdi, dead>>

(* e82545_write_ra: there are 16 entries, and it asserts that the index is *)
(* less than 15.                                                           *)
WriteRA(i, high, v, valid) ==
  /\ Alive
  /\ dead' = (i >= 15)
  /\ uni' = IF dead' THEN uni
            ELSE IF high
              THEN [uni EXCEPT ![i] = [valid |-> valid, addr |-> <<v, @.addr[2]>>]]
              ELSE [uni EXCEPT ![i].addr = <<@[1], v>>]
  /\ UNCHANGED <<intr, resetting, nvm, plain, ring, mdi>>

(* e82545_read_ra has the same assertion.  Other reads change nothing, but *)
(* for ICR.                                                                *)
ReadRA(i) ==
  /\ Alive
  /\ dead' = (i >= 15)
  /\ UNCHANGED <<intr, resetting, nvm, plain, ring, uni, mdi>>

WriteEECD(v) ==
  /\ Alive
  /\ nvm' = write_eecd(nvm, v)
  /\ UNCHANGED <<intr, resetting, plain, ring, uni, mdi, dead>>

(* e82545_read_mdi: what the PHY says of each of its registers             *)
PhyValue(phy) ==
  IF phy \in {"PHY_STATUS", "PHY_AUTONEG_ADV", "PHY_1000T_STATUS", "PHY_ID1", "PHY_ID2"}
    THEN phy ELSE "zero"

(* MDIC: a command with the ready bit set or of no known operation is not  *)
(* answered.  A write to the PHY is answered and has no effect.            *)
WriteMDIC(op, ready, phy) ==
  /\ Alive
  /\ mdi' = [ready |-> ready \/ op \in {"READ", "WRITE"},
             data  |-> IF ~ready /\ op = "READ" THEN PhyValue(phy) ELSE "written"]
  /\ UNCHANGED <<intr, resetting, nvm, plain, ring, uni, dead>>

(* Mutant of reset_ring: the switch stays on.                              *)
reset_ring_on(d) == [ring[d] EXCEPT !.ctl = {}, !.base = IF d = "tx" THEN <<0, 0>> ELSE @]

(* e82545_reset by the driver keeps the address registers of a ring, and   *)
(* esc_rdba.                                                               *)
reset_ring(d) ==
  [ring[d] EXCEPT !.on = FALSE, !.ctl = {}, !.base = IF d = "tx" THEN <<0, 0>> ELSE @]

(* CTRL, with and without RST.  e82545_reset(sc, 1) runs before the host   *)
(* gets the answer.                                                        *)
WriteCTRL(v, rst) ==
  /\ Alive
  /\ IF rst
       THEN /\ Reset
            /\ nvm' = nvm_reset(nvm)
            /\ ring' = [d \in {"rx", "tx"} |-> reset_ring(d)]
            /\ uni' = [i \in Idx |-> [uni[i] EXCEPT !.valid = FALSE]]
            /\ plain' = [r \in Regs |->
                 IF r = "CTRL" THEN v
                 ELSE IF r \in DriverKept \cup NeverReset THEN plain[r]
                 ELSE {}]
       ELSE /\ plain' = [plain EXCEPT !["CTRL"] = v]
            /\ UNCHANGED <<intr, resetting, nvm, ring, uni>>
  /\ UNCHANGED <<mdi, dead>>

(* What e82545_intr_write and _intr_read do, and the events of the device  *)
IntrStep ==
  /\ Alive
  /\ \/ \E bits \in SUBSET Bits \ {{}} :
          Cause(bits) \/ WriteICR(bits) \/ WriteIMS(bits) \/ WriteIMC(bits)
     \/ \E on \in BOOLEAN : WriteITR(on)
     \/ ReadICR
     \/ Timer
  /\ UNCHANGED <<nvm, regFileVars, dead>>

Values    == SUBSET {"low", "reserved"}
CtlValues == SUBSET {"EN", "reserved"}

EepromStep == \E v \in SUBSET {"SK", "CS", "DI", "REQ"} : WriteEECD(v)

PlainStep ==
  \/ \E r \in Regs, v \in Values : WritePlain(r, v)
  \/ \E op \in {"READ", "WRITE", "NONE"}, ready \in BOOLEAN,
        phy \in {"PHY_STATUS", "PHY_LP_ABILITY"} : WriteMDIC(op, ready, phy)

RingStep ==
  \E d \in {"rx", "tx"} :
    \/ \E v \in Bases : WriteBAL(d, v) \/ WriteBAH(d, v)
    \/ \E v \in CtlValues : WriteRingCtl(d, v)

FilterStep ==
  \E i \in Idx :
    \/ \E high, valid \in BOOLEAN, v \in Bases : WriteRA(i, high, v, valid)
    \/ ReadRA(i)

RegNext ==
  \/ IntrStep \/ EepromStep \/ PlainStep \/ RingStep \/ FilterStep
  \/ \E v \in Values, rst \in BOOLEAN : WriteCTRL(v, rst)

RegSpec == RegInit /\ [][RegNext]_regVars

(* The timer runs.                                                         *)
RegFairSpec == RegSpec /\ WF_regVars(IntrStep /\ Timer)
-----------------------------------------------------------------------------
(* e82545_read_register of the address registers                           *)
read_base(d) == <<ring[d].BAH, ring[d].BAL>>

(* The ring that the device uses is the one the host reads back, and only  *)
(* while EN is set: a write to RDBAL or TDBAL of a running ring reaches    *)
(* esc_rdba or esc_tdba, and a driver reset, which keeps the addresses,    *)
(* leaves no ring running.  RDBAH is protected by an assertion.  TDBAH is  *)
(* not: written while the ring runs, it counts from the next update on.    *)
RingsCurrent ==
  \A d \in {"rx", "tx"} :
    /\ ring[d].on <=> "EN" \in ring[d].ctl
    /\ ring[d].on => ring[d].base[2] = read_base(d)[2]
    /\ ring["rx"].on => ring["rx"].base = read_base("rx")

(* What the host sees of the shift registers: the pins, and the bits of a  *)
(* frame that they hold                                                    *)
Inputs(n) == n.pins \ {"DO", "GNT"}
Output(n) == IF "DO" \in n.pins THEN 1 ELSE 0
FrameOf(n) ==
  CASE n.mode = "OPADDR"  -> BitsOf(n.opaddr, OPADDR_BITS - n.bits)
    [] n.mode = "DATAOUT" -> BitsOf(n.opaddr, OPADDR_BITS) \o BitsOf(0, DataBits - n.bits)
    [] n.mode = "DATAIN"  -> BitsOf(n.opaddr, OPADDR_BITS) \o BitsOf(n.data, DataBits - n.bits)

Rom == INSTANCE Eeprom WITH
  Sum <- NVM_SUM, pins <- Inputs(nvm), frame <- FrameOf(nvm), mem <- nvm.mem, out <- Output(nvm)

(* The bit-serial state machine is an EEPROM as the host sees one, also    *)
(* when the host stops clocking, drops CS or resets the device at any bit: *)
(* e82545_eecd_strobe answers a READ with the bits of the addressed word,  *)
(* stores the word of a WRITE, and e82545_init_eeprom leaves a memory with *)
(* a right checksum.                                                       *)
EepromSpec == Rom!EepromSpec
=============================================================================

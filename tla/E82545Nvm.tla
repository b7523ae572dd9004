------------------------------ MODULE E82545Nvm ------------------------------
(***************************************************************************)
(* The EEPROM of the E1000 of bhyve/pci_e82545.c behind the register EECD: *)
(* shift registers, driven by the rising edges of SK.  The record n is     *)
(*   mode, bits, opaddr, data   nvm_mode, nvm_bits, nvm_opaddr, nvm_data   *)
(*   mem                        eeprom_data                                *)
(*   pins                       eeprom_control: SK, CS, DI, REQ, GNT, DO   *)
(***************************************************************************)
EXTENDS Binary

CONSTANTS
  AddrBits, DataBits, Size,  (* E82545_NVM_ADDR_BITS, _DATA_BITS, _EEPROM_SIZE *)
  Fixed,     (* the words e82545_init_eeprom writes, but the checksum      *)
  NVM_SUM    (* what the words add up to                                   *)

ASSUME NvmAssumption ==
  /\ AddrBits \in Nat \ {0} /\ DataBits \in Nat \ {0}
  /\ Size \in 2 .. Pow2(AddrBits)
  /\ DOMAIN Fixed \subseteq 0 .. Size - 2
  /\ \A a \in DOMAIN Fixed : Fixed[a] \in 0 .. Pow2(DataBits) - 1
  /\ NVM_SUM \in 0 .. Pow2(DataBits) - 1

OPADDR_BITS == 3 + AddrBits
OPCODE_READ  == 6
OPCODE_WRITE == 5

(* Mutant of init_eeprom: the checksum counts its own old value.           *)
init_eeprom_all(mem) ==
  LET m == [a \in DOMAIN mem |-> IF a \in DOMAIN Fixed THEN Fixed[a] ELSE mem[a]]
  IN  [m EXCEPT ![Size - 1] = (NVM_SUM - SumOf(m, Size)) % Pow2(DataBits)]

(* e82545_init_eeprom.  The checksum is the last word.                     *)
init_eeprom(mem) ==
  LET m == [a \in DOMAIN mem |-> IF a \in DOMAIN Fixed THEN Fixed[a] ELSE mem[a]]
  IN  [m EXCEPT ![Size - 1] = (NVM_SUM - SumOf(m, Size - 1)) % Pow2(DataBits)]

(* Back to opcode mode                                                     *)
opcode_mode(n) == [n EXCEPT !.opaddr = 0, !.mode = "OPADDR", !.bits = OPADDR_BITS]

(* e82545_reset                                                            *)
nvm_reset(n) == [opcode_mode(n) EXCEPT !.pins = {}, !.mem = init_eeprom(n.mem)]

InitNvm ==
  nvm_reset([mode |-> "OPADDR", bits |-> 0, opaddr |-> 0, data |-> 0,
             mem |-> [a \in 0 .. Size - 1 |-> 0], pins |-> {}])

Di(n)     == IF "DI" \in n.pins THEN 1 ELSE 0
Opcode(n) == n.opaddr \div Pow2(AddrBits)
Address(n) == n.opaddr % Pow2(AddrBits)

(* nvm_mode DATAOUT: a bit of the word goes to DO.                         *)
shift_out(n) ==
  LET high == n.data \div Pow2(DataBits - 1)
      q == [n EXCEPT !.pins = IF high = 1 THEN @ \cup {"DO"} ELSE @ \ {"DO"},
                     !.data = (2 * @) % Pow2(DataBits)]
  IN  IF n.bits = 0 THEN opcode_mode(q) ELSE q

(* nvm_mode DATAIN: a bit of the word comes from DI.                       *)
shift_in(n) ==
  LET word == (2 * n.data + Di(n)) % Pow2(DataBits)
      q == [n EXCEPT !.data = word]
  IN  IF n.bits > 0 THEN q
      ELSE IF Address(n) < Size THEN opcode_mode([q EXCEPT !.mem[Address(n)] = word])
      ELSE opcode_mode(q)

(* nvm_mode OPADDR: a bit of the operation or of the address comes in.     *)
shift_opaddr(n) ==
  LET q == [n EXCEPT !.opaddr = 2 * @ + Di(n)]
      a == Address(q)
  IN  IF n.bits > 0 THEN q
      ELSE CASE Opcode(q) = OPCODE_READ ->
                  [q EXCEPT !.mode = "DATAOUT", !.bits = DataBits,
                            !.data = IF a < Size THEN q.mem[a] ELSE 0]
             [] Opcode(q) = OPCODE_WRITE ->
                  [q EXCEPT !.mode = "DATAIN", !.bits = DataBits, !.data = 0]
             [] OTHER -> opcode_mode(q)

(* e82545_eecd_strobe                                                      *)
eecd_strobe(n) ==
  LET q == [n EXCEPT !.bits = @ - 1]
  IN  CASE n.mode = "DATAOUT" -> shift_out(q)
        [] n.mode = "DATAIN"  -> shift_in(q)
        [] n.mode = "OPADDR"  -> shift_opaddr(q)

(* A write to EECD of the pins v.  A rising edge of SK counts while the    *)
(* chip is selected; dropping CS does not end what was begun.              *)
write_eecd(n, v) ==
  LET q == [n EXCEPT !.pins = (@ \cap {"DO"}) \cup v \cup IF "REQ" \in v THEN {"GNT"} ELSE {}]
  IN  IF "SK" \in v \ n.pins /\ "CS" \in v THEN eecd_strobe(q) ELSE q
=============================================================================

------------------------------- MODULE Eeprom -------------------------------
(***************************************************************************)
(* A Microwire EEPROM as the host sees it: words, and a frame of bits.  A  *)
(* frame is three bits of operation, the address, and a word if the        *)
(* operation is READ or WRITE.  A READ answers with the bits of the        *)
(* addressed word, the highest first; a WRITE stores the word when its     *)
(* last bit is in.  A restart drops the frame and formats the memory.      *)
(***************************************************************************)
EXTENDS Binary

CONSTANTS
  AddrBits,  (* E82545_NVM_ADDR_BITS                                       *)
  DataBits,  (* E82545_NVM_DATA_BITS                                       *)
  Size,      (* E82545_NVM_EEPROM_SIZE                                     *)
  Fixed,     (* the words that formatting writes: addresses and ids        *)
  Sum        (* NVM_SUM: what all the words add up to after it             *)

VARIABLES
  pins,      (* the inputs that are high                                   *)
  frame,     (* the bits of the frame so far; 0 for what a READ ignores    *)
  mem,       (* the words                                                  *)
  out        (* the data output                                            *)

eepromVars == <<pins, frame, mem, out>>

Words     == 0 .. Pow2(DataBits) - 1
OpAddrLen == 3 + AddrBits

Op(f)   == Value(SubSeq(f, 1, 3))
Addr(f) == Value(SubSeq(f, 4, OpAddrLen))
Data(f) == Value(SubSeq(f, OpAddrLen + 1, Len(f)))

Reading(f)  == Len(f) >= OpAddrLen /\ Op(f) = 6
Writing(f)  == Len(f) >= OpAddrLen /\ Op(f) = 5
Complete(f) == Len(f) = OpAddrLen + IF Reading(f) \/ Writing(f) THEN DataBits ELSE 0

(* The word at an address; there is none beyond Size.                      *)
Word(a) == IF a < Size THEN mem[a] ELSE 0

Formatted(m) ==
  /\ \A a \in DOMAIN Fixed : m[a] = Fixed[a]
  /\ SumOf(m, Size) % Pow2(DataBits) = Sum

EepromInit ==
  /\ pins = {}
  /\ frame = <<>>
  /\ mem \in [0 .. Size - 1 -> Words]
  /\ Formatted(mem)
  /\ out = 0

(* The host sets the inputs to v.  A rising edge of SK with CS clocks the  *)
(* bit DI in; anything else leaves the frame as it is.                     *)
Clock(v) ==
  LET b == IF "DI" \in v THEN 1 ELSE 0
      f == Append(frame, IF Reading(frame) THEN 0 ELSE b)
  IN  /\ "SK" \in v \ pins
      /\ "CS" \in v
      /\ pins' = v
      /\ frame' = IF Complete(f) THEN <<>> ELSE f
      /\ mem' = IF Complete(f) /\ Writing(f) /\ Addr(f) < Size
                  THEN [mem EXCEPT ![Addr(f)] = Data(f)]
                  ELSE mem
      /\ out' = IF Reading(frame)
                  THEN BitsOf(Word(Addr(frame)), DataBits)[Len(f) - OpAddrLen]
                  ELSE out

NoClock(v) ==
  /\ ~("SK" \in v \ pins /\ "CS" \in v)
  /\ pins' = v
  /\ UNCHANGED <<frame, mem, out>>

(* The words that are not fixed stay, but the last one, the checksum.      *)
Restart ==
  /\ pins' = {}
  /\ frame' = <<>>
  /\ mem' \in [0 .. Size - 1 -> Words]
  /\ \A a \in 0 .. Size - 2 : a \in DOMAIN Fixed \/ mem'[a] = mem[a]
  /\ Formatted(mem')
  /\ out' = 0

EepromNext == Restart \/ \E v \in SUBSET {"SK", "CS", "DI", "REQ"} : Clock(v) \/ NoClock(v)

EepromSpec == EepromInit /\ [][EepromNext]_eepromVars
=============================================================================

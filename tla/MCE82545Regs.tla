---------------------------- MODULE MCE82545Regs ----------------------------
(* Small instances of E82545Regs for TLC.  The interrupt logic, the EEPROM *)
(* and the register file share only e82545_reset.  The host of a behaviour *)
(* chooses one of them and resets the device meanwhile: this gives the sum *)
(* of their states and not the product.  In the part "packet" it sends a   *)
(* packet for each context descriptor, which a reset does not change.      *)
EXTENDS E82545Regs, E82545Packet

VARIABLE part

MCBases == {0, 1}
MCIdx   == {0, 15}
MCRegs  == {"CTRL", "FCAL", "FCAH", "PBA", "RSRPD"}

(* Three words of two bits: one that is fixed, one that is free, and the   *)
(* checksum.  The fourth address has no word.                              *)
MCFixed == [a \in {0} |-> 1]

(* The values of the pins that tell edges, selection and data apart        *)
Pins == {v \cup {"CS", "REQ"} : v \in SUBSET {"SK", "DI"}} \cup {{}, {"SK"}}

(* The headers of a segmented TCP packet over IPv4, with 5 bytes of data,  *)
(* in segments of 2 or in one; a context for a packet that is sent whole;  *)
(* and UDP over IPv6.  A byte has 16 values here.                          *)
TcpV4 == [ipcss |-> 14, ipcso |-> 24, ipcse |-> 33, tucss |-> 34, tucso |-> 50, tucse |-> 0,
          hdr_len |-> 54, mss |-> 2, paylen |-> 5, ip |-> TRUE, tcp |-> TRUE]
UdpV6 == [TcpV4 EXCEPT !.tucss = 54, !.tucso = 60, !.hdr_len = 62, !.mss = 3,
                       !.ip = FALSE, !.tcp = FALSE]
MCContexts == {TcpV4, [TcpV4 EXCEPT !.mss = 5], [TcpV4 EXCEPT !.tucse = 56], UdpV6}

(* The bits of the descriptors                                             *)
DataBit(tse, ixsm, txsm, vle) ==
  [legacy |-> FALSE, tse |-> tse, ixsm |-> ixsm, txsm |-> txsm, vle |-> vle, ifcs |-> TRUE, special |-> 35]
LegacyBit(ic, ifcs, vle) ==
  [legacy |-> TRUE, ic |-> ic, css |-> 14, cso |-> 24, vle |-> vle, ifcs |-> ifcs, special |-> 35]
Descriptors ==
  {DataBit(tse, ixsm, txsm, vle) : tse, ixsm, txsm, vle \in BOOLEAN}
    \cup {LegacyBit(ic, ifcs, vle) : ic, ifcs, vle \in BOOLEAN}

(* A packet in up to five buffers, some with an empty one at the end.      *)
Cut(data, S) ==
  LET at == SetToSortSeq(S \cup {0, Len(data)}, <)
  IN  [i \in 1 .. (Len(at) - 1) |-> SubSeq(data, at[i] + 1, at[i + 1])]
        \o IF 5 \in S THEN <<<<>>>> ELSE <<>>
Cuts == {S \in SUBSET {5, 13, 53, 55, 58} : Cardinality(S) <= 4}

(* Bytes with which the sums carry; the flags of TCP have FIN and PUSH.    *)
Pattern(n, k) == [i \in 1 .. n |-> IF i = 48 THEN 9 ELSE (7 * i + i \div k) % 16]
MCPackets ==
  {d @@ [bufs |-> Cut(Pattern(n, k), S)] : d \in Descriptors, n \in {59, 67}, k \in {3, 5}, S \in Cuts}

Parts == {"interrupts", "eeprom", "plain", "rings", "filters", "packet"}

MCInit ==
  /\ RegInit /\ PacketInit
  /\ part \in Parts
  /\ part # "packet" => txctx = TcpV4

MCNext ==
  \/ /\ \/ part = "interrupts" /\ IntrStep
        \/ part = "eeprom" /\ \E v \in Pins : WriteEECD(v)
        \/ part = "plain" /\ PlainStep
        \/ part = "rings" /\ RingStep
        \/ part = "filters" /\ FilterStep
        \/ /\ part # "packet"
           /\ \E v \in IF part = "plain" THEN Values ELSE {{}}, rst \in BOOLEAN : WriteCTRL(v, rst)
     /\ UNCHANGED <<part, packetVars>>
  \/ /\ part = "packet"
     /\ \/ \E c \in Contexts : SetContext(c)
        \/ packet = <<>> /\ \E p \in Packets : SendPacket(p)
     /\ UNCHANGED <<part, regVars>>

MCSpec == MCInit /\ [][MCNext]_<<regVars, packetVars, part>> /\ WF_regVars(IntrStep /\ Timer)
=============================================================================

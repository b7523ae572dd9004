------------------------------ MODULE E82545Rx ------------------------------
(***************************************************************************)
(* The receive side of the E1000 of bhyve/pci_e82545.c, with its           *)
(* interrupts.                                                             *)
(*                                                                         *)
(* e82545_tap_callback (here: Poll, then a Receive for each turn of its    *)
(* loop, then Finish) is called with interrupts off, by dm_loop in each    *)
(* iteration and by the thread e1000_fifo_work when the FIFO has raised an *)
(* interrupt.  A poll that finds nothing changes nothing, so the semaphore *)
(* of that thread is left out: it may run whenever interrupts are on.      *)
(* The FIFO is hardware, which puts packets in while e82545_tap_callback   *)
(* takes others out.                                                       *)
(***************************************************************************)
EXTENDS Integers, Sequences, E82545Intr

CONSTANTS
  RxSize,     (* descriptors in the ring of the host: RDLEN / 16           *)
  Buf,        (* e82545_bufsz: bytes of a receive buffer                   *)
  MaxPktSz,   (* maxpktsz: the longest frame that RCTL.LPE lets in         *)
  MinLen,     (* ETHER_MIN_LEN - ETHER_CRC_LEN                             *)
  CrcLen,     (* ETHER_CRC_LEN, or 0 when RCTL.SECRC strips it             *)
  Lens,       (* lengths of the packets that arrive, without their CRC     *)
  RDMTS,      (* RCTL.RDMTS: the low mark is RxSize / 2^(RDMTS + 1)        *)
  MaxFifo     (* bound: packets in the FIFO                                *)

ASSUME RxSizeAssumption == RxSize \in Nat \ {0} /\ RxSize % 8 = 0
ASSUME FifoAssumption   == MaxFifo \in Nat
ASSUME LenAssumption ==
  /\ Buf \in Nat \ {0} /\ {MaxPktSz, MinLen, CrcLen} \subseteq Nat
  /\ MaxPktSz \in 1 .. (Buf * (RxSize - 1))
  /\ \A len \in Lens \cup {MinLen} : len \in Nat \ {0} /\ len + CrcLen <= MaxPktSz
ASSUME RDMTSAssumption  == RDMTS \in 0 .. 2
ASSUME RxBitsAssumption == {"RXT0", "RXDMT0"} \subseteq Bits

Index == 0 .. (RxSize - 1)
Ids   == 3

(* The descriptors for a frame of so many bytes: maxpktdesc, and n         *)
Descs(bytes) == (bytes + Buf - 1) \div Buf
MaxPktDesc   == Descs(MaxPktSz)

(* The packet in its buffers: padded, and with its CRC                     *)
Frame(len) == (IF len < MinLen THEN MinLen ELSE len) + CrcLen

(* known: the packet passes the VLAN filter.  Those that do are numbered   *)
(* modulo Ids.                                                             *)
Packet == [len : Lens, known : BOOLEAN, id : 0 .. (Ids - 1)]
Desc   == [dd : BOOLEAN, eop : BOOLEAN, length : 0 .. Buf, id : 0 .. (Ids - 1)]

VARIABLES
  pc,                     (* "idle", "poll" after a request, or "rx"       *)
  enabled,                (* esc_rx_enabled, and no loopback               *)
  size,                   (* esc_RDLEN / 16                                *)
  RDH, RDT,
  ring,                   (* the descriptors, in the memory of the host    *)
  fifo,                   (* packets that have arrived                     *)
  head, left, lim, cause, (* e82545_tap_callback; gone when it returns     *)
  clean,                  (* the descriptor the host looks at next         *)
  arrived, taken          (* history: number of the next packet to arrive, *)
                          (* and of the next one for the host              *)

dev    == <<enabled, size, RDH, RDT>>
locals == <<head, left, lim, cause>>
host   == <<clean, taken>>
rxVars == <<pc, dev, ring, fifo, locals, host, arrived, intrVars>>

Blank == [dd |-> FALSE, eop |-> FALSE, length |-> 0, id |-> 0]

RxInit ==
  /\ IntrInit
  /\ pc = "idle"
  /\ enabled = FALSE /\ size = 0 /\ RDH = 0 /\ RDT = 0
  /\ ring = [i \in Index |-> Blank]
  /\ fifo = <<>>
  /\ head = 0 /\ left = 0 /\ lim = 0 /\ cause = {}
  /\ clean = 0 /\ arrived = 0 /\ taken = 0

Plus(i, n)   == (i + n) % RxSize
Ahead(i, j)  == (j - i) % RxSize
Window(i, j) == {k \in Index : Ahead(i, k) < Ahead(i, j)}

(* The hardware FIFO                                                       *)
Arrive(len, known) ==
  /\ Len(fifo) < MaxFifo
  /\ fifo' = Append(fifo, [len |-> len, known |-> known, id |-> arrived])
  /\ arrived' = IF known THEN (arrived + 1) % Ids ELSE arrived
  /\ UNCHANGED <<pc, dev, ring, locals, host, intrVars>>

Request == pc = "idle" /\ pc' = "poll"

(* RDLEN, and the zeroes the host writes to RDH and RDT before it starts   *)
WriteRDLEN ==
  /\ Request
  /\ ~enabled
  /\ size' = RxSize /\ RDH' = 0 /\ RDT' = 0
  /\ ring' = [i \in Index |-> Blank]
  /\ clean' = 0
  /\ taken' = IF \E i \in DOMAIN fifo : fifo[i].known
                THEN LET i == CHOOSE i \in DOMAIN fifo :
                                /\ fifo[i].known
                                /\ \A j \in 1 .. (i - 1) : ~fifo[j].known
                     IN  fifo[i].id
                ELSE arrived
  /\ UNCHANGED <<enabled, fifo, locals, arrived, intrVars>>

(* RDT: the host gives k descriptors, which it has cleaned, to the device. *)
WriteRDT(k) ==
  /\ Request
  /\ size = RxSize
  /\ k <= Ahead(Plus(RDT, 1), clean)
  /\ RDT' = Plus(RDT, k)
  /\ UNCHANGED <<enabled, size, RDH, ring, fifo, locals, host, arrived, intrVars>>

(* RCTL.EN.  esc_rx_active is only set inside e82545_tap_callback, so that *)
(* e82545_rx_disable never waits.                                          *)
WriteRCTL(on) ==
  /\ Request
  /\ on => size = RxSize
  /\ enabled' = on
  /\ UNCHANGED <<size, RDH, RDT, ring, fifo, locals, host, arrived, intrVars>>

(* CTRL.RST                                                                *)
ResetDevice ==
  /\ Request
  /\ Reset
  /\ enabled' = FALSE /\ size' = 0 /\ RDH' = 0 /\ RDT' = 0
  /\ UNCHANGED <<ring, fifo, locals, host, arrived>>

(* IMS stays empty, as in E82545Tx.                                        *)
AccessIntr ==
  /\ Request
  /\ ReadICR
  /\ UNCHANGED <<dev, ring, fifo, locals, host, arrived>>

NoRequest ==
  /\ Request
  /\ UNCHANGED <<dev, ring, fifo, locals, host, arrived, intrVars>>

(* The host takes a descriptor with DD, at any time.                       *)
Consume ==
  /\ size = RxSize
  /\ ring[clean].dd
  /\ ring' = [ring EXCEPT ![clean] = Blank]
  /\ clean' = Plus(clean, 1)
  /\ taken' = IF ring[clean].eop THEN (taken + 1) % Ids ELSE taken
  /\ UNCHANGED <<pc, dev, fifo, locals, arrived, intrVars>>

Left(h) == (size + RDT - h) % size

(* Mutant of CanReceive: one descriptor more than the packet takes.        *)
CanReceiveMore == enabled /\ Left(RDH) > MaxPktDesc

CanReceive == enabled /\ Left(RDH) >= MaxPktDesc

(* e82545_tap_callback, with nothing to do                                 *)
PollIdle ==
  /\ pc = "poll"
  /\ ~CanReceive
  /\ pc' = "idle"
  /\ UNCHANGED <<dev, ring, fifo, locals, host, arrived, intrVars>>

(* e82545_tap_callback up to its loop.  At "idle" the caller is the thread *)
(* of the FIFO, which may also run before the poll of dm_loop.             *)
Poll ==
  /\ pc \in {"idle", "poll"}
  /\ CanReceive
  /\ head' = RDH
  /\ left' = Left(RDH)
  /\ lim' = size \div 4
  /\ cause' = {}
  /\ pc' = "rx"
  /\ UNCHANGED <<dev, ring, fifo, host, arrived, intrVars>>

(* Mutant of Looping: room for one descriptor is enough.                   *)
LoopingOne == lim > 0 /\ left > 0 /\ fifo # <<>>

(* The loop takes another packet: the longest one would fit.               *)
Looping == lim > 0 /\ left >= MaxPktDesc /\ fifo # <<>>

NextHead(n) == (head + n) % RxSize

(* Mutant of Filled: a descriptor that is not the last has the rest too.   *)
FilledRest(p, k) ==
  LET n == Descs(Frame(p.len))
  IN  [dd     |-> TRUE,
       eop    |-> k = n - 1,
       length |-> Frame(p.len) % Buf,
       id     |-> p.id]

(* Descriptor k of those that packet p takes.  The last length is 0 when   *)
(* the frame ends with its buffer.                                         *)
Filled(p, k) ==
  LET n == Descs(Frame(p.len))
  IN  [dd     |-> TRUE,
       eop    |-> k = n - 1,
       length |-> IF k < n - 1 THEN Buf ELSE Frame(p.len) % Buf,
       id     |-> p.id]

(* A turn of the loop, with a packet that passes the VLAN filter           *)
Receive ==
  /\ pc = "rx"
  /\ Looping
  /\ LET p == Head(fifo)
         n == Descs(Frame(p.len))
     IN  /\ p.known
         /\ ring' = [i \in Index |-> IF Ahead(head, i) < n THEN Filled(p, Ahead(head, i)) ELSE ring[i]]
         /\ head' = NextHead(n)
         /\ left' = left - n
         /\ lim' = lim - n
  /\ cause' = cause \cup {"RXT0"}
  /\ fifo' = Tail(fifo)
  /\ UNCHANGED <<pc, dev, host, arrived, intrVars>>

(* ... and with one that does not                                          *)
Filter ==
  /\ pc = "rx"
  /\ Looping
  /\ ~Head(fifo).known
  /\ fifo' = Tail(fifo)
  /\ UNCHANGED <<pc, dev, ring, locals, host, arrived, intrVars>>

LowMark == RxSize \div (2 * (2 ^ RDMTS))

(* Mutant of Finish: RDH is left where it was.                             *)
FinishKeepsRDH ==
  /\ pc = "rx"
  /\ ~Looping
  /\ Cause(cause \cup (IF Left(head) < LowMark THEN {"RXDMT0"} ELSE {}))
  /\ head' = 0 /\ left' = 0 /\ lim' = 0 /\ cause' = {}
  /\ pc' = "idle"
  /\ UNCHANGED <<dev, ring, fifo, host, arrived>>

(* The end of e82545_tap_callback                                          *)
Finish ==
  /\ pc = "rx"
  /\ ~Looping
  /\ RDH' = head
  /\ Cause(cause \cup (IF Left(head) < LowMark THEN {"RXDMT0"} ELSE {}))
  /\ head' = 0 /\ left' = 0 /\ lim' = 0 /\ cause' = {}
  /\ pc' = "idle"
  /\ UNCHANGED <<enabled, size, RDT, ring, fifo, host, arrived>>

RxHost ==
  \/ WriteRDLEN \/ ResetDevice \/ AccessIntr \/ Consume
  \/ \E k \in 1 .. (RxSize - 1) : WriteRDT(k)
  \/ \E on \in BOOLEAN : WriteRCTL(on)

RxDevice == NoRequest \/ PollIdle \/ Poll \/ Receive \/ Filter \/ Finish

RxNext ==
  \/ \E len \in Lens, known \in BOOLEAN : Arrive(len, known)
  \/ RxHost \/ RxDevice

RxSpec == RxInit /\ [][RxNext]_rxVars
RxFairSpec == RxSpec /\ WF_rxVars(RxDevice)
-----------------------------------------------------------------------------
(* Types of the state.                                                     *)
RxTypeOK ==
  /\ IntrTypeOK
  /\ pc \in {"idle", "poll", "rx"}
  /\ enabled \in BOOLEAN /\ size \in {0, RxSize}
  /\ RDH \in Index /\ RDT \in Index
  /\ ring \in [Index -> Desc]
  /\ fifo \in Seq(Packet)
  /\ head \in Index /\ left \in Int /\ lim \in Int /\ cause \subseteq Bits
  /\ clean \in Index /\ arrived \in 0 .. (Ids - 1) /\ taken \in 0 .. (Ids - 1)

(* How far the device has filled the ring (e82545_tap_callback stores its  *)
(* head at the end), the descriptors the host has not taken yet, and the   *)
(* number of the packet that comes after them.                             *)
Cur       == IF pc = "rx" THEN head ELSE RDH
Delivered == Window(clean, Cur)
NextIn    == IF fifo = <<>> THEN arrived ELSE Head(fifo).id

(* Whoever polls, and whatever the host gives, takes and resets between    *)
(* the polls: the descriptors with DD are exactly those that the host has  *)
(* not taken yet, up to the head, and the head does not pass RDT.          *)
RingAgrees ==
  size = RxSize =>
    /\ \A i \in Index : ring[i].dd <=> i \in Delivered
    /\ Ahead(clean, Cur) <= Ahead(clean, RDT)

(* e82545_tap_callback counts in left what is between its head and RDT.    *)
LoopAgrees ==
  /\ enabled \/ pc = "rx" => size = RxSize
  /\ pc = "rx" => left = Left(head) /\ left <= Left(RDH) /\ lim <= RxSize \div 4

(* The number that follows that of a packet, or of a descriptor.  A packet *)
(* that the filter drops leaves its number to the next one.                *)
After(x, done) == IF done THEN (x.id + 1) % Ids ELSE x.id

FifoNumbered ==
  /\ \A i \in 1 .. (Len(fifo) - 1) : fifo[i + 1].id = After(fifo[i], fifo[i].known)
  /\ fifo # <<>> => arrived = After(fifo[Len(fifo)], fifo[Len(fifo)].known)

(* From the descriptor that the host looks at next to the one before the   *)
(* head there are whole packets, in their order, and the FIFO follows.     *)
End == ring[Plus(Cur, RxSize - 1)]
RowNumbered ==
  size = RxSize =>
    /\ clean = Cur => taken = NextIn
    /\ clean # Cur => ring[clean].id = taken /\ End.eop /\ NextIn = After(End, End.eop)
    /\ \A i \in Delivered : Plus(i, 1) # Cur => ring[Plus(i, 1)].id = After(ring[i], ring[i].eop)

(* The state that e82545_tap_callback is written for: its types, the heads *)
(* in step with DD, and whole packets in the ring that go on in the FIFO.  *)
RxInv == RxTypeOK /\ RingAgrees /\ LoopAgrees /\ FifoNumbered /\ RowNumbered

(* e82545_tap_callback only writes descriptors between RDH and RDT, which  *)
(* the host has given it, also when a packet takes several of them.        *)
WritesOwnOnly ==
  [][(pc = "rx") => \A i \in Index : ring'[i] # ring[i] /\ ring'[i].dd => i \in Window(RDH, RDT)]_rxVars

(* The host gets the packets that pass the filter once, in the order of    *)
(* their arrival, each in consecutive descriptors.                         *)
DeliveredInOrder ==
  [][clean' # clean /\ pc' = pc => ring[clean].id = taken]_rxVars

(* The lengths of the n descriptors from i on                              *)
LengthSum(descs, i, n) ==
  LET sum[k \in 0 .. n] == IF k = 0 THEN 0 ELSE sum[k - 1] + descs[Plus(i, k - 1)].length
  IN  sum[n]

(* The lengths in the descriptors of a packet add up to its frame, padded  *)
(* and with its CRC, when the frame does not end with a buffer.  For any   *)
(* frame the head passes the descriptors that were written, and no others, *)
(* the last of them and no other has EOP, and the frame reaches into it,   *)
(* also over the end of the ring (n, head and len % bufsz).                *)
LengthsAddUp ==
  [][pc = "rx" /\ ring' # ring /\ fifo' # fifo =>
       LET n     == Ahead(head, head')
           last  == Plus(head, n - 1)
           frame == Frame(Head(fifo).len)
       IN  /\ {i \in Index : ring'[i] # ring[i]} = Window(head, head')
           /\ \A i \in Window(head, head') : ring'[i].eop <=> i = last
           /\ frame % Buf # 0 => LengthSum(ring', head, n) = frame
           /\ frame \in (Buf * (n - 1) + 1) .. (Buf * n)]_rxVars

(* "Length of data DMAed into data buffer" (e1000_rx_desc), for any frame: *)
(* the lengths in its descriptors add up to it.                            *)
LengthsReported ==
  [][pc = "rx" /\ ring' # ring /\ fifo' # fifo =>
       LengthSum(ring', head, Ahead(head, head')) = Frame(Head(fifo).len)]_rxVars

(* dm_loop polls: a full FIFO does not stay full while the host leaves the *)
(* receiver enabled with room for a packet.                                *)
FifoDrains ==
  pc = "idle" /\ Len(fifo) = MaxFifo /\ enabled /\ Left(RDH) >= MaxPktDesc
    ~> (Len(fifo) < MaxFifo \/ ~enabled)
=============================================================================

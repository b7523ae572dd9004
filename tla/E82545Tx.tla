------------------------------ MODULE E82545Tx ------------------------------
(***************************************************************************)
(* The transmit side of the E1000 of bhyve/pci_e82545.c, with its          *)
(* interrupts.                                                             *)
(*                                                                         *)
(* An iteration of dm_loop (src/device-model.c:191-224) handles a register *)
(* access of the host, if there is one (pc "idle"), and calls e1000_poll   *)
(* (pc "poll").  e82545_tx_run works with interrupts off (pc "tx"): head,  *)
(* lim and tdwb are its local variables, and an action is a turn of its    *)
(* loop.  At pc "spin" e82545_tx_disable waits for esc_tx_active to be     *)
(* cleared: pthread_cond_wait (bhyve/pthread.c) returns at once, and       *)
(* nothing else runs.                                                      *)
(***************************************************************************)
EXTENDS Integers, Sequences, FiniteSets, E82545Intr

CONSTANTS
  TxSize,   (* descriptors in the ring of the host: TDLEN / 16             *)
  MaxBatch, (* bound: descriptors the host adds with one write to TDT      *)
  MaxOut    (* bound: descriptors the host has not seen completed          *)

ASSUME TxSizeAssumption == TxSize \in Nat \ {0} /\ TxSize % 8 = 0
ASSUME BatchAssumption  == MaxBatch \in Nat /\ MaxOut \in Nat /\ MaxOut < TxSize
ASSUME TxBitsAssumption == {"TXDW", "TXQE"} \subseteq Bits

Index == 0 .. (TxSize - 1)

(* A packet is data descriptors, the last one with EOP ("last").  A        *)
(* context descriptor ("ctx") stands between packets.  rs: the host wants  *)
(* to be told; dd: it has been told.  Packets are numbered modulo Ids.     *)
Ids  == 3
Desc == [type : {"ctx", "data", "last"}, rs : BOOLEAN, dd : BOOLEAN, id : 0 .. (Ids - 1)]

VARIABLES
  pc,
  enabled,         (* esc_tx_enabled                                       *)
  active,          (* esc_tx_active                                        *)
  size,            (* esc_TDLEN / 16                                       *)
  TDH, TDHr, TDT,
  ring,            (* the descriptors, in the memory of the host           *)
  head, lim, tdwb, (* e82545_tx_run; they are gone when it returns         *)
  sent,            (* history: the number of the next packet on the wire   *)
  sawEmpty         (* the host has read TDH, and found it equal to TDT     *)

dev    == <<enabled, active, size, TDH, TDHr, TDT>>
locals == <<head, lim, tdwb>>
txVars == <<pc, dev, ring, locals, sent, sawEmpty, intrVars>>

Blank == [type |-> "last", rs |-> FALSE, dd |-> FALSE, id |-> 0]

TxInit ==
  /\ IntrInit
  /\ pc = "idle"
  /\ enabled = FALSE /\ active = FALSE
  /\ size = 0 /\ TDH = 0 /\ TDHr = 0 /\ TDT = 0
  /\ ring = [i \in Index |-> Blank]
  /\ head = 0 /\ lim = 0 /\ tdwb = FALSE
  /\ sent = 0
  /\ sawEmpty = FALSE

Plus(i, n) == (i + n) % TxSize
Ahead(i, j) == (j - i) % TxSize
Window(i, j) == {k \in Index : Ahead(i, k) < Ahead(i, j)}

Outstanding == Window(TDH, TDT)
Last == ring[Plus(TDT, TxSize - 1)]

(* The last descriptor the host has added leaves a packet incomplete.      *)
Partial == TDH # TDT /\ Last.type = "data"

(* The number of the packet that the next descriptor belongs to            *)
NextId == IF TDH = TDT THEN sent
          ELSE IF Last.type = "last" THEN (Last.id + 1) % Ids ELSE Last.id

(* What the host adds: types of descriptors, with RS where a packet ends   *)
(* or not.  No context stands inside a packet.                             *)
Batches ==
  {b \in UNION {[1 .. n -> {"ctx", "data", "last"} \X BOOLEAN] : n \in 1 .. MaxBatch} :
     \A i \in DOMAIN b :
       /\ b[i][2] => b[i][1] = "last"
       /\ i > 1 /\ b[i - 1][1] = "data" => b[i][1] # "ctx"}

Posted(b) ==
  [i \in DOMAIN b |->
     [type |-> b[i][1], rs |-> b[i][2], dd |-> FALSE,
      id |-> (NextId + Cardinality({j \in 1 .. (i - 1) : b[j][1] = "last"})) % Ids]]

(* A register access: dm_loop calls e1000_poll next.                       *)
Request == pc = "idle" /\ pc' = "poll"

(* TDT: the host has added descriptors, and cleaned the completed ones.    *)
WriteTDT(b) ==
  /\ Request
  /\ enabled
  /\ Ahead(TDH, TDT) + Len(b) <= MaxOut
  /\ Partial => b[1][1] # "ctx"
  /\ ring' = [i \in Index |->
       IF Ahead(TDT, i) < Len(b) THEN Posted(b)[Ahead(TDT, i) + 1]
       ELSE IF i \in Outstanding THEN ring[i] ELSE Blank]
  /\ TDT' = Plus(TDT, Len(b))
  /\ sawEmpty' = FALSE
  /\ UNCHANGED <<enabled, active, size, TDH, TDHr, locals, sent, intrVars>>

(* TDLEN, and the zeroes the host writes to TDH and TDT before it starts.  *)
WriteTDLEN ==
  /\ Request
  /\ ~enabled
  /\ size' = TxSize
  /\ TDH' = 0 /\ TDHr' = 0 /\ TDT' = 0
  /\ UNCHANGED <<enabled, active, ring, locals, sent, sawEmpty, intrVars>>

ReadTDH ==
  /\ Request
  /\ sawEmpty' = (TDH = TDT)
  /\ UNCHANGED <<dev, ring, locals, sent, intrVars>>

(* TCTL.EN                                                                 *)
Enable ==
  /\ Request
  /\ ~enabled
  /\ size = TxSize
  /\ enabled' = TRUE
  /\ UNCHANGED <<active, size, TDH, TDHr, TDT, ring, locals, sent, sawEmpty, intrVars>>

(* e82545_tx_disable does not return while the transmitter is active.      *)
Spin ==
  /\ pc = "idle"
  /\ active
  /\ enabled' = FALSE
  /\ pc' = "spin"
  /\ UNCHANGED <<active, size, TDH, TDHr, TDT, ring, locals, sent, sawEmpty, intrVars>>

(* TCTL without EN                                                         *)
Disable ==
  /\ Request
  /\ enabled /\ ~active
  /\ enabled' = FALSE
  /\ UNCHANGED <<active, size, TDH, TDHr, TDT, ring, locals, sent, sawEmpty, intrVars>>

(* CTRL.RST                                                                *)
ResetDevice ==
  /\ Request
  /\ ~active
  /\ Reset
  /\ enabled' = FALSE
  /\ size' = 0 /\ TDH' = 0 /\ TDHr' = 0 /\ TDT' = 0
  /\ UNCHANGED <<active, ring, locals, sent, sawEmpty>>

(* The host leaves IMS empty here: the transmitter reads nothing of the    *)
(* interrupt state, and E82545Intr has every order of causes and accesses. *)
AccessIntr ==
  /\ Request
  /\ ReadICR
  /\ UNCHANGED <<dev, ring, locals, sent, sawEmpty>>

(* dm_loop with no request                                                 *)
NoRequest ==
  /\ Request
  /\ UNCHANGED <<dev, ring, locals, sent, sawEmpty, intrVars>>

(* e82545_tx_poll, with nothing new to transmit                            *)
PollIdle ==
  /\ pc = "poll"
  /\ ~(enabled /\ TDHr # TDT)
  /\ active' = FALSE
  /\ pc' = "idle"
  /\ UNCHANGED <<enabled, size, TDH, TDHr, TDT, ring, locals, sent, sawEmpty, intrVars>>

(* Mutants of PollRun: it starts at TDHr, in the middle of a packet; the   *)
(* limit is computed from a length in descriptors as if it was in bytes.   *)
PollRunAtTDHr ==
  /\ pc = "poll"
  /\ enabled /\ TDHr # TDT
  /\ active' = TRUE
  /\ head' = TDHr
  /\ lim' = size \div 4
  /\ tdwb' = FALSE
  /\ pc' = "tx"
  /\ UNCHANGED <<enabled, size, TDH, TDHr, TDT, ring, sent, sawEmpty, intrVars>>
PollRunNoLimit ==
  /\ pc = "poll"
  /\ enabled /\ TDHr # TDT
  /\ active' = TRUE
  /\ head' = TDH
  /\ lim' = size \div 16
  /\ tdwb' = FALSE
  /\ pc' = "tx"
  /\ UNCHANGED <<enabled, size, TDH, TDHr, TDT, ring, sent, sawEmpty, intrVars>>

(* e82545_tx_poll, and the start of e82545_tx_run                          *)
PollRun ==
  /\ pc = "poll"
  /\ enabled /\ TDHr # TDT
  /\ active' = TRUE
  /\ head' = TDH
  /\ lim' = size \div 4
  /\ tdwb' = FALSE
  /\ pc' = "tx"
  /\ UNCHANGED <<enabled, size, TDH, TDHr, TDT, ring, sent, sawEmpty, intrVars>>

(* e82545_transmit finds the end of a packet, or a context, at e.          *)
EndsAt(h, e) ==
  /\ e \in Window(h, TDT)
  /\ ring[h].type = "ctx" => e = h
  /\ ring[h].type # "ctx" => ring[e].type = "last" /\ \A k \in Window(h, e) : ring[k].type = "data"

CanTransmit == lim > 0 /\ \E e \in Index : EndsAt(head, e)

(* Mutant of transmit_done: the last descriptor is left out.               *)
transmit_done_but_last(h, e) ==
  [i \in Index |-> IF i \in Window(h, e) /\ ring[i].rs
                     THEN [ring[i] EXCEPT !.dd = TRUE] ELSE ring[i]]

(* e82545_transmit_done: from h up to and including e                      *)
transmit_done(h, e) ==
  [i \in Index |-> IF i \in Window(h, Plus(e, 1)) /\ ring[i].rs
                     THEN [ring[i] EXCEPT !.dd = TRUE] ELSE ring[i]]

(* A turn of the loop of e82545_tx_run: one packet, or one context         *)
Transmit ==
  /\ pc = "tx"
  /\ lim > 0
  /\ \E e \in Index :
       /\ EndsAt(head, e)
       /\ ring' = transmit_done(head, e)
       /\ tdwb' = (tdwb \/ \E i \in Window(head, Plus(e, 1)) : ring[i].rs)
       /\ lim' = lim - Ahead(head, Plus(e, 1))
       /\ head' = Plus(e, 1)
  /\ sent' = IF ring[head].type = "ctx" THEN sent ELSE (sent + 1) % Ids
  /\ UNCHANGED <<pc, dev, sawEmpty, intrVars>>

(* Mutant of Finish: TDH is only stored when the ring is empty.            *)
FinishLate ==
  /\ pc = "tx"
  /\ ~CanTransmit
  /\ TDH' = IF head = TDT THEN head ELSE TDH
  /\ TDHr' = IF lim > 0 THEN TDT ELSE head
  /\ Cause((IF tdwb THEN {"TXDW"} ELSE {})
             \cup (IF lim # size \div 4 /\ head = TDT THEN {"TXQE"} ELSE {}))
  /\ pc' = "idle"
  /\ head' = 0 /\ lim' = 0 /\ tdwb' = FALSE
  /\ UNCHANGED <<enabled, active, size, TDT, ring, sent, sawEmpty>>

(* The end of e82545_tx_run: the limit is reached, or the packet at head   *)
(* is not complete and will be looked at again when TDT has moved.         *)
Finish ==
  /\ pc = "tx"
  /\ ~CanTransmit
  /\ TDH' = head
  /\ TDHr' = IF lim > 0 THEN TDT ELSE head
  /\ Cause((IF tdwb THEN {"TXDW"} ELSE {})
             \cup (IF lim # size \div 4 /\ head = TDT THEN {"TXQE"} ELSE {}))
  /\ pc' = "idle"
  /\ head' = 0 /\ lim' = 0 /\ tdwb' = FALSE
  /\ UNCHANGED <<enabled, active, size, TDT, ring, sent, sawEmpty>>

TxHost ==
  \/ \E b \in Batches : WriteTDT(b)
  \/ WriteTDLEN \/ ReadTDH \/ Enable \/ Spin \/ Disable \/ ResetDevice \/ AccessIntr

TxDevice == NoRequest \/ PollIdle \/ PollRun \/ Transmit \/ Finish

TxNext == TxHost \/ TxDevice

TxSpec == TxInit /\ [][TxNext]_txVars
TxFairSpec == TxSpec /\ WF_txVars(TxDevice)
-----------------------------------------------------------------------------
(* Types of the state.                                                     *)
TxTypeOK ==
  /\ IntrTypeOK
  /\ pc \in {"idle", "poll", "tx", "spin"}
  /\ enabled \in BOOLEAN /\ active \in BOOLEAN
  /\ size \in {0, TxSize}
  /\ TDH \in Index /\ TDHr \in Index /\ TDT \in Index
  /\ ring \in [Index -> Desc]
  /\ head \in Index /\ lim \in Int /\ tdwb \in BOOLEAN
  /\ sent \in 0 .. (Ids - 1) /\ sawEmpty \in BOOLEAN

(* e82545_tx_run: every packet goes to the wire once, in the order of the  *)
(* ring, whole, whatever the limit per poll and however the host splits it *)
(* over writes to TDT.                                                     *)
SentOnceInOrder ==
  [][sent' # sent => /\ ring[head].id = sent
                     /\ ring[Plus(head, TxSize - 1)].type # "data"]_txVars

(* e82545_transmit_done: when TDH moves over a descriptor with RS the host *)
(* finds DD in it, and the cause TXDW in ICR.                              *)
CompletionReported ==
  [][(pc = "tx") /\ pc' = "idle" =>
       \A i \in Window(TDH, TDH') : ring[i].rs => ring[i].dd /\ "TXDW" \in intr'.ICR]_txVars

(* What the host has added and the device has not sent: e82545_tx_run      *)
(* keeps its head in a local variable and stores it at the end.            *)
Cur      == IF pc = "tx" THEN head ELSE TDH
InFlight == Window(Cur, TDT)

(* Between two polls the internal head is the head, or stands at the tail  *)
(* to wait for the rest of a packet.                                       *)
HeadAtPacket ==
  pc # "tx" /\ TDHr # TDH =>
    \/ TDHr = TDT /\ \A i \in Outstanding : ring[i].type = "data"
    \/ TDHr # TDT /\ pc = "poll" /\ enabled

(* The head points to the start of a packet, and a context is in none.     *)
PacketsWhole ==
  /\ Cur # TDT => ring[Plus(Cur, TxSize - 1)].type # "data"
  /\ \A i \in InFlight :
       ring[i].type = "data" /\ Plus(i, 1) # TDT => ring[Plus(i, 1)].type # "ctx"

(* From the head on the packets are those that the wire has not had.       *)
Numbered ==
  /\ Cur # TDT => ring[Cur].id = sent
  /\ \A i \in InFlight : Plus(i, 1) # TDT =>
       ring[Plus(i, 1)].id = IF ring[i].type = "last" THEN (ring[i].id + 1) % Ids ELSE ring[i].id

(* What is sent is reported, and nothing else.                             *)
ReportedUpToHead ==
  /\ \A i \in InFlight : ~ring[i].dd
  /\ pc = "tx" => /\ Ahead(TDH, head) <= Ahead(TDH, TDT)
                  /\ \A i \in Window(TDH, head) : ring[i].rs => ring[i].dd /\ tdwb

(* A host that found all sent has, until it adds more, a device that stops.*)
EmptyStaysIdle ==
  sawEmpty => TDH = TDT /\ TDHr = TDT /\ (pc = "poll" \/ (pc = "idle" /\ ~active))

(* The state that e82545_tx_run is written for: its types, with head and   *)
(* tail inside the ring, whole packets between them, and the head at one.  *)
TxInv ==
  /\ TxTypeOK
  /\ Ahead(TDH, TDT) <= MaxOut
  /\ HeadAtPacket
  /\ PacketsWhole
  /\ Numbered
  /\ ReportedUpToHead
  /\ EmptyStaysIdle

(* A complete packet of an enabled transmitter is sent, or the host stops  *)
(* the transmitter.                                                        *)
PacketsSent ==
  \A n \in 0 .. (Ids - 1) :
    (enabled /\ sent = n /\ \E i \in Outstanding : ring[i].type = "last" /\ ring[i].id = n)
      ~> (sent # n \/ ~enabled)
=============================================================================

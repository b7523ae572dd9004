------------------------------- MODULE Msgdma -------------------------------
(***************************************************************************)
(* The receive channel (unit 1) of the mSGDMA controller that              *)
(* src/emul_msgdma.c emulates.                                             *)
(*                                                                         *)
(* Two threads of one processor call emul_msgdma_poll: dm_loop, after each *)
(* register access of the host, and emul_msgdma_work, which                *)
(* emul_msgdma_fifo_intr wakes.  The loop of emul_msgdma_poll runs with    *)
(* interrupts off: no thread but its own runs then, while the host, on     *)
(* another processor, and the hardware FIFO go on.                         *)
(***************************************************************************)
EXTENDS Integers

CONSTANTS
  Size,    (* descriptors in the ring the "next" fields make               *)
  MaxFifo, (* bound: packets in the FIFO                                   *)
  MaxSem   (* bound: interrupts of the FIFO not yet served                 *)

ASSUME SizeAssumption  == Size \in Nat /\ Size > 1
ASSUME BoundAssumption == MaxFifo \in Nat /\ MaxSem \in Nat \ {0}

Index   == 0 .. (Size - 1)
Ids     == 3
Threads == {"loop", "work"}
NULL    == -1

VARIABLES
  ring,    (* the descriptors: CONTROL_OWN, and the packet in the buffer   *)
  poll_en, cur_desc, pf_next,
  giem,    (* CONTROL_GIEM in dma_control                                  *)
  cb,      (* interrupts of the FIFO are enabled, and have a callback      *)
  sem,
  pc,      (* of each thread: "rest", and in emul_msgdma_poll "check",     *)
           (* "poll", "fill" and "signal"                                  *)
  desc,    (* of each thread, in emul_msgdma_poll                          *)
  count,   (* of each thread: count > 0                                    *)
  irq,     (* the soft interrupt that send_soft_irq sets in beripic        *)
  fifo,    (* packets in the FIFO, numbered modulo Ids                     *)
  arrived, (* history: the number of the next packet to arrive             *)
  fill, clean, (* of the host: the next descriptor to give, and to take    *)
  asleep,  (* the host waits for the interrupt                             *)
  taken    (* history: the number of the next packet for the host          *)

regs    == <<poll_en, cur_desc, pf_next, giem, cb>>
threads == <<pc, desc, count, sem>>
host    == <<fill, clean, asleep, taken>>
vars    == <<ring, regs, threads, irq, fifo, arrived, host>>

NextDesc(i)     == (i + 1) % Size
Ahead(i, j)  == (j - i) % Size
Window(i, j) == {k \in Index : Ahead(i, k) < Ahead(i, j)}

Init ==
  /\ ring = [i \in Index |-> [own |-> FALSE, id |-> 0]]
  /\ poll_en = FALSE /\ cur_desc = NULL /\ pf_next = NULL
  /\ giem = FALSE /\ cb = FALSE
  /\ sem = 1
  /\ pc = [t \in Threads |-> "rest"]
  /\ desc = [t \in Threads |-> 0] /\ count = [t \in Threads |-> FALSE]
  /\ irq = FALSE
  /\ fifo = 0 /\ arrived = 0
  /\ fill = 0 /\ clean = 0 /\ asleep = FALSE /\ taken = 0

(* Some thread is in emul_msgdma_poll between intr_disable and _restore.   *)
InterruptsOff == \E t \in Threads : pc[t] \in {"poll", "fill"}

(* The hardware FIFO: a packet arrives; an event interrupts.               *)
Arrive ==
  /\ fifo < MaxFifo
  /\ fifo' = fifo + 1
  /\ arrived' = (arrived + 1) % Ids
  /\ UNCHANGED <<ring, regs, threads, irq, host>>

(* emul_msgdma_fifo_intr                                                   *)
FifoIntr ==
  /\ cb /\ ~InterruptsOff
  /\ sem < MaxSem
  /\ sem' = sem + 1
  /\ UNCHANGED <<ring, regs, pc, desc, count, irq, fifo, arrived, host>>

(* dm_loop: emul_msgdma_poll follows a register access, and comes without. *)
Request ==
  /\ pc["loop"] = "rest" /\ ~InterruptsOff
  /\ pc' = [pc EXCEPT !["loop"] = "check"]
  /\ UNCHANGED <<desc, count, sem, irq, fifo, arrived>>

(* Mutant of NoRequest: no poll without a register access                  *)
NoRequestNoPoll == pc["loop"] = "rest" /\ UNCHANGED vars

NoRequest ==
  /\ Request
  /\ UNCHANGED <<ring, regs, host>>

(* csr_w, DMA_CONTROL: CONTROL_RESET clears the registers and no more.     *)
WriteControl(on) ==
  /\ ~asleep
  /\ Request
  /\ giem' = on
  /\ UNCHANGED <<ring, poll_en, cur_desc, pf_next, cb, host>>

(* pf_w, PF_NEXT_LO: the descriptor that the host takes next               *)
WriteNext ==
  /\ ~asleep
  /\ Request
  /\ pf_next' = clean
  /\ UNCHANGED <<ring, poll_en, cur_desc, giem, cb, host>>

(* Mutant of poll_enable: the channel goes on where it stopped.            *)
poll_enable_stale ==
  IF pf_next = NULL
    THEN UNCHANGED <<poll_en, cur_desc, cb>>
    ELSE /\ poll_en' = TRUE
         /\ cur_desc' = IF cur_desc = NULL THEN pf_next ELSE NextDesc(cur_desc)
         /\ cb' = TRUE

poll_enable ==
  IF pf_next = NULL
    THEN UNCHANGED <<poll_en, cur_desc, cb>>
    ELSE poll_en' = TRUE /\ cur_desc' = pf_next /\ cb' = TRUE

(* pf_w, PF_POLL_FREQ.  The host starts a channel that runs only when the  *)
(* device has no descriptor, and says where it goes on.                    *)
WritePollFreq ==
  /\ ~asleep
  /\ Request
  /\ pf_next # NULL => pf_next = clean
  /\ poll_en => fill = clean
  /\ poll_enable
  /\ UNCHANGED <<ring, giem, pf_next, host>>

(* emul_msgdma_work                                                        *)
Wake ==
  /\ pc["work"] = "rest" /\ ~InterruptsOff
  /\ sem > 0
  /\ sem' = sem - 1
  /\ pc' = [pc EXCEPT !["work"] = "check"]
  /\ UNCHANGED <<ring, regs, desc, count, irq, fifo, arrived, host>>

(* Mutant of Enter: interrupts stay on.                                    *)
EnterBoth(t) ==
  /\ pc[t] = "check"
  /\ pc' = [pc EXCEPT ![t] = IF poll_en THEN "poll" ELSE "rest"]
  /\ UNCHANGED <<ring, regs, desc, count, sem, irq, fifo, arrived, host>>

(* emul_msgdma_poll up to its loop.  poll_en is never cleared, so that     *)
(* nothing can come between its test and intr_disable.                     *)
Enter(t) ==
  /\ pc[t] = "check" /\ ~InterruptsOff
  /\ pc' = [pc EXCEPT ![t] = IF poll_en THEN "poll" ELSE "rest"]
  /\ UNCHANGED <<ring, regs, desc, count, sem, irq, fifo, arrived, host>>

(* A turn of the loop: the descriptor at cur_desc has OWN ...              *)
Look(t) ==
  /\ pc[t] = "poll"
  /\ ring[cur_desc].own
  /\ desc' = [desc EXCEPT ![t] = cur_desc]
  /\ pc' = [pc EXCEPT ![t] = "fill"]
  /\ UNCHANGED <<ring, regs, count, sem, irq, fifo, arrived, host>>

(* ... and the FIFO has a packet for it.                                   *)
Fill(t) ==
  /\ pc[t] = "fill"
  /\ fifo > 0
  /\ ring' = [ring EXCEPT ![desc[t]] = [own |-> FALSE, id |-> (arrived - fifo) % Ids]]
  /\ fifo' = fifo - 1
  /\ cur_desc' = NextDesc(desc[t])
  /\ count' = [count EXCEPT ![t] = TRUE]
  /\ desc' = [desc EXCEPT ![t] = 0]
  /\ pc' = [pc EXCEPT ![t] = "poll"]
  /\ UNCHANGED <<poll_en, pf_next, giem, cb, sem, irq, arrived, host>>

(* The loop ends, and interrupts are on again.                             *)
Restore(t) ==
  /\ \/ pc[t] = "poll" /\ ~ring[cur_desc].own
     \/ pc[t] = "fill" /\ fifo = 0
  /\ pc' = [pc EXCEPT ![t] = "signal"]
  /\ desc' = [desc EXCEPT ![t] = 0]
  /\ UNCHANGED <<ring, regs, count, sem, irq, fifo, arrived, host>>

(* Mutant of send_soft_irq: the worker leaves the interrupt to dm_loop.    *)
send_soft_irq_loop(t) == irq' = (irq \/ (giem /\ t = "loop"))

send_soft_irq(t) == irq' = (irq \/ giem)

(* The end of emul_msgdma_poll                                             *)
Signal(t) ==
  /\ pc[t] = "signal" /\ ~InterruptsOff
  /\ IF count[t] THEN send_soft_irq(t) ELSE UNCHANGED irq
  /\ pc' = [pc EXCEPT ![t] = "rest"]
  /\ count' = [count EXCEPT ![t] = FALSE]
  /\ UNCHANGED <<ring, regs, desc, sem, fifo, arrived, host>>

(* The host gives a descriptor; one stays out of the ring.                 *)
Give ==
  /\ ~asleep
  /\ NextDesc(fill) # clean
  /\ ring' = [ring EXCEPT ![fill].own = TRUE]
  /\ fill' = NextDesc(fill)
  /\ UNCHANGED <<regs, threads, irq, fifo, arrived, clean, asleep, taken>>

Done == clean # fill /\ ~ring[clean].own

(* ... takes one without OWN ...                                           *)
Take ==
  /\ ~asleep
  /\ Done
  /\ clean' = NextDesc(clean)
  /\ taken' = (taken + 1) % Ids
  /\ UNCHANGED <<ring, regs, threads, irq, fifo, arrived, fill, asleep>>

(* ... sleeps when it has enabled interrupts and finds none ...            *)
Sleep ==
  /\ ~asleep
  /\ giem /\ clean # fill /\ ~Done
  /\ asleep' = TRUE
  /\ UNCHANGED <<ring, regs, threads, irq, fifo, arrived, fill, clean, taken>>

(* ... and is woken by the interrupt.                                      *)
TakeIrq ==
  /\ irq
  /\ irq' = FALSE
  /\ asleep' = FALSE
  /\ UNCHANGED <<ring, regs, threads, fifo, arrived, fill, clean, taken>>

Thread(t) == Enter(t) \/ Look(t) \/ Fill(t) \/ Restore(t) \/ Signal(t)

Loop == NoRequest \/ Thread("loop")
Work == Wake \/ Thread("work")

Next ==
  \/ Loop \/ Work
  \/ \E on \in BOOLEAN : WriteControl(on)
  \/ WriteNext \/ WritePollFreq
  \/ Arrive \/ FifoIntr
  \/ Give \/ Take \/ Sleep \/ TakeIrq

Spec == Init /\ [][Next]_vars

(* Both threads are scheduled.                                             *)
FairSpec == Spec /\ SF_vars(Loop) /\ SF_vars(Work)
-----------------------------------------------------------------------------
(* Types of the state.                                                     *)
TypeOK ==
  /\ ring \in [Index -> [own : BOOLEAN, id : 0 .. (Ids - 1)]]
  /\ poll_en \in BOOLEAN /\ giem \in BOOLEAN /\ cb \in BOOLEAN
  /\ cur_desc \in Index \cup {NULL} /\ pf_next \in Index \cup {NULL}
  /\ poll_en => cur_desc # NULL
  /\ sem \in 0 .. MaxSem
  /\ pc \in [Threads -> {"rest", "check", "poll", "fill", "signal"}]
  /\ desc \in [Threads -> Index]
  /\ count \in [Threads -> BOOLEAN]
  /\ irq \in BOOLEAN /\ asleep \in BOOLEAN
  /\ fifo \in 0 .. MaxFifo
  /\ arrived \in 0 .. (Ids - 1) /\ taken \in 0 .. (Ids - 1)
  /\ fill \in Index /\ clean \in Index

(* Where the device goes on, or will when it is started                    *)
Cur == IF poll_en THEN cur_desc ELSE clean

(* emul_msgdma_poll works through the ring: the descriptors from cur_desc  *)
(* to the last one given are those with OWN, and no other; the others that *)
(* the host has given and not taken back come before them.                 *)
OwnFromCur ==
  /\ {i \in Index : ring[i].own} = Window(Cur, fill)
  /\ Ahead(clean, Cur) <= Ahead(clean, fill)

(* One thread is in the loop of emul_msgdma_poll, and the descriptor it    *)
(* has looked at is still the one at cur_desc when it fills it.            *)
OnePoller ==
  \A t \in Threads :
    /\ pc[t] \in {"poll", "fill"} =>
         poll_en /\ \A u \in Threads : pc[u] \in {"poll", "fill"} => u = t
    /\ pc[t] = "fill" => desc[t] = cur_desc /\ ring[cur_desc].own

(* The filled descriptors hold the packets that the host takes next, in    *)
(* their order, and the FIFO those that follow.                            *)
FilledInOrder ==
  /\ \A k \in Window(clean, Cur) : ring[k].id = (taken + Ahead(clean, k)) % Ids
  /\ (arrived - fifo) % Ids = (taken + Ahead(clean, Cur)) % Ids

(* A host that sleeps has enabled interrupts, and waits for a descriptor.  *)
SleepsWaiting == asleep => giem /\ clean # fill

(* The state that emul_msgdma_poll is written for: its types, a ring that  *)
(* goes on at cur_desc, and one thread at a time that works on it.         *)
MsgdmaInv ==
  /\ TypeOK
  /\ OwnFromCur
  /\ OnePoller
  /\ FilledInOrder
  /\ SleepsWaiting

(* The host gets every packet once, in the order of their arrival,         *)
(* whichever thread has filled the descriptor.                             *)
ReceivedInOrder == [][clean' # clean => ring[clean].id = taken]_vars

(* A host that sleeps on a filled descriptor is being woken: the interrupt *)
(* is set, or a thread that will set it has not come to send_soft_irq yet. *)
NotStranded == asleep /\ Done => irq \/ \E t \in Threads : count[t]

(* A packet that has arrived goes into the descriptor at cur_desc.         *)
PacketsTaken ==
  \A i \in Index :
    (poll_en /\ cur_desc = i /\ ring[i].own /\ fifo > 0) ~> cur_desc # i
=============================================================================

-------------------------------- MODULE Ahci --------------------------------
(***************************************************************************)
(* bhyve/pci_ahci.c above bhyve/block_if.c: one AHCI disk port.            *)
(*                                                                         *)
(* An iteration of dm_loop (src/device-model.c:191-224) handles one MMIO   *)
(* write of the host (pc "idle"), which may run ahci_handle_port ("mmio"); *)
(* then blockif_thr answers every queued request ("thr"), and the callback *)
(* of a request runs ahci_handle_port again ("cb"), with bc_mtx held.      *)
(* An action at "mmio" or "cb" is one turn of the loop of                  *)
(* ahci_handle_port.  "dead" is a failed assertion.                        *)
(*                                                                         *)
(* The request queue is the first-in first-out service of BlockService,    *)
(* which BlockIf is proved to implement.                                   *)
(***************************************************************************)
EXTENDS AhciPort

CONSTANTS
  IoReqs,   (* ahci_ioreqs of the port, blockif_queuesz                    *)
  Cmds,     (* commands the host uses: a subset of AllCmds                 *)
  RdOnly,   (* bc_rdonly                                                   *)
  Masks,    (* values the host writes to PxIS and PxIE                     *)
  Careful   (* TRUE: a host that keeps to HostRule                         *)

(* A command table entry.  op is an operation of block_if or               *)
(*   "NODATA"  a command answered at once; "ABORT": refused at once        *)
(*   "SRST", "NOSRST"  a control FIS;  "NOTFIS": no host to device FIS     *)
(* parts is the number of block_if requests the data takes: one per 33     *)
(* entries of the PRDT, or none for a TRIM of no extents.                  *)
AllCmds == [op    : Ops \cup {"NODATA", "ABORT", "SRST", "NOSRST", "NOTFIS"},
            ncq   : BOOLEAN,
            parts : Nat]

ASSUME IoReqsAssumption == IoReqs \in Nat /\ NSlots <= IoReqs
ASSUME CmdsAssumption   == Cmds \subseteq AllCmds /\ Cmds # {}
ASSUME MasksAssumption  == Masks \subseteq SUBSET Causes
ASSUME FlagsAssumption  == RdOnly \in BOOLEAN /\ Careful \in BOOLEAN

VARIABLES
  pc,      (* where dm_loop is                                             *)
  port,    (* the registers: PortState                                     *)
  table,   (* the command table of each slot, in the memory of the host    *)
  queue,   (* the slots with a request in block_if, oldest first; iobhd    *)
  failed   (* history: a command failed since the port was last stopped or *)
           (* reset                                                        *)

vars == <<pc, port, table, queue, failed>>

Init ==
  /\ pc = "idle"
  /\ port = InitPort
  /\ table \in [Slots -> {CHOOSE c \in Cmds : TRUE}]
  /\ queue = <<>>
  /\ failed = FALSE

QueuedSlots == {queue[i] : i \in DOMAIN queue}

(* What libata and CAM do: commands only to a running port that takes      *)
(* FISes and has reported no error, NCQ commands together, any other       *)
(* command alone, and no command of more than one block_if request.        *)
HostRule(S, cmd) ==
  /\ port.st /\ port.fre /\ port.ci = {} /\ ~failed
  /\ \A s \in S :
       /\ cmd[s].parts <= 1
       /\ cmd[s].op # "NOTFIS"
       /\ IF cmd[s].ncq THEN s \in port.sact
                        ELSE port.sact = {} /\ S = {s}

(* An MMIO write that does not run ahci_handle_port                        *)
Write(p) ==
  /\ pc = "idle"
  /\ pc' = "thr"
  /\ port' = p
  /\ UNCHANGED <<table, queue, failed>>

WriteIS(S)   == Write(port_intr([port EXCEPT !.is = @ \ S]))
WriteIE(S)   == Write(port_intr([port EXCEPT !.ie = S]))
WriteGIS     == Write(generate_intr([port EXCEPT !.gis = FALSE]))
WriteGHC(ie) == Write(generate_intr([port EXCEPT !.gie = ie]))
WriteSACT(S) == Write([port EXCEPT !.sact = @ \cup S])

(* GHC.HR                                                                  *)
HbaReset ==
  /\ pc = "idle"
  /\ pc' = "thr"
  /\ port' = ahci_reset(port)
  /\ failed' = FALSE
  /\ UNCHANGED <<table, queue>>

(* SCTL.DET                                                                *)
WriteSCTL == Write(IF port.st THEN port ELSE port_reset(port))

(* The host fills in the tables of the slots S and writes them to PxCI.    *)
WriteCI(S, cmd) ==
  /\ pc = "idle"
  /\ S \cap (port.ci \cup port.pending) = {}
  /\ Careful => HostRule(S, cmd)
  /\ pc' = "mmio"
  /\ table' = [s \in Slots |-> IF s \in S THEN cmd[s] ELSE table[s]]
  /\ port' = [port EXCEPT !.ci = @ \cup S]
  /\ UNCHANGED <<queue, failed>>

(* ahci_port_stop cancels what is in flight: see Cancel of BlockIf.        *)
port_stop(p) ==
  check_stopped([p EXCEPT
    !.sact    = p.sact \ {s \in QueuedSlots : table[s].ncq},
    !.ci      = p.ci \ {s \in QueuedSlots : ~table[s].ncq},
    !.pending = p.pending \ QueuedSlots])

(* A careful host starts a port that takes FISes.  After an error it stops *)
(* the port with a write of PxCMD before it starts it, also when it has    *)
(* reset the HBA: ahci_reset leaves waitforclear set, and only             *)
(* ahci_port_stop clears it.                                               *)
StartRule(st, fre) == st => fre /\ (port.waitforclear => port.st)

(* PxCMD                                                                   *)
WriteCMD(st, fre, clo) ==
  /\ pc = "idle"
  /\ Careful => StartRule(st, fre)
  /\ pc' = "mmio"
  /\ LET p == [port EXCEPT !.st = st, !.fre = fre]
         q == IF st THEN [p EXCEPT !.cr = TRUE] ELSE port_stop(p)
     IN  port' = [q EXCEPT !.busy = @ /\ ~clo]
  /\ queue' = IF st THEN queue ELSE <<>>
  /\ failed' = (failed /\ st)
  /\ UNCHANGED table

(* The next turn of the loop starts slot s.                                *)
Turn(s, cmd) ==
  /\ pc \in {"mmio", "cb"}
  /\ Runnable(port)
  /\ s = NextSlot(port)
  /\ cmd = table[s]

(* The port with slot s taken, and busy.                                   *)
Taken(s) == [port EXCEPT !.ccs = (s + 1) % NSlots]
Begun(s) == [Taken(s) EXCEPT !.busy = TRUE]

(* ahci_handle_cmd: a command that is answered at once                     *)
StartImmediate(s) ==
  \E error \in BOOLEAN :
    /\ Turn(s, table[s])
    /\ table[s].op = IF error THEN "ABORT" ELSE "NODATA"
    /\ port' = write_fis_d2h(Begun(s), s, error)
    /\ failed' = (failed \/ error)
    /\ UNCHANGED <<pc, table, queue>>

(* ahci_handle_dsm_trim with no extent to delete                           *)
StartEmptyTrim(s) ==
  /\ Turn(s, table[s])
  /\ table[s].op = "DELETE" /\ table[s].parts = 0
  /\ port' = IF table[s].ncq
               THEN write_fis_sdb(write_fis_d2h_ncq(Begun(s), s), s, FALSE)
               ELSE write_fis_d2h(Begun(s), s, FALSE)
  /\ UNCHANGED <<pc, table, queue, failed>>

(* Mutant of StartControl: the slot stays issued.                          *)
StartControlIssued(s) ==
  /\ Turn(s, table[s])
  /\ table[s].op \in {"SRST", "NOSRST", "NOTFIS"}
  /\ port' = Taken(s)
  /\ UNCHANGED <<pc, table, queue, failed>>

(* ahci_handle_slot: a control FIS.  SRST resets the port when it is       *)
(* cleared again.  A table with another FIS is passed over.                *)
StartControl(s) ==
  /\ Turn(s, table[s])
  /\ table[s].op \in {"SRST", "NOSRST", "NOTFIS"}
  /\ LET p == Taken(s)
         q == CASE table[s].op = "SRST" -> [p EXCEPT !.reset = TRUE]
                [] table[s].op = "NOSRST" /\ p.reset -> port_reset([p EXCEPT !.reset = FALSE])
                [] OTHER -> p
     IN  port' = IF table[s].op = "NOTFIS" THEN q ELSE [q EXCEPT !.ci = @ \ {s}]
  /\ UNCHANGED <<pc, table, queue, failed>>

(* ahci_handle_rw, _flush and _dsm_trim: the command needs block_if        *)
NeedsBlockIf(cmd) == cmd.op \in Ops /\ (cmd.op = "DELETE" => cmd.parts > 0)

StartIo(s) ==
  /\ Turn(s, table[s])
  /\ NeedsBlockIf(table[s])
  /\ pc = "mmio"
  /\ Len(queue) < IoReqs
  /\ LET p == [Begun(s) EXCEPT !.pending = @ \cup {s}]
     IN  port' = IF table[s].ncq THEN write_fis_d2h_ncq(p, s) ELSE p
  /\ queue' = Append(queue, s)
  /\ UNCHANGED <<pc, table, failed>>

(* The same with bc_mtx held (pthread_mutex_lock asserts that it is free), *)
(* or with no ahci_ioreq: an assertion fails.                              *)
StartIoDies(s) ==
  /\ Turn(s, table[s])
  /\ NeedsBlockIf(table[s])
  /\ pc = "cb" \/ Len(queue) >= IoReqs
  /\ pc' = "dead"
  /\ UNCHANGED <<port, table, queue, failed>>

(* The loop of ahci_handle_port ends.  The MMIO write is answered, or the  *)
(* callback returns to blockif_thr.                                        *)
PortDone ==
  /\ pc \in {"mmio", "cb"}
  /\ ~Runnable(port)
  /\ pc' = "thr"
  /\ UNCHANGED <<port, table, queue, failed>>

Fails(cmd) == Result(cmd.op, RdOnly) # "ok"

(* Mutant of Answered: pending keeps the slot.                             *)
AnsweredPending(s) ==
  LET error == Fails(table[s])
  IN  check_stopped(IF table[s].ncq THEN write_fis_sdb(port, s, error)
                                    ELSE write_fis_d2h(port, s, error))

(* The port when the command of slot s has ended                           *)
Answered(s) ==
  LET error == Fails(table[s])
      p     == IF table[s].ncq THEN write_fis_sdb(port, s, error)
                               ELSE write_fis_d2h(port, s, error)
  IN  check_stopped([p EXCEPT !.pending = @ \ {s}])

(* ata_ioreq_cb of the oldest request, when its command is complete        *)
Callback ==
  /\ pc = "thr"
  /\ queue # <<>>
  /\ Fails(table[Head(queue)]) \/ table[Head(queue)].parts <= 1
  /\ port' = Answered(Head(queue))
  /\ failed' = (failed \/ Fails(table[Head(queue)]))
  /\ queue' = Tail(queue)
  /\ pc' = "cb"
  /\ UNCHANGED table

(* ata_ioreq_cb, when there is more to do: ahci_handle_rw asks block_if    *)
(* again, with bc_mtx held.                                                *)
CallbackDies ==
  /\ pc = "thr"
  /\ queue # <<>>
  /\ ~Fails(table[Head(queue)])
  /\ table[Head(queue)].parts > 1
  /\ pc' = "dead"
  /\ UNCHANGED <<port, table, queue, failed>>

(* blockif_dequeue finds nothing: the next iteration of dm_loop            *)
ThrDone ==
  /\ pc = "thr"
  /\ queue = <<>>
  /\ pc' = "idle"
  /\ UNCHANGED <<port, table, queue, failed>>

Host ==
  \/ \E S \in Masks : WriteIS(S) \/ WriteIE(S)
  \/ WriteGIS
  \/ \E ie \in BOOLEAN : WriteGHC(ie)
  \/ \E S \in SUBSET Slots : WriteSACT(S)
  \/ HbaReset
  \/ WriteSCTL
  \/ \E S \in SUBSET Slots \ {{}} : \E cmd \in [S -> Cmds] : WriteCI(S, cmd)
  \/ \E st, fre, clo \in BOOLEAN : WriteCMD(st, fre, clo)

Start(s) == StartImmediate(s) \/ StartEmptyTrim(s) \/ StartControl(s) \/ StartIo(s) \/ StartIoDies(s)

Device == (\E s \in Slots : Start(s)) \/ PortDone \/ Callback \/ CallbackDies \/ ThrDone

Next == Host \/ Device

Spec == Init /\ [][Next]_vars

(* Nothing the device does waits for anything else than an MMIO request.   *)
FairSpec == Spec /\ WF_vars(Device)
-----------------------------------------------------------------------------
(* Types of the state.                                                     *)
TypeOK ==
  /\ pc \in {"idle", "mmio", "thr", "cb", "dead"}
  /\ port \in PortState
  /\ table \in [Slots -> Cmds]
  /\ queue \in Seq(Slots)
  /\ failed \in BOOLEAN

(* The three records of what is in flight agree: the pending bits of the   *)
(* port, the requests in block_if, and what the host sees in PxCI (bits    *)
(* that ahci_write_fis_d2h clears at the end, but _d2h_ncq at the start).  *)
InFlight ==
  /\ port.pending = QueuedSlots
  /\ Len(queue) = Cardinality(QueuedSlots)
  /\ \A s \in QueuedSlots : s \in port.ci <=> ~table[s].ncq

(* A busy port has a command in flight that will clear BSY.  Once nothing  *)
(* is queued the loop of ahci_handle_port has nothing left, since no other *)
(* write of the host makes a slot runnable.                                *)
BusyWithCommand == port.busy => \E s \in QueuedSlots : ~table[s].ncq
NothingLeft ==
  /\ pc = "idle" => queue = <<>>
  /\ pc \in {"idle", "thr"} /\ queue = <<>> => ~Runnable(port)

(* The state is what ahci_handle_slot, ata_ioreq_cb and ahci_port_stop are *)
(* written for: its types, the three records in step, and a loop that has  *)
(* left nothing behind.                                                    *)
AhciInv == TypeOK /\ InFlight /\ BusyWithCommand /\ NothingLeft

(* ahci_port_intr and ahci_generate_intr keep the interrupt line up while, *)
(* and only while, a bit of the global IS is set and GHC.IE is: the early  *)
(* return on a bit already set loses no interrupt.                         *)
InterruptLevel ==
  /\ Enabled(port) # {} => port.gis
  /\ port.lintr <=> port.gis /\ port.gie

(* The end of a command that went through block_if raises the interrupt    *)
(* line, when the host takes FISes and enabled the interrupts.             *)
CompletionInterrupts ==
  [][pc = "thr" /\ pc' = "cb" /\ port.fre /\ port.gie /\ {"DHR", "SDB"} \subseteq port.ie
       => port'.lintr]_vars

(* ahci_handle_port: "Stop if device is busy or in error".  After a failed *)
(* command no slot is started until the host stops or resets the port.     *)
StopsOnError ==
  [][(pc \in {"mmio", "cb"}) /\ (pc' = pc \/ pc' = "dead") => ~failed]_vars

(* pthread_mutex_lock never finds its mutex locked, and ahci_handle_rw and *)
(* the others always find a free ahci_ioreq.                               *)
NoAssertionFails == pc # "dead"

(* Every MMIO write is answered, and dm_loop takes another one.            *)
WritesAnswered == pc = "mmio" ~> pc = "idle"

(* A command the host has issued ends, unless a command has failed since   *)
(* the host last stopped or reset the port, and the failure was reported   *)
(* in PxTFD and PxIS; nor does a port wait that is not running.  No command *)
(* waits behind the error of an earlier one that a reset has hidden.       *)
CommandsEnd ==
  /\ \A s \in Slots : s \in port.ci ~> (s \notin port.ci \/ ~port.st \/ failed)
  /\ [][~failed /\ failed' => port'.err /\ "TFE" \in port'.is]_vars
=============================================================================

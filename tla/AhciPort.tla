------------------------------ MODULE AhciPort ------------------------------
(***************************************************************************)
(* The registers of the AHCI controller of bhyve/pci_ahci.c and of its one *)
(* implemented port, as a record p, and what the functions that post a     *)
(* FIS, raise the interrupt, stop and reset the port do to it.             *)
(*   st, cr, fre   PxCMD.ST, .CR, .FRE                                     *)
(*   ci, sact      PxCI, PxSACT                                            *)
(*   pending, ccs  slots handed to block_if; the slot looked at next       *)
(*   busy, err     PxTFD: ATA_S_BUSY, ATA_S_ERROR.  DRQ is never set: the  *)
(*                 port is a disk                                          *)
(*   waitforclear  an error stopped the port; reset: the last FIS had SRST *)
(*   is, ie        PxIS, PxIE, as sets of the interrupt causes raised here *)
(*   gis, gie      bit of the port in the global IS; GHC.IE                *)
(*   lintr         the legacy interrupt line.  MSI is not modelled: on     *)
(*                 this platform pci_generate_msi delivers nothing         *)
(***************************************************************************)
EXTENDS Integers, FiniteSets, BlockQueue

CONSTANT NSlots    (* command slots; sc->cap tells the host how many       *)

ASSUME NSlotsAssumption == NSlots \in Nat \ {0}

Slots  == 0 .. (NSlots - 1)
Causes == {"DHR", "SDB", "TFE"}

PortState ==
  [st : BOOLEAN, cr : BOOLEAN, fre : BOOLEAN,
   ci : SUBSET Slots, sact : SUBSET Slots, pending : SUBSET Slots, ccs : Slots,
   busy : BOOLEAN, err : BOOLEAN, waitforclear : BOOLEAN, reset : BOOLEAN,
   is : SUBSET Causes, ie : SUBSET Causes,
   gis : BOOLEAN, gie : BOOLEAN, lintr : BOOLEAN]

(* pci_ahci_init: calloc and ahci_reset                                    *)
InitPort ==
  [st |-> FALSE, cr |-> FALSE, fre |-> FALSE,
   ci |-> {}, sact |-> {}, pending |-> {}, ccs |-> 0,
   busy |-> FALSE, err |-> FALSE, waitforclear |-> FALSE, reset |-> FALSE,
   is |-> {}, ie |-> {}, gis |-> FALSE, gie |-> FALSE, lintr |-> FALSE]

Enabled(p) == p.is \cap p.ie

(* Mutant of generate_intr: IS is not recomputed from PxIS and PxIE.       *)
generate_intr_stale(p) == [p EXCEPT !.lintr = p.gis /\ p.gie]

(* ahci_generate_intr, after a write to GHC or IS                          *)
generate_intr(p) ==
  LET gis == p.gis \/ Enabled(p) # {}
  IN  [p EXCEPT !.gis = gis, !.lintr = gis /\ p.gie]

(* ahci_port_intr                                                          *)
port_intr(p) ==
  IF Enabled(p) = {} \/ p.gis
    THEN p
    ELSE [p EXCEPT !.gis = TRUE, !.lintr = p.lintr \/ p.gie]

(* Mutant of write_fis: the cause is recorded, the interrupt forgotten.    *)
write_fis_silent(p, irq, error) ==
  [p EXCEPT !.is = p.is \cup irq, !.waitforclear = p.waitforclear \/ error]

(* ahci_write_fis: nothing at all while the host takes no FIS              *)
write_fis(p, irq, error) ==
  LET causes == IF error THEN irq \cup {"TFE"} ELSE irq
      q      == [p EXCEPT !.waitforclear = p.waitforclear \/ error]
  IN  IF ~p.fre THEN p
      ELSE IF causes \subseteq p.is THEN q
      ELSE port_intr([q EXCEPT !.is = p.is \cup causes])

(* ahci_write_fis_sdb: an NCQ command of slot s has ended                  *)
write_fis_sdb(p, s, error) ==
  write_fis([p EXCEPT !.sact = IF error THEN p.sact ELSE p.sact \ {s},
                      !.err  = error],
            {"SDB"}, error)

(* Mutant of write_fis_d2h: the command stays issued.                      *)
write_fis_d2h_issued(p, s, error) ==
  write_fis([p EXCEPT !.busy = FALSE, !.err = error], {"DHR"}, error)

(* ahci_write_fis_d2h: another command of slot s has ended                 *)
write_fis_d2h(p, s, error) ==
  write_fis([p EXCEPT !.ci   = IF error THEN p.ci ELSE p.ci \ {s},
                      !.busy = FALSE,
                      !.err  = error],
            {"DHR"}, error)

(* Mutant of write_fis_d2h_ncq: the command stays issued.                  *)
write_fis_d2h_ncq_issued(p, s) ==
  write_fis([p EXCEPT !.busy = FALSE, !.err = FALSE], {}, FALSE)

(* ahci_write_fis_d2h_ncq: an NCQ command is accepted.  No interrupt       *)
write_fis_d2h_ncq(p, s) ==
  write_fis([p EXCEPT !.ci = p.ci \ {s}, !.busy = FALSE, !.err = FALSE],
            {}, FALSE)

(* ahci_check_stopped                                                      *)
check_stopped(p) ==
  IF ~p.st /\ p.pending = {}
    THEN [p EXCEPT !.ccs = 0, !.cr = FALSE, !.ci = {}, !.sact = {},
                   !.waitforclear = FALSE]
    ELSE p

(* ahci_port_reset.  The FIS it posts raises no interrupt.                 *)
port_reset(p) == [p EXCEPT !.sact = {}, !.busy = FALSE, !.err = FALSE]

(* ahci_reset.  The commands, pending and waitforclear stay as they are.   *)
ahci_reset(p) ==
  port_reset([p EXCEPT !.gie = FALSE, !.gis = FALSE, !.lintr = FALSE,
                       !.ie = {}, !.is = {},
                       !.st = FALSE, !.cr = FALSE, !.fre = FALSE])

(* Mutant of Runnable: the loop does not stop after an error.              *)
RunnableInError(p) == p.st /\ p.ci \ p.pending # {} /\ ~p.busy

(* The condition under which the loop of ahci_handle_port starts a slot    *)
Runnable(p) ==
  /\ p.st
  /\ p.ci \ p.pending # {}
  /\ ~p.busy
  /\ ~p.waitforclear

(* The slot it starts: the first one at or cyclically after ccs.           *)
NextSlot(p) ==
  CHOOSE s \in p.ci \ p.pending :
    \A t \in p.ci \ p.pending : (s - p.ccs) % NSlots <= (t - p.ccs) % NSlots
=============================================================================

----------------------------- MODULE E82545Intr -----------------------------
(***************************************************************************)
(* The interrupt logic of the E1000 of bhyve/pci_e82545.c: the record i of *)
(*   ICR, IMS      sets of interrupt causes                                *)
(*   ITR           esc_ITR # 0: interrupts are throttled                   *)
(*   irq_asserted  esc_irq_asserted                                        *)
(*   mevpitr       esc_mevpitr # NULL: the throttling interval has started *)
(*   callout       mevpitr_callout is queued in the timer                  *)
(*   line          what pci_lintr_assert and _deassert made of the line    *)
(*                                                                         *)
(* Every operation is one step: register accesses run in a critical        *)
(* section (dm_loop), polls and the FIFO worker with interrupts off, and   *)
(* the timer is an interrupt.                                              *)
(***************************************************************************)
EXTENDS Naturals

CONSTANTS
  Bits,    (* interrupt causes                                             *)
  Careful  (* TRUE: the host reads ICR after a reset, before it writes IMS *)

ASSUME CarefulAssumption == Careful \in BOOLEAN

IntrState ==
  [ICR : SUBSET Bits, IMS : SUBSET Bits, ITR : BOOLEAN, irq_asserted : BOOLEAN,
   mevpitr : BOOLEAN, callout : BOOLEAN, line : BOOLEAN]

(* e82545_init: calloc and e82545_reset                                    *)
InitIntr ==
  [ICR |-> {}, IMS |-> {}, ITR |-> TRUE, irq_asserted |-> FALSE,
   mevpitr |-> FALSE, callout |-> FALSE, line |-> FALSE]

(* Causes the host asked for                                               *)
Pending(i) == i.ICR \cap i.IMS

(* Mutant of signal: the throttling interval is not started.               *)
signal_unthrottled(i, new) ==
  IF new = {} \/ i.mevpitr \/ i.irq_asserted
    THEN i
    ELSE [i EXCEPT !.irq_asserted = TRUE, !.line = TRUE]

(* The end of e82545_icr_assert and of e82545_ims_change                   *)
signal(i, new) ==
  IF new = {} \/ i.mevpitr \/ i.irq_asserted
    THEN i
    ELSE [i EXCEPT !.irq_asserted = TRUE,
                   !.line = TRUE,
                   !.mevpitr = i.ITR,
                   !.callout = i.ITR]

icr_assert(i, bits) ==
  signal([i EXCEPT !.ICR = i.ICR \cup bits], (bits \ i.ICR) \cap i.IMS)

(* Mutant of ims_change: causes asserted before they were enabled are lost *)
ims_change_silent(i, bits) == [i EXCEPT !.IMS = i.IMS \cup bits]

ims_change(i, bits) ==
  signal([i EXCEPT !.IMS = i.IMS \cup bits], (bits \cap i.ICR) \ i.IMS)

icr_deassert(i, bits) ==
  LET q == [i EXCEPT !.ICR = i.ICR \ bits]
  IN  IF i.irq_asserted /\ Pending(q) = {}
        THEN [q EXCEPT !.irq_asserted = FALSE, !.line = FALSE]
        ELSE q

(* Mutant of itr_callback: causes that came in the interval are lost.      *)
itr_callback_silent(i) == [i EXCEPT !.mevpitr = FALSE, !.callout = FALSE]

(* e82545_itr_callback: the interval is over, or starts again              *)
itr_callback(i) ==
  IF Pending(i) # {} /\ ~i.irq_asserted
    THEN [i EXCEPT !.irq_asserted = TRUE, !.line = TRUE, !.callout = TRUE]
    ELSE [i EXCEPT !.mevpitr = FALSE, !.callout = FALSE]

(* Mutant of intr_reset: the interval is forgotten, the callout is not.    *)
intr_reset_mevpitr(i) ==
  [i EXCEPT !.ICR = {}, !.IMS = {}, !.ITR = TRUE, !.mevpitr = FALSE,
            !.line = i.line /\ ~i.irq_asserted]

(* e82545_reset.  It drops the line and leaves esc_irq_asserted as it is.  *)
intr_reset(i) ==
  [i EXCEPT !.ICR = {}, !.IMS = {}, !.ITR = TRUE,
            !.line = i.line /\ ~i.irq_asserted]
-----------------------------------------------------------------------------
VARIABLES
  intr,      (* the record                                                 *)
  resetting  (* the host has reset the device and not read ICR since       *)

intrVars == <<intr, resetting>>

IntrInit == intr = InitIntr /\ resetting = FALSE

(* A transmit or receive event, or a write to ICS                          *)
Cause(bits) == intr' = icr_assert(intr, bits) /\ UNCHANGED resetting

WriteICR(bits) == intr' = icr_deassert(intr, bits) /\ UNCHANGED resetting
WriteITR(on)   == intr' = [intr EXCEPT !.ITR = on] /\ UNCHANGED resetting
WriteIMC(bits) == intr' = [intr EXCEPT !.IMS = @ \ bits] /\ UNCHANGED resetting

WriteIMS(bits) ==
  /\ Careful => ~resetting
  /\ intr' = ims_change(intr, bits)
  /\ UNCHANGED resetting

(* e82545_intr_read clears ICR and calls e82545_icr_deassert               *)
ReadICR ==
  /\ intr' = icr_deassert(intr, Bits)
  /\ resetting' = FALSE

(* CTRL.RST                                                                *)
Reset ==
  /\ intr' = intr_reset(intr)
  /\ resetting' = TRUE

Timer ==
  /\ intr.callout
  /\ intr' = itr_callback(intr)
  /\ UNCHANGED resetting

IntrNext ==
  \/ \E bits \in SUBSET Bits \ {{}} :
       Cause(bits) \/ WriteICR(bits) \/ WriteIMS(bits) \/ WriteIMC(bits)
  \/ \E on \in BOOLEAN : WriteITR(on)
  \/ ReadICR
  \/ Reset
  \/ Timer

IntrSpec == IntrInit /\ [][IntrNext]_intrVars

(* The timer runs.                                                         *)
IntrFairSpec == IntrSpec /\ WF_intrVars(Timer)
-----------------------------------------------------------------------------
(* Types of the state.                                                     *)
IntrTypeOK == intr \in IntrState /\ resetting \in BOOLEAN

(* What the comments of e82545_icr_assert and e82545_ims_change rely on: a *)
(* cause the host asked for is signalled already, or will be looked at     *)
(* when the throttling interval ends.                                      *)
CausesSignalled == Pending(intr) # {} => intr.irq_asserted \/ intr.mevpitr

(* The interval is on exactly while the callout is queued, so that         *)
(* mdx_callout_init never runs on a queued callout.                        *)
TimerMatches == intr.mevpitr <=> intr.callout

(* esc_irq_asserted is the state of the line, but after a reset.           *)
LineMatches ==
  /\ intr.line => intr.irq_asserted
  /\ intr.irq_asserted => intr.line \/ resetting

(* A cause the host asked for raises the line, now or by the timer.        *)
CausesReachHost == Pending(intr) # {} => intr.line \/ intr.callout

(* e82545_icr_assert, _ims_change, _itr_callback: the line rises at most   *)
(* once in a throttling interval, and starts the next one.                 *)
RateLimited ==
  [][~intr.line /\ intr'.line =>
       /\ intr.callout => Timer
       /\ intr.ITR => intr'.callout]_intrVars

(* A cause the host asked for is delivered, or withdrawn, before long.     *)
CausesDelivered == Pending(intr) # {} ~> (intr.line \/ Pending(intr) = {})

IntrInv ==
  /\ IntrTypeOK
  /\ CausesSignalled
  /\ TimerMatches
  /\ LineMatches
  /\ resetting /\ Careful => intr.IMS = {}
=============================================================================

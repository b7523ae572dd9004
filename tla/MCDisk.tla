------------------------------- MODULE MCDisk -------------------------------
(* What the disk promises in the end, for TLC: the AHCI port answers its   *)
(* host, and block_if its callers.  The first uses the second as a first-  *)
(* in first-out service, which the second is here shown to implement.  A   *)
(* behaviour is one of Ahci or of BlockIf.                                 *)
EXTENDS MCAhci

CONSTANTS MaxReq, Offsets, Lens

VARIABLES part, locked, nfree, pendq, busyq, offset, reply

blockVars == <<locked, nfree, pendq, busyq, offset, reply>>

(* An image that is read-only: every result of a request occurs.           *)
Block == INSTANCE BlockIf WITH RdOnly <- TRUE

MCOffsets == 0 .. 1
MCLens    == {1}

MCInit == Init /\ Block!Init /\ part \in {"port", "queues"}

MCNext ==
  /\ \/ part = "port" /\ Next /\ UNCHANGED blockVars
     \/ part = "queues" /\ Block!Next /\ UNCHANGED vars
  /\ UNCHANGED part

MCSpec ==
  /\ MCInit
  /\ [][MCNext]_<<vars, blockVars, part>>
  /\ WF_vars(part = "port" /\ Device)
  /\ WF_blockVars(part = "queues" /\ Block!Drain)

(* Every request accepted by blockif_request is answered or cancelled.     *)
EventuallyAnswered == Block!EventuallyAnswered

(* The queues implement the first-in first-out service BlockService.       *)
ServiceSpec == Block!ServiceSpec
=============================================================================

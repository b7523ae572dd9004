----------------------------- MODULE BlockQueue -----------------------------
(***************************************************************************)
(* The request queues of bhyve/block_if.c as pure operators on sequences.  *)
(*                                                                         *)
(* A queued request is the record                                          *)
(*   req     be_req: which blockif_req of the caller                       *)
(*   op      be_op                                                         *)
(*   status  be_status.  BST_FREE elements are only counted, and BST_BUSY  *)
(*           is never seen between two steps (see BlockIf): an element is  *)
(*           BLOCK or PEND in the pending queue, DONE in the busy queue    *)
(*   block   be_block: the offset just after the request, which is what a  *)
(*           sequential successor starts at                                *)
(* The elements of bc_reqs[] are interchangeable, so the free queue is the *)
(* number of elements on it.  The offset of a request is not part of the   *)
(* element: blockif_complete reads br_offset through be_req, in memory the *)
(* caller owns, so it is the function off from requests to offsets.        *)
(***************************************************************************)
EXTENDS Integers, Sequences, SequencesExt

CONSTANTS
  Reqs,    (* the blockif_req structures of the callers                    *)
  OFF_MAX  (* be_block of a flush: the end of no request                   *)

ASSUME OffMaxAssumption == OFF_MAX \in Nat

Ops == {"READ", "WRITE", "FLUSH", "DELETE"}

Elem == [req : Reqs, op : Ops, status : {"BLOCK", "PEND", "DONE"}, block : Nat]

(* be_block: br_offset plus the lengths of the iovecs, OFF_MAX for a flush *)
EndOf(op, offset, len) == IF op = "FLUSH" THEN OFF_MAX ELSE offset + len

(* Some queued request ends where this one starts.                         *)
Continues(q, offset) == \E i \in DOMAIN q : q[i].block = offset

(* blockif_enqueue: the new last element of the pending queue              *)
NewElem(pend, busy, r, op, offset, len) ==
  [req    |-> r,
   op     |-> op,
   status |-> IF Continues(pend, offset) \/ Continues(busy, offset)
                THEN "BLOCK" ELSE "PEND",
   block  |-> EndOf(op, offset, len)]

(* Mutant of IsFirstPending: the scan does not stop at the first one.      *)
IsAnyPending(pend, i) == pend[i].status = "PEND"

(* blockif_dequeue: position i holds the element it picks                  *)
IsFirstPending(pend, i) ==
  /\ pend[i].status = "PEND"
  /\ \A j \in 1 .. (i - 1) : pend[j].status = "BLOCK"

(* Mutant of Unblock: the loop stops at the first request it finds.        *)
UnblockFirst(pend, off, block) ==
  [i \in DOMAIN pend |->
     IF /\ off[pend[i].req] = block
        /\ \A j \in 1 .. (i - 1) : off[pend[j].req] # block
       THEN [pend[i] EXCEPT !.status = "PEND"]
       ELSE pend[i]]

(* blockif_complete: the requests that start at block may run              *)
Unblock(pend, off, block) ==
  [i \in DOMAIN pend |->
     IF off[pend[i].req] = block
       THEN [pend[i] EXCEPT !.status = "PEND"]
       ELSE pend[i]]

(* The error blockif_proc hands to the callback.  DELETE is not supported; *)
(* a WRITE fails on a read-only device.                                    *)
Result(op, rdonly) ==
  IF op = "DELETE" THEN "EOPNOTSUPP"
  ELSE IF op = "WRITE" /\ rdonly THEN "EROFS" ELSE "ok"
=============================================================================

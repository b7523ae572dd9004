------------------------------ MODULE BlockIf -------------------------------
(***************************************************************************)
(* bhyve/block_if.c: the request queues of the emulated disk.              *)
(*                                                                         *)
(* One CPU runs everything.  dm_loop (src/device-model.c:191-224) handles  *)
(* an MMIO request of the host, in which the AHCI device calls             *)
(* blockif_read/write/flush/delete/cancel any number of times, and then    *)
(* calls blockif_thr, which drains the pending queue with bc_mtx held from *)
(* beginning to end.  A call of the API while the mutex is held fails the  *)
(* assertion of pthread_mutex_lock (bhyve/pthread.c:44); Ahci.tla models   *)
(* the callbacks that run there, and here callers wait until it is free.   *)
(*                                                                         *)
(* A request is chained behind another one that ends where it starts: it   *)
(* is queued as BLOCK and becomes PEND when the other one completes or is  *)
(* cancelled.                                                              *)
(***************************************************************************)
EXTENDS BlockQueue

CONSTANTS
  MaxReq,   (* BLOCKIF_MAXREQ: number of elements in bc_reqs[]             *)
  Offsets,  (* offsets a caller asks for                                   *)
  Lens,     (* total lengths of the iovecs a caller passes                 *)
  RdOnly    (* bc_rdonly                                                   *)

ASSUME MaxReqAssumption == MaxReq \in Nat \ {0}
ASSUME ExtentAssumption == Offsets \subseteq Nat /\ Lens \subseteq Nat
ASSUME RdOnlyAssumption == RdOnly \in BOOLEAN

VARIABLES
  locked,   (* bc_mtx, held by blockif_thr                                 *)
  nfree,    (* length of bc_freeq                                          *)
  pendq,    (* bc_pendq                                                    *)
  busyq,    (* bc_busyq                                                    *)
  offset,   (* br_offset of each request: memory of the caller             *)
  reply     (* what the caller of each request knows: "none" when it was   *)
            (* never issued or was cancelled, "wait" until its callback    *)
            (* runs, then the error the callback, or the call, returned    *)

vars == <<locked, nfree, pendq, busyq, offset, reply>>

Errors == {"ok", "EOPNOTSUPP", "EROFS"}

Init ==
  /\ locked = FALSE
  /\ nfree  = MaxReq
  /\ pendq  = <<>>
  /\ busyq  = <<>>
  /\ offset = [r \in Reqs |-> 0]
  /\ reply  = [r \in Reqs |-> "none"]

(* A caller fills in an idle request.  A flush does not set br_offset: the *)
(* request keeps the offset of its previous use.                           *)
Prepare(r, op, o) ==
  /\ ~locked
  /\ reply[r] # "wait"
  /\ offset' = IF op = "FLUSH" THEN offset ELSE [offset EXCEPT ![r] = o]

(* blockif_request with an element free                                    *)
Submit(r, op, o, len) ==
  /\ Prepare(r, op, o)
  /\ nfree > 0
  /\ nfree' = nfree - 1
  /\ pendq' = Append(pendq, NewElem(pendq, busyq, r, op, offset'[r], len))
  /\ reply' = [reply EXCEPT ![r] = "wait"]
  /\ UNCHANGED <<locked, busyq>>

(* blockif_request with none: E2BIG                                        *)
SubmitRefused(r, op, o) ==
  /\ Prepare(r, op, o)
  /\ nfree = 0
  /\ reply' = [reply EXCEPT ![r] = "E2BIG"]
  /\ UNCHANGED <<locked, nfree, pendq, busyq>>

(* Mutants of Cancel: the successors stay blocked; the element is lost.    *)
CancelKeepsBlocked(i) ==
  /\ ~locked
  /\ pendq' = RemoveAt(pendq, i)
  /\ nfree' = nfree + 1
  /\ reply' = [reply EXCEPT ![pendq[i].req] = "none"]
  /\ UNCHANGED <<locked, busyq, offset>>
CancelLosesElement(i) ==
  /\ ~locked
  /\ pendq' = Unblock(RemoveAt(pendq, i), offset, pendq[i].block)
  /\ reply' = [reply EXCEPT ![pendq[i].req] = "none"]
  /\ UNCHANGED <<locked, nfree, busyq, offset>>

(* blockif_cancel of the request at position i of the pending queue.  The  *)
(* rest of blockif_cancel, for a request in the busy queue, is not reached *)
(* from a caller that can take the mutex: see BusyOnlyWhileLocked.         *)
Cancel(i) ==
  /\ ~locked
  /\ pendq' = Unblock(RemoveAt(pendq, i), offset, pendq[i].block)
  /\ nfree' = nfree + 1
  /\ reply' = [reply EXCEPT ![pendq[i].req] = "none"]
  /\ UNCHANGED <<locked, busyq, offset>>

(* blockif_thr takes bc_mtx                                                *)
Enter ==
  /\ ~locked
  /\ locked' = TRUE
  /\ UNCHANGED <<nfree, pendq, busyq, offset, reply>>

(* blockif_dequeue of the element at position i and blockif_proc, up to    *)
(* and including its callback                                              *)
Start(i) ==
  /\ locked
  /\ busyq = <<>>
  /\ IsFirstPending(pendq, i)
  /\ pendq' = RemoveAt(pendq, i)
  /\ busyq' = Append(busyq, [pendq[i] EXCEPT !.status = "DONE"])
  /\ reply' = [reply EXCEPT ![pendq[i].req] = Result(pendq[i].op, RdOnly)]
  /\ UNCHANGED <<locked, nfree, offset>>

(* Mutant of Finish: the element is lost.                                  *)
FinishLosesElement ==
  /\ locked
  /\ busyq # <<>>
  /\ busyq' = Tail(busyq)
  /\ pendq' = Unblock(pendq, offset, Head(busyq).block)
  /\ UNCHANGED <<locked, nfree, offset, reply>>

(* blockif_complete, when the callback has returned                        *)
Finish ==
  /\ locked
  /\ busyq # <<>>
  /\ busyq' = Tail(busyq)
  /\ pendq' = Unblock(pendq, offset, Head(busyq).block)
  /\ nfree' = nfree + 1
  /\ UNCHANGED <<locked, offset, reply>>

(* blockif_dequeue finds no PEND element: blockif_thr drops bc_mtx         *)
Leave ==
  /\ locked
  /\ busyq = <<>>
  /\ \A i \in DOMAIN pendq : pendq[i].status = "BLOCK"
  /\ locked' = FALSE
  /\ UNCHANGED <<nfree, pendq, busyq, offset, reply>>

Drain == Enter \/ (\E i \in DOMAIN pendq : Start(i)) \/ Finish \/ Leave

Next ==
  \/ \E r \in Reqs, op \in Ops, o \in Offsets, len \in Lens : Submit(r, op, o, len)
  \/ \E r \in Reqs, op \in Ops, o \in Offsets : SubmitRefused(r, op, o)
  \/ \E i \in DOMAIN pendq : Cancel(i)
  \/ Drain

Spec == Init /\ [][Next]_vars

(* dm_loop calls blockif_thr in every iteration and nothing inside it waits *)
FairSpec == Spec /\ WF_vars(Drain)
-----------------------------------------------------------------------------
(* Types of the state.                                                     *)
TypeOK ==
  /\ locked \in BOOLEAN
  /\ nfree \in 0 .. MaxReq
  /\ pendq \in Seq(Elem)
  /\ busyq \in Seq(Elem)
  /\ offset \in [Reqs -> Nat]
  /\ reply \in [Reqs -> Errors \cup {"none", "wait", "E2BIG"}]

(* No element of bc_reqs[] is lost or used twice by the moves between the  *)
(* free, pending and busy queues (blockif_enqueue, _dequeue, _complete).   *)
Conservation == nfree + Len(pendq) + Len(busyq) = MaxReq

(* A chained request always has something to wait for: an older request,   *)
(* still queued, that ends where it starts.  A BLOCK element without one   *)
(* is never set PEND by blockif_complete, and its caller waits for ever.   *)
NoLostWakeup ==
  \A i \in DOMAIN pendq :
    pendq[i].status = "BLOCK" =>
      \/ \E j \in 1 .. (i - 1) : pendq[j].block = offset[pendq[i].req]
      \/ \E j \in DOMAIN busyq : busyq[j].block = offset[pendq[i].req]

(* Every request whose caller waits is in the pending queue, exactly once, *)
(* and the pending queue holds nothing else: a callback runs once for each *)
(* accepted request that is not cancelled (blockif_proc, blockif_cancel).  *)
WaitingIsQueued ==
  /\ \A r \in Reqs : reply[r] = "wait" <=> \E i \in DOMAIN pendq : pendq[i].req = r
  /\ \A i, j \in DOMAIN pendq : pendq[i].req = pendq[j].req => i = j

(* With no request in progress the oldest pending request may run, so      *)
(* blockif_dequeue takes the requests in the order they were issued and    *)
(* the loop of blockif_thr never stops on a queue of blocked elements.     *)
HeadRuns == busyq = <<>> /\ pendq # <<>> => pendq[1].status = "PEND"

(* The busy queue is only used under bc_mtx, by one request at a time, and *)
(* it has been answered: the loop of blockif_cancel that waits for a BUSY  *)
(* element is not reached by a caller that can take the mutex.             *)
BusyOnlyWhileLocked ==
  /\ Len(busyq) <= 1
  /\ busyq # <<>> => locked /\ busyq[1].status = "DONE"
  /\ \A i \in DOMAIN pendq : pendq[i].status # "DONE"

(* The inductive invariant: what the operations of the module preserve.    *)
IInv ==
  /\ TypeOK
  /\ Conservation
  /\ BusyOnlyWhileLocked
  /\ NoLostWakeup
  /\ WaitingIsQueued

(* A caller with at most queuesz = MaxReq - 1 requests of its own (what    *)
(* blockif_queuesz tells the AHCI device to allocate) is never refused.    *)
NeverRefused == \A r \in Reqs : reply[r] # "E2BIG"

(* When blockif_thr returns to dm_loop nothing is queued any more: every   *)
(* request is answered in the iteration that issued it, unless cancelled.  *)
DrainedAtLeave == [][locked /\ ~locked' => pendq = <<>> /\ busyq = <<>>]_vars

(* Every request accepted by blockif_request is answered or cancelled.     *)
EventuallyAnswered == \A r \in Reqs : reply[r] = "wait" ~> reply[r] # "wait"

(* The queues implement a first-in first-out service: see BlockService.    *)
Service == INSTANCE BlockService WITH
  queue   <- [i \in DOMAIN pendq |-> pendq[i].req],
  Answers <- Errors

ServiceSafety == Service!SvcSafety
ServiceSpec   == Service!SvcSpec
=============================================================================

---------------------------- MODULE BlockService ----------------------------
(***************************************************************************)
(* What the block device promises its callers, without queues of elements, *)
(* chaining or locks: requests that were accepted are answered once each,  *)
(* in the order they were accepted, unless they are withdrawn first.       *)
(***************************************************************************)
EXTENDS Integers, Sequences, SequencesExt

CONSTANTS
  Reqs,     (* the request structures of the callers                       *)
  Answers   (* what a callback can be told                                 *)

VARIABLES
  queue,    (* accepted requests that are not answered yet, oldest first   *)
  reply     (* per request: "none", "wait" or the last answer              *)

svcVars == <<queue, reply>>

SvcInit ==
  /\ queue = <<>>
  /\ reply = [r \in Reqs |-> "none"]

Accept(r) ==
  /\ reply[r] # "wait"
  /\ queue' = Append(queue, r)
  /\ reply' = [reply EXCEPT ![r] = "wait"]

Refuse(r) ==
  /\ reply[r] # "wait"
  /\ reply' = [reply EXCEPT ![r] = "E2BIG"]
  /\ UNCHANGED queue

Answer ==
  /\ queue # <<>>
  /\ queue' = Tail(queue)
  /\ \E a \in Answers : reply' = [reply EXCEPT ![Head(queue)] = a]

Withdraw(i) ==
  /\ queue' = RemoveAt(queue, i)
  /\ reply' = [reply EXCEPT ![queue[i]] = "none"]

SvcNext ==
  \/ \E r \in Reqs : Accept(r) \/ Refuse(r)
  \/ Answer
  \/ \E i \in DOMAIN queue : Withdraw(i)

SvcSafety == SvcInit /\ [][SvcNext]_svcVars

SvcSpec == SvcSafety /\ WF_svcVars(Answer)
=============================================================================

--------------------------- MODULE BlockIfProofs ----------------------------
(* Proofs about the request queues of block_if.c. *)
EXTENDS BlockIf, TLAPS, SequenceTheorems, FiniteSetTheorems

(* Removing one element of a sequence, as TAILQ_REMOVE does. *)
LEMMA RemoveAtProperties ==
  ASSUME NEW S, NEW s \in Seq(S), NEW i \in 1 .. Len(s)
  PROVE  /\ RemoveAt(s, i) \in Seq(S)
         /\ Len(RemoveAt(s, i)) = Len(s) - 1
         /\ \A j \in 1 .. (Len(s) - 1) :
              RemoveAt(s, i)[j] = IF j < i THEN s[j] ELSE s[j + 1]
<1> DEFINE a == SubSeq(s, 1, i - 1)
           b == SubSeq(s, i + 1, Len(s))
<1>0. Len(s) \in Nat /\ i \in Nat /\ i >= 1 /\ i <= Len(s)
  BY LenProperties
<1>1. /\ a \in Seq(S)
      /\ Len(a) = i - 1
      /\ \A j \in 1 .. (i - 1) : a[j] = s[j]
  <2>1. \A j \in 1 .. (i - 1) : s[j] \in S
    BY <1>0, ElementOfSeq
  <2> HIDE DEF a
  <2>2. /\ SubSeq(s, 1, i - 1) \in Seq(S)
        /\ Len(SubSeq(s, 1, i - 1)) = IF 1 <= i - 1 THEN (i - 1) - 1 + 1 ELSE 0
        /\ \A j \in 1 .. ((i - 1) - 1 + 1) : SubSeq(s, 1, i - 1)[j] = s[1 + j - 1]
    <3>1. 1 \in Int /\ i - 1 \in Int  BY <1>0
    <3> QED BY <2>1, <3>1, SubSeqProperties
  <2> QED BY <2>2, <1>0 DEF a
<1>2. /\ b \in Seq(S)
      /\ Len(b) = Len(s) - i
      /\ \A j \in 1 .. (Len(s) - i) : b[j] = s[i + j]
  <2>1. \A j \in (i + 1) .. Len(s) : s[j] \in S
    BY <1>0, ElementOfSeq
  <2> HIDE DEF b
  <2>2. /\ SubSeq(s, i + 1, Len(s)) \in Seq(S)
        /\ Len(SubSeq(s, i + 1, Len(s)))
             = IF i + 1 <= Len(s) THEN Len(s) - (i + 1) + 1 ELSE 0
        /\ \A j \in 1 .. (Len(s) - (i + 1) + 1) :
             SubSeq(s, i + 1, Len(s))[j] = s[(i + 1) + j - 1]
    <3>1. i + 1 \in Int /\ Len(s) \in Int  BY <1>0
    <3> QED BY <2>1, <3>1, SubSeqProperties
  <2> QED BY <2>2, <1>0 DEF b
<1>3. RemoveAt(s, i) = a \o b
  BY DEF RemoveAt
<1> HIDE DEF a, b
<1>4. /\ a \o b \in Seq(S)
      /\ Len(a \o b) = Len(a) + Len(b)
      /\ \A j \in 1 .. (Len(a) + Len(b)) :
           (a \o b)[j] = IF j <= Len(a) THEN a[j] ELSE b[j - Len(a)]
  BY <1>1, <1>2, ConcatProperties
<1> QED BY <1>0, <1>1, <1>2, <1>3, <1>4

(* blockif_complete changes only the status of the elements it unblocks. *)
LEMMA UnblockProperties ==
  ASSUME NEW p \in Seq(Elem), NEW off \in [Reqs -> Nat], NEW block \in Nat
  PROVE  /\ Unblock(p, off, block) \in Seq(Elem)
         /\ Len(Unblock(p, off, block)) = Len(p)
         /\ \A i \in 1 .. Len(p) :
              /\ Unblock(p, off, block)[i].req = p[i].req
              /\ Unblock(p, off, block)[i].block = p[i].block
              /\ Unblock(p, off, block)[i].status
                   = IF off[p[i].req] = block THEN "PEND" ELSE p[i].status
<1>1. Len(p) \in Nat /\ DOMAIN p = 1 .. Len(p)
  BY LenProperties
<1>2. \A i \in 1 .. Len(p) : p[i] \in Elem
  BY ElementOfSeq
<1>3. Unblock(p, off, block) \in [1 .. Len(p) -> Elem]
  BY <1>1, <1>2 DEF Unblock, Elem
<1> QED
  BY <1>1, <1>2, <1>3 DEF Unblock, Elem

LEMMA InitIInv == Init => IInv
<1> SUFFICES ASSUME Init PROVE IInv
  OBVIOUS
<1> USE DEF Init
<1>1. TypeOK
  <2>1. <<>> \in Seq(Elem)  BY EmptySeq
  <2>2. nfree \in 0 .. MaxReq  BY MaxReqAssumption
  <2>3. /\ offset \in [Reqs -> Nat]
        /\ reply \in [Reqs -> Errors \cup {"none", "wait", "E2BIG"}]
    OBVIOUS
  <2> QED BY <2>1, <2>2, <2>3 DEF TypeOK
<1>2. Len(<<>>) = 0 /\ DOMAIN <<>> = {}
  OBVIOUS
<1> QED
  BY <1>1, <1>2, MaxReqAssumption
  DEF IInv, Conservation, BusyOnlyWhileLocked, NoLostWakeup, WaitingIsQueued

LEMMA SubmitIInv ==
  ASSUME IInv, NEW r \in Reqs, NEW op \in Ops, NEW o \in Offsets, NEW len \in Lens,
         Submit(r, op, o, len)
  PROVE  IInv'
<1> DEFINE e == NewElem(pendq, busyq, r, op, offset'[r], len)
           n == Len(pendq)
<1>1. /\ ~locked /\ reply[r] # "wait" /\ nfree > 0
      /\ nfree' = nfree - 1
      /\ pendq' = Append(pendq, e)
      /\ reply' = [reply EXCEPT ![r] = "wait"]
      /\ locked' = locked /\ busyq' = busyq
  BY DEF Submit, Prepare
<1>2. TypeOK  BY DEF IInv
<1>3. o \in Nat /\ len \in Nat  BY ExtentAssumption
<1>4. offset' \in [Reqs -> Nat] /\ \A q \in Reqs : q # r => offset'[q] = offset[q]
  BY <1>2, <1>3 DEF Submit, Prepare, TypeOK
<1>5. /\ e \in Elem /\ e.req = r /\ e.status \in {"BLOCK", "PEND"}
      /\ e.status = "BLOCK" => \/ \E j \in DOMAIN pendq : pendq[j].block = offset'[r]
                               \/ \E j \in DOMAIN busyq : busyq[j].block = offset'[r]
  <2>1. offset'[r] \in Nat /\ pendq \in Seq(Elem) /\ busyq \in Seq(Elem)
    BY <1>2, <1>4 DEF TypeOK
  <2> QED BY <2>1, <1>3, OffMaxAssumption DEF NewElem, EndOf, Continues, Elem
<1> HIDE DEF e
<1>6. /\ n \in Nat /\ DOMAIN pendq = 1 .. n
      /\ \A i \in 1 .. n : pendq[i] \in Elem
  BY <1>2, LenProperties, ElementOfSeq DEF TypeOK
<1>7. /\ pendq' \in Seq(Elem) /\ Len(pendq') = n + 1 /\ DOMAIN pendq' = 1 .. (n + 1)
      /\ \A i \in 1 .. n : pendq'[i] = pendq[i]
      /\ pendq'[n + 1] = e
  BY <1>1, <1>2, <1>5, AppendProperties, LenProperties DEF TypeOK
<1>8. \A i \in 1 .. n : pendq[i].req # r
  BY <1>1, <1>6 DEF IInv, WaitingIsQueued
<1> HIDE DEF n
<1>9. TypeOK'
  BY <1>1, <1>2, <1>4, <1>7, MaxReqAssumption DEF TypeOK
<1>10. Conservation'
  BY <1>1, <1>2, <1>7, <1>6, LenProperties DEF IInv, TypeOK, Conservation, n
<1>11. BusyOnlyWhileLocked'
  BY <1>1, <1>5, <1>6, <1>7 DEF IInv, BusyOnlyWhileLocked
<1>12. NoLostWakeup'
  <2> SUFFICES ASSUME NEW i \in 1 .. (n + 1), pendq'[i].status = "BLOCK"
               PROVE  \/ \E j \in 1 .. (i - 1) : pendq'[j].block = offset'[pendq'[i].req]
                      \/ \E j \in DOMAIN busyq' : busyq'[j].block = offset'[pendq'[i].req]
    BY <1>7 DEF NoLostWakeup
  <2>1. CASE i = n + 1
    BY <2>1, <1>1, <1>5, <1>6, <1>7
  <2>2. CASE i # n + 1
    <3>1. i \in 1 .. n  BY <2>2, <1>6
    <3>2. /\ pendq'[i] = pendq[i]
          /\ offset'[pendq[i].req] = offset[pendq[i].req]
      BY <3>1, <1>4, <1>6, <1>7, <1>8 DEF Elem
    <3>3. \/ \E j \in 1 .. (i - 1) : pendq[j].block = offset[pendq[i].req]
          \/ \E j \in DOMAIN busyq : busyq[j].block = offset[pendq[i].req]
      BY <3>1, <3>2, <1>6 DEF IInv, NoLostWakeup
    <3>4. \A j \in 1 .. (i - 1) : pendq'[j] = pendq[j]
      BY <3>1, <1>6, <1>7
    <3> QED BY <3>2, <3>3, <3>4, <1>1
  <2> QED BY <2>1, <2>2
<1>13. WaitingIsQueued'
  <2>1. \A q \in Reqs : reply'[q] = "wait" <=> (q = r \/ reply[q] = "wait")
    BY <1>1, <1>2 DEF TypeOK
  <2>2. \A q \in Reqs : (\E i \in 1 .. (n + 1) : pendq'[i].req = q)
                        <=> (q = r \/ \E i \in 1 .. n : pendq[i].req = q)
    BY <1>5, <1>6, <1>7
  <2>3. \A i, j \in 1 .. (n + 1) : pendq'[i].req = pendq'[j].req => i = j
    <3> SUFFICES ASSUME NEW i \in 1 .. (n + 1), NEW j \in 1 .. (n + 1),
                        pendq'[i].req = pendq'[j].req
                 PROVE  i = j
      OBVIOUS
    <3>1. CASE i = n + 1 /\ j = n + 1
      BY <3>1
    <3>2. CASE i = n + 1 /\ j # n + 1
      BY <3>2, <1>5, <1>6, <1>7, <1>8
    <3>3. CASE i # n + 1 /\ j = n + 1
      BY <3>3, <1>5, <1>6, <1>7, <1>8
    <3>4. CASE i # n + 1 /\ j # n + 1
      BY <3>4, <1>6, <1>7 DEF IInv, WaitingIsQueued
    <3> QED BY <3>1, <3>2, <3>3, <3>4
  <2> QED BY <2>1, <2>2, <2>3, <1>6, <1>7 DEF IInv, WaitingIsQueued
<1> QED
  BY <1>9, <1>10, <1>11, <1>12, <1>13 DEF IInv

(* A request leaves the pending queue and nothing else is queued for it.   *)
LEMMA RemovedReq ==
  ASSUME IInv, NEW i \in DOMAIN pendq, NEW q \in Reqs
  PROVE  (\E j \in 1 .. (Len(pendq) - 1) : RemoveAt(pendq, i)[j].req = q)
           <=> reply[q] = "wait" /\ q # pendq[i].req
<1> DEFINE n == Len(pendq)
           p == RemoveAt(pendq, i)
<1>1. pendq \in Seq(Elem) /\ n \in Nat /\ DOMAIN pendq = 1 .. n
  BY LenProperties DEF IInv, TypeOK
<1>2. \A j \in 1 .. (n - 1) : p[j] = IF j < i THEN pendq[j] ELSE pendq[j + 1]
  BY <1>1, RemoveAtProperties
<1>3. /\ reply[q] = "wait" <=> \E j \in 1 .. n : pendq[j].req = q
      /\ \A j \in 1 .. n : pendq[j].req = pendq[i].req => j = i
  BY <1>1 DEF IInv, WaitingIsQueued
<1> HIDE DEF p, n
<1>4. ASSUME NEW j \in 1 .. (n - 1), p[j].req = q
      PROVE  reply[q] = "wait" /\ q # pendq[i].req
  <2>1. CASE j < i
    BY <2>1, <1>1, <1>2, <1>3, <1>4
  <2>2. CASE ~(j < i)
    <3>1. p[j] = pendq[j + 1] /\ j + 1 \in 1 .. n /\ j + 1 # i
      BY <2>2, <1>1, <1>2
    <3> QED BY <3>1, <1>3, <1>4
  <2> QED BY <2>1, <2>2
<1>5. ASSUME reply[q] = "wait", q # pendq[i].req
      PROVE  \E j \in 1 .. (n - 1) : p[j].req = q
  <2>1. PICK j \in 1 .. n : pendq[j].req = q
    BY <1>3, <1>5
  <2>2. CASE j < i
    <3>1. j \in 1 .. (n - 1) /\ p[j] = pendq[j]
      BY <2>2, <1>1, <1>2
    <3> QED BY <2>1, <3>1
  <2>3. CASE j > i
    <3>1. j - 1 \in 1 .. (n - 1) /\ p[j - 1] = pendq[j]
      BY <2>3, <1>1, <1>2
    <3> QED BY <2>1, <3>1
  <2>4. j # i  BY <2>1, <1>5
  <2> QED BY <2>2, <2>3, <2>4, <1>1
<1> QED
  BY <1>4, <1>5 DEF p, n

(* What is left of the pending queue still holds each request once.        *)
LEMMA RemovedUnique ==
  ASSUME IInv, NEW i \in DOMAIN pendq
  PROVE  \A j, k \in 1 .. (Len(pendq) - 1) :
           RemoveAt(pendq, i)[j].req = RemoveAt(pendq, i)[k].req => j = k
<1> DEFINE n == Len(pendq)
           at(j) == IF j < i THEN j ELSE j + 1
<1>1. pendq \in Seq(Elem) /\ n \in Nat /\ DOMAIN pendq = 1 .. n
  BY LenProperties DEF IInv, TypeOK
<1>2. \A j \in 1 .. (n - 1) :
        RemoveAt(pendq, i)[j] = pendq[at(j)] /\ at(j) \in 1 .. n
  <2>1. \A j \in 1 .. (n - 1) :
          RemoveAt(pendq, i)[j] = IF j < i THEN pendq[j] ELSE pendq[j + 1]
    BY <1>1, RemoveAtProperties
  <2>2. \A j \in 1 .. (n - 1) : at(j) \in 1 .. n
    BY <1>1
  <2>3. \A j : pendq[at(j)] = IF j < i THEN pendq[j] ELSE pendq[j + 1]
    OBVIOUS
  <2> HIDE DEF at, n
  <2> QED BY <2>1, <2>2, <2>3
<1>3. \A j, k \in 1 .. n : pendq[j].req = pendq[k].req => j = k
  BY <1>1 DEF IInv, WaitingIsQueued
<1>4. \A j, k \in 1 .. (n - 1) : at(j) = at(k) => j = k
  BY <1>1
<1> HIDE DEF at, n
<1> QED
  BY <1>2, <1>3, <1>4 DEF n

(* Removing an element leaves the status of the others.                    *)
LEMMA RemovedStatus ==
  ASSUME IInv, NEW i \in DOMAIN pendq
  PROVE  \A j \in 1 .. (Len(pendq) - 1) : RemoveAt(pendq, i)[j].status # "DONE"
<1> SUFFICES ASSUME NEW j \in 1 .. (Len(pendq) - 1)
             PROVE  RemoveAt(pendq, i)[j].status # "DONE"
  OBVIOUS
<1>1. pendq \in Seq(Elem) /\ Len(pendq) \in Nat /\ DOMAIN pendq = 1 .. Len(pendq)
  BY LenProperties DEF IInv, TypeOK
<1>2. RemoveAt(pendq, i)[j] = IF j < i THEN pendq[j] ELSE pendq[j + 1]
  BY <1>1, RemoveAtProperties
<1>3. \A k \in 1 .. Len(pendq) : pendq[k].status # "DONE"
  BY <1>1 DEF IInv, BusyOnlyWhileLocked
<1>4. j \in 1 .. Len(pendq) /\ j + 1 \in 1 .. Len(pendq)
  BY <1>1
<1> QED
  BY <1>2, <1>3, <1>4

(* The element removed was the only reason left for blocked ones: those it *)
(* does not unblock wait for another one.                                  *)
LEMMA RemovedWakeup ==
  ASSUME IInv, NEW i \in DOMAIN pendq, NEW j \in 1 .. (Len(pendq) - 1),
         RemoveAt(pendq, i)[j].status = "BLOCK",
         offset[RemoveAt(pendq, i)[j].req] # pendq[i].block
  PROVE  \/ \E k \in 1 .. (j - 1) :
              RemoveAt(pendq, i)[k].block = offset[RemoveAt(pendq, i)[j].req]
         \/ \E k \in DOMAIN busyq : busyq[k].block = offset[RemoveAt(pendq, i)[j].req]
<1> DEFINE n == Len(pendq)
           p == RemoveAt(pendq, i)
           at == IF j < i THEN j ELSE j + 1
<1>1. pendq \in Seq(Elem) /\ n \in Nat /\ DOMAIN pendq = 1 .. n
  BY LenProperties DEF IInv, TypeOK
<1>2. \A k \in 1 .. (n - 1) : p[k] = IF k < i THEN pendq[k] ELSE pendq[k + 1]
  BY <1>1, RemoveAtProperties
<1>3. at \in 1 .. n /\ p[j] = pendq[at]
  BY <1>1, <1>2
<1> HIDE DEF p
<1>4. pendq[at].status = "BLOCK" /\ offset[pendq[at].req] # pendq[i].block
  BY <1>3 DEF p
<1> HIDE DEF n
<1>5. \/ \E k \in 1 .. (at - 1) : pendq[k].block = offset[pendq[at].req]
      \/ \E k \in DOMAIN busyq : busyq[k].block = offset[pendq[at].req]
  <2> HIDE DEF at
  <2> QED BY <1>1, <1>3, <1>4 DEF IInv, NoLostWakeup
<1>6. ASSUME NEW k \in 1 .. (at - 1), pendq[k].block = offset[pendq[at].req]
      PROVE  \E m \in 1 .. (j - 1) : p[m].block = offset[p[j].req]
  <2>1. k # i  BY <1>4, <1>6
  <2>2. CASE k < i
    <3>1. k \in 1 .. (j - 1) /\ p[k] = pendq[k]
      BY <2>2, <1>1, <1>2, <1>3 DEF n
    <3> QED BY <3>1, <1>3, <1>6
  <2>3. CASE k > i
    <3>1. k - 1 \in 1 .. (j - 1) /\ p[k - 1] = pendq[k]
      BY <2>3, <1>1, <1>2, <1>3 DEF n
    <3> QED BY <3>1, <1>3, <1>6
  <2> QED BY <2>1, <2>2, <2>3, <1>1
<1> QED
  BY <1>3, <1>5, <1>6 DEF p

LEMMA CancelIInv ==
  ASSUME IInv, NEW i \in DOMAIN pendq, Cancel(i)
  PROVE  IInv'
<1> DEFINE n == Len(pendq)
           p == RemoveAt(pendq, i)
           c == pendq[i]
<1>1. TypeOK /\ pendq \in Seq(Elem) /\ n \in Nat /\ DOMAIN pendq = 1 .. n /\ n >= 1
  BY LenProperties DEF IInv, TypeOK
<1>2. c \in Elem /\ c.req \in Reqs /\ c.block \in Nat
  <2>1. c \in Elem
    BY <1>1, ElementOfSeq
  <2> QED BY <2>1 DEF Elem
<1>3. /\ pendq' = Unblock(p, offset, c.block)
      /\ nfree' = nfree + 1
      /\ reply' = [reply EXCEPT ![c.req] = "none"]
      /\ ~locked /\ locked' = locked /\ busyq' = busyq /\ offset' = offset
  BY DEF Cancel
<1>4. p \in Seq(Elem) /\ Len(p) = n - 1
  BY <1>1, RemoveAtProperties
<1> HIDE DEF p, c
<1>5. /\ pendq' \in Seq(Elem) /\ Len(pendq') = n - 1 /\ DOMAIN pendq' = 1 .. (n - 1)
      /\ \A j \in 1 .. (n - 1) :
           /\ pendq'[j].req = p[j].req /\ pendq'[j].block = p[j].block
           /\ pendq'[j].status = IF offset[p[j].req] = c.block THEN "PEND" ELSE p[j].status
  <2>1. offset \in [Reqs -> Nat]  BY <1>1 DEF TypeOK
  <2>2. /\ Unblock(p, offset, c.block) \in Seq(Elem)
        /\ Len(Unblock(p, offset, c.block)) = Len(p)
        /\ \A j \in 1 .. Len(p) :
             /\ Unblock(p, offset, c.block)[j].req = p[j].req
             /\ Unblock(p, offset, c.block)[j].block = p[j].block
             /\ Unblock(p, offset, c.block)[j].status
                  = IF offset[p[j].req] = c.block THEN "PEND" ELSE p[j].status
    BY <2>1, <1>2, <1>4, UnblockProperties
  <2> HIDE DEF n
  <2> QED BY <2>2, <1>1, <1>3, <1>4, LenProperties
<1>6. \A j \in 1 .. (n - 1) : p[j].status # "DONE"
  BY RemovedStatus DEF n, p
<1> HIDE DEF n
<1>7. Conservation'
  BY <1>1, <1>3, <1>5, LenProperties DEF IInv, TypeOK, Conservation, n
<1>8. TypeOK'
  <2>1. nfree' \in 0 .. MaxReq
    <3>1. Len(pendq') \in Nat /\ Len(busyq') \in Nat /\ nfree' \in Nat
      BY <1>1, <1>3, <1>5, LenProperties DEF TypeOK
    <3> QED BY <1>7, <3>1, MaxReqAssumption DEF Conservation
  <2> QED BY <1>1, <1>2, <1>3, <1>5, <2>1 DEF TypeOK
<1>9. BusyOnlyWhileLocked'
  BY <1>3, <1>5, <1>6 DEF IInv, BusyOnlyWhileLocked
<1>10. NoLostWakeup'
  <2> SUFFICES ASSUME NEW j \in 1 .. (n - 1), pendq'[j].status = "BLOCK"
               PROVE  \/ \E k \in 1 .. (j - 1) : pendq'[k].block = offset'[pendq'[j].req]
                      \/ \E k \in DOMAIN busyq' : busyq'[k].block = offset'[pendq'[j].req]
    BY <1>5 DEF NoLostWakeup
  <2>1. p[j].status = "BLOCK" /\ offset[p[j].req] # c.block /\ pendq'[j].req = p[j].req
    BY <1>5
  <2>2. \/ \E k \in 1 .. (j - 1) : p[k].block = offset[p[j].req]
        \/ \E k \in DOMAIN busyq : busyq[k].block = offset[p[j].req]
    BY <2>1, RemovedWakeup DEF n, p, c
  <2>3. \A k \in 1 .. (j - 1) : pendq'[k].block = p[k].block
    BY <1>1, <1>5
  <2> QED BY <2>1, <2>2, <2>3, <1>3
<1>11. WaitingIsQueued'
  <2>1. \A q \in Reqs : reply'[q] = "wait" <=> (reply[q] = "wait" /\ q # c.req)
    BY <1>1, <1>2, <1>3 DEF TypeOK
  <2>2. \A q \in Reqs : (\E j \in 1 .. (n - 1) : p[j].req = q)
                          <=> (reply[q] = "wait" /\ q # c.req)
    BY RemovedReq DEF n, p, c
  <2>3. \A j, k \in 1 .. (n - 1) : p[j].req = p[k].req => j = k
    BY RemovedUnique DEF n, p
  <2> QED BY <2>1, <2>2, <2>3, <1>5 DEF WaitingIsQueued
<1> QED
  BY <1>7, <1>8, <1>9, <1>10, <1>11 DEF IInv

LEMMA StartIInv ==
  ASSUME IInv, NEW i \in DOMAIN pendq, Start(i)
  PROVE  IInv'
<1> DEFINE n == Len(pendq)
           p == RemoveAt(pendq, i)
           c == pendq[i]
           d == [c EXCEPT !.status = "DONE"]
<1>1. TypeOK /\ pendq \in Seq(Elem) /\ n \in Nat /\ DOMAIN pendq = 1 .. n /\ n >= 1
  BY LenProperties DEF IInv, TypeOK
<1>2. /\ c \in Elem /\ c.req \in Reqs /\ c.block \in Nat
      /\ d \in Elem /\ d.block = c.block /\ d.status = "DONE"
  <2>1. c \in Elem
    BY <1>1, ElementOfSeq
  <2> HIDE DEF c
  <2> QED BY <2>1 DEF Elem
<1>3. /\ locked /\ busyq = <<>>
      /\ pendq' = p
      /\ busyq' = Append(busyq, d)
      /\ reply' = [reply EXCEPT ![c.req] = Result(c.op, RdOnly)]
      /\ locked' = locked /\ nfree' = nfree /\ offset' = offset
  BY DEF Start
<1>4. p \in Seq(Elem) /\ Len(p) = n - 1 /\ DOMAIN p = 1 .. (n - 1)
  BY <1>1, RemoveAtProperties, LenProperties
<1>5. \A j \in 1 .. (n - 1) : p[j].status # "DONE"
  BY RemovedStatus DEF n, p
<1> HIDE DEF p, d, n
<1>6. /\ busyq' \in Seq(Elem) /\ Len(busyq') = 1 /\ DOMAIN busyq' = {1} /\ busyq'[1] = d
      /\ Len(busyq) = 0
  <2>1. busyq' = <<d>>
    BY <1>3
  <2> QED BY <2>1, <1>2, <1>3
<1> HIDE DEF c
<1>7. Conservation'
  BY <1>1, <1>3, <1>4, <1>6, MaxReqAssumption DEF IInv, TypeOK, Conservation, n
<1>8. TypeOK'
  <2>1. Result(c.op, RdOnly) \in Errors /\ Result(c.op, RdOnly) # "wait"
    BY DEF Result, Errors
  <2> QED BY <1>1, <1>2, <1>3, <1>4, <1>6, <2>1 DEF TypeOK
<1>9. BusyOnlyWhileLocked'
  BY <1>2, <1>3, <1>4, <1>5, <1>6 DEF BusyOnlyWhileLocked
<1>10. NoLostWakeup'
  <2> SUFFICES ASSUME NEW j \in 1 .. (n - 1), p[j].status = "BLOCK"
               PROVE  \/ \E k \in 1 .. (j - 1) : p[k].block = offset[p[j].req]
                      \/ d.block = offset[p[j].req]
    BY <1>3, <1>4, <1>6 DEF NoLostWakeup
  <2>1. CASE offset[p[j].req] = c.block
    BY <2>1, <1>2
  <2>2. CASE offset[p[j].req] # c.block
    <3>1. \/ \E k \in 1 .. (j - 1) : p[k].block = offset[p[j].req]
          \/ \E k \in DOMAIN busyq : busyq[k].block = offset[p[j].req]
      BY <2>2, RemovedWakeup DEF n, p, c
    <3> QED BY <3>1, <1>3
  <2> QED BY <2>1, <2>2
<1>11. WaitingIsQueued'
  <2>1. Result(c.op, RdOnly) # "wait"
    BY DEF Result
  <2>2. \A q \in Reqs : reply'[q] = "wait" <=> (reply[q] = "wait" /\ q # c.req)
    BY <1>1, <1>2, <1>3, <2>1 DEF TypeOK
  <2>3. \A q \in Reqs : (\E j \in 1 .. (n - 1) : p[j].req = q)
                          <=> (reply[q] = "wait" /\ q # c.req)
    BY RemovedReq DEF n, p, c
  <2>4. \A j, k \in 1 .. (n - 1) : p[j].req = p[k].req => j = k
    BY RemovedUnique DEF n, p
  <2> QED BY <2>2, <2>3, <2>4, <1>3, <1>4 DEF WaitingIsQueued
<1> QED
  BY <1>7, <1>8, <1>9, <1>10, <1>11 DEF IInv

LEMMA FinishIInv ==
  ASSUME IInv, Finish
  PROVE  IInv'
<1> DEFINE n == Len(pendq)
           d == busyq[1]
<1>1. TypeOK /\ pendq \in Seq(Elem) /\ n \in Nat /\ DOMAIN pendq = 1 .. n
  BY LenProperties DEF IInv, TypeOK
<1>2. /\ busyq \in Seq(Elem) /\ Len(busyq) = 1 /\ DOMAIN busyq = {1}
      /\ d \in Elem /\ d.block \in Nat /\ Head(busyq) = d
  <2>1. busyq \in Seq(Elem) /\ busyq # <<>> /\ Len(busyq) <= 1
    BY <1>1 DEF Finish, TypeOK, IInv, BusyOnlyWhileLocked
  <2>2. Len(busyq) = 1 /\ DOMAIN busyq = {1}
    <3>1. Len(busyq) \in Nat \ {0} /\ DOMAIN busyq = 1 .. Len(busyq)
      BY <2>1, EmptySeq, LenProperties
    <3>2. Len(busyq) = 1
      BY <2>1, <3>1
    <3> QED BY <3>1, <3>2
  <2>3. d \in Elem
    BY <2>1, <2>2, ElementOfSeq
  <2> HIDE DEF d
  <2>4. d.block \in Nat
    BY <2>3 DEF Elem
  <2> QED BY <2>1, <2>2, <2>3, <2>4 DEF d
<1> HIDE DEF d
<1>3. /\ locked
      /\ pendq' = Unblock(pendq, offset, d.block)
      /\ nfree' = nfree + 1
      /\ locked' = locked /\ offset' = offset /\ reply' = reply
  BY <1>2 DEF Finish
<1>4. busyq' = <<>> /\ busyq' \in Seq(Elem) /\ Len(busyq') = 0 /\ DOMAIN busyq' = {}
  <2>1. busyq' \in Seq(Elem) /\ Len(busyq') = 0
    BY <1>2, HeadTailProperties, EmptySeq DEF Finish
  <2> QED BY <2>1, EmptySeq, LenProperties
<1>5. /\ pendq' \in Seq(Elem) /\ Len(pendq') = n /\ DOMAIN pendq' = 1 .. n
      /\ \A j \in 1 .. n :
           /\ pendq'[j].req = pendq[j].req /\ pendq'[j].block = pendq[j].block
           /\ pendq'[j].status = IF offset[pendq[j].req] = d.block
                                   THEN "PEND" ELSE pendq[j].status
  <2> DEFINE u == Unblock(pendq, offset, d.block)
  <2>1. offset \in [Reqs -> Nat]
    BY <1>1 DEF TypeOK
  <2>2. /\ u \in Seq(Elem) /\ Len(u) = n
        /\ \A j \in 1 .. n :
             /\ u[j].req = pendq[j].req
             /\ u[j].block = pendq[j].block
             /\ u[j].status = IF offset[pendq[j].req] = d.block
                                THEN "PEND" ELSE pendq[j].status
    BY <1>1, <1>2, <2>1, UnblockProperties
  <2> HIDE DEF u
  <2>3. DOMAIN u = 1 .. n
    BY <2>2, LenProperties
  <2>4. pendq' = u
    BY <1>3 DEF u
  <2> HIDE DEF n
  <2> QED BY <2>2, <2>3, <2>4
<1>6. \A j \in 1 .. n : pendq[j].status # "DONE"
  BY <1>1 DEF IInv, BusyOnlyWhileLocked
<1> HIDE DEF n
<1>7. Conservation'
  BY <1>1, <1>2, <1>3, <1>4, <1>5 DEF IInv, TypeOK, Conservation, n
<1>8. TypeOK'
  <2>1. nfree' \in 0 .. MaxReq
    BY <1>1, <1>3, <1>4, <1>5, <1>7, MaxReqAssumption DEF Conservation, TypeOK
  <2> QED BY <1>1, <1>3, <1>4, <1>5, <2>1 DEF TypeOK
<1>9. BusyOnlyWhileLocked'
  BY <1>4, <1>5, <1>6 DEF BusyOnlyWhileLocked
<1>10. NoLostWakeup'
  <2> SUFFICES ASSUME NEW j \in 1 .. n, pendq'[j].status = "BLOCK"
               PROVE  \E k \in 1 .. (j - 1) : pendq'[k].block = offset'[pendq'[j].req]
    BY <1>5 DEF NoLostWakeup
  <2>1. pendq[j].status = "BLOCK" /\ offset[pendq[j].req] # d.block
        /\ pendq'[j].req = pendq[j].req
    BY <1>5
  <2>2. \E k \in 1 .. (j - 1) : pendq[k].block = offset[pendq[j].req]
    BY <2>1, <1>1, <1>2 DEF IInv, NoLostWakeup, d
  <2>3. \A k \in 1 .. (j - 1) : pendq'[k].block = pendq[k].block
    BY <1>1, <1>5
  <2> QED BY <2>1, <2>2, <2>3, <1>3
<1>11. WaitingIsQueued'
  BY <1>1, <1>3, <1>5 DEF IInv, WaitingIsQueued
<1> QED
  BY <1>7, <1>8, <1>9, <1>10, <1>11 DEF IInv

(* Steps that leave the queues alone.                                      *)
LEMMA QuietIInv ==
  ASSUME IInv,
         \/ \E r \in Reqs, op \in Ops, o \in Offsets : SubmitRefused(r, op, o)
         \/ Enter \/ Leave \/ UNCHANGED vars
  PROVE  IInv'
<1>1. CASE UNCHANGED vars
  BY <1>1 DEF IInv, vars, TypeOK, Conservation, BusyOnlyWhileLocked, NoLostWakeup,
              WaitingIsQueued
<1>2. CASE Enter
  BY <1>2 DEF IInv, Enter, TypeOK, Conservation, BusyOnlyWhileLocked, NoLostWakeup,
              WaitingIsQueued
<1>3. CASE Leave
  <2>1. /\ busyq' = busyq /\ locked' = FALSE /\ nfree' = nfree
        /\ pendq' = pendq /\ offset' = offset /\ reply' = reply
    BY <1>3 DEF Leave
  <2>2. busyq = <<>>
    BY <1>3 DEF Leave
  <2>3. TypeOK' /\ Conservation'
    BY <2>1 DEF IInv, TypeOK, Conservation
  <2>4. NoLostWakeup' /\ WaitingIsQueued'
    BY <2>1 DEF IInv, NoLostWakeup, WaitingIsQueued
  <2>5. BusyOnlyWhileLocked'
    BY <2>1, <2>2 DEF IInv, BusyOnlyWhileLocked
  <2> QED BY <2>3, <2>4, <2>5 DEF IInv
<1>4. ASSUME NEW r \in Reqs, NEW op \in Ops, NEW o \in Offsets, SubmitRefused(r, op, o)
      PROVE  IInv'
  <2>1. /\ reply[r] # "wait" /\ reply' = [reply EXCEPT ![r] = "E2BIG"]
        /\ locked' = locked /\ nfree' = nfree /\ pendq' = pendq /\ busyq' = busyq
    BY <1>4 DEF SubmitRefused, Prepare
  <2>2. TypeOK /\ DOMAIN pendq = 1 .. Len(pendq)
    BY LenProperties DEF IInv, TypeOK
  <2>3. offset' \in [Reqs -> Nat] /\ \A q \in Reqs : q # r => offset'[q] = offset[q]
    BY <1>4, <2>2, ExtentAssumption DEF SubmitRefused, Prepare, TypeOK
  <2>4. \A i \in DOMAIN pendq : pendq[i].req # r /\ pendq[i].req \in Reqs
    <3> TAKE i \in DOMAIN pendq
    <3>1. pendq[i] \in Elem
      BY <2>2, ElementOfSeq DEF TypeOK
    <3>2. pendq[i].req \in Reqs
      BY <3>1 DEF Elem
    <3> QED BY <2>1, <3>2 DEF IInv, WaitingIsQueued
  <2>5. \A i \in DOMAIN pendq : offset'[pendq[i].req] = offset[pendq[i].req]
    BY <2>3, <2>4
  <2>6. TypeOK' /\ Conservation' /\ BusyOnlyWhileLocked'
    BY <2>1, <2>2, <2>3 DEF IInv, TypeOK, Conservation, BusyOnlyWhileLocked
  <2>7. NoLostWakeup'
    BY <2>1, <2>5 DEF IInv, NoLostWakeup
  <2>8. WaitingIsQueued'
    BY <2>1, <2>2 DEF IInv, WaitingIsQueued, TypeOK
  <2> QED BY <2>6, <2>7, <2>8 DEF IInv
<1> QED
  BY <1>1, <1>2, <1>3, <1>4

LEMMA NextIInv == IInv /\ [Next]_vars => IInv'
<1> SUFFICES ASSUME IInv, [Next]_vars PROVE IInv'
  OBVIOUS
<1>1. CASE \E r \in Reqs, op \in Ops, o \in Offsets, len \in Lens : Submit(r, op, o, len)
  BY <1>1, SubmitIInv
<1>2. CASE \E i \in DOMAIN pendq : Cancel(i)
  BY <1>2, CancelIInv
<1>3. CASE \E i \in DOMAIN pendq : Start(i)
  BY <1>3, StartIInv
<1>4. CASE Finish
  BY <1>4, FinishIInv
<1> QED
  BY <1>1, <1>2, <1>3, <1>4, QuietIInv DEF Next, Drain

(* The queues of block_if.c keep their invariant for any number of         *)
(* elements, requests, offsets and lengths.                                *)
THEOREM QueueInvariant == Spec => []IInv
<1> QED
  BY InitIInv, NextIInv, PTL DEF Spec

(* Types of the state of block_if.c.                                       *)
THEOREM TypeCorrect == Spec => []TypeOK
<1>1. IInv => TypeOK
  BY DEF IInv
<1> QED
  BY <1>1, QueueInvariant, PTL

(* blockif_complete never strands a request chained behind another one.    *)
THEOREM NoRequestStranded == Spec => []NoLostWakeup
<1>1. IInv => NoLostWakeup
  BY DEF IInv
<1> QED
  BY <1>1, QueueInvariant, PTL

(* A request the caller waits for is queued exactly once.                  *)
THEOREM CallbackOnce == Spec => []WaitingIsQueued
<1>1. IInv => WaitingIsQueued
  BY DEF IInv
<1> QED
  BY <1>1, QueueInvariant, PTL

(* The waiting callers fill the pending queue, each in one place: with     *)
(* every element taken there are at least as many of them, and the caller  *)
(* that finds none free is one more.                                       *)
LEMMA ElementFree ==
  ASSUME IsFiniteSet(Reqs), Cardinality(Reqs) <= MaxReq, IInv, ~locked,
         NEW r \in Reqs, reply[r] # "wait"
  PROVE  nfree > 0
<1> DEFINE n == Len(pendq)
           f == [i \in 1 .. n |-> pendq[i].req]
           T == Reqs \ {r}
<1>1. /\ n \in Nat /\ DOMAIN pendq = 1 .. n
      /\ \A i \in 1 .. n : pendq[i].req \in Reqs
  <2>1. pendq \in Seq(Elem)
    BY DEF IInv, TypeOK
  <2>2. n \in Nat /\ DOMAIN pendq = 1 .. n /\ \A i \in 1 .. n : pendq[i] \in Elem
    BY <2>1, LenProperties, ElementOfSeq
  <2> QED BY <2>2 DEF Elem
<1>2. nfree \in Nat /\ nfree + n = MaxReq
  <2>1. busyq = <<>>
    BY DEF IInv, BusyOnlyWhileLocked
  <2>2. Len(busyq) = 0
    BY <2>1
  <2> QED BY <2>2, <1>1, MaxReqAssumption DEF IInv, TypeOK, Conservation
<1>3. f \in Injection(1 .. n, T)
  <2>1. \A i \in 1 .. n : pendq[i].req # r
    BY <1>1 DEF IInv, WaitingIsQueued
  <2>2. f \in [1 .. n -> T]
    BY <1>1, <2>1
  <2>3. \A i, j \in 1 .. n : f[i] = f[j] => i = j
    BY <1>1 DEF IInv, WaitingIsQueued
  <2> QED BY <2>2, <2>3 DEF Injection, IsInjective
<1>4. /\ IsFiniteSet(T) /\ Cardinality(T) = Cardinality(Reqs) - 1
      /\ Cardinality(Reqs) \in Nat
  BY FS_RemoveElement, FS_CardinalityType
<1>5. Cardinality(1 .. n) = n
  BY <1>1, FS_Interval
<1>6. Cardinality(1 .. n) <= Cardinality(T)
  <2> HIDE DEF f, T
  <2> QED BY <1>3, <1>4, FS_Injection
<1> QED BY <1>1, <1>2, <1>4, <1>5, <1>6

(* Callers that are no more than the elements of bc_reqs[] never see E2BIG *)
(* (blockif_request): the AHCI device, which has blockif_queuesz requests, *)
(* one less than the elements, needs no answer to it.                      *)
THEOREM CallersFit ==
  ASSUME IsFiniteSet(Reqs), Cardinality(Reqs) <= MaxReq
  PROVE  Spec => []NeverRefused
<1>1. Init => NeverRefused
  BY DEF Init, NeverRefused
<1>2. IInv /\ NeverRefused /\ [Next]_vars => NeverRefused'
  <2> SUFFICES ASSUME IInv, NeverRefused, [Next]_vars PROVE NeverRefused'
    OBVIOUS
  <2>1. reply \in [Reqs -> Errors \cup {"none", "wait", "E2BIG"}]
    BY DEF IInv, TypeOK
  <2>2. ASSUME NEW r \in Reqs, NEW op \in Ops, NEW o \in Offsets, NEW len \in Lens,
               Submit(r, op, o, len)
        PROVE  NeverRefused'
    BY <2>1, <2>2 DEF Submit, NeverRefused
  <2>3. ASSUME NEW r \in Reqs, NEW op \in Ops, NEW o \in Offsets, SubmitRefused(r, op, o)
        PROVE  FALSE
    BY <2>3, ElementFree DEF SubmitRefused, Prepare
  <2>4. ASSUME NEW i \in DOMAIN pendq, Cancel(i)
        PROVE  NeverRefused'
    BY <2>1, <2>4 DEF Cancel, NeverRefused
  <2>5. ASSUME NEW i \in DOMAIN pendq, Start(i)
        PROVE  NeverRefused'
    BY <2>1, <2>5 DEF Start, Result, NeverRefused
  <2>6. CASE Enter \/ Finish \/ Leave \/ UNCHANGED vars
    BY <2>6 DEF Enter, Finish, Leave, vars, NeverRefused
  <2> QED BY <2>2, <2>3, <2>4, <2>5, <2>6 DEF Next, Drain
<1> QED
  BY <1>1, <1>2, QueueInvariant, PTL DEF Spec

LEMMA HeadMayRun == IInv => HeadRuns
<1> SUFFICES ASSUME IInv, busyq = <<>>, pendq # <<>> PROVE pendq[1].status = "PEND"
  BY DEF HeadRuns
<1>1. 1 \in DOMAIN pendq
  BY EmptySeq, LenProperties DEF IInv, TypeOK
<1>2. pendq[1] \in Elem
  BY <1>1, LenProperties, ElementOfSeq DEF IInv, TypeOK
<1>3. pendq[1].status # "BLOCK"
  BY <1>1 DEF IInv, NoLostWakeup
<1>4. pendq[1].status # "DONE"
  BY <1>1 DEF IInv, BusyOnlyWhileLocked
<1> QED
  BY <1>2, <1>3, <1>4 DEF Elem

(* blockif_dequeue always takes the oldest request.                        *)
THEOREM OldestRuns == Spec => []HeadRuns
<1> QED
  BY HeadMayRun, QueueInvariant, PTL

(* blockif_thr leaves nothing behind.                                      *)
THEOREM NothingLeftBehind == Spec => DrainedAtLeave
<1>1. IInv /\ [Next]_vars => [locked /\ ~locked' => pendq = <<>> /\ busyq = <<>>]_vars
  <2> SUFFICES ASSUME IInv, Next, locked, ~locked'
               PROVE  pendq = <<>> /\ busyq = <<>>
    OBVIOUS
  <2>1. Leave
    BY DEF Next, Submit, SubmitRefused, Prepare, Cancel, Drain, Enter, Start, Finish
  <2>2. pendq # <<>> => 1 \in DOMAIN pendq
    BY EmptySeq, LenProperties DEF IInv, TypeOK
  <2> QED BY <2>1, <2>2, HeadMayRun DEF Leave, HeadRuns
<1> QED
  BY <1>1, QueueInvariant, PTL DEF Spec, DrainedAtLeave

-----------------------------------------------------------------------------
(* The refinement: the requests of the pending queue, in their order, are  *)
(* the queue of the first-in first-out service.                            *)
reqsOf(p) == [i \in DOMAIN p |-> p[i].req]

LEMMA ReqsOfProperties ==
  ASSUME NEW p \in Seq(Elem)
  PROVE  /\ reqsOf(p) \in Seq(Reqs) /\ Len(reqsOf(p)) = Len(p)
         /\ \A i \in 1 .. Len(p) : reqsOf(p)[i] = p[i].req
<1>1. Len(p) \in Nat /\ DOMAIN p = 1 .. Len(p) /\ \A i \in 1 .. Len(p) : p[i] \in Elem
  BY LenProperties, ElementOfSeq
<1>2. reqsOf(p) \in [1 .. Len(p) -> Reqs]
  BY <1>1 DEF reqsOf, Elem
<1> QED
  BY <1>1, <1>2 DEF reqsOf

LEMMA SubmitAccepts ==
  ASSUME IInv, NEW r \in Reqs, NEW op \in Ops, NEW o \in Offsets, NEW len \in Lens,
         Submit(r, op, o, len)
  PROVE  reqsOf(pendq') = Append(reqsOf(pendq), r)
<1> DEFINE e == NewElem(pendq, busyq, r, op, offset'[r], len)
<1>1. pendq' = Append(pendq, e) /\ pendq \in Seq(Elem) /\ pendq' \in Seq(Elem)
  BY SubmitIInv DEF Submit, IInv, TypeOK
<1>2. e.req = r
  BY DEF NewElem
<1> HIDE DEF e
<1>3. e \in Elem
  <2>1. Len(pendq') = Len(pendq) + 1 /\ pendq'[Len(pendq) + 1] = e /\ Len(pendq) \in Nat
    BY <1>1, LenProperties
  <2> QED BY <1>1, <2>1, ElementOfSeq
<1>4. /\ Len(pendq') = Len(pendq) + 1 /\ Len(pendq) \in Nat
      /\ \A i \in 1 .. Len(pendq) : pendq'[i] = pendq[i]
      /\ pendq'[Len(pendq) + 1] = e
  BY <1>1, <1>3, AppendProperties, LenProperties
<1> DEFINE s == reqsOf(pendq')
           t == Append(reqsOf(pendq), r)
<1>5. /\ s \in Seq(Reqs) /\ Len(s) = Len(pendq) + 1
      /\ \A i \in 1 .. (Len(pendq) + 1) : s[i] = pendq'[i].req
  BY <1>1, <1>4, ReqsOfProperties
<1>6. /\ t \in Seq(Reqs) /\ Len(t) = Len(pendq) + 1
      /\ \A i \in 1 .. Len(pendq) : t[i] = pendq[i].req
      /\ t[Len(pendq) + 1] = r
  BY <1>1, <1>4, ReqsOfProperties, AppendProperties
<1> HIDE DEF s, t
<1>7. \A i \in 1 .. Len(s) : s[i] = t[i]
  BY <1>2, <1>4, <1>5, <1>6
<1>8. s = t
  BY <1>5, <1>6, <1>7, SeqEqual
<1> QED
  BY <1>8 DEF s, t

LEMMA CancelWithdraws ==
  ASSUME IInv, NEW i \in DOMAIN pendq, Cancel(i)
  PROVE  reqsOf(pendq') = RemoveAt(reqsOf(pendq), i)
<1> DEFINE n == Len(pendq)
           p == RemoveAt(pendq, i)
           s == reqsOf(pendq')
           w == reqsOf(pendq)
           t == RemoveAt(w, i)
<1>1. pendq \in Seq(Elem) /\ n \in Nat /\ DOMAIN pendq = 1 .. n /\ offset \in [Reqs -> Nat]
  BY LenProperties DEF IInv, TypeOK
<1>2. pendq[i].block \in Nat
  <2>1. pendq[i] \in Elem
    BY <1>1, ElementOfSeq
  <2> QED BY <2>1 DEF Elem
<1>3. /\ p \in Seq(Elem) /\ Len(p) = n - 1
      /\ \A j \in 1 .. (n - 1) : p[j] = IF j < i THEN pendq[j] ELSE pendq[j + 1]
  BY <1>1, RemoveAtProperties
<1>4. pendq' = Unblock(p, offset, pendq[i].block)
  BY DEF Cancel
<1> HIDE DEF p
<1>5. /\ pendq' \in Seq(Elem) /\ Len(pendq') = n - 1
      /\ \A j \in 1 .. (n - 1) : pendq'[j].req = p[j].req
  <2> DEFINE u == Unblock(p, offset, pendq[i].block)
  <2>1. /\ u \in Seq(Elem) /\ Len(u) = Len(p)
        /\ \A j \in 1 .. Len(p) : u[j].req = p[j].req
    <3> DEFINE b == pendq[i].block
    <3>1. p \in Seq(Elem) /\ offset \in [Reqs -> Nat] /\ b \in Nat
      BY <1>1, <1>2, <1>3
    <3> HIDE DEF b
    <3>2. /\ Unblock(p, offset, b) \in Seq(Elem) /\ Len(Unblock(p, offset, b)) = Len(p)
          /\ \A j \in 1 .. Len(p) : Unblock(p, offset, b)[j].req = p[j].req
      BY <3>1, UnblockProperties
    <3> QED BY <3>2 DEF b
  <2> HIDE DEF u
  <2> QED BY <2>1, <1>3, <1>4 DEF u
<1>6. /\ s \in Seq(Reqs) /\ Len(s) = n - 1
      /\ \A j \in 1 .. (n - 1) : s[j] = p[j].req
  BY <1>5, ReqsOfProperties
<1>7. /\ w \in Seq(Reqs) /\ Len(w) = n
      /\ \A j \in 1 .. n : w[j] = pendq[j].req
  BY <1>1, ReqsOfProperties
<1> HIDE DEF s, w, n
<1>8. /\ t \in Seq(Reqs) /\ Len(t) = n - 1
      /\ \A j \in 1 .. (n - 1) : t[j] = IF j < i THEN w[j] ELSE w[j + 1]
  <2>1. i \in 1 .. Len(w)
    BY <1>1, <1>7
  <2> QED BY <2>1, <1>7, RemoveAtProperties
<1> HIDE DEF t
<1>9. \A j \in 1 .. Len(s) : s[j] = t[j]
  <2> SUFFICES ASSUME NEW j \in 1 .. (n - 1) PROVE s[j] = t[j]
    BY <1>6
  <2>1. j \in 1 .. n /\ j + 1 \in 1 .. n
    BY <1>1
  <2> QED BY <2>1, <1>3, <1>6, <1>7, <1>8
<1>10. s = t
  BY <1>6, <1>8, <1>9, SeqEqual
<1> QED
  BY <1>10 DEF s, t, w

LEMMA StartAnswers ==
  ASSUME IInv, NEW i \in DOMAIN pendq, Start(i)
  PROVE  /\ reqsOf(pendq) # <<>>
         /\ Head(reqsOf(pendq)) = pendq[i].req
         /\ reqsOf(pendq') = Tail(reqsOf(pendq))
<1> DEFINE n == Len(pendq)
           w == reqsOf(pendq)
           s == reqsOf(pendq')
           t == Tail(w)
<1>1. pendq \in Seq(Elem) /\ n \in Nat /\ DOMAIN pendq = 1 .. n /\ n >= 1
  BY LenProperties DEF IInv, TypeOK
<1>2. i = 1
  <2>1. busyq = <<>> /\ \A j \in 1 .. (i - 1) : pendq[j].status = "BLOCK"
    BY DEF Start, IsFirstPending
  <2>2. pendq # <<>>
    BY <1>1, EmptySeq
  <2>3. pendq[1].status = "PEND"
    BY <2>1, <2>2, HeadMayRun DEF HeadRuns
  <2>4. 1 \in 1 .. (i - 1) \/ i = 1
    BY <1>1
  <2> QED BY <2>1, <2>3, <2>4
<1>3. pendq' = RemoveAt(pendq, 1)
  BY <1>2 DEF Start
<1>4. /\ pendq' \in Seq(Elem) /\ Len(pendq') = n - 1
      /\ \A j \in 1 .. (n - 1) : pendq'[j] = pendq[j + 1]
  <2>1. 1 \in 1 .. n
    BY <1>1
  <2>2. /\ RemoveAt(pendq, 1) \in Seq(Elem) /\ Len(RemoveAt(pendq, 1)) = n - 1
        /\ \A j \in 1 .. (n - 1) :
             RemoveAt(pendq, 1)[j] = IF j < 1 THEN pendq[j] ELSE pendq[j + 1]
    BY <1>1, <2>1, RemoveAtProperties
  <2>3. \A j \in 1 .. (n - 1) : ~(j < 1)
    BY <1>1
  <2> QED BY <1>3, <2>2, <2>3
<1>5. /\ w \in Seq(Reqs) /\ Len(w) = n
      /\ \A j \in 1 .. n : w[j] = pendq[j].req
  BY <1>1, ReqsOfProperties
<1>6. /\ s \in Seq(Reqs) /\ Len(s) = n - 1
      /\ \A j \in 1 .. (n - 1) : s[j] = pendq'[j].req
  BY <1>4, ReqsOfProperties
<1> HIDE DEF w, s, n
<1>7. w # <<>>
  BY <1>1, <1>5, EmptySeq
<1>8. t \in Seq(Reqs) /\ Len(t) = n - 1 /\ \A j \in 1 .. (n - 1) : t[j] = w[j + 1]
  BY <1>1, <1>5, <1>7, HeadTailProperties
<1> HIDE DEF t
<1>9. \A j \in 1 .. Len(s) : s[j] = t[j]
  <2> SUFFICES ASSUME NEW j \in 1 .. (n - 1) PROVE s[j] = t[j]
    BY <1>6
  <2>1. j + 1 \in 1 .. n
    BY <1>1
  <2> QED BY <2>1, <1>4, <1>5, <1>6, <1>8
<1>10. s = t
  BY <1>6, <1>8, <1>9, SeqEqual
<1>11. Head(w) = w[1] /\ 1 \in 1 .. n
  BY <1>1, <1>5, <1>7
<1> QED
  BY <1>2, <1>5, <1>7, <1>10, <1>11 DEF w, s, t

LEMMA FinishStutters ==
  ASSUME IInv, Finish
  PROVE  reqsOf(pendq') = reqsOf(pendq)
<1> DEFINE d == Head(busyq)
           u == Unblock(pendq, offset, d.block)
<1>1. /\ pendq \in Seq(Elem) /\ offset \in [Reqs -> Nat]
      /\ busyq \in Seq(Elem) /\ busyq # <<>> /\ pendq' = u
  BY DEF IInv, TypeOK, Finish
<1>2. d.block \in Nat
  <2>1. d \in Elem
    BY <1>1, HeadTailProperties
  <2> QED BY <2>1 DEF Elem
<1> HIDE DEF d
<1>3. /\ u \in Seq(Elem) /\ Len(u) = Len(pendq)
      /\ \A j \in 1 .. Len(pendq) : u[j].req = pendq[j].req
  BY <1>1, <1>2, UnblockProperties
<1> HIDE DEF u
<1>4. DOMAIN u = DOMAIN pendq /\ DOMAIN pendq = 1 .. Len(pendq)
  BY <1>1, <1>3, LenProperties
<1> QED
  BY <1>1, <1>3, <1>4 DEF reqsOf

LEMMA StepRefines == IInv /\ [Next]_vars => [Service!SvcNext]_(Service!svcVars)
<1> SUFFICES ASSUME IInv, [Next]_vars PROVE [Service!SvcNext]_(Service!svcVars)
  OBVIOUS
<1> USE DEF reqsOf
<1>1. ASSUME NEW r \in Reqs, NEW op \in Ops, NEW o \in Offsets, NEW len \in Lens,
             Submit(r, op, o, len)
      PROVE  Service!Accept(r)
  BY <1>1, SubmitAccepts DEF Submit, Prepare, Service!Accept
<1>2. ASSUME NEW r \in Reqs, NEW op \in Ops, NEW o \in Offsets, SubmitRefused(r, op, o)
      PROVE  Service!Refuse(r)
  BY <1>2 DEF SubmitRefused, Prepare, Service!Refuse
<1>3. ASSUME NEW i \in DOMAIN pendq, Cancel(i)
      PROVE  Service!Withdraw(i)
  <2> DEFINE w == [j \in DOMAIN pendq |-> pendq[j].req]
  <2>1. w[i] = pendq[i].req
    OBVIOUS
  <2>2. w' = RemoveAt(w, i)
    BY <1>3, CancelWithdraws
  <2>3. reply' = [reply EXCEPT ![w[i]] = "none"]
    BY <1>3, <2>1 DEF Cancel
  <2>4. RemoveAt(w, i) = Service!RemoveAt(w, i)
    BY DEF RemoveAt, Service!RemoveAt
  <2> HIDE DEF w
  <2> QED BY <2>2, <2>3, <2>4 DEF Service!Withdraw, w
<1>4. ASSUME NEW i \in DOMAIN pendq, Start(i)
      PROVE  Service!Answer
  <2>1. Result(pendq[i].op, RdOnly) \in Errors
    BY DEF Result, Errors
  <2>2. reply' = [reply EXCEPT ![pendq[i].req] = Result(pendq[i].op, RdOnly)]
    BY <1>4 DEF Start
  <2> QED BY <1>4, <2>1, <2>2, StartAnswers DEF Service!Answer
<1>5. CASE Finish
  BY <1>5, FinishStutters DEF Finish, Service!svcVars
<1>6. CASE Enter \/ Leave \/ UNCHANGED vars
  BY <1>6 DEF Enter, Leave, vars, Service!svcVars
<1>7. DOMAIN [i \in DOMAIN pendq |-> pendq[i].req] = DOMAIN pendq
  OBVIOUS
<1> QED
  BY <1>1, <1>2, <1>3, <1>4, <1>5, <1>6, <1>7 DEF Next, Drain, Service!SvcNext

(* The queues, chaining and mutex of block_if.c implement a first-in       *)
(* first-out service that answers every accepted request at most once.     *)
THEOREM ImplementsService == Spec => ServiceSafety
<1>1. Init => Service!SvcInit
  <2> SUFFICES ASSUME Init PROVE Service!SvcInit
    OBVIOUS
  <2>1. pendq = <<>> /\ reply = [r \in Reqs |-> "none"]
    BY DEF Init
  <2>2. [i \in DOMAIN pendq |-> pendq[i].req] = <<>>
    BY <2>1
  <2> QED BY <2>1, <2>2 DEF Service!SvcInit
<1> QED
  BY <1>1, StepRefines, QueueInvariant, PTL
  DEF Spec, ServiceSafety, Service!SvcSafety
=============================================================================

---------------------------- MODULE MsgdmaProofs -----------------------------
(* Proofs about the receive channel of emul_msgdma.c. *)
EXTENDS Msgdma, TLAPS

(* The remainders of the model, where they are taken: inside the ring and  *)
(* between two places of it.                                               *)
LEMMA RingArithmetic ==
  /\ \A i \in Index :
       /\ NextDesc(i) \in Index
       /\ i = Size - 1 => NextDesc(i) = 0
       /\ i # Size - 1 => NextDesc(i) = i + 1
  /\ \A i, j \in Index :
       /\ Ahead(i, j) \in Index
       /\ i <= j => Ahead(i, j) = j - i
       /\ j < i => Ahead(i, j) = j - i + Size
<1>1. Size \in Nat /\ Size > 1
  BY SizeAssumption
<1>2. ASSUME NEW a \in 0 .. (Size - 1) PROVE a % Size = a
  BY <1>1, <1>2
<1>3. ASSUME NEW a \in Int, 0 - Size <= a, a < 0 PROVE a % Size = a + Size
  BY <1>1, <1>3, Z3
<1>4. Size % Size = 0
  BY <1>1, Z3
<1>5. ASSUME NEW i \in Index
      PROVE  /\ NextDesc(i) \in Index
             /\ i = Size - 1 => NextDesc(i) = 0
             /\ i # Size - 1 => NextDesc(i) = i + 1
  <2>1. CASE i = Size - 1
    BY <1>1, <1>4, <2>1 DEF NextDesc, Index
  <2>2. CASE i # Size - 1
    <3>1. i + 1 \in 0 .. (Size - 1)
      BY <1>1, <2>2 DEF Index
    <3> QED BY <1>2, <2>2, <3>1 DEF NextDesc, Index
  <2> QED BY <2>1, <2>2
<1>6. ASSUME NEW i \in Index, NEW j \in Index
      PROVE  /\ Ahead(i, j) \in Index
             /\ i <= j => Ahead(i, j) = j - i
             /\ j < i => Ahead(i, j) = j - i + Size
  <2>1. CASE i <= j
    <3>1. j - i \in 0 .. (Size - 1)
      BY <1>1, <2>1 DEF Index
    <3> QED BY <1>2, <2>1, <3>1 DEF Ahead, Index
  <2>2. CASE ~(i <= j)
    <3>1. j - i \in Int /\ 0 - Size <= j - i /\ j - i < 0
      BY <1>1, <2>2 DEF Index
    <3>2. (j - i) % Size = j - i + Size
      BY <1>3, <3>1
    <3> QED BY <1>1, <2>2, <3>1, <3>2 DEF Ahead, Index
  <2> QED BY <2>1, <2>2
<1> QED BY <1>5, <1>6

(* The next descriptor is one further, except from the last of a distance. *)
LEMMA RingStep ==
  /\ \A i, j \in Index : i # j => Ahead(NextDesc(i), j) = Ahead(i, j) - 1
  /\ \A i, j \in Index : NextDesc(j) # i => Ahead(i, NextDesc(j)) = Ahead(i, j) + 1
  /\ \A i \in Index : Ahead(i, i) = 0 /\ Ahead(NextDesc(i), i) = Size - 1
  /\ \A i, j \in Index : Ahead(i, j) = 0 => i = j
  /\ \A i, j, k \in Index : Ahead(i, j) <= Ahead(i, k) =>
       Ahead(j, k) = Ahead(i, k) - Ahead(i, j)
  /\ \A i, j, k \in Index : Ahead(i, j) = Ahead(i, k) => j = k
<1>1. Size \in Nat /\ Size > 1 /\ \A i \in Index : i \in Int /\ 0 <= i /\ i < Size
  BY SizeAssumption DEF Index
<1>2. ASSUME NEW i \in Index, NEW j \in Index
      PROVE  /\ Ahead(i, j) \in Int /\ 0 <= Ahead(i, j) /\ Ahead(i, j) < Size
             /\ i <= j => Ahead(i, j) = j - i
             /\ j < i => Ahead(i, j) = j - i + Size
  <2>1. Ahead(i, j) \in Index
    BY RingArithmetic
  <2>2. i <= j => Ahead(i, j) = j - i
    BY RingArithmetic
  <2>3. j < i => Ahead(i, j) = j - i + Size
    BY RingArithmetic
  <2> QED BY <1>1, <2>1, <2>2, <2>3
<1>3. ASSUME NEW i \in Index
      PROVE  /\ NextDesc(i) \in Index
             /\ i = Size - 1 => NextDesc(i) = 0
             /\ i # Size - 1 => NextDesc(i) = i + 1
  BY RingArithmetic
<1>4. ASSUME NEW i \in Index, NEW j \in Index, i # j
      PROVE  Ahead(NextDesc(i), j) = Ahead(i, j) - 1
  <2>1. CASE i = Size - 1
    BY <1>1, <1>2, <1>3, <1>4, <2>1
  <2>2. CASE i # Size - 1
    BY <1>1, <1>2, <1>3, <1>4, <2>2
  <2> QED BY <2>1, <2>2
<1>5. ASSUME NEW i \in Index, NEW j \in Index, NextDesc(j) # i
      PROVE  Ahead(i, NextDesc(j)) = Ahead(i, j) + 1
  <2>1. CASE j = Size - 1
    BY <1>1, <1>2, <1>3, <1>5, <2>1
  <2>2. CASE j # Size - 1
    BY <1>1, <1>2, <1>3, <1>5, <2>2
  <2> QED BY <2>1, <2>2
<1>6. ASSUME NEW i \in Index
      PROVE  Ahead(i, i) = 0 /\ Ahead(NextDesc(i), i) = Size - 1
  <2>1. CASE i = Size - 1
    BY <1>1, <1>2, <1>3, <2>1
  <2>2. CASE i # Size - 1
    BY <1>1, <1>2, <1>3, <2>2
  <2> QED BY <2>1, <2>2
<1>7. ASSUME NEW i \in Index, NEW j \in Index, NEW k \in Index, Ahead(i, j) <= Ahead(i, k)
      PROVE  Ahead(j, k) = Ahead(i, k) - Ahead(i, j)
  BY <1>1, <1>2, <1>7
<1>8. ASSUME NEW i \in Index, NEW j \in Index, NEW k \in Index, Ahead(i, j) = Ahead(i, k)
      PROVE  j = k
  BY <1>1, <1>2, <1>8
<1>9. ASSUME NEW i \in Index, NEW j \in Index, Ahead(i, j) = 0
      PROVE  i = j
  BY <1>6, <1>8, <1>9
<1> QED BY <1>4, <1>5, <1>6, <1>7, <1>8, <1>9

(* Packet numbers go on by one, from wherever they are counted.            *)
LEMMA IdArithmetic ==
  /\ \A t, a \in Nat : (((t + 1) % Ids) + a) % Ids = (t + a + 1) % Ids
  /\ \A x, y \in Int : x % Ids = y % Ids => (x + 1) % Ids = (y + 1) % Ids
  /\ \A x \in Int : x % Ids \in 0 .. (Ids - 1)
  /\ \A x \in 0 .. (Ids - 1) : x % Ids = x
  /\ \A x \in Int, y \in Int : (((x + 1) % Ids) - (y + 1)) % Ids = (x - y) % Ids
BY DEF Ids

LEMMA InitInv == Init => MsgdmaInv
<1> SUFFICES ASSUME Init PROVE MsgdmaInv
  OBVIOUS
<1> USE DEF Init
<1>1. 0 \in Index
  BY SizeAssumption DEF Index
<1>2. TypeOK
  <2>1. ring \in [Index -> [own : BOOLEAN, id : 0 .. (Ids - 1)]]
    BY DEF Ids
  <2>2. desc \in [Threads -> Index] /\ count \in [Threads -> BOOLEAN]
        /\ pc \in [Threads -> {"rest", "check", "poll", "fill", "signal"}]
    BY <1>1
  <2>3. sem \in 0 .. MaxSem /\ fifo \in 0 .. MaxFifo
        /\ arrived \in 0 .. (Ids - 1) /\ taken \in 0 .. (Ids - 1)
    BY BoundAssumption DEF Ids
  <2> QED BY <1>1, <2>1, <2>2, <2>3 DEF TypeOK
<1>3. Cur = 0 /\ Ahead(0, 0) = 0 /\ \A k \in Index : ~(Ahead(0, k) < 0)
  BY <1>1, RingArithmetic DEF Cur, Index
<1>4. Window(0, 0) = {}
  BY <1>3 DEF Window
<1>5. OwnFromCur
  BY <1>3, <1>4 DEF OwnFromCur
<1>6. FilledInOrder
  BY <1>3, <1>4 DEF FilledInOrder, Ids
<1>7. OnePoller /\ SleepsWaiting
  BY DEF OnePoller, SleepsWaiting
<1> QED BY <1>2, <1>5, <1>6, <1>7 DEF MsgdmaInv

(* What is left alone by a step that moves neither the ring nor a packet   *)
LEMMA RingUnchanged ==
  ASSUME MsgdmaInv, UNCHANGED <<ring, poll_en, cur_desc, fill, clean, fifo, arrived, taken>>
  PROVE  OwnFromCur' /\ FilledInOrder'
<1>1. Cur' = Cur
  BY DEF Cur
<1> QED BY <1>1 DEF MsgdmaInv, OwnFromCur, FilledInOrder, Window, Ahead

LEMMA CurProperties ==
  ASSUME MsgdmaInv
  PROVE  /\ Cur \in Index /\ clean \in Index /\ fill \in Index
         /\ \A i \in Index : ring[i].own <=> Ahead(Cur, i) < Ahead(Cur, fill)
         /\ Ahead(clean, Cur) <= Ahead(clean, fill)
         /\ Ahead(Cur, fill) = Ahead(clean, fill) - Ahead(clean, Cur)
<1>1. Cur \in Index /\ clean \in Index /\ fill \in Index
  BY DEF MsgdmaInv, TypeOK, Cur
<1>2. \A i \in Index : i \in {k \in Index : ring[k].own} <=> i \in Window(Cur, fill)
  BY DEF MsgdmaInv, OwnFromCur
<1>3. Ahead(clean, Cur) <= Ahead(clean, fill)
  BY DEF MsgdmaInv, OwnFromCur
<1> QED BY <1>1, <1>2, <1>3, RingStep DEF Window

(* The steps of the threads and of the host that move no descriptor        *)
LEMMA QuietInv ==
  ASSUME MsgdmaInv,
         \/ NoRequest \/ WriteNext \/ Wake \/ FifoIntr \/ Sleep \/ TakeIrq
         \/ \E on \in BOOLEAN : WriteControl(on)
         \/ UNCHANGED vars
  PROVE  MsgdmaInv'
<1>1. OwnFromCur' /\ FilledInOrder'
  <2>1. UNCHANGED <<ring, poll_en, cur_desc, fill, clean, fifo, arrived, taken>>
    BY DEF NoRequest, WriteNext, Wake, FifoIntr, Sleep, TakeIrq, WriteControl, Request,
           vars, regs, threads, host
  <2> QED BY <2>1, RingUnchanged
<1>2. TypeOK' /\ OnePoller' /\ SleepsWaiting'
  <2> USE DEF MsgdmaInv, TypeOK, OnePoller, SleepsWaiting, regs, threads, host
  <2>1. CASE NoRequest \/ UNCHANGED vars
    BY <2>1 DEF NoRequest, Request, vars
  <2>2. CASE WriteNext
    BY <2>2 DEF WriteNext, Request
  <2>3. CASE Wake
    <3>1. sem' \in 0 .. MaxSem
      BY <2>3, BoundAssumption DEF Wake
    <3>2. pc' \in [Threads -> {"rest", "check", "poll", "fill", "signal"}]
          /\ \A t \in Threads : pc'[t] = "check" \/ pc'[t] = pc[t]
      BY <2>3 DEF Wake
    <3>3. UNCHANGED <<ring, regs, desc, count, irq, fifo, arrived, host>>
      BY <2>3 DEF Wake
    <3> QED BY <3>1, <3>2, <3>3
  <2>4. CASE FifoIntr
    <3>1. sem' \in 0 .. MaxSem
      BY <2>4, BoundAssumption DEF FifoIntr
    <3>2. UNCHANGED <<ring, regs, pc, desc, count, irq, fifo, arrived, host>>
      BY <2>4 DEF FifoIntr
    <3> QED BY <3>1, <3>2
  <2>5. CASE Sleep \/ TakeIrq
    <3>1. /\ asleep' \in BOOLEAN /\ irq' \in BOOLEAN
          /\ asleep' => giem /\ clean # fill
      BY <2>5 DEF Sleep, TakeIrq
    <3>2. UNCHANGED <<ring, regs, threads, fifo, arrived, fill, clean, taken>>
      BY <2>5 DEF Sleep, TakeIrq
    <3> QED BY <3>1, <3>2
  <2>6. ASSUME NEW on \in BOOLEAN, WriteControl(on)
        PROVE  TypeOK' /\ OnePoller' /\ SleepsWaiting'
    BY <2>6 DEF WriteControl, Request
  <2> QED BY <2>1, <2>2, <2>3, <2>4, <2>5, <2>6
<1> QED BY <1>1, <1>2 DEF MsgdmaInv

(* A thread enters the loop, looks, and leaves it.                         *)
LEMMA ThreadInv ==
  ASSUME MsgdmaInv, NEW t \in Threads, Enter(t) \/ Look(t) \/ Restore(t) \/ Signal(t)
  PROVE  MsgdmaInv'
<1>1. OwnFromCur' /\ FilledInOrder'
  <2>1. UNCHANGED <<ring, poll_en, cur_desc, fill, clean, fifo, arrived, taken>>
    BY DEF Enter, Look, Restore, Signal, regs, host
  <2> QED BY <2>1, RingUnchanged
<1>2. 0 \in Index
  BY SizeAssumption DEF Index
<1>3. TypeOK' /\ OnePoller' /\ SleepsWaiting'
  <2> USE DEF MsgdmaInv, TypeOK, OnePoller, SleepsWaiting, regs, threads, host
  <2>1. CASE Enter(t)
    BY <2>1 DEF Enter, InterruptsOff
  <2>2. CASE Look(t)
    BY <2>2 DEF Look
  <2>3. CASE Restore(t)
    BY <1>2, <2>3 DEF Restore
  <2>4. CASE Signal(t)
    BY <2>4 DEF Signal, send_soft_irq
  <2> QED BY <2>1, <2>2, <2>3, <2>4
<1> QED BY <1>1, <1>3 DEF MsgdmaInv

(* A channel is started where it goes on anyway.                           *)
LEMMA WritePollFreqInv ==
  ASSUME MsgdmaInv, WritePollFreq
  PROVE  MsgdmaInv'
<1>1. /\ ~asleep /\ pc["loop"] = "rest" /\ ~InterruptsOff
      /\ pc' = [pc EXCEPT !["loop"] = "check"]
      /\ pf_next # NULL => pf_next = clean
      /\ poll_en => fill = clean
      /\ UNCHANGED <<desc, count, sem, irq, fifo, arrived, ring, giem, pf_next, host>>
  BY DEF WritePollFreq, Request
<1>2. \/ pf_next = NULL /\ UNCHANGED <<poll_en, cur_desc, cb>>
      \/ pf_next = clean /\ poll_en' = TRUE /\ cur_desc' = clean /\ cb' = TRUE
  BY <1>1 DEF WritePollFreq, poll_enable
<1>3. clean \in Index /\ NULL \notin Index
  BY SizeAssumption DEF MsgdmaInv, TypeOK, Index, NULL
<1>4. TypeOK' /\ OnePoller' /\ SleepsWaiting'
  <2>1. /\ poll_en' \in BOOLEAN /\ cb' \in BOOLEAN /\ cur_desc' \in Index \cup {NULL}
        /\ poll_en' => cur_desc' # NULL
    <3>1. clean # NULL
      BY <1>3
    <3>2. CASE UNCHANGED <<poll_en, cur_desc, cb>>
      BY <3>2 DEF MsgdmaInv, TypeOK
    <3>3. CASE poll_en' = TRUE /\ cur_desc' = clean /\ cb' = TRUE
      BY <1>3, <3>1, <3>3
    <3> QED BY <1>2, <3>2, <3>3
  <2>2. /\ pc' \in [Threads -> {"rest", "check", "poll", "fill", "signal"}]
        /\ \A t \in Threads : pc'[t] \notin {"poll", "fill"}
    BY <1>1 DEF MsgdmaInv, TypeOK, InterruptsOff
  <2> QED
    BY <1>1, <2>1, <2>2 DEF MsgdmaInv, TypeOK, OnePoller, SleepsWaiting, host
<1>5. Cur' = Cur
  <2>1. CASE pf_next = NULL
    BY <1>1, <1>2, <1>3, <2>1 DEF Cur, host
  <2>2. CASE pf_next = clean /\ ~poll_en
    BY <1>1, <1>2, <1>3, <2>2 DEF Cur, host
  <2>3. CASE pf_next = clean /\ poll_en
    <3>1. Ahead(clean, Cur) <= 0 /\ Cur \in Index
      BY <1>1, <2>3, <1>3, CurProperties, RingStep
    <3>2. Ahead(clean, Cur) \in Nat
      BY <1>3, <3>1, RingArithmetic, SizeAssumption DEF Index
    <3>3. Cur = clean
      BY <1>3, <3>1, <3>2, RingStep
    <3> QED BY <1>1, <1>2, <1>3, <2>3, <3>3 DEF Cur, host
  <2> QED BY <1>2, <2>1, <2>2, <2>3
<1>6. OwnFromCur' /\ FilledInOrder'
  BY <1>1, <1>5 DEF MsgdmaInv, OwnFromCur, FilledInOrder, Window, Ahead, host
<1> QED BY <1>4, <1>6 DEF MsgdmaInv

LEMMA ArriveInv ==
  ASSUME MsgdmaInv, Arrive
  PROVE  MsgdmaInv'
<1>1. /\ fifo < MaxFifo /\ fifo' = fifo + 1 /\ arrived' = (arrived + 1) % Ids
      /\ UNCHANGED <<ring, regs, threads, irq, host>>
  BY DEF Arrive
<1>2. TypeOK /\ arrived \in Int /\ fifo \in Int
  BY BoundAssumption DEF MsgdmaInv, TypeOK, Ids
<1>3. fifo' \in 0 .. MaxFifo /\ arrived' \in 0 .. (Ids - 1)
  BY <1>1, <1>2, BoundAssumption, IdArithmetic DEF TypeOK
<1>4. TypeOK' /\ OnePoller' /\ SleepsWaiting'
  BY <1>1, <1>3 DEF MsgdmaInv, TypeOK, OnePoller, SleepsWaiting, regs, threads, host
<1>5. (arrived' - fifo') % Ids = (arrived - fifo) % Ids
  BY <1>1, <1>2, IdArithmetic
<1>6. Cur' = Cur
  BY <1>1 DEF Cur, regs, host
<1>7. OwnFromCur' /\ FilledInOrder'
  BY <1>1, <1>5, <1>6 DEF MsgdmaInv, OwnFromCur, FilledInOrder, Window, Ahead, host
<1> QED BY <1>4, <1>7 DEF MsgdmaInv

(* The descriptor at cur_desc is filled with the oldest packet, and the    *)
(* device goes on to the next.                                             *)
LEMMA FillInv ==
  ASSUME MsgdmaInv, NEW t \in Threads, Fill(t)
  PROVE  MsgdmaInv'
<1> DEFINE c == cur_desc
           n == NextDesc(cur_desc)
<1>1. /\ pc[t] = "fill" /\ fifo > 0 /\ fifo' = fifo - 1
      /\ ring' = [ring EXCEPT ![desc[t]] = [own |-> FALSE, id |-> (arrived - fifo) % Ids]]
      /\ cur_desc' = NextDesc(desc[t])
      /\ count' = [count EXCEPT ![t] = TRUE]
      /\ desc' = [desc EXCEPT ![t] = 0]
      /\ pc' = [pc EXCEPT ![t] = "poll"]
      /\ UNCHANGED <<poll_en, pf_next, giem, cb, sem, irq, arrived, host>>
  BY DEF Fill
<1>2. /\ poll_en /\ desc[t] = c /\ ring[c].own /\ c \in Index /\ Cur = c
      /\ \A u \in Threads : pc[u] \in {"poll", "fill"} => u = t
  BY <1>1 DEF MsgdmaInv, OnePoller, TypeOK, Cur
<1>3. /\ fifo \in Int /\ arrived \in Int /\ taken \in Nat
      /\ (arrived - fifo) % Ids \in 0 .. (Ids - 1)
  BY BoundAssumption, IdArithmetic DEF MsgdmaInv, TypeOK, Ids
<1>4. n \in Index /\ 0 \in Index
  BY <1>2, RingArithmetic, SizeAssumption DEF Index
<1>5. ring' \in [Index -> [own : BOOLEAN, id : 0 .. (Ids - 1)]]
  BY <1>1, <1>2, <1>3 DEF MsgdmaInv, TypeOK
<1>6. /\ ring'[c] = [own |-> FALSE, id |-> (arrived - fifo) % Ids]
      /\ \A k \in Index : k # c => ring'[k] = ring[k]
  BY <1>1, <1>2 DEF MsgdmaInv, TypeOK
<1>7. TypeOK'
  <2>1. fifo' \in 0 .. MaxFifo
    BY <1>1, BoundAssumption DEF MsgdmaInv, TypeOK
  <2>2. n # NULL
    BY <1>4 DEF NULL, Index
  <2>3. /\ pc' \in [Threads -> {"rest", "check", "poll", "fill", "signal"}]
        /\ desc' \in [Threads -> Index] /\ count' \in [Threads -> BOOLEAN]
    BY <1>1, <1>4 DEF MsgdmaInv, TypeOK
  <2> HIDE DEF n
  <2> QED BY <1>1, <1>2, <1>4, <1>5, <2>1, <2>2, <2>3 DEF MsgdmaInv, TypeOK, host, n
<1>8. OnePoller' /\ SleepsWaiting'
  BY <1>1, <1>2 DEF MsgdmaInv, TypeOK, OnePoller, SleepsWaiting, host
<1>9. Cur' = n /\ clean' = clean /\ fill' = fill /\ taken' = taken /\ arrived' = arrived
  BY <1>1, <1>2 DEF Cur, host
<1>10. /\ clean \in Index /\ fill \in Index
       /\ \A i \in Index : ring[i].own <=> Ahead(c, i) < Ahead(c, fill)
       /\ Ahead(clean, c) <= Ahead(clean, fill)
       /\ Ahead(c, fill) = Ahead(clean, fill) - Ahead(clean, c)
  BY <1>2, CurProperties
<1> HIDE DEF c, n
<1>11. \A i, j \in Index : Ahead(i, j) \in Int /\ 0 <= Ahead(i, j) /\ Ahead(i, j) < Size
  BY RingArithmetic, SizeAssumption DEF Index
<1>12. Ahead(c, c) = 0 /\ Ahead(n, c) = Size - 1 /\ Ahead(clean, clean) = 0
  BY <1>2, <1>10, RingStep DEF c, n
<1>13. c # fill /\ Ahead(c, fill) > 0
  BY <1>2, <1>10, <1>11, <1>12
<1>14. n # clean
  BY <1>2, <1>4, <1>10, <1>11, <1>12, <1>13, SizeAssumption
<1>15. Ahead(clean, n) = Ahead(clean, c) + 1
  BY <1>2, <1>10, <1>14, RingStep DEF c, n
<1>16. \A k \in Index : k # c => Ahead(n, k) = Ahead(c, k) - 1
  BY <1>2, RingStep DEF c, n
<1>17. OwnFromCur'
  <2>1. ASSUME NEW k \in Index
        PROVE  ring'[k].own <=> Ahead(n, k) < Ahead(n, fill)
    <3>1. CASE k = c
      BY <1>4, <1>6, <1>10, <1>11, <1>12, <3>1, SizeAssumption
    <3>2. CASE k # c
      <4>1. ring'[k].own <=> Ahead(c, k) < Ahead(c, fill)
        BY <1>6, <1>10, <3>2
      <4> QED BY <1>2, <1>10, <1>11, <1>13, <1>16, <3>2, <4>1
    <3> QED BY <3>1, <3>2
  <2>2. Ahead(clean, n) <= Ahead(clean, fill)
    BY <1>2, <1>10, <1>11, <1>13, <1>15
  <2>3. {i \in Index : ring'[i].own} = {i \in Index : Ahead(n, i) < Ahead(n, fill)}
    BY <2>1
  <2> QED BY <1>9, <2>2, <2>3 DEF OwnFromCur, Window, Ahead
<1>18. FilledInOrder'
  <2>1. /\ \A k \in Index : Ahead(clean, k) < Ahead(clean, c) =>
              ring[k].id = (taken + Ahead(clean, k)) % Ids
        /\ (arrived - fifo) % Ids = (taken + Ahead(clean, c)) % Ids
    BY <1>2 DEF MsgdmaInv, FilledInOrder, Window, c
  <2>2. ASSUME NEW k \in Index, Ahead(clean, k) < Ahead(clean, n)
        PROVE  ring'[k].id = (taken + Ahead(clean, k)) % Ids
    <3>1. CASE k = c
      BY <1>6, <2>1, <3>1
    <3>2. CASE k # c
      <4>1. Ahead(clean, k) # Ahead(clean, c)
        BY <1>2, <1>10, <3>2, RingStep DEF c
      <4>2. Ahead(clean, k) < Ahead(clean, c)
        BY <1>2, <1>10, <1>11, <1>15, <2>2, <4>1 DEF c
      <4> QED BY <1>6, <2>1, <3>2, <4>2
    <3> QED BY <3>1, <3>2
  <2>3. (arrived - fifo') % Ids = (taken + Ahead(clean, n)) % Ids
    <3>1. ((arrived - fifo) + 1) % Ids = ((taken + Ahead(clean, c)) + 1) % Ids
      <4>1. taken + Ahead(clean, c) \in Int /\ arrived - fifo \in Int
        BY <1>2, <1>3, <1>10, <1>11 DEF c
      <4> QED BY <2>1, <4>1, IdArithmetic
    <3>2. /\ arrived - fifo' = (arrived - fifo) + 1
          /\ taken + Ahead(clean, n) = (taken + Ahead(clean, c)) + 1
      BY <1>1, <1>2, <1>3, <1>10, <1>11, <1>15 DEF c
    <3> QED BY <3>1, <3>2
  <2> QED BY <1>9, <2>2, <2>3 DEF FilledInOrder, Window, Ahead
<1> QED BY <1>7, <1>8, <1>17, <1>18 DEF MsgdmaInv

(* The host gives the descriptor after the last one it has given.          *)
LEMMA GiveInv ==
  ASSUME MsgdmaInv, Give
  PROVE  MsgdmaInv'
<1> DEFINE n == NextDesc(fill)
<1>1. /\ ~asleep /\ n # clean
      /\ ring' = [ring EXCEPT ![fill].own = TRUE] /\ fill' = n
      /\ UNCHANGED <<regs, threads, irq, fifo, arrived, clean, asleep, taken>>
  BY DEF Give
<1>2. /\ Cur \in Index /\ clean \in Index /\ fill \in Index
      /\ \A i \in Index : ring[i].own <=> Ahead(Cur, i) < Ahead(Cur, fill)
      /\ Ahead(clean, Cur) <= Ahead(clean, fill)
      /\ Ahead(Cur, fill) = Ahead(clean, fill) - Ahead(clean, Cur)
  BY CurProperties
<1>3. n \in Index
  BY <1>2, RingArithmetic
<1>4. /\ ring' \in [Index -> [own : BOOLEAN, id : 0 .. (Ids - 1)]]
      /\ ring'[fill].own
      /\ \A k \in Index : ring'[k].id = ring[k].id
      /\ \A k \in Index : k # fill => ring'[k] = ring[k]
  BY <1>1, <1>2 DEF MsgdmaInv, TypeOK
<1>5. Cur' = Cur
  BY <1>1 DEF Cur, regs
<1>6. TypeOK' /\ SleepsWaiting'
  BY <1>1, <1>3, <1>4 DEF MsgdmaInv, TypeOK, SleepsWaiting, regs, threads
<1>7. OnePoller'
  <2>1. ASSUME NEW t \in Threads, pc[t] = "fill"
        PROVE  desc[t] = cur_desc /\ ring'[cur_desc].own
    <3>1. poll_en /\ desc[t] = cur_desc /\ ring[cur_desc].own /\ cur_desc \in Index
      BY <2>1 DEF MsgdmaInv, OnePoller, TypeOK
    <3> QED BY <1>4, <3>1
  <2> QED BY <1>1, <2>1 DEF MsgdmaInv, OnePoller, regs, threads
<1>8. FilledInOrder'
  BY <1>1, <1>4, <1>5 DEF MsgdmaInv, FilledInOrder, Window, Ahead
<1> HIDE DEF n
<1>9. \A i, j \in Index : Ahead(i, j) \in Int /\ 0 <= Ahead(i, j) /\ Ahead(i, j) < Size
  BY RingArithmetic, SizeAssumption DEF Index
<1>10. Ahead(clean, n) = Ahead(clean, fill) + 1 /\ Ahead(clean, clean) = 0
  BY <1>1, <1>2, RingStep DEF n
<1>11. n # Cur
  BY <1>1, <1>2, <1>3, <1>9, <1>10
<1>12. Ahead(Cur, n) = Ahead(Cur, fill) + 1
  BY <1>2, <1>11, RingStep DEF n
<1>13. OwnFromCur'
  <2>1. ASSUME NEW k \in Index
        PROVE  ring'[k].own <=> Ahead(Cur, k) < Ahead(Cur, n)
    <3>1. CASE k = fill
      BY <1>2, <1>4, <1>9, <1>12, <3>1
    <3>2. CASE k # fill
      <4>1. Ahead(Cur, k) # Ahead(Cur, fill)
        BY <1>2, <3>2, RingStep
      <4>2. ring'[k].own <=> Ahead(Cur, k) < Ahead(Cur, fill)
        BY <1>2, <1>4, <3>2
      <4> QED BY <1>2, <1>9, <1>12, <4>1, <4>2
    <3> QED BY <3>1, <3>2
  <2>2. Ahead(clean, Cur) <= Ahead(clean, n)
    BY <1>2, <1>9, <1>10
  <2>3. {i \in Index : ring'[i].own} = {i \in Index : Ahead(Cur, i) < Ahead(Cur, n)}
    BY <2>1
  <2> QED BY <1>1, <1>5, <2>2, <2>3 DEF OwnFromCur, Window, Ahead
<1> QED BY <1>6, <1>7, <1>8, <1>13 DEF MsgdmaInv

(* What the host finds without OWN is filled: it comes before Cur.         *)
LEMMA DoneIsFilled ==
  ASSUME MsgdmaInv, Done
  PROVE  /\ poll_en /\ Ahead(clean, Cur) > 0
         /\ ring[clean].id = taken
<1>1. /\ Cur \in Index /\ clean \in Index /\ fill \in Index
      /\ \A i \in Index : ring[i].own <=> Ahead(Cur, i) < Ahead(Cur, fill)
      /\ clean # fill /\ ~ring[clean].own
  BY CurProperties DEF Done
<1>2. \A i, j \in Index : Ahead(i, j) \in Int /\ 0 <= Ahead(i, j)
  BY RingArithmetic, SizeAssumption DEF Index
<1>3. Cur # clean
  <2> SUFFICES ASSUME Cur = clean PROVE FALSE
    OBVIOUS
  <2>1. Ahead(clean, clean) = 0 /\ Ahead(clean, fill) # 0
    BY <1>1, RingStep
  <2> QED BY <1>1, <1>2, <2>1
<1>4. poll_en
  BY <1>3 DEF Cur
<1>5. Ahead(clean, clean) = 0 /\ Ahead(clean, Cur) > 0
  BY <1>1, <1>2, <1>3, RingStep
<1>6. ring[clean].id = (taken + 0) % Ids
  BY <1>1, <1>5 DEF MsgdmaInv, FilledInOrder, Window
<1>7. taken \in 0 .. (Ids - 1) /\ taken + 0 = taken
  BY DEF MsgdmaInv, TypeOK, Ids
<1> QED BY <1>4, <1>5, <1>6, <1>7, IdArithmetic

LEMMA TakeInv ==
  ASSUME MsgdmaInv, Take
  PROVE  MsgdmaInv'
<1> DEFINE n == NextDesc(clean)
<1>1. /\ ~asleep /\ Done /\ clean' = n /\ taken' = (taken + 1) % Ids
      /\ UNCHANGED <<ring, regs, threads, irq, fifo, arrived, fill, asleep>>
  BY DEF Take
<1>2. /\ Cur \in Index /\ clean \in Index /\ fill \in Index
      /\ Ahead(clean, Cur) <= Ahead(clean, fill)
  BY CurProperties
<1>3. poll_en /\ Ahead(clean, Cur) > 0
  BY <1>1, DoneIsFilled
<1>4. n \in Index
  BY <1>2, RingArithmetic
<1>5. Cur' = Cur
  BY <1>1, <1>3 DEF Cur, regs
<1>6. taken \in Nat /\ taken' \in 0 .. (Ids - 1)
  BY <1>1, IdArithmetic DEF MsgdmaInv, TypeOK, Ids
<1>7. TypeOK' /\ SleepsWaiting' /\ OnePoller'
  BY <1>1, <1>4, <1>6 DEF MsgdmaInv, TypeOK, SleepsWaiting, OnePoller, regs, threads
<1> HIDE DEF n
<1>8. \A i, j \in Index : Ahead(i, j) \in Int /\ 0 <= Ahead(i, j) /\ Ahead(i, j) < Size
  BY RingArithmetic, SizeAssumption DEF Index
<1>9. /\ \A k \in Index : k # clean => Ahead(n, k) = Ahead(clean, k) - 1
      /\ Ahead(n, clean) = Size - 1 /\ Ahead(clean, clean) = 0
  BY <1>2, RingStep DEF n
<1>10. clean # Cur /\ clean # fill
  BY <1>1, <1>3, <1>9 DEF Done
<1>11. Ahead(n, Cur) = Ahead(clean, Cur) - 1 /\ Ahead(n, fill) = Ahead(clean, fill) - 1
  BY <1>2, <1>9, <1>10
<1>12. OwnFromCur'
  <2>1. Ahead(n, Cur) <= Ahead(n, fill)
    BY <1>2, <1>8, <1>11
  <2> QED BY <1>1, <1>5, <2>1 DEF MsgdmaInv, OwnFromCur, Window, Ahead
<1>13. FilledInOrder'
  <2>1. /\ \A k \in Index : Ahead(clean, k) < Ahead(clean, Cur) =>
              ring[k].id = (taken + Ahead(clean, k)) % Ids
        /\ (arrived - fifo) % Ids = (taken + Ahead(clean, Cur)) % Ids
    BY DEF MsgdmaInv, FilledInOrder, Window
  <2>2. ASSUME NEW a \in Int, a > 0
        PROVE  (taken' + (a - 1)) % Ids = (taken + a) % Ids
    <3>1. a - 1 \in Nat /\ taken + (a - 1) + 1 = taken + a
      BY <1>6, <2>2
    <3> QED BY <1>1, <1>6, <3>1, IdArithmetic
  <2>3. ASSUME NEW k \in Index, Ahead(n, k) < Ahead(n, Cur)
        PROVE  ring[k].id = (taken' + Ahead(n, k)) % Ids
    <3>1. k # clean
      BY <1>2, <1>4, <1>8, <1>9, <2>3, SizeAssumption
    <3>2. Ahead(n, k) = Ahead(clean, k) - 1
      BY <1>9, <3>1
    <3>3. Ahead(clean, k) < Ahead(clean, Cur)
      BY <1>2, <1>8, <1>11, <2>3, <3>2
    <3>4. Ahead(clean, k) \in Int /\ Ahead(clean, k) > 0
      BY <1>2, <1>8, <3>1, RingStep
    <3> QED BY <2>1, <2>2, <3>2, <3>3, <3>4
  <2>4. (arrived - fifo) % Ids = (taken' + Ahead(n, Cur)) % Ids
    BY <1>2, <1>3, <1>8, <1>11, <2>1, <2>2
  <2> QED BY <1>1, <1>5, <2>3, <2>4 DEF FilledInOrder, Window, Ahead
<1> QED BY <1>7, <1>12, <1>13 DEF MsgdmaInv

LEMMA NextInv == MsgdmaInv /\ [Next]_vars => MsgdmaInv'
<1> SUFFICES ASSUME MsgdmaInv, [Next]_vars PROVE MsgdmaInv'
  OBVIOUS
<1>1. CASE \E t \in Threads : Thread(t)
  BY <1>1, ThreadInv, FillInv DEF Thread
<1>2. CASE NoRequest \/ Wake \/ WriteNext \/ FifoIntr \/ Sleep \/ TakeIrq \/ UNCHANGED vars
  BY <1>2, QuietInv
<1>3. CASE \E on \in BOOLEAN : WriteControl(on)
  BY <1>3, QuietInv
<1>4. CASE WritePollFreq \/ Arrive \/ Give \/ Take
  BY <1>4, WritePollFreqInv, ArriveInv, GiveInv, TakeInv
<1> QED BY <1>1, <1>2, <1>3, <1>4 DEF Next, Loop, Work, Threads

(* emul_msgdma_poll meets the ring that it is written for, at every turn   *)
(* of its loop and in either thread: the descriptors that the device owns  *)
(* are those from cur_desc on.                                             *)
THEOREM RingInvariant == Spec => []MsgdmaInv
<1> QED
  BY InitInv, NextInv, PTL DEF Spec

(* Every packet reaches the host once, in the order of arrival, whichever  *)
(* thread has filled its descriptor (emul_msgdma_poll, emul_msgdma_work).  *)
THEOREM PacketsInOrder == Spec => ReceivedInOrder
<1>1. MsgdmaInv /\ [Next]_vars => [clean' # clean => ring[clean].id = taken]_vars
  <2> SUFFICES ASSUME MsgdmaInv, [Next]_vars, clean' # clean
               PROVE  ring[clean].id = taken
    OBVIOUS
  <2>1. Take
    BY DEF Next, Loop, Work, Thread, NoRequest, Request, Wake, Enter, Look, Fill, Restore,
           Signal, WriteControl, WriteNext, WritePollFreq, Arrive, FifoIntr, Give, Sleep,
           TakeIrq, vars, host
  <2> QED BY <2>1, DoneIsFilled DEF Take
<1> QED
  BY <1>1, RingInvariant, PTL DEF Spec, ReceivedInOrder

(* A thread that fills a descriptor comes to send_soft_irq, and finds the  *)
(* interrupt enabled if the host sleeps: the host is never stranded.       *)
THEOREM SleeperIsWoken == Spec => []NotStranded
<1>1. Init => NotStranded
  BY DEF Init, NotStranded
<1>2. MsgdmaInv /\ NotStranded /\ [Next]_vars => NotStranded'
  <2> SUFFICES ASSUME MsgdmaInv, NotStranded, [Next]_vars, asleep', Done'
               PROVE  irq' \/ \E t \in Threads : count'[t]
    BY DEF NotStranded
  <2>1. count \in [Threads -> BOOLEAN] /\ irq \in BOOLEAN
    BY DEF MsgdmaInv, TypeOK
  <2>2. ASSUME NEW t \in Threads, Fill(t)
        PROVE  irq' \/ \E u \in Threads : count'[u]
    BY <2>1, <2>2 DEF Fill
  <2>3. ASSUME NEW t \in Threads, Signal(t)
        PROVE  irq' \/ \E u \in Threads : count'[u]
    <3>1. asleep /\ Done /\ giem
      BY <2>3 DEF Signal, Done, regs, host, MsgdmaInv, SleepsWaiting
    <3>2. CASE count[t]
      BY <2>3, <3>1, <3>2 DEF Signal, send_soft_irq
    <3>3. CASE ~count[t]
      <4>1. irq' = irq /\ \A u \in Threads : count[u] => count'[u]
        BY <2>1, <2>3, <3>3 DEF Signal
      <4> QED BY <3>1, <4>1 DEF NotStranded
    <3> QED BY <3>2, <3>3
  <2>4. CASE Sleep \/ TakeIrq \/ Give \/ Take
    BY <2>4 DEF Sleep, TakeIrq, Give, Take, Done
  <2>5. CASE \/ \E t \in Threads : Enter(t) \/ Look(t) \/ Restore(t)
             \/ NoRequest \/ Wake \/ WriteNext \/ WritePollFreq \/ Arrive \/ FifoIntr
             \/ \E on \in BOOLEAN : WriteControl(on)
             \/ UNCHANGED vars
    <3>1. UNCHANGED <<ring, clean, fill, asleep, irq, count>>
      BY <2>5 DEF Enter, Look, Restore, NoRequest, Wake, WriteNext, WritePollFreq, Arrive,
                  FifoIntr, WriteControl, Request, vars, regs, threads, host
    <3> QED BY <3>1 DEF NotStranded, Done
  <2> QED
    BY <2>2, <2>3, <2>4, <2>5 DEF Next, Loop, Work, Thread, Threads
<1> QED
  BY <1>1, <1>2, RingInvariant, PTL DEF Spec
=============================================================================

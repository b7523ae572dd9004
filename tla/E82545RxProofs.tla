--------------------------- MODULE E82545RxProofs ----------------------------
(***************************************************************************)
(* Proofs about the receive side of the E1000, for a ring of any length,   *)
(* buffers of any size and packets of any lengths: which descriptors are   *)
(* written, in which order, and with which lengths.                        *)
(***************************************************************************)
EXTENDS E82545Rx, TLAPS, SequenceTheorems, FiniteSetTheorems, WellFoundedInduction

-----------------------------------------------------------------------------
(* The ring                                                                *)

LEMMA RingSize == RxSize \in Nat /\ RxSize > 1
BY RxSizeAssumption, Z3

(* The remainders of the model, where they are taken                       *)
LEMMA RingArithmetic ==
  /\ \A i \in Index : i \in Int /\ 0 <= i /\ i < RxSize
  /\ \A i \in Index, n \in 0 .. (RxSize - 1) :
       /\ Plus(i, n) \in Index
       /\ i + n < RxSize => Plus(i, n) = i + n
       /\ i + n >= RxSize => Plus(i, n) = i + n - RxSize
  /\ \A i, j \in Index :
       /\ Ahead(i, j) \in Int /\ 0 <= Ahead(i, j) /\ Ahead(i, j) < RxSize
       /\ i <= j => Ahead(i, j) = j - i
       /\ j < i => Ahead(i, j) = j - i + RxSize
<1>1. RxSize \in Nat /\ RxSize > 1
  BY RingSize
<1>2. ASSUME NEW a \in 0 .. (RxSize - 1) PROVE a % RxSize = a
  BY <1>1, <1>2
<1>3. ASSUME NEW a \in Int, 0 - RxSize <= a, a < 0 PROVE a % RxSize = a + RxSize
  BY <1>1, <1>3, Z3
<1>4. ASSUME NEW a \in RxSize .. (RxSize + RxSize - 1) PROVE a % RxSize = a - RxSize
  BY <1>1, <1>4, Z3
<1>5. \A i \in Index : i \in Int /\ 0 <= i /\ i < RxSize
  BY <1>1 DEF Index
<1>6. ASSUME NEW i \in Index, NEW n \in 0 .. (RxSize - 1)
      PROVE  /\ Plus(i, n) \in Index
             /\ i + n < RxSize => Plus(i, n) = i + n
             /\ i + n >= RxSize => Plus(i, n) = i + n - RxSize
  <2>1. CASE i + n < RxSize
    <3>1. i + n \in 0 .. (RxSize - 1)
      BY <1>1, <1>5, <2>1
    <3>2. (i + n) % RxSize = i + n
      BY <1>2, <3>1
    <3> QED BY <1>1, <1>5, <2>1, <3>1, <3>2 DEF Plus, Index
  <2>2. CASE i + n >= RxSize
    <3>1. i + n \in RxSize .. (RxSize + RxSize - 1)
      BY <1>1, <1>5, <2>2
    <3>2. (i + n) % RxSize = i + n - RxSize
      BY <1>1, <1>4, <1>5, <3>1
    <3> QED BY <1>1, <1>5, <2>2, <3>1, <3>2 DEF Plus, Index
  <2> QED BY <1>1, <1>5, <2>1, <2>2
<1>7. ASSUME NEW i \in Index, NEW j \in Index
      PROVE  /\ Ahead(i, j) \in Int /\ 0 <= Ahead(i, j) /\ Ahead(i, j) < RxSize
             /\ i <= j => Ahead(i, j) = j - i
             /\ j < i => Ahead(i, j) = j - i + RxSize
  <2>1. CASE i <= j
    <3>1. j - i \in 0 .. (RxSize - 1)
      BY <1>1, <1>5, <2>1
    <3>2. (j - i) % RxSize = j - i
      BY <1>2, <3>1
    <3> QED BY <1>1, <1>5, <2>1, <3>1, <3>2 DEF Ahead
  <2>2. CASE j < i
    <3>1. j - i \in Int /\ 0 - RxSize <= j - i /\ j - i < 0
      BY <1>1, <1>5, <2>2
    <3>2. (j - i) % RxSize = j - i + RxSize
      BY <1>3, <3>1
    <3> QED BY <1>1, <1>5, <2>2, <3>1, <3>2 DEF Ahead
  <2> QED BY <1>1, <1>5, <2>1, <2>2
<1> QED BY <1>5, <1>6, <1>7

(* Distances in the ring add up.                                           *)
LEMMA Distances ==
  /\ \A i \in Index : Ahead(i, i) = 0
  /\ \A i, j, k \in Index : Ahead(i, j) = Ahead(i, k) => j = k
  /\ \A i, j, k \in Index : Ahead(i, j) <= Ahead(i, k) =>
       Ahead(j, k) = Ahead(i, k) - Ahead(i, j)
  /\ \A i, j, k \in Index : Ahead(i, k) < Ahead(i, j) =>
       Ahead(j, k) = Ahead(i, k) - Ahead(i, j) + RxSize
  /\ \A i \in Index, n \in 0 .. (RxSize - 1) : Ahead(i, Plus(i, n)) = n
<1>1. /\ RxSize \in Nat /\ RxSize > 1
      /\ \A i \in Index : i \in Int /\ 0 <= i /\ i < RxSize
  BY RingSize, RingArithmetic
<1>2. ASSUME NEW i \in Index, NEW j \in Index
      PROVE  /\ Ahead(i, j) \in Int /\ 0 <= Ahead(i, j) /\ Ahead(i, j) < RxSize
             /\ i <= j => Ahead(i, j) = j - i
             /\ j < i => Ahead(i, j) = j - i + RxSize
  BY RingArithmetic
<1>3. ASSUME NEW i \in Index
      PROVE  Ahead(i, i) = 0
  BY <1>1, <1>2
<1>4. ASSUME NEW i \in Index, NEW j \in Index, NEW k \in Index, Ahead(i, j) = Ahead(i, k)
      PROVE  j = k
  BY <1>1, <1>2, <1>4
<1>5. ASSUME NEW i \in Index, NEW j \in Index, NEW k \in Index, Ahead(i, j) <= Ahead(i, k)
      PROVE  Ahead(j, k) = Ahead(i, k) - Ahead(i, j)
  BY <1>1, <1>2, <1>5
<1>6. ASSUME NEW i \in Index, NEW j \in Index, NEW k \in Index, Ahead(i, k) < Ahead(i, j)
      PROVE  Ahead(j, k) = Ahead(i, k) - Ahead(i, j) + RxSize
  BY <1>1, <1>2, <1>6
<1>7. ASSUME NEW i \in Index, NEW n \in 0 .. (RxSize - 1)
      PROVE  Ahead(i, Plus(i, n)) = n
  <2>1. /\ Plus(i, n) \in Index
        /\ i + n < RxSize => Plus(i, n) = i + n
        /\ i + n >= RxSize => Plus(i, n) = i + n - RxSize
    BY RingArithmetic
  <2>2. CASE i + n < RxSize
    BY <1>1, <1>2, <2>1, <2>2
  <2>3. CASE i + n >= RxSize
    BY <1>1, <1>2, <2>1, <2>3
  <2> QED BY <1>1, <2>2, <2>3
<1> QED BY <1>3, <1>4, <1>5, <1>6, <1>7

(* The descriptor before i, and the one after it                           *)
LEMMA Neighbours ==
  ASSUME NEW i \in Index
  PROVE  /\ Plus(i, 1) \in Index /\ Plus(i, RxSize - 1) \in Index
         /\ Plus(Plus(i, RxSize - 1), 1) = i /\ Plus(Plus(i, 1), RxSize - 1) = i
         /\ Ahead(i, Plus(i, 1)) = 1 /\ Ahead(i, Plus(i, RxSize - 1)) = RxSize - 1
<1>1. /\ RxSize \in Nat /\ RxSize > 1
      /\ \A j \in Index : j \in Int /\ 0 <= j /\ j < RxSize
      /\ 1 \in 0 .. (RxSize - 1) /\ RxSize - 1 \in 0 .. (RxSize - 1)
  BY RingSize, RingArithmetic
<1>2. ASSUME NEW j \in Index
      PROVE  /\ Plus(j, 1) \in Index /\ Plus(j, RxSize - 1) \in Index
             /\ j + 1 < RxSize => Plus(j, 1) = j + 1
             /\ j + 1 >= RxSize => Plus(j, 1) = j + 1 - RxSize
             /\ j + (RxSize - 1) < RxSize => Plus(j, RxSize - 1) = j + (RxSize - 1)
             /\ j + (RxSize - 1) >= RxSize => Plus(j, RxSize - 1) = j + (RxSize - 1) - RxSize
  BY <1>1, RingArithmetic
<1>3. Plus(Plus(i, RxSize - 1), 1) = i
  <2>1. CASE i = 0
    BY <1>1, <1>2, <2>1
  <2>2. CASE i > 0
    BY <1>1, <1>2, <2>2
  <2> QED BY <1>1, <2>1, <2>2
<1>4. Plus(Plus(i, 1), RxSize - 1) = i
  <2>1. CASE i + 1 < RxSize
    BY <1>1, <1>2, <2>1
  <2>2. CASE i + 1 >= RxSize
    BY <1>1, <1>2, <2>2
  <2> QED BY <1>1, <2>1, <2>2
<1> QED BY <1>1, <1>2, <1>3, <1>4, Distances

(* A set of natural numbers that is not empty has a least element ...      *)
LEMMA LeastNat ==
  ASSUME NEW T \in SUBSET Nat, T # {}
  PROVE  \E x \in T : \A y \in T : x <= y
<1>1. PICK x \in T : \A y \in T : ~ (<<y, x>> \in OpToRel(<, Nat))
  BY NatLessThanWellFounded, WFMin
<1>2. ASSUME NEW y \in T PROVE x <= y
  <2>1. <<y, x>> \in Nat \X Nat /\ <<y, x>>[1] = y /\ <<y, x>>[2] = x
    OBVIOUS
  <2>2. ~(y < x)
    BY <1>1, <2>1 DEF OpToRel
  <2> QED BY <2>2
<1> QED BY <1>2

(* Descriptors from h on, seen from c behind it: e82545_tap_callback moves *)
(* its head, which is not before c, by n and not beyond t.                 *)
LEMMA Advance ==
  ASSUME NEW c \in Index, NEW h \in Index, NEW t \in Index, NEW n \in Nat,
         n <= Ahead(h, t), Ahead(c, h) <= Ahead(c, t)
  PROVE  /\ Plus(h, n) \in Index
         /\ Ahead(c, Plus(h, n)) = Ahead(c, h) + n
         /\ Ahead(Plus(h, n), t) = Ahead(h, t) - n
         /\ Ahead(c, Plus(h, n)) <= Ahead(c, t)
         /\ \A i \in Index : Ahead(h, i) < n <=>
                               Ahead(c, h) <= Ahead(c, i) /\ Ahead(c, i) < Ahead(c, h) + n
         /\ \A i \in Index : Ahead(c, h) <= Ahead(c, i) => Ahead(h, i) = Ahead(c, i) - Ahead(c, h)
<1> DEFINE q == Plus(h, n)
<1>1. /\ RxSize \in Nat /\ RxSize > 1
      /\ \A j, k \in Index :
           Ahead(j, k) \in Int /\ 0 <= Ahead(j, k) /\ Ahead(j, k) < RxSize
  BY RingSize, RingArithmetic
<1>2. n \in 0 .. (RxSize - 1)
  BY <1>1
<1>3. q \in Index /\ Ahead(h, q) = n
  BY <1>2, RingArithmetic, Distances
<1>4. Ahead(h, t) = Ahead(c, t) - Ahead(c, h)
  BY Distances
<1> HIDE DEF q
<1>5. ASSUME NEW i \in Index
      PROVE  /\ Ahead(c, h) <= Ahead(c, i) => Ahead(h, i) = Ahead(c, i) - Ahead(c, h)
             /\ Ahead(c, i) < Ahead(c, h) => Ahead(h, i) = Ahead(c, i) - Ahead(c, h) + RxSize
  BY Distances
<1>6. Ahead(c, q) = Ahead(c, h) + n
  <2>1. CASE Ahead(c, h) <= Ahead(c, q)
    BY <1>1, <1>3, <1>5, <2>1
  <2>2. CASE Ahead(c, q) < Ahead(c, h)
    BY <1>1, <1>3, <1>4, <1>5, <2>2
  <2> QED BY <1>1, <1>3, <2>1, <2>2
<1>7. Ahead(h, q) <= Ahead(h, t)
  BY <1>3
<1>8. Ahead(q, t) = Ahead(h, t) - n
  BY <1>3, <1>7, Distances
<1>9. Ahead(c, q) <= Ahead(c, t)
  BY <1>1, <1>4, <1>6
<1>10. ASSUME NEW i \in Index
       PROVE  Ahead(h, i) < n <=> Ahead(c, h) <= Ahead(c, i) /\ Ahead(c, i) < Ahead(c, h) + n
  <2>1. CASE Ahead(c, h) <= Ahead(c, i)
    BY <1>1, <1>5, <2>1
  <2>2. CASE Ahead(c, i) < Ahead(c, h)
    <3>1. Ahead(h, i) >= n
      BY <1>1, <1>4, <1>5, <2>2
    <3> QED BY <1>1, <2>2, <3>1
  <2> QED BY <1>1, <2>1, <2>2
<1> QED BY <1>3, <1>5, <1>6, <1>8, <1>9, <1>10 DEF q

(* The descriptor before one that is not c itself                          *)
LEMMA Before ==
  ASSUME NEW c \in Index, NEW h \in Index, c # h
  PROVE  /\ Plus(h, RxSize - 1) \in Index /\ Plus(Plus(h, RxSize - 1), 1) = h
         /\ Ahead(c, h) >= 1 /\ Ahead(c, Plus(h, RxSize - 1)) = Ahead(c, h) - 1
<1> DEFINE e == Plus(h, RxSize - 1)
<1>1. /\ RxSize \in Nat /\ RxSize > 1
      /\ \A j, k \in Index :
           Ahead(j, k) \in Int /\ 0 <= Ahead(j, k) /\ Ahead(j, k) < RxSize
  BY RingSize, RingArithmetic
<1>2. e \in Index /\ Plus(e, 1) = h /\ Ahead(h, e) = RxSize - 1
  BY Neighbours
<1> HIDE DEF e
<1>3. Ahead(c, h) >= 1
  <2>1. Ahead(c, c) = 0 /\ Ahead(c, c) # Ahead(c, h)
    BY Distances
  <2> QED BY <1>1, <2>1
<1>4. Ahead(c, e) = Ahead(c, h) - 1
  <2>1. CASE Ahead(c, h) <= Ahead(c, e)
    <3>1. Ahead(h, e) = Ahead(c, e) - Ahead(c, h)
      BY <1>2, <2>1, Distances
    <3> QED BY <1>1, <1>2, <1>3, <3>1
  <2>2. CASE Ahead(c, e) < Ahead(c, h)
    <3>1. Ahead(h, e) = Ahead(c, e) - Ahead(c, h) + RxSize
      BY <1>2, <2>2, Distances
    <3> QED BY <1>1, <1>2, <3>1
  <2> QED BY <1>1, <1>2, <2>1, <2>2
<1> QED BY <1>2, <1>3, <1>4 DEF e

(* A descriptor of a row, and the next one when the row goes on            *)
LEMMA Next ==
  ASSUME NEW c \in Index, NEW h \in Index, NEW i \in Window(c, h)
  PROVE  /\ i \in Index /\ Plus(i, 1) \in Index
         /\ Ahead(c, Plus(i, 1)) = Ahead(c, i) + 1
         /\ Plus(i, 1) # h => Ahead(c, Plus(i, 1)) < Ahead(c, h)
<1> DEFINE q == Plus(i, 1)
<1>1. /\ RxSize \in Nat /\ RxSize > 1
      /\ \A j, k \in Index :
           Ahead(j, k) \in Int /\ 0 <= Ahead(j, k) /\ Ahead(j, k) < RxSize
  BY RingSize, RingArithmetic
<1>2. i \in Index /\ Ahead(c, i) < Ahead(c, h)
  BY DEF Window
<1>3. q \in Index /\ Ahead(i, q) = 1
  BY <1>2, Neighbours
<1> HIDE DEF q
<1>4. Ahead(c, q) = Ahead(c, i) + 1
  <2>1. CASE Ahead(c, i) <= Ahead(c, q)
    <3>1. Ahead(i, q) = Ahead(c, q) - Ahead(c, i)
      BY <1>2, <1>3, <2>1, Distances
    <3> QED BY <1>1, <1>2, <1>3, <3>1
  <2>2. CASE Ahead(c, q) < Ahead(c, i)
    <3>1. Ahead(i, q) = Ahead(c, q) - Ahead(c, i) + RxSize
      BY <1>2, <1>3, <2>2, Distances
    <3> QED BY <1>1, <1>2, <1>3, <3>1
  <2> QED BY <1>1, <1>2, <1>3, <2>1, <2>2
<1>5. q # h => Ahead(c, q) # Ahead(c, h)
  BY <1>3, Distances
<1> QED BY <1>1, <1>2, <1>3, <1>4, <1>5 DEF q

(* left, as e82545_tap_callback computes it                                *)
LEMMA LeftIsAhead ==
  ASSUME size = RxSize, RDT \in Index, NEW h \in Index
  PROVE  Left(h) = Ahead(h, RDT)
<1>1. /\ RxSize \in Nat /\ RxSize > 1
      /\ \A i \in Index : i \in Int /\ 0 <= i /\ i < RxSize
      /\ h <= RDT => Ahead(h, RDT) = RDT - h
      /\ RDT < h => Ahead(h, RDT) = RDT - h + RxSize
  BY RingSize, RingArithmetic
<1>2. ASSUME NEW a \in 0 .. (RxSize - 1) PROVE a % RxSize = a
  BY <1>1, <1>2
<1>3. ASSUME NEW a \in RxSize .. (RxSize + RxSize - 1) PROVE a % RxSize = a - RxSize
  BY <1>1, <1>3, Z3
<1>4. CASE h <= RDT
  <2>1. RxSize + RDT - h \in RxSize .. (RxSize + RxSize - 1)
    BY <1>1, <1>4
  <2>2. (RxSize + RDT - h) % RxSize = RxSize + RDT - h - RxSize
    BY <1>1, <1>3, <2>1
  <2> QED BY <1>1, <1>4, <2>2 DEF Left
<1>5. CASE RDT < h
  <2>1. RxSize + RDT - h \in 0 .. (RxSize - 1)
    BY <1>1, <1>5
  <2>2. (RxSize + RDT - h) % RxSize = RxSize + RDT - h
    BY <1>2, <2>1
  <2> QED BY <1>1, <1>5, <2>2 DEF Left
<1> QED BY <1>1, <1>4, <1>5

-----------------------------------------------------------------------------
(* Packets                                                                 *)

(* A packet takes a descriptor at least, and no more than the longest one. *)
LEMMA PacketSizes ==
  ASSUME NEW len \in Lens
  PROVE  /\ Descs(Frame(len)) \in Nat /\ 1 <= Descs(Frame(len)) /\ Descs(Frame(len)) <= MaxPktDesc
         /\ \A p \in Packet, k \in Nat : p.len = len => Filled(p, k) \in Desc
<1> DEFINE f == Frame(len)
<1>1. /\ Buf \in Nat /\ Buf > 0 /\ MaxPktSz \in Nat
      /\ f \in Nat /\ 1 <= f /\ f <= MaxPktSz
  <2>1. MinLen \in Nat \ {0} /\ MinLen + CrcLen <= MaxPktSz
    BY LenAssumption
  <2>2. len \in Nat \ {0} /\ len + CrcLen <= MaxPktSz
    BY LenAssumption
  <2>3. CrcLen \in Nat /\ Buf \in Nat /\ Buf > 0 /\ MaxPktSz \in Nat
    BY LenAssumption
  <2> QED BY <2>1, <2>2, <2>3 DEF Frame
<1> HIDE DEF f
<1>2. ASSUME NEW a \in Nat, NEW b \in Nat, a <= b PROVE a \div Buf <= b \div Buf
  BY <1>1, <1>2, Z3
<1>3. ASSUME NEW a \in Nat, Buf <= a PROVE a \div Buf \in Nat /\ 1 <= a \div Buf
  BY <1>1, <1>3, Z3
<1>4. /\ f + Buf - 1 \in Nat /\ Buf <= f + Buf - 1 /\ MaxPktSz + Buf - 1 \in Nat
      /\ f + Buf - 1 <= MaxPktSz + Buf - 1
  BY <1>1
<1>5. Descs(f) \in Nat /\ 1 <= Descs(f) /\ Descs(f) <= MaxPktDesc
  BY <1>2, <1>3, <1>4 DEF Descs, MaxPktDesc
<1>6. f % Buf \in 0 .. Buf
  BY <1>1, Z3
<1>7. ASSUME NEW p \in Packet, NEW k \in Nat, p.len = len PROVE Filled(p, k) \in Desc
  <2> DEFINE n == Descs(Frame(p.len))
             l == IF k < n - 1 THEN Buf ELSE Frame(p.len) % Buf
  <2>1. l \in 0 .. Buf
    BY <1>1, <1>6, <1>7 DEF f
  <2>2. p.id \in 0 .. (Ids - 1)
    BY DEF Packet
  <2>3. (k = n - 1) \in BOOLEAN
    OBVIOUS
  <2>4. Filled(p, k) = [dd |-> TRUE, eop |-> k = n - 1, length |-> l, id |-> p.id]
    BY DEF Filled
  <2> HIDE DEF l, n
  <2> QED BY <2>1, <2>2, <2>3, <2>4 DEF Desc
<1> QED BY <1>5, <1>7 DEF f
FifoTypes == fifo \in Seq(Packet) /\ arrived \in 0 .. (Ids - 1)

(* A packet leaves the FIFO: the next one in has the number that follows.  *)
LEMMA TakePacket ==
  ASSUME FifoTypes, FifoNumbered, fifo # <<>>, fifo' = Tail(fifo), arrived' = arrived
  PROVE  /\ fifo' \in Seq(Packet) /\ FifoNumbered'
         /\ Head(fifo) \in Packet /\ NextIn = Head(fifo).id
         /\ NextIn' = After(Head(fifo), Head(fifo).known)
<1>1. /\ Head(fifo) \in Packet /\ fifo' \in Seq(Packet) /\ Len(fifo') = Len(fifo) - 1
      /\ \A i \in 1 .. Len(fifo') : fifo'[i] = fifo[i + 1]
  BY HeadTailProperties DEF FifoTypes
<1>2. Len(fifo) \in Nat /\ Len(fifo) >= 1 /\ Head(fifo) = fifo[1] /\ Len(fifo') \in Nat
  BY <1>1, LenProperties, EmptySeq DEF FifoTypes
<1>3. \A i \in 1 .. (Len(fifo) - 1) : fifo[i + 1].id = After(fifo[i], fifo[i].known)
  BY DEF FifoNumbered
<1>4. ASSUME NEW i \in 1 .. (Len(fifo') - 1)
      PROVE  fifo'[i + 1].id = After(fifo'[i], fifo'[i].known)
  <2>1. i \in 1 .. Len(fifo') /\ i + 1 \in 1 .. Len(fifo') /\ i + 1 \in 1 .. (Len(fifo) - 1)
    BY <1>1, <1>2
  <2>2. fifo'[i] = fifo[i + 1] /\ fifo'[i + 1] = fifo[(i + 1) + 1]
    BY <1>1, <2>1
  <2> QED BY <1>3, <2>1, <2>2
<1>5. fifo' # <<>> => arrived' = After(fifo'[Len(fifo')], fifo'[Len(fifo')].known)
  <2> SUFFICES ASSUME fifo' # <<>>
               PROVE  arrived' = After(fifo'[Len(fifo')], fifo'[Len(fifo')].known)
    OBVIOUS
  <2>1. Len(fifo') \in 1 .. Len(fifo')
    BY <1>1, <1>2, EmptySeq
  <2>2. Len(fifo') + 1 = Len(fifo)
    BY <1>1, <1>2
  <2>3. fifo'[Len(fifo')] = fifo[Len(fifo)]
    BY <1>1, <2>1, <2>2
  <2> QED BY <2>3 DEF FifoNumbered
<1>6. NextIn' = After(Head(fifo), Head(fifo).known)
  <2>1. CASE fifo' = <<>>
    <3>1. Len(fifo) = 1
      BY <1>1, <1>2, <2>1
    <3> QED BY <1>2, <2>1, <3>1 DEF NextIn, FifoNumbered
  <2>2. CASE fifo' # <<>>
    <3>1. 1 \in 1 .. Len(fifo') /\ 1 \in 1 .. (Len(fifo) - 1)
      BY <1>1, <1>2, <2>2, EmptySeq
    <3>2. Head(fifo') = fifo'[1] /\ fifo'[1] = fifo[1 + 1]
      BY <1>1, <3>1
    <3>3. fifo[1 + 1].id = After(fifo[1], fifo[1].known)
      BY <1>3, <3>1
    <3> QED BY <1>2, <2>2, <3>2, <3>3 DEF NextIn
  <2> QED BY <2>1, <2>2
<1> QED BY <1>1, <1>4, <1>5, <1>6 DEF FifoNumbered, NextIn

(* A packet arrives, with the number that was to come.                     *)
LEMMA PacketArrives ==
  ASSUME FifoTypes, FifoNumbered, NEW len \in Lens, NEW known \in BOOLEAN, Arrive(len, known)
  PROVE  FifoTypes' /\ FifoNumbered' /\ NextIn' = NextIn
<1> DEFINE p == [len |-> len, known |-> known, id |-> arrived]
<1>1. /\ p \in Packet /\ p.id = arrived /\ p.known = known
      /\ fifo' = Append(fifo, p)
      /\ arrived' = After(p, p.known) /\ arrived' \in 0 .. (Ids - 1)
  BY DEF Arrive, After, FifoTypes, Packet, Ids
<1> HIDE DEF p
<1>2. /\ fifo' \in Seq(Packet) /\ fifo' # <<>> /\ Len(fifo') = Len(fifo) + 1
      /\ \A i \in 1 .. Len(fifo) : fifo'[i] = fifo[i]
      /\ fifo'[Len(fifo) + 1] = p
      /\ Head(fifo') = IF fifo = <<>> THEN p ELSE Head(fifo)
  BY <1>1, AppendProperties, HeadTailAppend DEF FifoTypes
<1>3. Len(fifo) \in Nat /\ (fifo # <<>> => Len(fifo) >= 1)
  BY LenProperties, EmptySeq DEF FifoTypes
<1>4. ASSUME NEW i \in 1 .. (Len(fifo') - 1)
      PROVE  fifo'[i + 1].id = After(fifo'[i], fifo'[i].known)
  <2>1. i \in 1 .. Len(fifo) /\ fifo'[i] = fifo[i]
    BY <1>2, <1>3
  <2>2. CASE i = Len(fifo)
    <3>1. fifo # <<>>
      BY <2>1, <1>3
    <3> QED BY <1>1, <1>2, <2>1, <2>2, <3>1 DEF FifoNumbered
  <2>3. CASE i # Len(fifo)
    <3>1. i \in 1 .. (Len(fifo) - 1) /\ i + 1 \in 1 .. Len(fifo)
      BY <1>3, <2>1, <2>3
    <3>2. fifo'[i + 1] = fifo[i + 1]
      BY <1>2, <3>1
    <3> QED BY <2>1, <3>1, <3>2 DEF FifoNumbered
  <2> QED BY <2>2, <2>3
<1>5. NextIn' = NextIn
  BY <1>1, <1>2 DEF NextIn
<1> QED BY <1>1, <1>2, <1>4, <1>5 DEF FifoTypes, FifoNumbered

(* Up to the first packet that passes the filter they all have its number. *)
LEMMA FirstKnown ==
  ASSUME FifoTypes, FifoNumbered,
         NEW m \in Nat, m <= Len(fifo), \A j \in 1 .. m : ~fifo[j].known
  PROVE  /\ m < Len(fifo) => fifo[m + 1].id = NextIn
         /\ m = Len(fifo) => arrived = NextIn
<1> DEFINE T == {i \in 1 .. Len(fifo) : i <= m + 1 /\ fifo[i].id # NextIn}
<1>1. Len(fifo) \in Nat
  BY LenProperties DEF FifoTypes
<1>2. T = {}
  <2> SUFFICES ASSUME T # {} PROVE FALSE
    OBVIOUS
  <2>1. T \in SUBSET Nat
    BY <1>1
  <2> HIDE DEF T
  <2>2. PICK x \in T : \A y \in T : x <= y
    BY <2>1, LeastNat
  <2>3. x \in 1 .. Len(fifo) /\ x <= m + 1 /\ fifo[x].id # NextIn
    BY <2>2 DEF T
  <2>4. fifo # <<>>
    BY <1>1, <2>3
  <2>5. x # 1
    BY <2>3, <2>4 DEF NextIn
  <2>6. x - 1 \in 1 .. Len(fifo) /\ x - 1 <= m + 1 /\ x - 1 \in 1 .. (Len(fifo) - 1) /\ x - 1 \in 1 .. m
    BY <1>1, <2>3, <2>5
  <2>7. x - 1 \notin T
    BY <1>1, <2>2, <2>3
  <2>8. fifo[x - 1].id = NextIn
    BY <2>6, <2>7 DEF T
  <2>9. fifo[(x - 1) + 1].id = After(fifo[x - 1], fifo[x - 1].known)
    BY <2>6 DEF FifoNumbered
  <2>10. (x - 1) + 1 = x
    BY <1>1, <2>3
  <2> QED BY <2>3, <2>6, <2>8, <2>9, <2>10 DEF After
<1>3. m < Len(fifo) => fifo[m + 1].id = NextIn
  <2> SUFFICES ASSUME m < Len(fifo) PROVE fifo[m + 1].id = NextIn
    OBVIOUS
  <2>1. m + 1 \in 1 .. Len(fifo) /\ m + 1 <= m + 1
    BY <1>1
  <2> QED BY <1>2, <2>1
<1>4. m = Len(fifo) => arrived = NextIn
  <2> SUFFICES ASSUME m = Len(fifo), fifo # <<>> PROVE arrived = NextIn
    BY DEF NextIn
  <2>1. m \in 1 .. m /\ m \in 1 .. Len(fifo) /\ m <= m + 1
    BY <1>1, EmptySeq DEF FifoTypes
  <2>2. fifo[m].id = NextIn
    BY <1>2, <2>1
  <2> QED BY <2>1, <2>2 DEF FifoNumbered, After
<1> QED BY <1>3, <1>4

(* The number at which a host that sets up a new ring starts: WriteRDLEN   *)
LEMMA Resynchronise ==
  ASSUME FifoTypes, FifoNumbered
  PROVE  (IF \E i \in DOMAIN fifo : fifo[i].known
            THEN LET i == CHOOSE i \in DOMAIN fifo :
                            /\ fifo[i].known
                            /\ \A j \in 1 .. (i - 1) : ~fifo[j].known
                 IN  fifo[i].id
            ELSE arrived) = NextIn
<1> DEFINE First(i) == fifo[i].known /\ \A j \in 1 .. (i - 1) : ~fifo[j].known
<1>1. Len(fifo) \in Nat /\ DOMAIN fifo = 1 .. Len(fifo)
  BY LenProperties DEF FifoTypes
<1>2. CASE \E i \in DOMAIN fifo : fifo[i].known
  <2> DEFINE K == {i \in DOMAIN fifo : fifo[i].known}
  <2>1. K \in SUBSET Nat /\ K # {}
    BY <1>1, <1>2
  <2>2. PICK x \in K : \A y \in K : x <= y
    BY <2>1, LeastNat
  <2>3. x \in DOMAIN fifo /\ First(x)
    <3>1. x \in 1 .. Len(fifo) /\ fifo[x].known
      BY <1>1
    <3>2. ASSUME NEW j \in 1 .. (x - 1), fifo[j].known PROVE FALSE
      <4>1. j \in K /\ ~(x <= j)
        BY <1>1, <3>1, <3>2
      <4> QED BY <2>2, <4>1
    <3> QED BY <1>1, <3>1, <3>2
  <2> HIDE DEF First
  <2> DEFINE z == CHOOSE i \in DOMAIN fifo : First(i)
  <2>4. z \in DOMAIN fifo /\ First(z)
    BY <2>3
  <2> HIDE DEF z
  <2>5. z - 1 \in Nat /\ z - 1 < Len(fifo) /\ (z - 1) + 1 = z
    BY <1>1, <2>4
  <2>6. fifo[z].id = NextIn
    <3>1. \A j \in 1 .. (z - 1) : ~fifo[j].known
      BY <2>4 DEF First
    <3>2. z - 1 <= Len(fifo)
      BY <1>1, <2>5
    <3>3. fifo[(z - 1) + 1].id = NextIn
      BY <2>5, <3>1, <3>2, FirstKnown
    <3> QED BY <2>5, <3>3
  <2> QED BY <1>2, <2>6 DEF z, First
<1>3. CASE ~ \E i \in DOMAIN fifo : fifo[i].known
  <2>1. \A j \in 1 .. Len(fifo) : ~fifo[j].known
    BY <1>1, <1>3
  <2>2. Len(fifo) <= Len(fifo)
    BY <1>1
  <2>3. arrived = NextIn
    BY <1>1, <2>1, <2>2, FirstKnown
  <2> QED BY <1>3, <2>3
<1> QED BY <1>2, <1>3
-----------------------------------------------------------------------------
(* The steps                                                               *)

LEMMA IntrTypes ==
  ASSUME IntrTypeOK,
         \/ \E bits \in SUBSET Bits : Cause(bits)
         \/ ReadICR \/ Reset \/ UNCHANGED intrVars
  PROVE  IntrTypeOK'
<1> USE DEF IntrTypeOK, IntrState
<1>1. ASSUME NEW bits \in SUBSET Bits, Cause(bits) PROVE IntrTypeOK'
  BY <1>1 DEF Cause, icr_assert, signal
<1>2. CASE ReadICR
  BY <1>2 DEF ReadICR, icr_deassert
<1>3. CASE Reset
  BY <1>3 DEF Reset, intr_reset
<1>4. CASE UNCHANGED intrVars
  BY <1>4 DEF intrVars
<1> QED BY <1>1, <1>2, <1>3, <1>4

(* The state before e82545_init and after a reset: size is 0.              *)
LEMMA NoRing ==
  ASSUME size' = 0, ~enabled', pc' # "rx"
  PROVE  RingAgrees' /\ LoopAgrees' /\ RowNumbered'
BY RingSize DEF RingAgrees, LoopAgrees, RowNumbered

LEMMA RxInitInv == RxInit => RxInv
<1> SUFFICES ASSUME RxInit PROVE RxInv
  OBVIOUS
<1>1. 0 \in Index /\ Blank \in Desc
  BY RingSize, LenAssumption DEF Index, Blank, Desc, Ids
<1>2. IntrTypeOK
  BY DEF RxInit, IntrInit, InitIntr, IntrTypeOK, IntrState
<1>3. ring \in [Index -> Desc] /\ fifo \in Seq(Packet) /\ cause \subseteq Bits
  BY <1>1 DEF RxInit
<1>4. RxTypeOK
  BY <1>1, <1>2, <1>3 DEF RxInit, RxTypeOK, Ids
<1>5. FifoNumbered
  BY DEF RxInit, FifoNumbered
<1>6. RingAgrees /\ LoopAgrees /\ RowNumbered
  BY RingSize DEF RxInit, RingAgrees, LoopAgrees, RowNumbered
<1> QED BY <1>4, <1>5, <1>6 DEF RxInv

(* What the row is made of stays as it is.                                 *)
LEMMA RowKept ==
  ASSUME RxInv, UNCHANGED <<size, ring, clean, taken, RDT>>, Cur' = Cur, NextIn' = NextIn
  PROVE  RingAgrees' /\ RowNumbered'
<1>1. Delivered' = Delivered /\ End' = End
  BY DEF Delivered, Window, Ahead, End, Plus
<1>2. Ahead(clean, Cur)' = Ahead(clean, Cur) /\ Ahead(clean, RDT)' = Ahead(clean, RDT)
  BY DEF Ahead
<1> QED BY <1>1, <1>2 DEF RxInv, RingAgrees, RowNumbered, Plus, After

LEMMA FifoKept ==
  ASSUME RxInv, UNCHANGED <<fifo, arrived>>
  PROVE  FifoNumbered' /\ NextIn' = NextIn
BY DEF RxInv, FifoNumbered, NextIn

(* The steps that touch neither the row of descriptors nor its head        *)
LEMMA QuietInv ==
  ASSUME RxInv,
         \/ \E on \in BOOLEAN : WriteRCTL(on)
         \/ AccessIntr \/ NoRequest \/ PollIdle \/ UNCHANGED rxVars
  PROVE  RxInv'
<1>1. UNCHANGED <<size, RDH, RDT, ring, fifo, head, left, lim, cause, clean, arrived, taken>>
  BY DEF WriteRCTL, AccessIntr, NoRequest, PollIdle, rxVars, dev, locals, host
<1>2. \/ UNCHANGED <<pc, enabled>>
      \/ pc # "rx" /\ pc' \in {"idle", "poll"} /\ enabled' \in BOOLEAN /\ (enabled' => enabled \/ size = RxSize)
  BY DEF WriteRCTL, AccessIntr, NoRequest, PollIdle, rxVars, dev, Request, RxInv, RxTypeOK
<1>3. Cur' = Cur
  BY <1>1, <1>2 DEF Cur
<1>4. FifoNumbered' /\ NextIn' = NextIn
  BY <1>1, FifoKept
<1>5. RingAgrees' /\ RowNumbered'
  BY <1>1, <1>3, <1>4, RowKept
<1>6. LoopAgrees'
  <2>1. Left(head)' = Left(head) /\ Left(RDH)' = Left(RDH)
    BY <1>1 DEF Left
  <2> QED BY <1>1, <1>2, <2>1 DEF RxInv, LoopAgrees
<1>7. IntrTypeOK'
  BY IntrTypes DEF RxInv, RxTypeOK, WriteRCTL, AccessIntr, NoRequest, PollIdle, rxVars, intrVars
<1>8. RxTypeOK'
  BY <1>1, <1>2, <1>7 DEF RxInv, RxTypeOK
<1> QED BY <1>4, <1>5, <1>6, <1>8 DEF RxInv

LEMMA ArriveInv ==
  ASSUME RxInv, NEW len \in Lens, NEW known \in BOOLEAN, Arrive(len, known)
  PROVE  RxInv'
<1>1. UNCHANGED <<pc, enabled, size, RDH, RDT, ring, head, left, lim, cause, clean, taken, intrVars>>
  BY DEF Arrive, dev, locals, host
<1>2. FifoTypes' /\ FifoNumbered' /\ NextIn' = NextIn
  <2>1. FifoTypes /\ FifoNumbered
    BY DEF RxInv, RxTypeOK, FifoTypes
  <2> QED BY <2>1, PacketArrives
<1>3. Cur' = Cur
  BY <1>1 DEF Cur
<1>4. RingAgrees' /\ RowNumbered'
  BY <1>1, <1>2, <1>3, RowKept
<1>5. LoopAgrees'
  BY <1>1 DEF RxInv, LoopAgrees, Left
<1>6. RxTypeOK'
  BY <1>1, <1>2, IntrTypes DEF RxInv, RxTypeOK, FifoTypes
<1> QED BY <1>2, <1>4, <1>5, <1>6 DEF RxInv

LEMMA ResetInv ==
  ASSUME RxInv, ResetDevice
  PROVE  RxInv'
<1>1. /\ pc' = "poll" /\ Reset /\ enabled' = FALSE /\ size' = 0 /\ RDH' = 0 /\ RDT' = 0
      /\ UNCHANGED <<ring, fifo, head, left, lim, cause, clean, arrived, taken>>
  BY DEF ResetDevice, Request, locals, host
<1>2. 0 \in Index
  BY RingSize DEF Index
<1>3. RxTypeOK'
  BY <1>1, <1>2, IntrTypes DEF RxInv, RxTypeOK
<1> QED BY <1>1, <1>3, NoRing, FifoKept DEF RxInv

(* A new ring is empty, and starts with the next packet of the FIFO.       *)
LEMMA WriteRDLENInv ==
  ASSUME RxInv, WriteRDLEN
  PROVE  RxInv'
<1>1. /\ pc = "idle" /\ pc' = "poll" /\ ~enabled
      /\ size' = RxSize /\ RDH' = 0 /\ RDT' = 0 /\ clean' = 0
      /\ ring' = [i \in Index |-> Blank]
      /\ UNCHANGED <<enabled, fifo, head, left, lim, cause, arrived, intrVars>>
  BY DEF WriteRDLEN, Request, locals
<1>2. 0 \in Index /\ Blank \in Desc
  BY RingSize, LenAssumption DEF Index, Blank, Desc, Ids
<1>3. FifoNumbered' /\ NextIn' = NextIn
  BY <1>1, FifoKept
<1>4. taken' = NextIn
  <2>1. FifoTypes /\ FifoNumbered
    BY DEF RxInv, RxTypeOK, FifoTypes
  <2> QED BY <2>1, Resynchronise DEF WriteRDLEN
<1>5. NextIn \in 0 .. (Ids - 1)
  <2>1. fifo # <<>> => Head(fifo) \in Packet
    BY HeadTailProperties DEF RxInv, RxTypeOK
  <2> QED BY <2>1 DEF NextIn, Packet, RxInv, RxTypeOK
<1>6. Cur' = 0 /\ Delivered' = {} /\ Ahead(clean, Cur)' = 0 /\ Ahead(clean, RDT)' = 0
  <2>1. Cur' = 0
    BY <1>1 DEF Cur
  <2>2. Ahead(0, 0) = 0 /\ \A k \in Index : ~(Ahead(0, k) < 0)
    BY <1>2, Distances, RingArithmetic
  <2> QED BY <1>1, <2>1, <2>2 DEF Delivered, Window, Ahead
<1>7. RingAgrees'
  BY <1>1, <1>6 DEF RingAgrees, Blank
<1>8. RowNumbered'
  BY <1>1, <1>3, <1>4, <1>6 DEF RowNumbered
<1>9. LoopAgrees'
  BY <1>1 DEF LoopAgrees
<1>10. RxTypeOK'
  <2>1. ring' \in [Index -> Desc]
    BY <1>1, <1>2
  <2> QED BY <1>1, <1>2, <1>4, <1>5, <2>1, IntrTypes DEF RxInv, RxTypeOK
<1> QED BY <1>3, <1>7, <1>8, <1>9, <1>10 DEF RxInv

(* The host gives descriptors: it has taken all but those that wait.       *)
LEMMA WriteRDTInv ==
  ASSUME RxInv, NEW k \in 1 .. (RxSize - 1), WriteRDT(k)
  PROVE  RxInv'
<1>1. /\ pc = "idle" /\ pc' = "poll" /\ size = RxSize /\ RDT' = Plus(RDT, k)
      /\ k <= Ahead(Plus(RDT, 1), clean)
      /\ UNCHANGED <<enabled, size, RDH, ring, fifo, head, left, lim, cause, clean, arrived, taken, intrVars>>
  BY DEF WriteRDT, Request, locals, host
<1>2. clean \in Index /\ RDT \in Index /\ RDH \in Index
  BY DEF RxInv, RxTypeOK
<1>3. /\ RxSize \in Nat /\ RxSize > 1
      /\ \A i, j \in Index :
           Ahead(i, j) \in Int /\ 0 <= Ahead(i, j) /\ Ahead(i, j) < RxSize
  BY RingSize, RingArithmetic
<1>4. RDT' \in Index /\ Ahead(RDT, RDT') = k
  <2>1. k \in 0 .. (RxSize - 1)
    BY <1>3
  <2> QED BY <1>1, <1>2, <2>1, RingArithmetic, Distances
<1>5. Ahead(clean, RDT) + k < RxSize
  <2> DEFINE q == Plus(RDT, 1)
  <2>1. q \in Index /\ Plus(q, RxSize - 1) = RDT
    BY <1>2, Neighbours
  <2>2. clean # q
    <3>1. Ahead(clean, clean) = 0
      BY <1>2, Distances
    <3> QED BY <1>1, <3>1
  <2> HIDE DEF q
  <2>3. Ahead(clean, q) >= 1 /\ Ahead(clean, RDT) = Ahead(clean, q) - 1
    BY <1>2, <2>1, <2>2, Before
  <2>4. Ahead(q, clean) = 0 - Ahead(clean, q) + RxSize
    <3>1. Ahead(clean, clean) = 0
      BY <1>2, Distances
    <3>2. Ahead(clean, clean) < Ahead(clean, q)
      BY <1>2, <1>3, <2>1, <2>3, <3>1
    <3> QED BY <1>2, <2>1, <3>1, <3>2, Distances
  <2> QED BY <1>1, <1>2, <1>3, <2>1, <2>3, <2>4 DEF q
<1>6. Ahead(clean, RDT') = Ahead(clean, RDT) + k
  <2>1. CASE Ahead(clean, RDT) <= Ahead(clean, RDT')
    <3>1. Ahead(RDT, RDT') = Ahead(clean, RDT') - Ahead(clean, RDT)
      BY <1>2, <1>4, <2>1, Distances
    <3> QED BY <1>2, <1>3, <1>4, <3>1
  <2>2. CASE Ahead(clean, RDT') < Ahead(clean, RDT)
    <3>1. Ahead(RDT, RDT') = Ahead(clean, RDT') - Ahead(clean, RDT) + RxSize
      BY <1>2, <1>4, <2>2, Distances
    <3> QED BY <1>2, <1>3, <1>4, <1>5, <3>1
  <2> QED BY <1>2, <1>3, <1>4, <2>1, <2>2
<1>7. FifoNumbered' /\ NextIn' = NextIn
  BY <1>1, FifoKept
<1>8. Cur = RDH /\ Cur' = Cur /\ Delivered' = Delivered /\ End' = End
  BY <1>1 DEF Cur, Delivered, Window, Ahead, End, Plus
<1>9. RingAgrees'
  <2>1. Ahead(clean, Cur) <= Ahead(clean, RDT)
    BY <1>1 DEF RxInv, RingAgrees
  <2>2. Ahead(clean, Cur) <= Ahead(clean, RDT')
    BY <1>2, <1>3, <1>6, <1>8, <2>1
  <2>3. Ahead(clean, Cur)' <= Ahead(clean, RDT)'
    BY <1>1, <1>8, <2>2 DEF Ahead
  <2> QED BY <1>1, <1>8, <2>3 DEF RxInv, RingAgrees
<1>10. RowNumbered'
  BY <1>1, <1>7, <1>8 DEF RxInv, RowNumbered, Plus, After
<1>11. LoopAgrees'
  BY <1>1 DEF RxInv, LoopAgrees
<1>12. RxTypeOK'
  BY <1>1, <1>4, IntrTypes DEF RxInv, RxTypeOK
<1> QED BY <1>7, <1>9, <1>10, <1>11, <1>12 DEF RxInv

(* e82545_tap_callback starts its loop at RDH, and ends it there.          *)
LEMMA PollInv ==
  ASSUME RxInv, Poll
  PROVE  RxInv'
<1>1. /\ pc # "rx" /\ pc' = "rx" /\ enabled /\ head' = RDH /\ left' = Left(RDH)
      /\ lim' = size \div 4 /\ cause' = {}
      /\ UNCHANGED <<enabled, size, RDH, RDT, ring, fifo, clean, taken, arrived, intrVars>>
  BY DEF Poll, CanReceive, dev, host
<1>2. size = RxSize /\ RDT \in Index /\ RDH \in Index /\ RxSize \in Nat
  BY <1>1, RingSize DEF RxInv, RxTypeOK, LoopAgrees
<1>3. Left(RDH) \in Int
  <2>1. Left(RDH) = Ahead(RDH, RDT)
    BY <1>2, LeftIsAhead
  <2> QED BY <1>2, <2>1, RingArithmetic
<1>4. FifoNumbered' /\ NextIn' = NextIn
  BY <1>1, FifoKept
<1>5. Cur' = Cur
  BY <1>1 DEF Cur
<1>6. RingAgrees' /\ RowNumbered'
  BY <1>1, <1>4, <1>5, RowKept
<1>7. RxSize \div 4 \in Int
  BY <1>2
<1>8. LoopAgrees'
  <2>1. Left(RDH)' = Left(RDH) /\ Left(head)' = Left(RDH)
    BY <1>1 DEF Left
  <2> QED BY <1>1, <1>2, <1>3, <1>7, <2>1 DEF LoopAgrees
<1>9. RxTypeOK'
  BY <1>1, <1>2, <1>3, <1>7, IntrTypes DEF RxInv, RxTypeOK
<1> QED BY <1>4, <1>6, <1>8, <1>9 DEF RxInv

LEMMA FinishInv ==
  ASSUME RxInv, Finish
  PROVE  RxInv'
<1>1. /\ pc = "rx" /\ pc' = "idle" /\ RDH' = head
      /\ Cause(cause \cup (IF Left(head) < LowMark THEN {"RXDMT0"} ELSE {}))
      /\ head' = 0 /\ left' = 0 /\ lim' = 0 /\ cause' = {}
      /\ UNCHANGED <<enabled, size, RDT, ring, fifo, clean, taken, arrived>>
  BY DEF Finish, host
<1>2. IntrTypeOK'
  <2>1. cause \cup (IF Left(head) < LowMark THEN {"RXDMT0"} ELSE {}) \in SUBSET Bits
    BY RxBitsAssumption DEF RxInv, RxTypeOK
  <2> QED BY <1>1, <2>1, IntrTypes DEF RxInv, RxTypeOK
<1>3. 0 \in Index
  BY RingSize DEF Index
<1>4. FifoNumbered' /\ NextIn' = NextIn
  BY <1>1, FifoKept
<1>5. Cur' = Cur
  BY <1>1 DEF Cur
<1>6. RingAgrees' /\ RowNumbered'
  BY <1>1, <1>4, <1>5, RowKept
<1>7. LoopAgrees'
  BY <1>1 DEF RxInv, LoopAgrees
<1>8. RxTypeOK'
  BY <1>1, <1>2, <1>3 DEF RxInv, RxTypeOK
<1> QED BY <1>4, <1>6, <1>7, <1>8 DEF RxInv
(* The host takes the first descriptor of the row.                         *)
LEMMA ConsumeInv ==
  ASSUME RxInv, Consume
  PROVE  RxInv' /\ ring[clean].id = taken
<1> DEFINE c == clean
           q == Plus(clean, 1)
           d(i) == Ahead(clean, i)
<1>1. /\ size = RxSize /\ ring[clean].dd /\ ring' = [ring EXCEPT ![clean] = Blank]
      /\ clean' = q
      /\ taken' = IF ring[clean].eop THEN (taken + 1) % Ids ELSE taken
      /\ UNCHANGED <<pc, enabled, size, RDH, RDT, fifo, head, left, lim, cause, arrived, intrVars>>
  BY DEF Consume, dev, locals
<1>2. /\ c \in Index /\ RDT \in Index /\ Cur \in Index /\ taken \in 0 .. (Ids - 1)
      /\ ring \in [Index -> Desc] /\ \A i \in Index : ring[i] \in Desc
  BY DEF RxInv, RxTypeOK, Cur
<1>3. /\ RxSize \in Nat /\ RxSize > 1
      /\ \A i, j \in Index :
           Ahead(i, j) \in Int /\ 0 <= Ahead(i, j) /\ Ahead(i, j) < RxSize
  BY RingSize, RingArithmetic
<1>4. /\ \A i \in Index : ring[i].dd <=> i \in Delivered
      /\ d(Cur) <= d(RDT)
  BY <1>1 DEF RxInv, RingAgrees
<1>5. c \in Delivered
  BY <1>1, <1>2, <1>4
<1>6. /\ q \in Index /\ d(q) = 1 /\ d(c) = 0 /\ Ahead(q, c) = RxSize - 1 /\ d(Cur) >= 1
      /\ q # c
  <2>1. q \in Index /\ d(q) = 1 /\ d(c) = 0
    BY <1>2, Neighbours, Distances
  <2>2. Ahead(q, c) = d(c) - d(q) + RxSize
    BY <1>2, <2>1, Distances
  <2>3. d(Cur) >= 1
    BY <1>2, <1>3, <1>5, <2>1 DEF Delivered, Window
  <2> QED BY <1>3, <2>1, <2>2, <2>3
<1> HIDE DEF q
<1>7. ASSUME NEW i \in Index, i # c
      PROVE  d(i) >= 1 /\ Ahead(q, i) = d(i) - 1
  <2>1. d(i) # 0
    BY <1>2, <1>6, <1>7, Distances
  <2>2. d(q) <= d(i)
    BY <1>2, <1>3, <1>6, <1>7, <2>1
  <2> QED BY <1>2, <1>6, <2>2, Distances
<1>8. Cur # c /\ RDT # c
  BY <1>2, <1>3, <1>4, <1>6
<1>9. Cur' = Cur
  BY <1>1 DEF Cur
<1>10. /\ \A i \in Index : i # c => ring'[i] = ring[i]
       /\ ring'[c] = Blank /\ ring' \in [Index -> Desc]
  <2>1. Blank \in Desc
    BY LenAssumption DEF Blank, Desc, Ids
  <2> QED BY <1>1, <1>2, <2>1
<1>11. \A i \in Index : i \in Delivered' <=> i # c /\ i \in Delivered
  <2>1. Delivered' = Window(q, Cur)
    BY <1>1, <1>9 DEF Delivered, Window, Ahead
  <2>2. Ahead(q, Cur) = d(Cur) - 1
    BY <1>2, <1>7, <1>8
  <2>3. ASSUME NEW i \in Index, i # c PROVE i \in Window(q, Cur) <=> i \in Window(c, Cur)
    <3>1. Ahead(q, i) = d(i) - 1
      BY <1>7, <2>3
    <3> QED BY <1>2, <1>3, <2>2, <3>1 DEF Window
  <2>4. c \notin Window(q, Cur)
    BY <1>2, <1>3, <1>6, <2>2 DEF Window
  <2> QED BY <2>1, <2>3, <2>4 DEF Delivered
<1>12. RingAgrees'
  <2>1. \A i \in Index : ring'[i].dd <=> i \in Delivered'
    BY <1>2, <1>4, <1>10, <1>11 DEF Blank
  <2>2. Ahead(q, Cur) <= Ahead(q, RDT)
    BY <1>2, <1>3, <1>4, <1>7, <1>8
  <2>3. Ahead(clean, Cur)' <= Ahead(clean, RDT)'
    BY <1>1, <1>9, <2>2 DEF Ahead
  <2> QED BY <2>1, <2>3 DEF RingAgrees
<1>13. FifoNumbered' /\ NextIn' = NextIn
  BY <1>1, FifoKept
<1>14. /\ ring[c].id = taken /\ End.eop /\ NextIn = After(End, End.eop)
       /\ \A i \in Delivered : Plus(i, 1) # Cur => ring[Plus(i, 1)].id = After(ring[i], ring[i].eop)
  BY <1>1, <1>8 DEF RxInv, RowNumbered
<1>15. taken' = After(ring[c], ring[c].eop)
  BY <1>1, <1>14 DEF After
<1>16. RowNumbered'
  <2> DEFINE e == Plus(Cur, RxSize - 1)
  <2>1. e \in Index /\ Plus(e, 1) = Cur /\ d(e) = d(Cur) - 1 /\ End = ring[e] /\ End' = ring'[e]
    BY <1>2, <1>8, <1>9, Before DEF End, Plus
  <2> HIDE DEF e
  <2>2. ASSUME q = Cur PROVE taken' = NextIn
    <3>1. d(e) = 0
      BY <1>6, <2>1, <2>2
    <3>2. e = c
      BY <1>2, <1>6, <2>1, <3>1, Distances
    <3> QED BY <1>14, <1>15, <2>1, <3>2
  <2>3. ASSUME q # Cur PROVE ring'[q].id = taken' /\ End' = End
    <3>1. ring[q].id = After(ring[c], ring[c].eop)
      BY <1>5, <1>14, <2>3 DEF q
    <3>2. d(e) # 0
      <4>1. d(q) # d(Cur)
        BY <1>2, <1>6, <2>3, Distances
      <4> QED BY <1>2, <1>3, <1>6, <2>1, <4>1
    <3>3. e # c
      BY <1>6, <3>2
    <3> QED BY <1>6, <1>10, <1>15, <2>1, <3>1, <3>3
  <2>4. ASSUME NEW i \in Delivered', Plus(i, 1) # Cur
        PROVE  ring'[Plus(i, 1)].id = After(ring'[i], ring'[i].eop)
    <3>1. i \in Index
      BY DEF Delivered, Window
    <3>2. i # c /\ i \in Delivered
      BY <1>11, <3>1
    <3>3. Plus(i, 1) \in Index /\ d(Plus(i, 1)) = d(i) + 1
      BY <1>2, <3>2, Next DEF Delivered
    <3>4. Plus(i, 1) # c
      BY <1>2, <1>3, <1>6, <3>1, <3>3
    <3> QED BY <1>10, <1>14, <2>4, <3>1, <3>2, <3>3, <3>4
  <2>5. \A i \in Delivered' :
          Plus(i, 1)' # Cur' => ring'[Plus(i, 1)'].id = After(ring[i], ring[i].eop)'
    BY <1>9, <2>4 DEF Plus, After
  <2> QED BY <1>1, <1>9, <1>13, <1>14, <2>2, <2>3, <2>5 DEF RowNumbered, After
<1>17. LoopAgrees'
  BY <1>1 DEF RxInv, LoopAgrees, Left
<1>18. RxTypeOK'
  <2>1. taken' \in 0 .. (Ids - 1)
    BY <1>1, <1>2 DEF Ids
  <2> QED BY <1>1, <1>6, <1>10, <2>1, IntrTypes DEF RxInv, RxTypeOK
<1> QED BY <1>12, <1>13, <1>14, <1>16, <1>17, <1>18 DEF RxInv
(* What a turn of the loop finds: room for its packet in front of RDT      *)
LEMMA Room ==
  ASSUME RxInv, pc = "rx", Looping
  PROVE  /\ fifo # <<>> /\ Head(fifo) \in Packet /\ size = RxSize
         /\ left = Ahead(head, RDT) /\ left <= Ahead(RDH, RDT)
         /\ Descs(Frame(Head(fifo).len)) \in Nat
         /\ 1 <= Descs(Frame(Head(fifo).len)) /\ Descs(Frame(Head(fifo).len)) <= left
<1>1. fifo # <<>> /\ left >= MaxPktDesc /\ left \in Int
  BY DEF Looping, RxInv, RxTypeOK
<1>2. Head(fifo) \in Packet /\ Head(fifo).len \in Lens
  <2>1. Head(fifo) \in Packet
    BY <1>1, HeadTailProperties DEF RxInv, RxTypeOK
  <2> QED BY <2>1 DEF Packet
<1>3. size = RxSize /\ left = Left(head) /\ left <= Left(RDH)
  BY DEF RxInv, LoopAgrees
<1>4. left = Ahead(head, RDT) /\ left <= Ahead(RDH, RDT)
  BY <1>3, LeftIsAhead DEF RxInv, RxTypeOK
<1>5. MaxPktDesc \in Nat
  BY LenAssumption, Z3 DEF MaxPktDesc, Descs
<1>6. /\ Descs(Frame(Head(fifo).len)) \in Nat
      /\ 1 <= Descs(Frame(Head(fifo).len)) /\ Descs(Frame(Head(fifo).len)) <= MaxPktDesc
  BY <1>2, PacketSizes
<1> QED BY <1>1, <1>2, <1>3, <1>4, <1>5, <1>6

(* A packet that the filter drops                                          *)
LEMMA FilterInv ==
  ASSUME RxInv, Filter
  PROVE  RxInv'
<1>1. /\ pc = "rx" /\ Looping /\ ~Head(fifo).known /\ fifo' = Tail(fifo)
      /\ UNCHANGED <<pc, enabled, size, RDH, RDT, ring, head, left, lim, cause, clean, taken, arrived,
                     intrVars>>
  BY DEF Filter, dev, locals, host
<1>2. fifo' \in Seq(Packet) /\ FifoNumbered' /\ NextIn' = NextIn
  <2>1. FifoTypes /\ FifoNumbered /\ fifo # <<>>
    BY <1>1 DEF RxInv, RxTypeOK, FifoTypes, Looping
  <2> QED BY <1>1, <2>1, TakePacket DEF After
<1>3. Cur' = Cur
  BY <1>1 DEF Cur
<1>4. RingAgrees' /\ RowNumbered'
  BY <1>1, <1>2, <1>3, RowKept
<1>5. LoopAgrees'
  BY <1>1 DEF RxInv, LoopAgrees, Left
<1>6. RxTypeOK'
  BY <1>1, <1>2, IntrTypes DEF RxInv, RxTypeOK
<1> QED BY <1>2, <1>4, <1>5, <1>6 DEF RxInv

(* A packet goes into the descriptors from head on, and the row is as long *)
(* again as the packet.                                                    *)
LEMMA ReceiveInv ==
  ASSUME RxInv, Receive
  PROVE  /\ RxInv'
         /\ \A i \in Index : ring'[i] # ring[i] => i \in Window(RDH, RDT)
<1> DEFINE p == Head(fifo)
           n == Descs(Frame(p.len))
           h == head
           q == Plus(head, n)
           d(i) == Ahead(clean, i)
<1>1. /\ pc = "rx" /\ pc' = "rx" /\ Looping /\ p.known
      /\ ring' = [i \in Index |-> IF Ahead(h, i) < n THEN Filled(p, Ahead(h, i)) ELSE ring[i]]
      /\ head' = NextHead(n) /\ left' = left - n /\ lim' = lim - n
      /\ cause' = cause \cup {"RXT0"} /\ fifo' = Tail(fifo)
      /\ UNCHANGED <<enabled, size, RDH, RDT, clean, taken, arrived, intrVars>>
  BY DEF Receive, dev, host
<1>2. /\ clean \in Index /\ RDT \in Index /\ RDH \in Index /\ h \in Index /\ Cur = h
      /\ ring \in [Index -> Desc] /\ left \in Int /\ lim \in Int
  BY <1>1 DEF RxInv, RxTypeOK, Cur
<1>3. /\ RxSize \in Nat /\ RxSize > 1
      /\ \A i, j \in Index :
           Ahead(i, j) \in Int /\ 0 <= Ahead(i, j) /\ Ahead(i, j) < RxSize
  BY RingSize, RingArithmetic
<1>4. /\ fifo # <<>> /\ p \in Packet /\ size = RxSize
      /\ left = Ahead(h, RDT) /\ left <= Ahead(RDH, RDT)
      /\ n \in Nat /\ 1 <= n /\ n <= left
  BY <1>1, Room
<1>5. /\ \A i \in Index : ring[i].dd <=> i \in Delivered
      /\ d(h) <= d(RDT)
  BY <1>2, <1>4 DEF RxInv, RingAgrees
<1>6. head' = q
  BY <1>1, <1>4 DEF NextHead, Plus
<1>7. \A k \in Nat : Filled(p, k) \in Desc /\ Filled(p, k).dd /\ Filled(p, k).id = p.id
                     /\ (Filled(p, k).eop <=> k = n - 1)
  <2>1. p.len \in Lens
    BY <1>4 DEF Packet
  <2>2. \A k \in Nat : Filled(p, k) \in Desc
    BY <1>4, <2>1, PacketSizes
  <2>3. \A k \in Nat : Filled(p, k).dd /\ Filled(p, k).id = p.id /\ (Filled(p, k).eop <=> k = n - 1)
    BY DEF Filled
  <2> QED BY <2>2, <2>3
<1>8. /\ fifo' \in Seq(Packet) /\ FifoNumbered'
      /\ NextIn = p.id /\ NextIn' = After(p, TRUE)
  <2>1. FifoTypes /\ FifoNumbered
    BY DEF RxInv, RxTypeOK, FifoTypes
  <2> QED BY <1>1, <1>4, <2>1, TakePacket DEF After
<1> HIDE DEF n, p, h
<1>9. /\ q \in Index /\ d(q) = d(h) + n /\ d(q) <= d(RDT) /\ Ahead(q, RDT) = left - n
      /\ \A i \in Index : Ahead(h, i) < n <=> d(h) <= d(i) /\ d(i) < d(h) + n
      /\ \A i \in Index : d(h) <= d(i) => Ahead(h, i) = d(i) - d(h)
  BY <1>2, <1>4, <1>5, Advance DEF h
<1> HIDE DEF q
<1>10. ASSUME NEW i \in Index
       PROVE  /\ ring'[i] \in Desc
              /\ d(h) <= d(i) /\ d(i) < d(h) + n =>
                   /\ ring'[i].dd /\ ring'[i].id = p.id
                   /\ ring'[i].eop <=> d(i) = d(h) + n - 1
              /\ d(i) < d(h) \/ d(h) + n <= d(i) => ring'[i] = ring[i]
  <2>1. d(i) \in Int /\ Ahead(h, i) \in Int /\ 0 <= Ahead(h, i) /\ d(h) \in Int /\ ring[i] \in Desc
    BY <1>2, <1>3
  <2>2. CASE Ahead(h, i) < n
    <3>1. d(h) <= d(i) /\ d(i) < d(h) + n /\ Ahead(h, i) = d(i) - d(h)
      BY <1>9, <2>2
    <3>2. Ahead(h, i) \in Nat
      BY <2>1
    <3>3. ring'[i] = Filled(p, Ahead(h, i))
      BY <1>1, <2>2
    <3>4. Ahead(h, i) = n - 1 <=> d(i) = d(h) + n - 1
      BY <1>4, <2>1, <3>1
    <3>5. /\ ring'[i] \in Desc /\ ring'[i].dd /\ ring'[i].id = p.id
          /\ ring'[i].eop <=> d(i) = d(h) + n - 1
      BY <1>7, <3>2, <3>3, <3>4
    <3>6. ~(d(i) < d(h) \/ d(h) + n <= d(i))
      BY <1>4, <2>1, <3>1
    <3> QED BY <3>5, <3>6
  <2>3. CASE ~(Ahead(h, i) < n)
    <3>1. ring'[i] = ring[i] /\ ~(d(h) <= d(i) /\ d(i) < d(h) + n)
      BY <1>1, <1>9, <2>3
    <3> QED BY <2>1, <3>1
  <2> QED BY <2>2, <2>3
<1>11. Cur' = q /\ Delivered' = Window(clean, q)
  BY <1>1, <1>6 DEF Cur, Delivered, Window, Ahead
<1>12. RingAgrees'
  <2>1. ASSUME NEW i \in Index PROVE ring'[i].dd <=> i \in Delivered'
    <3>1. d(i) \in Int /\ d(h) \in Int
      BY <1>2, <1>3
    <3>2. /\ i \in Delivered' <=> d(i) < d(h) + n
          /\ i \in Delivered <=> d(i) < d(h)
      BY <1>2, <1>9, <1>11 DEF Delivered, Window
    <3>3. CASE d(i) < d(h)
      BY <1>4, <1>5, <1>10, <3>1, <3>2, <3>3
    <3>4. CASE d(h) <= d(i) /\ d(i) < d(h) + n
      BY <1>10, <3>2, <3>4
    <3>5. CASE d(h) + n <= d(i)
      <4>1. ~(d(i) < d(h) + n) /\ ~(d(i) < d(h))
        BY <1>4, <3>1, <3>5
      <4> QED BY <1>5, <1>10, <3>2, <3>5, <4>1
    <3> QED BY <1>4, <3>1, <3>3, <3>4, <3>5
  <2>2. Ahead(clean, Cur)' <= Ahead(clean, RDT)'
    BY <1>1, <1>9, <1>11 DEF Ahead
  <2> QED BY <2>1, <2>2 DEF RingAgrees
<1>13. LoopAgrees'
  <2>1. lim <= RxSize \div 4 /\ RxSize \div 4 \in Int
    BY <1>1, <1>3 DEF RxInv, LoopAgrees
  <2>2. left' <= Ahead(RDH, RDT) /\ lim' <= RxSize \div 4
    <3>1. Ahead(RDH, RDT) \in Int
      BY <1>2, <1>3
    <3> DEFINE room == Ahead(RDH, RDT)
               most == RxSize \div 4
    <3> HIDE DEF room, most
    <3>2. room \in Int /\ left <= room /\ most \in Int /\ lim <= most
      BY <1>4, <2>1, <3>1 DEF room, most
    <3>3. left - n <= room /\ lim - n <= most
      BY <1>2, <1>4, <3>2
    <3> QED BY <1>1, <3>3 DEF room, most
  <2>3. left' = Left(q) /\ left' <= Left(RDH)
    BY <1>1, <1>2, <1>4, <1>9, <2>2, LeftIsAhead
  <2> QED BY <1>1, <1>4, <1>6, <2>2, <2>3 DEF LoopAgrees, Left
<1>14. RxTypeOK'
  <2>1. ring' \in [Index -> Desc]
    BY <1>1, <1>10
  <2>2. left' \in Int /\ lim' \in Int
    BY <1>1, <1>2, <1>4
  <2>3. cause' \subseteq Bits
    BY <1>1, RxBitsAssumption DEF RxInv, RxTypeOK
  <2> QED BY <1>1, <1>6, <1>8, <1>9, <2>1, <2>2, <2>3, IntrTypes DEF RxInv, RxTypeOK
<1>15. RowNumbered'
  <2> DEFINE e == Plus(q, RxSize - 1)
  <2>1. d(clean) = 0 /\ d(h) \in Int /\ 0 <= d(h)
    BY <1>2, <1>3, Distances
  <2>2. clean # q
    BY <1>4, <1>9, <2>1
  <2>3. e \in Index /\ d(e) = d(q) - 1 /\ End' = ring'[e]
    BY <1>2, <1>9, <1>11, <2>2, Before DEF End, Plus
  <2> HIDE DEF e
  <2>4. d(h) <= d(e) /\ d(e) < d(h) + n /\ d(e) = d(h) + n - 1
    BY <1>4, <1>9, <2>1, <2>3
  <2>5. End'.eop /\ End'.id = p.id
    BY <1>10, <2>3, <2>4
  <2>6. NextIn' = After(End', End'.eop)
    BY <1>8, <2>5 DEF After
  <2>7. ring'[clean].id = taken
    <3>1. CASE clean = h
      <4>1. taken = p.id
        BY <1>2, <1>4, <1>8, <3>1 DEF RxInv, RowNumbered
      <4>2. d(h) <= d(clean) /\ d(clean) < d(h) + n
        BY <1>4, <2>1, <3>1
      <4> QED BY <1>2, <1>10, <4>1, <4>2
    <3>2. CASE clean # h
      <4>1. ring[clean].id = taken
        BY <1>2, <1>4, <3>2 DEF RxInv, RowNumbered
      <4>2. d(clean) < d(h)
        BY <1>2, <2>1, <3>2, Distances
      <4> QED BY <1>2, <1>10, <4>1, <4>2
    <3> QED BY <3>1, <3>2
  <2>8. ASSUME NEW i \in Delivered', Plus(i, 1) # q
        PROVE  ring'[Plus(i, 1)].id = After(ring'[i], ring'[i].eop)
    <3> DEFINE j == Plus(i, 1)
    <3>1. i \in Index /\ j \in Index /\ d(j) = d(i) + 1 /\ d(j) < d(h) + n
      BY <1>2, <1>9, <1>11, <2>8, Next
    <3>2. d(i) \in Int /\ 0 <= d(i)
      BY <1>2, <1>3, <3>1
    <3> HIDE DEF j
    <3>3. CASE d(i) + 1 < d(h)
      <4>1. ring'[i] = ring[i] /\ ring'[j] = ring[j]
        BY <1>10, <2>1, <3>1, <3>2, <3>3
      <4>2. i \in Delivered /\ j # h
        BY <1>2, <2>1, <3>1, <3>2, <3>3 DEF Delivered, Window
      <4> QED BY <1>2, <1>4, <4>1, <4>2 DEF RxInv, RowNumbered, j
    <3>4. CASE d(i) + 1 = d(h)
      <4>1. j = h
        BY <1>2, <3>1, <3>4, Distances
      <4>2. clean # h
        BY <2>1, <3>2, <3>4
      <4>3. Plus(h, RxSize - 1) = i
        BY <3>1, <4>1, Neighbours DEF j
      <4>4. End = ring[i] /\ NextIn = After(End, End.eop)
        BY <1>2, <1>4, <4>2, <4>3 DEF End, RxInv, RowNumbered
      <4>5. ring'[i] = ring[i]
        BY <1>10, <2>1, <3>1, <3>2, <3>4
      <4>6. ring'[j].id = p.id
        BY <1>4, <1>10, <2>1, <3>1, <3>4
      <4> QED BY <1>8, <4>4, <4>5, <4>6 DEF j
    <3>5. CASE d(h) <= d(i)
      <4>1. d(i) < d(h) + n /\ d(h) <= d(j) /\ d(i) # d(h) + n - 1
        BY <1>4, <2>1, <3>1, <3>2, <3>5
      <4>2. ring'[i].id = p.id /\ ~ring'[i].eop /\ ring'[j].id = p.id
        BY <1>10, <3>1, <3>5, <4>1
      <4> QED BY <4>2 DEF After, j
    <3> QED BY <2>1, <3>2, <3>3, <3>4, <3>5
  <2>9. \A i \in Delivered' :
          Plus(i, 1)' # Cur' => ring'[Plus(i, 1)'].id = After(ring[i], ring[i].eop)'
    BY <1>11, <2>8 DEF Plus, After
  <2> QED BY <1>1, <1>11, <2>2, <2>5, <2>6, <2>7, <2>9 DEF RowNumbered, After
<1>16. ASSUME NEW i \in Index, ring'[i] # ring[i] PROVE i \in Window(RDH, RDT)
  <2>1. Ahead(h, i) < n
    BY <1>1, <1>16
  <2>2. /\ Ahead(RDH, h) \in Int /\ Ahead(RDH, RDT) \in Int /\ Ahead(RDH, i) \in Int
        /\ Ahead(RDH, h) < RxSize
    BY <1>2, <1>3
  <2>3. Ahead(RDH, h) <= Ahead(RDH, RDT)
    <3> SUFFICES ASSUME Ahead(RDH, RDT) < Ahead(RDH, h) PROVE FALSE
      BY <2>2
    <3>1. Ahead(h, RDT) = Ahead(RDH, RDT) - Ahead(RDH, h) + RxSize
      BY <1>2, Distances
    <3>2. Ahead(RDH, RDT) - Ahead(RDH, h) + RxSize <= Ahead(RDH, RDT)
      BY <1>4, <3>1
    <3> QED BY <1>3, <2>2, <3>2
  <2>4. Ahead(h, RDT) = Ahead(RDH, RDT) - Ahead(RDH, h)
    BY <1>2, <2>3, Distances
  <2>5. Ahead(RDH, i) < Ahead(RDH, h) + n
    BY <1>2, <1>4, <2>1, <2>3, Advance DEF h
  <2>6. Ahead(RDH, h) + n <= Ahead(RDH, RDT)
    <3>1. n <= Ahead(RDH, RDT) - Ahead(RDH, h)
      BY <1>4, <2>4
    <3> QED BY <1>4, <2>2, <3>1
  <2>7. Ahead(RDH, i) < Ahead(RDH, RDT)
    BY <1>4, <2>5, <2>2, <2>6
  <2> QED BY <2>7 DEF Window
<1> QED BY <1>8, <1>12, <1>13, <1>14, <1>15, <1>16 DEF RxInv

(* Induction: what holds of 0, and of each number after one of which it    *)
(* holds, holds up to n.                                                   *)
LEMMA Counting ==
  ASSUME NEW n \in Nat, NEW P, 0 \in P,
         \A k \in 0 .. n : k < n /\ k \in P => k + 1 \in P
  PROVE  \A k \in 0 .. n : k \in P
<1> DEFINE T == {k \in 0 .. n : k \notin P}
<1>1. SUFFICES ASSUME T # {} PROVE FALSE
  OBVIOUS
<1>2. PICK k \in T : \A j \in T : k <= j
  <2>1. T \in SUBSET Nat /\ T # {}
    BY <1>1
  <2> HIDE DEF T
  <2> QED BY <2>1, LeastNat
<1>3. k \in 1 .. n /\ k - 1 \in 0 .. n /\ k - 1 < n
  BY <1>2
<1>4. k - 1 \in P
  BY <1>2, <1>3
<1>5. (k - 1) + 1 \in P
  BY <1>3, <1>4
<1> QED BY <1>2, <1>3, <1>5

(* Full buffers, and the rest in the last one                              *)
LEMMA LengthsOfRow ==
  ASSUME NEW r, NEW i, NEW n \in Nat, n >= 1, NEW b \in Nat, NEW l \in Nat,
         \A k \in 0 .. (n - 1) : r[Plus(i, k)].length = IF k < n - 1 THEN b ELSE l
  PROVE  LengthSum(r, i, n) = b * (n - 1) + l
<1> DEFINE s == [k \in 0 .. n |-> IF k < n THEN b * k ELSE b * (n - 1) + l]
           sum == CHOOSE f : f = [k \in 0 .. n |-> IF k = 0 THEN 0 ELSE f[k - 1] + r[Plus(i, k - 1)].length]
<1>1. LengthSum(r, i, n) = sum[n]
  BY DEF LengthSum
<1>2. ASSUME NEW k \in 0 .. n
      PROVE  s[k] = IF k = 0 THEN 0 ELSE s[k - 1] + r[Plus(i, k - 1)].length
  <2>1. CASE k = 0
    BY <2>1
  <2>2. CASE k > 0
    <3>1. k - 1 \in 0 .. (n - 1) /\ k - 1 \in 0 .. n /\ k - 1 < n
      BY <2>2
    <3>2. s[k - 1] = b * (k - 1)
      BY <3>1
    <3>3. CASE k = n
      <4>1. s[k] = b * (n - 1) + l
        BY <3>3
      <4>2. r[Plus(i, k - 1)].length = l
        BY <3>1, <3>3
      <4> QED BY <2>2, <3>2, <3>3, <4>1, <4>2
    <3>4. CASE k < n
      <4>1. s[k] = b * k
        BY <3>4
      <4>2. r[Plus(i, k - 1)].length = b
        BY <3>1, <3>4
      <4>3. b * k = b * (k - 1) + b
        BY <2>2
      <4> QED BY <2>2, <3>2, <4>1, <4>2, <4>3
    <3> QED BY <3>3, <3>4
  <2> QED BY <2>1, <2>2
<1>3. s = [k \in 0 .. n |-> IF k = 0 THEN 0 ELSE s[k - 1] + r[Plus(i, k - 1)].length]
  <2>1. s = [k \in 0 .. n |-> s[k]]
    OBVIOUS
  <2> HIDE DEF s
  <2> QED BY <1>2, <2>1
<1>4. s[n] = b * (n - 1) + l
  OBVIOUS
<1> HIDE DEF s
<1>5. sum = [k \in 0 .. n |-> IF k = 0 THEN 0 ELSE sum[k - 1] + r[Plus(i, k - 1)].length]
  BY <1>3
<1> HIDE DEF sum
<1>6. sum[0] = 0 /\ s[0] = 0
  BY <1>3, <1>5
<1>7. ASSUME NEW k \in 0 .. n, k < n, sum[k] = s[k] PROVE sum[k + 1] = s[k + 1]
  <2>1. k + 1 \in 0 .. n /\ k + 1 # 0 /\ k + 1 - 1 = k
    BY <1>7
  <2>2. sum[k + 1] = sum[k] + r[Plus(i, k)].length
    BY <1>5, <2>1
  <2>3. s[k + 1] = s[k] + r[Plus(i, k)].length
    BY <1>3, <2>1
  <2> QED BY <1>7, <2>2, <2>3
<1> DEFINE P == {k \in 0 .. n : sum[k] = s[k]}
<1>8. 0 \in P
  BY <1>6
<1>9. ASSUME NEW k \in 0 .. n, k < n, k \in P PROVE k + 1 \in P
  BY <1>7, <1>9
<1>10. n \in P
  <2> HIDE DEF P
  <2> QED BY <1>8, <1>9, Counting
<1> QED BY <1>1, <1>4, <1>10

LEMMA Quotient ==
  ASSUME NEW s \in Nat, s > 0, NEW x \in Nat, NEW q \in Nat, NEW r \in Nat, x = s * q + r, r < s
  PROVE  x \div s = q
<1> DEFINE a == x \div s
           b == x % s
<1>1. a \in Nat /\ b \in Nat /\ b < s /\ s * q + r = s * a + b
  <2>1. x = s * (x \div s) + (x % s) /\ x % s \in 0 .. (s - 1) /\ x \div s \in Nat
    OBVIOUS
  <2> QED BY <2>1
<1> HIDE DEF a, b
<1>2. CASE q < a
  <2>1. PICK d \in Nat : a = q + d + 1
    BY <1>1, <1>2
  <2>2. s * a = s * q + s * d + s
    BY <1>1, <2>1
  <2>3. s * d \in Nat /\ s * q \in Nat
    BY <2>1
  <2> QED BY <1>1, <2>2, <2>3
<1>3. CASE a < q
  <2>1. PICK d \in Nat : q = a + d + 1
    BY <1>1, <1>3
  <2>2. s * q = s * a + s * d + s
    BY <1>1, <2>1
  <2>3. s * d \in Nat /\ s * a \in Nat
    BY <1>1, <2>1
  <2> QED BY <1>1, <2>2, <2>3
<1> QED BY <1>1, <1>2, <1>3 DEF a

(* The descriptors of a frame, and what is in the last one: f % Buf, where *)
(* 0 stands for a full buffer                                              *)
LEMMA FrameParts ==
  ASSUME NEW f \in Nat, f >= 1
  PROVE  \E n \in Nat, m \in Nat :
           /\ n = Descs(f) /\ m = f % Buf /\ n >= 1
           /\ f = Buf * (n - 1) + m + (IF m = 0 THEN Buf ELSE 0)
           /\ m < Buf
<1> DEFINE a == f \div Buf
           m == f % Buf
<1>1. Buf \in Nat /\ Buf > 0
  BY LenAssumption
<1>2. a \in Nat /\ m \in Nat /\ m < Buf /\ f = Buf * a + m
  <2>1. f = Buf * (f \div Buf) + (f % Buf) /\ f % Buf \in 0 .. (Buf - 1) /\ f \div Buf \in Nat
    BY <1>1
  <2> QED BY <1>1, <2>1
<1> HIDE DEF a, m
<1>3. PICK x \in Nat : x = f + Buf - 1
  BY <1>1
<1>4. CASE m = 0
  <2>1. x = Buf * a + (Buf - 1) /\ Buf - 1 \in Nat /\ Buf - 1 < Buf
    BY <1>1, <1>2, <1>3, <1>4
  <2>2. x \div Buf = a
    BY <1>1, <1>2, <2>1, Quotient
  <2>3. a # 0
    BY <1>1, <1>2, <1>4
  <2>4. PICK c \in Nat : a = c + 1
    BY <1>2, <2>3
  <2>5. Buf * a = Buf * c + Buf /\ a - 1 = c
    BY <1>1, <2>4
  <2>6. f = Buf * (a - 1) + m + Buf
    BY <1>1, <1>2, <1>4, <2>5
  <2> QED BY <1>2, <1>3, <1>4, <2>2, <2>4, <2>6 DEF Descs, m
<1>5. CASE m > 0
  <2>1. PICK c \in Nat : c = a + 1
    BY <1>2
  <2>2. Buf * c = Buf * a + Buf /\ c - 1 = a
    BY <1>1, <1>2, <2>1
  <2>3. x = Buf * c + (m - 1) /\ m - 1 \in Nat /\ m - 1 < Buf
    BY <1>1, <1>2, <1>3, <1>5, <2>2
  <2>4. x \div Buf = c
    BY <1>1, <2>3, Quotient
  <2>5. f = Buf * (c - 1) + m
    BY <1>2, <2>2
  <2> QED BY <1>2, <1>3, <1>5, <2>1, <2>4, <2>5 DEF Descs, m
<1> QED BY <1>2, <1>4, <1>5

(* What a turn of the loop writes: the row of descriptors from head to the *)
(* new head                                                                *)
LEMMA ReceiveLengths ==
  ASSUME RxInv, Receive
  PROVE  LET n     == Ahead(head, head')
             last  == Plus(head, n - 1)
             frame == Frame(Head(fifo).len)
         IN  /\ {i \in Index : ring'[i] # ring[i]} = Window(head, head')
             /\ \A i \in Window(head, head') : ring'[i].eop <=> i = last
             /\ frame % Buf # 0 => LengthSum(ring', head, n) = frame
             /\ frame \in (Buf * (n - 1) + 1) .. (Buf * n)
<1> DEFINE p == Head(fifo)
           f == Frame(p.len)
           n == Descs(f)
           last == Plus(head, n - 1)
<1>1. /\ pc = "rx" /\ Looping
      /\ ring' = [i \in Index |-> IF Ahead(head, i) < n THEN Filled(p, Ahead(head, i)) ELSE ring[i]]
      /\ head' = NextHead(n)
  BY DEF Receive
<1>2. clean \in Index /\ RDT \in Index /\ head \in Index /\ Cur = head
  BY <1>1 DEF RxInv, RxTypeOK, Cur
<1>3. /\ RxSize \in Nat /\ RxSize > 1
      /\ \A i, j \in Index :
           Ahead(i, j) \in Int /\ 0 <= Ahead(i, j) /\ Ahead(i, j) < RxSize
  BY RingSize, RingArithmetic
<1>4. /\ p \in Packet /\ size = RxSize
      /\ left = Ahead(head, RDT) /\ n \in Nat /\ 1 <= n /\ n <= left
  BY <1>1, Room
<1>5. n <= Ahead(head, RDT) /\ n \in 0 .. (RxSize - 1) /\ n - 1 \in 0 .. (RxSize - 1)
  BY <1>2, <1>3, <1>4
<1>6. f \in Nat /\ f >= 1 /\ Buf \in Nat /\ Buf > 0
  <2>1. p.len \in Nat \ {0} /\ MinLen \in Nat \ {0} /\ CrcLen \in Nat /\ Buf \in Nat \ {0}
    BY <1>4, LenAssumption DEF Packet
  <2> QED BY <2>1 DEF Frame
<1>7. PICK m \in Nat : /\ m = f % Buf /\ m < Buf
                       /\ f = Buf * (n - 1) + m + (IF m = 0 THEN Buf ELSE 0)
  <2> HIDE DEF f, n
  <2> QED BY <1>6, FrameParts DEF n
<1>8. \A k \in Nat : /\ Filled(p, k).dd /\ (Filled(p, k).eop <=> k = n - 1)
                     /\ Filled(p, k).length = IF k < n - 1 THEN Buf ELSE f % Buf
  BY DEF Filled
<1> HIDE DEF p, f, n
<1>9. head' = Plus(head, n) /\ Ahead(head, head') = n
  BY <1>1, <1>2, <1>4, <1>5, Distances DEF NextHead, Plus
<1>10. last \in Index /\ Ahead(head, last) = n - 1
  BY <1>2, <1>5, RingArithmetic, Distances
<1>11. \A i \in Index : Ahead(head, i) < n => ~ring[i].dd
  <2>1. /\ \A i \in Index : ring[i].dd <=> i \in Delivered
        /\ Ahead(clean, head) <= Ahead(clean, RDT)
    BY <1>2, <1>4 DEF RxInv, RingAgrees
  <2>2. \A i \in Index : Ahead(head, i) < n => Ahead(clean, head) <= Ahead(clean, i)
    BY <1>2, <1>4, <1>5, <2>1, Advance
  <2>3. \A i \in Index : i \in Delivered => Ahead(clean, i) < Ahead(clean, head)
    BY <1>2 DEF Delivered, Window
  <2> QED BY <1>2, <1>3, <2>1, <2>2, <2>3
<1>12. ASSUME NEW i \in Index
       PROVE  /\ Ahead(head, i) < n <=> ring'[i] # ring[i]
              /\ Ahead(head, i) < n =>
                   /\ ring'[i].eop <=> Ahead(head, i) = n - 1
                   /\ ring'[i].length = IF Ahead(head, i) < n - 1 THEN Buf ELSE m
  <2>1. Ahead(head, i) \in Nat
    BY <1>2, <1>3
  <2>2. CASE Ahead(head, i) < n
    <3>1. ring'[i] = Filled(p, Ahead(head, i))
      BY <1>1, <2>2
    <3> QED BY <1>7, <1>8, <1>11, <2>1, <2>2, <3>1
  <2>3. CASE ~(Ahead(head, i) < n)
    BY <1>1, <2>3
  <2> QED BY <2>2, <2>3
<1> HIDE DEF last
<1>13. {i \in Index : ring'[i] # ring[i]} = Window(head, head')
  BY <1>9, <1>12 DEF Window
<1>14. ASSUME NEW i \in Window(head, head') PROVE ring'[i].eop <=> i = last
  <2>1. i \in Index /\ Ahead(head, i) < n
    BY <1>9 DEF Window
  <2>2. Ahead(head, i) = Ahead(head, last) => i = last
    BY <1>2, <1>10, <2>1, Distances
  <2> QED BY <1>10, <1>12, <2>1, <2>2
<1>15. LengthSum(ring', head, n) = Buf * (n - 1) + m
  <2>1. ASSUME NEW k \in 0 .. (n - 1)
        PROVE  ring'[Plus(head, k)].length = IF k < n - 1 THEN Buf ELSE m
    <3>1. k \in 0 .. (RxSize - 1) /\ k < n
      BY <1>3, <1>4, <1>5
    <3>2. Plus(head, k) \in Index /\ Ahead(head, Plus(head, k)) = k
      BY <1>2, <3>1, RingArithmetic, Distances
    <3> QED BY <1>12, <3>1, <3>2
  <2> DEFINE r == ring'
             c == n - 1
  <2>2. \A k \in 0 .. c : r[Plus(head, k)].length = IF k < c THEN Buf ELSE m
    BY <2>1
  <2>3. n \in Nat /\ n >= 1 /\ Buf \in Nat /\ m \in Nat
    BY <1>4, <1>6
  <2> HIDE DEF r
  <2>4. LengthSum(r, head, n) = Buf * (n - 1) + m
    BY <2>2, <2>3, LengthsOfRow
  <2> QED BY <2>4 DEF r
<1>16. f % Buf # 0 => LengthSum(ring', head, n) = f
  <2>1. ASSUME f % Buf # 0 PROVE f = Buf * (n - 1) + m
    <3>1. m # 0 /\ Buf * (n - 1) \in Nat
      BY <1>4, <1>6, <1>7, <2>1
    <3> QED BY <1>7, <3>1
  <2> QED BY <1>15, <2>1
<1>17. f \in (Buf * (n - 1) + 1) .. (Buf * n)
  <2>1. Buf * n = Buf * (n - 1) + Buf /\ Buf * (n - 1) \in Nat
    BY <1>4, <1>6
  <2> QED BY <1>6, <1>7, <2>1
<1> QED BY <1>9, <1>13, <1>14, <1>16, <1>17 DEF last, f, p

LEMMA RxNextInv ==
  ASSUME RxInv, [RxNext]_rxVars
  PROVE  RxInv'
<1>1. ASSUME NEW len \in Lens, NEW known \in BOOLEAN, Arrive(len, known) PROVE RxInv'
  BY <1>1, ArriveInv
<1>2. CASE WriteRDLEN
  BY <1>2, WriteRDLENInv
<1>3. CASE ResetDevice
  BY <1>3, ResetInv
<1>4. ASSUME NEW k \in 1 .. (RxSize - 1), WriteRDT(k) PROVE RxInv'
  BY <1>4, WriteRDTInv
<1>5. CASE \/ \E on \in BOOLEAN : WriteRCTL(on)
           \/ AccessIntr \/ NoRequest \/ PollIdle \/ UNCHANGED rxVars
  BY <1>5, QuietInv
<1>6. CASE Consume
  BY <1>6, ConsumeInv
<1>7. CASE Poll
  BY <1>7, PollInv
<1>8. CASE Receive
  BY <1>8, ReceiveInv
<1>9. CASE Filter
  BY <1>9, FilterInv
<1>10. CASE Finish
  BY <1>10, FinishInv
<1> QED BY <1>1, <1>2, <1>3, <1>4, <1>5, <1>6, <1>7, <1>8, <1>9, <1>10
        DEF RxNext, RxHost, RxDevice

-----------------------------------------------------------------------------
(* Whichever thread runs e82545_tap_callback, and whatever the host does   *)
(* in between: the descriptors with DD are those between the place of the  *)
(* host and the head, with whole packets in their order.                   *)
THEOREM RxInvariant == RxSpec => []RxInv
<1>1. RxInit => RxInv
  BY RxInitInv
<1>2. RxInv /\ [RxNext]_rxVars => RxInv'
  BY RxNextInv
<1> QED BY <1>1, <1>2, PTL DEF RxSpec

(* The test of left against maxpktdesc suffices for a packet of any number *)
(* of descriptors: e82545_tap_callback writes no descriptor beyond RDT.    *)
THEOREM OwnDescriptors == RxSpec => WritesOwnOnly
<1> DEFINE A == (pc = "rx") =>
                  \A i \in Index : ring'[i] # ring[i] /\ ring'[i].dd => i \in Window(RDH, RDT)
<1>1. ASSUME RxInv, RxNext, pc = "rx",
             NEW i \in Index, ring'[i] # ring[i], ring'[i].dd
      PROVE  i \in Window(RDH, RDT)
  <2>1. ASSUME Consume PROVE FALSE
    <3>1. ring \in [Index -> Desc] /\ clean \in Index
      BY <1>1 DEF RxInv, RxTypeOK
    <3>2. ring'[i] = IF i = clean THEN Blank ELSE ring[i]
      BY <2>1, <3>1 DEF Consume
    <3> QED BY <1>1, <3>2 DEF Blank
  <2>2. Receive
    BY <1>1, <2>1 DEF RxNext, RxHost, RxDevice, Request, Arrive, WriteRDLEN, WriteRDT, WriteRCTL,
                      ResetDevice, AccessIntr, NoRequest, PollIdle, Poll, Filter, Finish
  <2> QED BY <1>1, <2>2, ReceiveInv
<1>2. RxInv /\ [RxNext]_rxVars => [A]_rxVars
  BY <1>1
<1> QED BY <1>2, RxInvariant, PTL DEF RxSpec, WritesOwnOnly

(* The host finds the packets that pass the filter in the order of their   *)
(* arrival, none of them twice.                                            *)
THEOREM InOrder == RxSpec => DeliveredInOrder
<1> DEFINE A == clean' # clean /\ pc' = pc => ring[clean].id = taken
<1>1. ASSUME RxInv, RxNext, clean' # clean, pc' = pc PROVE ring[clean].id = taken
  <2>1. Consume
    BY <1>1 DEF RxNext, RxHost, RxDevice, Request, Arrive, WriteRDLEN, WriteRDT, WriteRCTL,
                ResetDevice, AccessIntr, NoRequest, PollIdle, Poll, Receive, Filter, Finish, host
  <2> QED BY <1>1, <2>1, ConsumeInv
<1>2. RxInv /\ [RxNext]_rxVars => [A]_rxVars
  BY <1>1
<1> QED BY <1>2, RxInvariant, PTL DEF RxSpec, DeliveredInOrder

(* The lengths that e82545_tap_callback writes for a packet whose frame    *)
(* does not end with a buffer add up to the frame, however many buffers it *)
(* takes and wherever the ring ends.  A frame that does has as many        *)
(* descriptors as it needs, and its last one has EOP.                      *)
THEOREM WholeFrames == RxSpec => LengthsAddUp
<1> DEFINE Agree == LET n     == Ahead(head, head')
                        last  == Plus(head, n - 1)
                        frame == Frame(Head(fifo).len)
                    IN  /\ {i \in Index : ring'[i] # ring[i]} = Window(head, head')
                        /\ \A i \in Window(head, head') : ring'[i].eop <=> i = last
                        /\ frame % Buf # 0 => LengthSum(ring', head, n) = frame
                        /\ frame \in (Buf * (n - 1) + 1) .. (Buf * n)
           A == pc = "rx" /\ ring' # ring /\ fifo' # fifo => Agree
<1>1. ASSUME RxInv, RxNext, pc = "rx", ring' # ring, fifo' # fifo PROVE Agree
  <2> HIDE DEF Agree
  <2>1. Receive
    BY <1>1 DEF RxNext, RxHost, RxDevice, Request, Arrive, WriteRDLEN, WriteRDT, WriteRCTL,
                ResetDevice, AccessIntr, NoRequest, PollIdle, Poll, Consume, Filter, Finish
  <2> QED BY <1>1, <2>1, ReceiveLengths DEF Agree
<1>2. RxInv /\ [RxNext]_rxVars => [A]_rxVars
  <2> HIDE DEF Agree
  <2> QED BY <1>1
<1> QED BY <1>2, RxInvariant, PTL DEF RxSpec, LengthsAddUp
=============================================================================

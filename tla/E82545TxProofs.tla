--------------------------- MODULE E82545TxProofs ----------------------------
(***************************************************************************)
(* Proofs about the transmit side of the E1000, for a ring of any length   *)
(* and any bound on what the host leaves in it.                            *)
(***************************************************************************)
EXTENDS E82545Tx, TLAPS, SequenceTheorems, FiniteSetTheorems, WellFoundedInduction

-----------------------------------------------------------------------------
(* The ring                                                                *)

LEMMA RingSize == TxSize \in Nat /\ TxSize > 1
BY TxSizeAssumption, Z3

(* The remainders of the model, where they are taken                       *)
LEMMA RingArithmetic ==
  /\ \A i \in Index : i \in Int /\ 0 <= i /\ i < TxSize
  /\ \A i \in Index, n \in 0 .. (TxSize - 1) :
       /\ Plus(i, n) \in Index
       /\ i + n < TxSize => Plus(i, n) = i + n
       /\ i + n >= TxSize => Plus(i, n) = i + n - TxSize
  /\ \A i, j \in Index :
       /\ Ahead(i, j) \in Int /\ 0 <= Ahead(i, j) /\ Ahead(i, j) < TxSize
       /\ i <= j => Ahead(i, j) = j - i
       /\ j < i => Ahead(i, j) = j - i + TxSize
<1>1. TxSize \in Nat /\ TxSize > 1
  BY RingSize
<1>2. ASSUME NEW a \in 0 .. (TxSize - 1) PROVE a % TxSize = a
  BY <1>1, <1>2
<1>3. ASSUME NEW a \in Int, 0 - TxSize <= a, a < 0 PROVE a % TxSize = a + TxSize
  BY <1>1, <1>3, Z3
<1>4. ASSUME NEW a \in TxSize .. (TxSize + TxSize - 1) PROVE a % TxSize = a - TxSize
  BY <1>1, <1>4, Z3
<1>5. \A i \in Index : i \in Int /\ 0 <= i /\ i < TxSize
  BY <1>1 DEF Index
<1>6. ASSUME NEW i \in Index, NEW n \in 0 .. (TxSize - 1)
      PROVE  /\ Plus(i, n) \in Index
             /\ i + n < TxSize => Plus(i, n) = i + n
             /\ i + n >= TxSize => Plus(i, n) = i + n - TxSize
  <2>1. CASE i + n < TxSize
    <3>1. i + n \in 0 .. (TxSize - 1)
      BY <1>1, <1>5, <2>1
    <3>2. (i + n) % TxSize = i + n
      BY <1>2, <3>1
    <3> QED BY <1>1, <1>5, <2>1, <3>1, <3>2 DEF Plus, Index
  <2>2. CASE i + n >= TxSize
    <3>1. i + n \in TxSize .. (TxSize + TxSize - 1)
      BY <1>1, <1>5, <2>2
    <3>2. (i + n) % TxSize = i + n - TxSize
      BY <1>1, <1>4, <1>5, <3>1
    <3> QED BY <1>1, <1>5, <2>2, <3>1, <3>2 DEF Plus, Index
  <2> QED BY <1>1, <1>5, <2>1, <2>2
<1>7. ASSUME NEW i \in Index, NEW j \in Index
      PROVE  /\ Ahead(i, j) \in Int /\ 0 <= Ahead(i, j) /\ Ahead(i, j) < TxSize
             /\ i <= j => Ahead(i, j) = j - i
             /\ j < i => Ahead(i, j) = j - i + TxSize
  <2>1. CASE i <= j
    <3>1. j - i \in 0 .. (TxSize - 1)
      BY <1>1, <1>5, <2>1
    <3>2. (j - i) % TxSize = j - i
      BY <1>2, <3>1
    <3> QED BY <1>1, <1>5, <2>1, <3>1, <3>2 DEF Ahead
  <2>2. CASE j < i
    <3>1. j - i \in Int /\ 0 - TxSize <= j - i /\ j - i < 0
      BY <1>1, <1>5, <2>2
    <3>2. (j - i) % TxSize = j - i + TxSize
      BY <1>3, <3>1
    <3> QED BY <1>1, <1>5, <2>2, <3>1, <3>2 DEF Ahead
  <2> QED BY <1>1, <1>5, <2>1, <2>2
<1> QED BY <1>5, <1>6, <1>7

(* Distances in the ring add up.                                           *)
LEMMA Distances ==
  /\ \A i \in Index : Ahead(i, i) = 0
  /\ \A i, j, k \in Index : Ahead(i, j) = Ahead(i, k) => j = k
  /\ \A i, j, k \in Index : Ahead(i, j) <= Ahead(i, k) =>
       Ahead(j, k) = Ahead(i, k) - Ahead(i, j)
  /\ \A i, j, k \in Index : Ahead(i, k) < Ahead(i, j) =>
       Ahead(j, k) = Ahead(i, k) - Ahead(i, j) + TxSize
  /\ \A i \in Index, n \in 0 .. (TxSize - 1) : Ahead(i, Plus(i, n)) = n
<1>1. /\ TxSize \in Nat /\ TxSize > 1
      /\ \A i \in Index : i \in Int /\ 0 <= i /\ i < TxSize
  BY RingSize, RingArithmetic
<1>2. ASSUME NEW i \in Index, NEW j \in Index
      PROVE  /\ Ahead(i, j) \in Int /\ 0 <= Ahead(i, j) /\ Ahead(i, j) < TxSize
             /\ i <= j => Ahead(i, j) = j - i
             /\ j < i => Ahead(i, j) = j - i + TxSize
  BY RingArithmetic
<1>3. ASSUME NEW i \in Index
      PROVE  Ahead(i, i) = 0
  BY <1>1, <1>2
<1>4. ASSUME NEW i \in Index, NEW j \in Index, NEW k \in Index, Ahead(i, j) = Ahead(i, k)
      PROVE  j = k
  BY <1>1, <1>2, <1>4
<1>5. ASSUME NEW i \in Index, NEW j \in Index, NEW k \in Index, Ahead(i, j) <= Ahead(i, k)
      PROVE  Ahead(j, k) = Ahead(i, k) - Ahead(i, j)
  BY <1>1, <1>2, <1>5
<1>6. ASSUME NEW i \in Index, NEW j \in Index, NEW k \in Index, Ahead(i, k) < Ahead(i, j)
      PROVE  Ahead(j, k) = Ahead(i, k) - Ahead(i, j) + TxSize
  BY <1>1, <1>2, <1>6
<1>7. ASSUME NEW i \in Index, NEW n \in 0 .. (TxSize - 1)
      PROVE  Ahead(i, Plus(i, n)) = n
  <2>1. /\ Plus(i, n) \in Index
        /\ i + n < TxSize => Plus(i, n) = i + n
        /\ i + n >= TxSize => Plus(i, n) = i + n - TxSize
    BY RingArithmetic
  <2>2. CASE i + n < TxSize
    BY <1>1, <1>2, <2>1, <2>2
  <2>3. CASE i + n >= TxSize
    BY <1>1, <1>2, <2>1, <2>3
  <2> QED BY <1>1, <2>2, <2>3
<1> QED BY <1>3, <1>4, <1>5, <1>6, <1>7

(* The descriptor before i, and the one after it                           *)
LEMMA Neighbours ==
  ASSUME NEW i \in Index
  PROVE  /\ Plus(i, 1) \in Index /\ Plus(i, TxSize - 1) \in Index
         /\ Plus(Plus(i, TxSize - 1), 1) = i /\ Plus(Plus(i, 1), TxSize - 1) = i
         /\ Ahead(i, Plus(i, 1)) = 1 /\ Ahead(i, Plus(i, TxSize - 1)) = TxSize - 1
<1>1. /\ TxSize \in Nat /\ TxSize > 1
      /\ \A j \in Index : j \in Int /\ 0 <= j /\ j < TxSize
      /\ 1 \in 0 .. (TxSize - 1) /\ TxSize - 1 \in 0 .. (TxSize - 1)
  BY RingSize, RingArithmetic
<1>2. ASSUME NEW j \in Index
      PROVE  /\ Plus(j, 1) \in Index /\ Plus(j, TxSize - 1) \in Index
             /\ j + 1 < TxSize => Plus(j, 1) = j + 1
             /\ j + 1 >= TxSize => Plus(j, 1) = j + 1 - TxSize
             /\ j + (TxSize - 1) < TxSize => Plus(j, TxSize - 1) = j + (TxSize - 1)
             /\ j + (TxSize - 1) >= TxSize => Plus(j, TxSize - 1) = j + (TxSize - 1) - TxSize
  BY <1>1, RingArithmetic
<1>3. Plus(Plus(i, TxSize - 1), 1) = i
  <2>1. CASE i = 0
    BY <1>1, <1>2, <2>1
  <2>2. CASE i > 0
    BY <1>1, <1>2, <2>2
  <2> QED BY <1>1, <2>1, <2>2
<1>4. Plus(Plus(i, 1), TxSize - 1) = i
  <2>1. CASE i + 1 < TxSize
    BY <1>1, <1>2, <2>1
  <2>2. CASE i + 1 >= TxSize
    BY <1>1, <1>2, <2>2
  <2> QED BY <1>1, <2>1, <2>2
<1> QED BY <1>1, <1>2, <1>3, <1>4, Distances

(* A window is cut after one of its descriptors.                           *)
LEMMA CutWindow ==
  ASSUME NEW h \in Index, NEW t \in Index, NEW e \in Window(h, t)
  PROVE  /\ e \in Index /\ Plus(e, 1) \in Index
         /\ Ahead(h, Plus(e, 1)) = Ahead(h, e) + 1
         /\ Ahead(h, Plus(e, 1)) <= Ahead(h, t)
         /\ \A k \in Index : k \in Window(h, Plus(e, 1)) <=> Ahead(h, k) <= Ahead(h, e)
         /\ \A k \in Index : k \in Window(Plus(e, 1), t) <=>
                              Ahead(h, e) < Ahead(h, k) /\ Ahead(h, k) < Ahead(h, t)
<1> DEFINE n == Plus(e, 1)
<1>1. e \in Index /\ Ahead(h, e) < Ahead(h, t)
  BY DEF Window
<1>2. n \in Index /\ Ahead(e, n) = 1
  BY <1>1, Neighbours
<1> HIDE DEF n
<1>3. /\ TxSize \in Nat /\ TxSize > 1
      /\ \A j, k \in Index :
           Ahead(j, k) \in Int /\ 0 <= Ahead(j, k) /\ Ahead(j, k) < TxSize
  BY RingSize, RingArithmetic
<1>4. Ahead(h, n) = Ahead(h, e) + 1
  <2>1. CASE Ahead(h, e) <= Ahead(h, n)
    <3>1. Ahead(e, n) = Ahead(h, n) - Ahead(h, e)
      BY <1>1, <1>2, <2>1, Distances
    <3> QED BY <1>1, <1>2, <1>3, <3>1
  <2>2. CASE Ahead(h, n) < Ahead(h, e)
    <3>1. Ahead(e, n) = Ahead(h, n) - Ahead(h, e) + TxSize
      BY <1>1, <1>2, <2>2, Distances
    <3> QED BY <1>1, <1>2, <1>3, <3>1
  <2> QED BY <1>1, <1>2, <1>3, <2>1, <2>2
<1>5. Ahead(h, n) <= Ahead(h, t)
  BY <1>1, <1>3, <1>4
<1>6. \A k \in Index : k \in Window(h, n) <=> Ahead(h, k) <= Ahead(h, e)
  BY <1>1, <1>3, <1>4 DEF Window
<1>7. Ahead(n, t) = Ahead(h, t) - Ahead(h, n)
  BY <1>2, <1>5, Distances
<1>8. ASSUME NEW k \in Index
      PROVE  k \in Window(n, t) <=> Ahead(h, e) < Ahead(h, k) /\ Ahead(h, k) < Ahead(h, t)
  <2>1. CASE Ahead(h, n) <= Ahead(h, k)
    <3>1. Ahead(n, k) = Ahead(h, k) - Ahead(h, n)
      BY <1>2, <2>1, Distances
    <3> QED BY <1>1, <1>2, <1>3, <1>4, <1>7, <2>1, <3>1 DEF Window
  <2>2. CASE Ahead(h, k) < Ahead(h, n)
    <3>1. Ahead(n, k) = Ahead(h, k) - Ahead(h, n) + TxSize
      BY <1>2, <2>2, Distances
    <3> QED BY <1>1, <1>2, <1>3, <1>4, <1>7, <2>2, <3>1 DEF Window
  <2> QED BY <1>2, <1>3, <2>1, <2>2
<1> QED BY <1>1, <1>2, <1>4, <1>5, <1>6, <1>8 DEF n

(* A set of natural numbers that is not empty has a least element ...      *)
LEMMA LeastNat ==
  ASSUME NEW T \in SUBSET Nat, T # {}
  PROVE  \E x \in T : \A y \in T : x <= y
<1>1. PICK x \in T : \A y \in T : ~ (<<y, x>> \in OpToRel(<, Nat))
  BY NatLessThanWellFounded, WFMin
<1>2. ASSUME NEW y \in T PROVE x <= y
  <2>1. <<y, x>> \in Nat \X Nat /\ <<y, x>>[1] = y /\ <<y, x>>[2] = x
    OBVIOUS
  <2>2. ~(y < x)
    BY <1>1, <2>1 DEF OpToRel
  <2> QED BY <2>2
<1> QED BY <1>2

(* ... and a set of descriptors a first one from h on.                     *)
LEMMA FirstFrom ==
  ASSUME NEW h \in Index, NEW X \in SUBSET Index, X # {}
  PROVE  \E k \in X : \A j \in X : Ahead(h, k) <= Ahead(h, j)
<1> DEFINE T == {Ahead(h, j) : j \in X}
<1>1. \A j \in X : Ahead(h, j) \in Nat
  BY RingArithmetic
<1>2. T \in SUBSET Nat /\ T # {}
  BY <1>1
<1> HIDE DEF T
<1>3. PICK x \in T : \A y \in T : x <= y
  BY <1>2, LeastNat
<1>4. PICK k \in X : x = Ahead(h, k)
  BY <1>3 DEF T
<1>5. \A j \in X : Ahead(h, j) \in T
  BY DEF T
<1> QED BY <1>3, <1>4, <1>5

(* What holds of the first descriptor of a window, and of the next one of  *)
(* it when it holds of one, holds of all.                                  *)
LEMMA AlongWindow ==
  ASSUME NEW h \in Index, NEW t \in Index, NEW P \in SUBSET Index,
         h # t => h \in P,
         \A i \in Window(h, t) : i \in P /\ Plus(i, 1) # t => Plus(i, 1) \in P
  PROVE  Window(h, t) \subseteq P
<1> SUFFICES ASSUME Window(h, t) \ P # {} PROVE FALSE
  OBVIOUS
<1> DEFINE X == Window(h, t) \ P
<1>1. X \in SUBSET Index /\ X # {}
  BY DEF Window
<1> HIDE DEF X
<1>2. PICK k \in X : \A j \in X : Ahead(h, k) <= Ahead(h, j)
  BY <1>1, FirstFrom
<1>3. k \in Index /\ k \notin P /\ Ahead(h, k) < Ahead(h, t)
  BY <1>2 DEF X, Window
<1>4. /\ TxSize \in Nat /\ TxSize > 1
      /\ \A i, j \in Index :
           Ahead(i, j) \in Int /\ 0 <= Ahead(i, j) /\ Ahead(i, j) < TxSize
  BY RingSize, RingArithmetic
<1>5. h # t /\ k # h /\ Ahead(h, k) > 0
  <2>1. Ahead(h, h) = 0
    BY Distances
  <2>2. h # t
    BY <1>3, <1>4, <2>1
  <2>3. k # h
    BY <1>3, <2>2
  <2>4. Ahead(h, k) # 0
    BY <1>3, <2>1, <2>3, Distances
  <2> QED BY <1>3, <1>4, <2>2, <2>3, <2>4
<1> DEFINE p == Plus(k, TxSize - 1)
<1>6. p \in Index /\ Plus(p, 1) = k /\ Ahead(p, k) = 1
  <2>1. p \in Index /\ Plus(p, 1) = k
    BY <1>3, Neighbours
  <2> HIDE DEF p
  <2> QED BY <2>1, Neighbours
<1> HIDE DEF p
<1>7. Ahead(h, p) = Ahead(h, k) - 1
  <2>1. CASE Ahead(h, p) <= Ahead(h, k)
    <3>1. Ahead(p, k) = Ahead(h, k) - Ahead(h, p)
      BY <1>3, <1>6, <2>1, Distances
    <3> QED BY <1>3, <1>4, <1>6, <3>1
  <2>2. CASE Ahead(h, k) < Ahead(h, p)
    <3>1. Ahead(p, k) = Ahead(h, k) - Ahead(h, p) + TxSize
      BY <1>3, <1>6, <2>2, Distances
    <3> QED BY <1>3, <1>4, <1>5, <1>6, <3>1
  <2> QED BY <1>3, <1>4, <1>6, <2>1, <2>2
<1>8. p \in Window(h, t) /\ p \notin X
  BY <1>2, <1>3, <1>4, <1>6, <1>7 DEF Window
<1>9. p \in P /\ k # t
  BY <1>3, <1>8, <1>4 DEF X
<1> QED BY <1>3, <1>6, <1>8, <1>9

-----------------------------------------------------------------------------
(* The steps                                                               *)

(* What the transmitter and the host do to the interrupts                  *)
LEMMA IntrTypes ==
  ASSUME IntrTypeOK,
         \/ \E bits \in SUBSET Bits : Cause(bits)
         \/ ReadICR \/ Reset \/ UNCHANGED intrVars
  PROVE  IntrTypeOK'
<1> USE DEF IntrTypeOK, IntrState
<1>1. ASSUME NEW bits \in SUBSET Bits, Cause(bits) PROVE IntrTypeOK'
  BY <1>1 DEF Cause, icr_assert, signal
<1>2. CASE ReadICR
  BY <1>2 DEF ReadICR, icr_deassert
<1>3. CASE Reset
  BY <1>3 DEF Reset, intr_reset
<1>4. CASE UNCHANGED intrVars
  BY <1>4 DEF intrVars
<1> QED BY <1>1, <1>2, <1>3, <1>4

LEMMA TxInitInv == TxInit => TxInv
<1> SUFFICES ASSUME TxInit PROVE TxInv
  OBVIOUS
<1>1. 0 \in Index /\ Blank \in Desc
  BY RingSize DEF Index, Blank, Desc, Ids
<1>2. IntrTypeOK
  BY DEF TxInit, IntrInit, InitIntr, IntrTypeOK, IntrState
<1>3. TxTypeOK
  <2>1. ring \in [Index -> Desc]
    BY <1>1 DEF TxInit
  <2>2. sent \in 0 .. (Ids - 1) /\ lim \in Int
    BY DEF TxInit, Ids
  <2> QED BY <1>1, <1>2, <2>1, <2>2 DEF TxInit, TxTypeOK
<1>4. Ahead(0, 0) = 0 /\ Window(0, 0) = {}
  <2>1. Ahead(0, 0) = 0
    BY <1>1, Distances
  <2>2. \A k \in Index : ~(Ahead(0, k) < 0)
    BY <1>1, RingArithmetic
  <2> QED BY <2>1, <2>2 DEF Window
<1>5. Cur = 0 /\ TDT = 0 /\ TDH = 0 /\ InFlight = {}
  BY <1>4 DEF TxInit, Cur, InFlight
<1>6. Ahead(TDH, TDT) <= MaxOut
  BY <1>4, <1>5, BatchAssumption
<1> QED
  BY <1>3, <1>5, <1>6
  DEF TxInit, TxInv, HeadAtPacket, PacketsWhole, Numbered, ReportedUpToHead, EmptyStaysIdle

(* The steps that leave the ring as it is and the transmitter at rest      *)
LEMMA RingAtRest ==
  ASSUME TxInv, pc # "tx", pc' # "tx", UNCHANGED <<TDH, TDT, ring, sent>>
  PROVE  Ahead(TDH, TDT)' <= MaxOut /\ PacketsWhole' /\ Numbered' /\ ReportedUpToHead'
<1>1. Cur' = Cur /\ InFlight' = InFlight /\ Ahead(TDH, TDT)' = Ahead(TDH, TDT)
  BY DEF Cur, InFlight, Window, Ahead
<1> QED
  BY <1>1 DEF TxInv, PacketsWhole, Numbered, ReportedUpToHead, Plus

(* An empty ring                                                           *)
LEMMA EmptyRing ==
  ASSUME pc' # "tx", TDH' = 0, TDT' = 0
  PROVE  Ahead(TDH, TDT)' <= MaxOut /\ PacketsWhole' /\ Numbered' /\ ReportedUpToHead'
<1>1. 0 \in Index
  BY RingSize DEF Index
<1>2. Ahead(0, 0) = 0 /\ \A k \in Index : ~(Ahead(0, k) < 0)
  BY <1>1, Distances, RingArithmetic
<1>3. Cur' = 0 /\ InFlight' = {}
  BY <1>2 DEF Cur, InFlight, Window, Ahead
<1>4. Ahead(TDH, TDT)' <= MaxOut
  BY <1>2, BatchAssumption DEF Ahead
<1> QED
  BY <1>3, <1>4 DEF PacketsWhole, Numbered, ReportedUpToHead

LEMMA HostInv ==
  ASSUME TxInv, WriteTDLEN \/ ReadTDH \/ Enable \/ Spin \/ Disable \/ ResetDevice \/ AccessIntr
  PROVE  TxInv'
<1>1. pc = "idle" /\ pc' \in {"poll", "spin"}
  BY DEF WriteTDLEN, ReadTDH, Enable, Spin, Disable, ResetDevice, AccessIntr, Request
<1>2. Ahead(TDH, TDT)' <= MaxOut /\ PacketsWhole' /\ Numbered' /\ ReportedUpToHead'
  <2>1. CASE WriteTDLEN \/ ResetDevice
    BY <1>1, <2>1, EmptyRing DEF WriteTDLEN, ResetDevice
  <2>2. CASE ReadTDH \/ Enable \/ Spin \/ Disable \/ AccessIntr
    BY <1>1, <2>2, RingAtRest DEF ReadTDH, Enable, Spin, Disable, AccessIntr, dev
  <2> QED BY <2>1, <2>2
<1>3. TxTypeOK'
  <2>1. IntrTypeOK'
    BY IntrTypes DEF TxInv, TxTypeOK, WriteTDLEN, ReadTDH, Enable, Spin, Disable, ResetDevice,
                     AccessIntr
  <2>2. 0 \in Index
    BY RingSize DEF Index
  <2> USE DEF TxInv, TxTypeOK, locals, dev
  <2>3. CASE WriteTDLEN
    BY <1>1, <2>1, <2>2, <2>3 DEF WriteTDLEN
  <2>4. CASE ReadTDH
    BY <1>1, <2>1, <2>4 DEF ReadTDH
  <2>5. CASE Enable
    BY <1>1, <2>1, <2>5 DEF Enable
  <2>6. CASE Spin \/ Disable
    BY <1>1, <2>1, <2>6 DEF Spin, Disable
  <2>7. CASE ResetDevice
    BY <1>1, <2>1, <2>2, <2>7 DEF ResetDevice
  <2>8. CASE AccessIntr
    BY <1>1, <2>1, <2>8 DEF AccessIntr
  <2> QED BY <2>3, <2>4, <2>5, <2>6, <2>7, <2>8
<1>4. HeadAtPacket'
  <2>1. CASE WriteTDLEN \/ ResetDevice
    BY <2>1 DEF WriteTDLEN, ResetDevice, HeadAtPacket
  <2>2. CASE ReadTDH \/ Enable \/ Spin \/ Disable \/ AccessIntr
    <3>1. UNCHANGED <<TDH, TDHr, TDT, ring>>
      BY <2>2 DEF ReadTDH, Enable, Spin, Disable, AccessIntr, dev
    <3>2. Outstanding' = Outstanding
      BY <3>1 DEF Outstanding, Window, Ahead
    <3>3. pc # "tx" /\ pc # "poll"
      BY <1>1
    <3> QED BY <3>1, <3>2, <3>3 DEF TxInv, HeadAtPacket
  <2> QED BY <2>1, <2>2
<1>5. EmptyStaysIdle'
  <2> USE DEF TxInv, EmptyStaysIdle
  <2>1. CASE WriteTDLEN \/ ResetDevice
    BY <2>1 DEF WriteTDLEN, ResetDevice, Request
  <2>2. CASE ReadTDH
    <3>1. TDH = TDT => TDHr = TDT
      BY <1>1 DEF HeadAtPacket
    <3> QED BY <1>1, <2>2, <3>1 DEF ReadTDH, Request, dev
  <2>3. CASE Enable \/ Disable \/ AccessIntr
    BY <1>1, <2>3 DEF Enable, Disable, AccessIntr, Request, dev
  <2>4. CASE Spin
    BY <1>1, <2>4 DEF Spin
  <2> QED BY <2>1, <2>2, <2>3, <2>4
<1> QED BY <1>2, <1>3, <1>4, <1>5 DEF TxInv

(* The polls that transmit nothing, or start to                            *)
LEMMA PollInv ==
  ASSUME TxInv, NoRequest \/ PollIdle \/ PollRun \/ UNCHANGED txVars
  PROVE  TxInv'
<1>1. UNCHANGED <<TDH, TDHr, TDT, ring, sent, size, enabled, sawEmpty, intrVars>>
  BY DEF NoRequest, PollIdle, PollRun, txVars, dev
<1>2. IntrTypeOK'
  BY <1>1, IntrTypes DEF TxInv, TxTypeOK
<1>3. Outstanding' = Outstanding
  BY <1>1 DEF Outstanding, Window, Ahead
<1>4. CASE NoRequest \/ PollIdle \/ (UNCHANGED txVars /\ pc # "tx")
  <2>1. pc # "tx" /\ pc' # "tx" /\ UNCHANGED <<head, lim, tdwb>>
    BY <1>4 DEF NoRequest, Request, PollIdle, txVars, locals
  <2>2. Ahead(TDH, TDT)' <= MaxOut /\ PacketsWhole' /\ Numbered' /\ ReportedUpToHead'
    BY <1>1, <2>1, RingAtRest
  <2>3. pc' \in {"idle", "poll", "tx", "spin"} /\ active' \in BOOLEAN
    BY <1>4 DEF NoRequest, Request, PollIdle, txVars, dev, TxInv, TxTypeOK
  <2>4. TxTypeOK'
    BY <1>1, <1>2, <2>1, <2>3 DEF TxInv, TxTypeOK
  <2>5. HeadAtPacket' /\ EmptyStaysIdle'
    <3>1. CASE NoRequest
      BY <1>1, <1>3, <3>1 DEF NoRequest, Request, dev, TxInv, HeadAtPacket, EmptyStaysIdle
    <3>2. CASE PollIdle
      BY <1>1, <1>3, <3>2 DEF PollIdle, TxInv, HeadAtPacket, EmptyStaysIdle
    <3>3. CASE UNCHANGED txVars
      BY <1>1, <1>3, <3>3 DEF txVars, dev, TxInv, HeadAtPacket, EmptyStaysIdle
    <3> QED BY <1>4, <3>1, <3>2, <3>3
  <2> QED BY <2>2, <2>4, <2>5 DEF TxInv
<1>5. CASE PollRun
  <2>1. /\ pc = "poll" /\ pc' = "tx" /\ TDHr # TDT /\ active' = TRUE
        /\ head' = TDH /\ lim' = size \div 4 /\ tdwb' = FALSE
    BY <1>5 DEF PollRun
  <2>2. lim' \in Int
    <3>1. size \in Int
      BY RingSize DEF TxInv, TxTypeOK
    <3> QED BY <2>1, <3>1
  <2>3. TxTypeOK'
    BY <1>1, <1>2, <2>1, <2>2 DEF TxInv, TxTypeOK
  <2>4. Cur' = Cur /\ InFlight' = InFlight
    BY <1>1, <2>1 DEF Cur, InFlight, Window, Ahead
  <2>5. PacketsWhole' /\ Numbered'
    BY <1>1, <2>4 DEF TxInv, PacketsWhole, Numbered, Plus
  <2>6. ReportedUpToHead'
    <3>1. TDH \in Index /\ TDT \in Index
      BY DEF TxInv, TxTypeOK
    <3>2. Ahead(TDH, TDH) = 0 /\ 0 <= Ahead(TDH, TDT) /\ \A k \in Index : ~(Ahead(TDH, k) < 0)
      BY <3>1, Distances, RingArithmetic
    <3>3. Window(TDH, TDH) = {}
      BY <3>2 DEF Window
    <3>4. /\ Ahead(TDH, head)' <= Ahead(TDH, TDT)'
          /\ Window(TDH, head)' = {}
      BY <1>1, <2>1, <3>2, <3>3 DEF Ahead, Window
    <3> QED BY <1>1, <2>4, <3>4 DEF TxInv, ReportedUpToHead
  <2>7. HeadAtPacket' /\ EmptyStaysIdle'
    BY <1>1, <2>1 DEF TxInv, HeadAtPacket, EmptyStaysIdle
  <2>8. Ahead(TDH, TDT)' <= MaxOut
    BY <1>1 DEF Ahead, TxInv
  <2> QED BY <2>3, <2>5, <2>6, <2>7, <2>8 DEF TxInv
<1>6. CASE UNCHANGED txVars /\ pc = "tx"
  <2>1. UNCHANGED <<pc, head, lim, tdwb, active>>
    BY <1>6 DEF txVars, locals, dev
  <2>2. Cur' = Cur /\ InFlight' = InFlight
    BY <1>1, <2>1 DEF Cur, InFlight, Window, Ahead
  <2>3. TxTypeOK'
    BY <1>1, <1>2, <2>1 DEF TxInv, TxTypeOK
  <2>4. PacketsWhole' /\ Numbered' /\ ReportedUpToHead'
    BY <1>1, <2>1, <2>2 DEF TxInv, PacketsWhole, Numbered, ReportedUpToHead, Plus, Window, Ahead
  <2> QED
    BY <1>1, <1>3, <2>1, <2>3, <2>4 DEF TxInv, HeadAtPacket, EmptyStaysIdle, Ahead
<1> QED BY <1>4, <1>5, <1>6

-----------------------------------------------------------------------------
(* The host adds descriptors                                               *)

LEMMA BatchProperties ==
  ASSUME NEW b \in Batches
  PROVE  /\ Len(b) \in Nat /\ Len(b) >= 1 /\ DOMAIN b = 1 .. Len(b)
         /\ \A i \in 1 .. Len(b) :
              /\ b[i][1] \in {"ctx", "data", "last"} /\ b[i][2] \in BOOLEAN
              /\ i > 1 /\ b[i - 1][1] = "data" => b[i][1] # "ctx"
<1> DEFINE D == {"ctx", "data", "last"} \X BOOLEAN
<1>1. PICK n \in 1 .. MaxBatch : b \in [1 .. n -> D]
  BY DEF Batches
<1>2. n \in Nat /\ n >= 1 /\ DOMAIN b = 1 .. n
  BY <1>1, BatchAssumption
<1>3. b \in Seq(D)
  BY <1>1, <1>2, SeqDef
<1>4. Len(b) \in Nat /\ DOMAIN b = 1 .. Len(b)
  BY <1>3, LenProperties
<1>5. Len(b) = n
  BY <1>2, <1>4
<1>6. \A i \in 1 .. n : b[i][1] \in {"ctx", "data", "last"} /\ b[i][2] \in BOOLEAN
  BY <1>1
<1>7. \A i \in 1 .. n : i > 1 /\ b[i - 1][1] = "data" => b[i][1] # "ctx"
  BY <1>2 DEF Batches
<1> QED BY <1>2, <1>5, <1>6, <1>7

(* The descriptors as they are written, with the number of their packet    *)
LEMMA PostedProperties ==
  ASSUME NEW b \in Batches, NextId \in 0 .. (Ids - 1)
  PROVE  /\ \A i \in 1 .. Len(b) :
              /\ Posted(b)[i] \in Desc
              /\ Posted(b)[i].type = b[i][1] /\ ~Posted(b)[i].dd
         /\ Posted(b)[1].id = NextId
         /\ \A i \in 1 .. (Len(b) - 1) :
              /\ b[i][1] = "last" => Posted(b)[i + 1].id = (Posted(b)[i].id + 1) % Ids
              /\ b[i][1] # "last" => Posted(b)[i + 1].id = Posted(b)[i].id
<1> DEFINE n == Len(b)
           Lasts(i) == {j \in 1 .. (i - 1) : b[j][1] = "last"}
<1>1. /\ n \in Nat /\ n >= 1 /\ DOMAIN b = 1 .. n
      /\ \A i \in 1 .. n : b[i][1] \in {"ctx", "data", "last"} /\ b[i][2] \in BOOLEAN
  BY BatchProperties
<1>2. ASSUME NEW i \in Nat
      PROVE  IsFiniteSet(Lasts(i)) /\ Cardinality(Lasts(i)) \in Nat
  <2>1. IsFiniteSet(1 .. (i - 1))
    BY FS_Interval
  <2>2. Lasts(i) \in SUBSET (1 .. (i - 1))
    OBVIOUS
  <2> HIDE DEF Lasts
  <2> QED BY <2>1, <2>2, FS_Subset, FS_CardinalityType
<1>3. Cardinality(Lasts(1)) = 0
  <2>1. Lasts(1) = {}
    OBVIOUS
  <2> QED BY <2>1, FS_EmptySet
<1>4. ASSUME NEW i \in 1 .. (n - 1)
      PROVE  /\ b[i][1] = "last" => Cardinality(Lasts(i + 1)) = Cardinality(Lasts(i)) + 1
             /\ b[i][1] # "last" => Cardinality(Lasts(i + 1)) = Cardinality(Lasts(i))
  <2>1. i \in Nat /\ 1 .. ((i + 1) - 1) = 1 .. (i - 1) \cup {i} /\ i \notin 1 .. (i - 1)
    BY <1>1
  <2>2. b[i][1] = "last" => Lasts(i + 1) = Lasts(i) \cup {i}
    BY <2>1
  <2>3. b[i][1] # "last" => Lasts(i + 1) = Lasts(i)
    BY <2>1
  <2>4. i \notin Lasts(i) /\ IsFiniteSet(Lasts(i))
    BY <1>2, <2>1
  <2> HIDE DEF Lasts
  <2> QED BY <2>2, <2>3, <2>4, FS_AddElement
<1>5. \A i \in Nat : (NextId + Cardinality(Lasts(i))) % Ids \in 0 .. (Ids - 1)
  <2> HIDE DEF Lasts
  <2> QED BY <1>2 DEF Ids
<1>6. ASSUME NEW i \in 1 .. n
      PROVE  Posted(b)[i] = [type |-> b[i][1], rs |-> b[i][2], dd |-> FALSE,
                             id |-> (NextId + Cardinality(Lasts(i))) % Ids]
  BY <1>1 DEF Posted
<1> HIDE DEF Lasts
<1>7. ASSUME NEW i \in 1 .. n
      PROVE  /\ Posted(b)[i] \in Desc /\ Posted(b)[i].type = b[i][1] /\ ~Posted(b)[i].dd
             /\ Posted(b)[i].id = (NextId + Cardinality(Lasts(i))) % Ids
  <2> DEFINE m == (NextId + Cardinality(Lasts(i))) % Ids
             r == [type |-> b[i][1], rs |-> b[i][2], dd |-> FALSE, id |-> m]
  <2>1. m \in 0 .. (Ids - 1)
    <3>1. i \in Nat
      BY <1>1
    <3> QED BY <1>5, <3>1
  <2>2. Posted(b)[i] = r
    BY <1>6
  <2> HIDE DEF m
  <2>3. b[i][1] \in {"ctx", "data", "last"} /\ b[i][2] \in BOOLEAN
    BY <1>1
  <2>4. r \in Desc /\ r.type = b[i][1] /\ ~r.dd /\ r.id = m
    BY <2>1, <2>3 DEF Desc
  <2> HIDE DEF r
  <2> QED BY <2>2, <2>4 DEF m
<1>8. \A i \in 1 .. n : Posted(b)[i].id = (NextId + Cardinality(Lasts(i))) % Ids
  BY <1>7
<1>9. Posted(b)[1].id = NextId
  BY <1>1, <1>3, <1>8 DEF Ids
<1>10. ASSUME NEW i \in 1 .. (n - 1)
       PROVE  /\ b[i][1] = "last" => Posted(b)[i + 1].id = (Posted(b)[i].id + 1) % Ids
              /\ b[i][1] # "last" => Posted(b)[i + 1].id = Posted(b)[i].id
  <2>1. i \in Nat /\ i \in 1 .. n /\ i + 1 \in 1 .. n
    BY <1>1
  <2>2. Cardinality(Lasts(i)) \in Nat
    BY <1>2, <2>1
  <2>3. /\ Posted(b)[i].id = (NextId + Cardinality(Lasts(i))) % Ids
        /\ Posted(b)[i + 1].id = (NextId + Cardinality(Lasts(i + 1))) % Ids
    BY <1>8, <2>1
  <2> QED BY <1>4, <2>2, <2>3 DEF Ids
<1> QED BY <1>7, <1>9, <1>10

(* The descriptors stay in one row, whole and numbered, when the host adds *)
(* some behind those that it has added before.                             *)
LEMMA WriteTDTInv ==
  ASSUME TxInv, NEW b \in Batches, WriteTDT(b)
  PROVE  TxInv'
<1> DEFINE m == Len(b)
           a == Ahead(TDH, TDT)
           t == Plus(TDT, m)
           d(k) == Ahead(TDH, k)
<1>1. /\ pc = "idle" /\ pc' = "poll" /\ enabled /\ a + m <= MaxOut
      /\ Partial => b[1][1] # "ctx"
      /\ ring' = [i \in Index |->
           IF Ahead(TDT, i) < m THEN Posted(b)[Ahead(TDT, i) + 1]
           ELSE IF i \in Outstanding THEN ring[i] ELSE Blank]
      /\ TDT' = t /\ sawEmpty' = FALSE
      /\ UNCHANGED <<enabled, active, size, TDH, TDHr, locals, sent, intrVars>>
  BY DEF WriteTDT, Request
<1>2. /\ TDH \in Index /\ TDT \in Index /\ sent \in 0 .. (Ids - 1)
      /\ \A i \in Index : ring[i] \in Desc
  BY DEF TxInv, TxTypeOK
<1>3. /\ TxSize \in Nat /\ TxSize > 1 /\ MaxOut \in Nat /\ MaxOut < TxSize
      /\ \A j, k \in Index :
           Ahead(j, k) \in Int /\ 0 <= Ahead(j, k) /\ Ahead(j, k) < TxSize
  BY RingSize, RingArithmetic, BatchAssumption
<1>4. /\ m \in Nat /\ m >= 1
      /\ \A i \in 1 .. m : b[i][1] \in {"ctx", "data", "last"}
      /\ \A i \in 1 .. m : i > 1 /\ b[i - 1][1] = "data" => b[i][1] # "ctx"
  BY BatchProperties
<1>5. NextId \in 0 .. (Ids - 1)
  <2>1. Last \in Desc
    BY <1>2, Neighbours DEF Last
  <2>2. Last.id \in 0 .. (Ids - 1) /\ (Last.id + 1) % Ids \in 0 .. (Ids - 1)
    BY <2>1 DEF Desc, Ids
  <2> QED BY <1>2, <2>2 DEF NextId
<1>6. a \in Int /\ 0 <= a /\ m \in 0 .. (TxSize - 1)
  BY <1>1, <1>2, <1>3, <1>4
<1>7. t \in Index /\ Ahead(TDT, t) = m
  BY <1>2, <1>6, RingArithmetic, Distances
<1> HIDE DEF t, m, a
<1>8. \A k \in Index :
        /\ a <= d(k) => Ahead(TDT, k) = d(k) - a
        /\ d(k) < a => Ahead(TDT, k) = d(k) - a + TxSize
  BY <1>2, Distances DEF a
<1>9. d(t) = a + m
  BY <1>1, <1>2, <1>3, <1>6, <1>7, <1>8
<1>10. /\ \A k \in Index : k \in Outstanding <=> d(k) < a
       /\ \A k \in Index : k \in Window(TDH, t) <=> d(k) < a + m
  BY <1>2, <1>9 DEF Outstanding, Window, a
<1>11. ASSUME NEW k \in Index
       PROVE  /\ d(k) < a => ring'[k] = ring[k]
              /\ a <= d(k) /\ d(k) < a + m => ring'[k] = Posted(b)[d(k) - a + 1]
              /\ a + m <= d(k) => ring'[k] = Blank
  <2>1. ring'[k] = IF Ahead(TDT, k) < m THEN Posted(b)[Ahead(TDT, k) + 1]
                   ELSE IF k \in Outstanding THEN ring[k] ELSE Blank
    BY <1>1
  <2>2. d(k) \in Int /\ 0 <= d(k) /\ d(k) < TxSize /\ Ahead(TDT, k) \in Int
    BY <1>2, <1>3
  <2>3. CASE d(k) < a
    <3>1. ~(Ahead(TDT, k) < m)
      BY <1>1, <1>3, <1>6, <1>8, <2>2, <2>3
    <3> QED BY <1>10, <2>1, <2>2, <2>3, <3>1, <1>6
  <2>4. CASE a <= d(k) /\ d(k) < a + m
    <3>1. Ahead(TDT, k) < m /\ Ahead(TDT, k) = d(k) - a
      BY <1>3, <1>6, <1>8, <2>2, <2>4
    <3> QED BY <2>1, <2>2, <2>4, <3>1, <1>6
  <2>5. CASE a + m <= d(k)
    <3>1. ~(Ahead(TDT, k) < m) /\ k \notin Outstanding
      BY <1>3, <1>6, <1>8, <1>10, <2>2, <2>5
    <3> QED BY <2>1, <2>2, <2>5, <3>1, <1>6
  <2> QED BY <1>6, <2>2, <2>3, <2>4, <2>5
<1>12. /\ \A i \in 1 .. m :
            /\ Posted(b)[i] \in Desc
            /\ Posted(b)[i].type = b[i][1] /\ ~Posted(b)[i].dd
       /\ Posted(b)[1].id = NextId
       /\ \A i \in 1 .. (m - 1) :
            /\ b[i][1] = "last" => Posted(b)[i + 1].id = (Posted(b)[i].id + 1) % Ids
            /\ b[i][1] # "last" => Posted(b)[i + 1].id = Posted(b)[i].id
  BY <1>5, PostedProperties DEF m
<1>13. Blank \in Desc
  BY DEF Blank, Desc, Ids
<1>14. ring' \in [Index -> Desc]
  <2>1. ASSUME NEW k \in Index PROVE ring'[k] \in Desc
    <3>1. d(k) \in Int /\ 0 <= d(k)
      BY <1>2, <1>3
    <3>2. a <= d(k) /\ d(k) < a + m => d(k) - a + 1 \in 1 .. m
      BY <1>6, <3>1
    <3> QED BY <1>2, <1>6, <1>11, <1>12, <1>13, <3>1, <3>2
  <2> QED BY <1>1, <2>1
<1>15. Cur' = TDH /\ Cur = TDH /\ InFlight' = Window(TDH, t) /\ InFlight = Outstanding
  BY <1>1 DEF Cur, InFlight, Outstanding, Window, Ahead
<1>16. TxTypeOK'
  <2>1. IntrTypeOK'
    BY <1>1, IntrTypes DEF TxInv, TxTypeOK
  <2> QED BY <1>1, <1>7, <1>14, <2>1 DEF TxInv, TxTypeOK, locals
<1>17. Ahead(TDH, TDT)' <= MaxOut
  BY <1>1, <1>9 DEF Ahead
<1>18. TDT' # TDT
  <2>1. Ahead(TDT, TDT) = 0
    BY <1>2, Distances
  <2> QED BY <1>1, <1>4, <1>7, <2>1
<1>19. HeadAtPacket'
  BY <1>1, <1>18 DEF TxInv, HeadAtPacket
<1>20. EmptyStaysIdle'
  BY <1>1 DEF EmptyStaysIdle
<1>21. ReportedUpToHead'
  <2>1. ASSUME NEW k \in Index, d(k) < a + m PROVE ~ring'[k].dd
    <3>1. d(k) \in Int /\ 0 <= d(k)
      BY <1>2, <1>3
    <3>2. CASE d(k) < a
      BY <1>10, <1>11, <1>15, <3>2 DEF TxInv, ReportedUpToHead
    <3>3. CASE a <= d(k)
      <4>1. d(k) - a + 1 \in 1 .. m
        BY <1>6, <2>1, <3>1, <3>3
      <4> QED BY <1>11, <1>12, <2>1, <3>3, <4>1
    <3> QED BY <1>6, <3>1, <3>2, <3>3
  <2>2. \A k \in InFlight' : k \in Index /\ d(k) < a + m
    BY <1>10, <1>15 DEF Window
  <2> QED BY <1>1, <2>1, <2>2 DEF ReportedUpToHead
<1>22. ASSUME NEW k \in InFlight', Plus(k, 1) # t
       PROVE  /\ k \in Index /\ Plus(k, 1) \in Index /\ d(k) \in Int /\ 0 <= d(k)
              /\ d(Plus(k, 1)) = d(k) + 1 /\ d(k) + 1 < a + m
  <2>1. k \in Window(TDH, t)
    BY <1>15
  <2>2. k \in Index /\ Plus(k, 1) \in Index /\ d(Plus(k, 1)) = d(k) + 1 /\ d(Plus(k, 1)) <= d(t)
    BY <1>2, <1>7, <2>1, CutWindow
  <2>3. d(Plus(k, 1)) # d(t)
    BY <1>2, <1>7, <1>22, <2>2, Distances
  <2> QED BY <1>2, <1>3, <1>6, <1>9, <2>2, <2>3
<1>23. TDH # TDT /\ a > 0 => d(Plus(TDT, TxSize - 1)) = a - 1
  <2> DEFINE p == Plus(TDT, TxSize - 1)
  <2>1. p \in Index /\ Ahead(TDT, p) = TxSize - 1
    BY <1>2, Neighbours
  <2> HIDE DEF p
  <2>2. d(p) \in Int /\ 0 <= d(p) /\ d(p) < TxSize
    BY <1>2, <1>3, <2>1
  <2>3. a > 0 => d(p) = a - 1
    BY <1>3, <1>6, <1>8, <2>1, <2>2
  <2> QED BY <2>3 DEF p
<1>24. ASSUME NEW k \in Index, d(k) + 1 = a
       PROVE  TDH # TDT /\ ring[k] = Last
  <2>1. d(k) \in Int /\ 0 <= d(k)
    BY <1>2, <1>3
  <2>2. a > 0 /\ TDH # TDT
    <3>1. Ahead(TDH, TDH) = 0
      BY <1>2, Distances
    <3> QED BY <1>6, <1>24, <2>1, <3>1 DEF a
  <2>3. Plus(TDT, TxSize - 1) \in Index /\ d(Plus(TDT, TxSize - 1)) = d(k)
    BY <1>2, <1>6, <1>23, <1>24, <2>1, <2>2, Neighbours
  <2>4. Plus(TDT, TxSize - 1) = k
    BY <1>2, <2>3, Distances
  <2> QED BY <2>2, <2>4 DEF Last
<1>25. PacketsWhole'
  <2>1. ASSUME TDH # t PROVE ring'[Plus(TDH, TxSize - 1)].type # "data"
    <3>1. Plus(TDH, TxSize - 1) \in Index /\ d(Plus(TDH, TxSize - 1)) = TxSize - 1
      BY <1>2, Neighbours
    <3>2. a + m <= TxSize - 1
      BY <1>1, <1>3, <1>6
    <3>3. ring'[Plus(TDH, TxSize - 1)] = Blank
      BY <1>11, <3>1, <3>2
    <3> QED BY <3>3 DEF Blank
  <2>2. ASSUME NEW k \in InFlight', ring'[k].type = "data", Plus(k, 1) # t
        PROVE  ring'[Plus(k, 1)].type # "ctx"
    <3> DEFINE n == Plus(k, 1)
    <3>1. /\ k \in Index /\ n \in Index /\ d(k) \in Int /\ 0 <= d(k)
          /\ d(n) = d(k) + 1 /\ d(k) + 1 < a + m
      BY <1>22, <2>2
    <3>2. CASE d(k) + 1 < a
      <4>1. ring'[k] = ring[k] /\ ring'[n] = ring[n] /\ k \in InFlight
        BY <1>6, <1>10, <1>11, <1>15, <3>1, <3>2
      <4>2. n # TDT
        BY <1>2, <1>6, <3>1, <3>2 DEF a
      <4> QED BY <2>2, <4>1, <4>2 DEF TxInv, PacketsWhole
    <3>3. CASE d(k) + 1 = a
      <4>1. TDH # TDT /\ ring[k] = Last
        BY <1>24, <3>1, <3>3
      <4>2. ring'[k] = ring[k] /\ ring'[n] = Posted(b)[1]
        BY <1>6, <1>11, <3>1, <3>3
      <4>3. Partial
        BY <2>2, <4>1, <4>2 DEF Partial
      <4>4. Posted(b)[1].type = b[1][1]
        BY <1>4, <1>12
      <4> QED BY <1>1, <4>2, <4>3, <4>4
    <3>4. CASE a <= d(k)
      <4> DEFINE i == d(k) - a + 1
      <4>1. i \in 1 .. m /\ i + 1 \in 1 .. m /\ d(n) - a + 1 = i + 1
        BY <1>4, <1>6, <3>1, <3>4
      <4>2. ring'[k] = Posted(b)[i] /\ ring'[n] = Posted(b)[i + 1]
        BY <1>6, <1>11, <3>1, <3>4, <4>1
      <4> HIDE DEF i
      <4>3. Posted(b)[i].type = b[i][1] /\ Posted(b)[i + 1].type = b[i + 1][1]
        BY <1>12, <4>1
      <4>4. b[i][1] = "data" => b[i + 1][1] # "ctx"
        BY <1>4, <4>1
      <4> QED BY <2>2, <4>2, <4>3, <4>4
    <3> QED BY <1>6, <3>1, <3>2, <3>3, <3>4
  <2> QED BY <1>1, <1>15, <2>1, <2>2 DEF PacketsWhole, Plus
<1>26. Numbered'
  <2>1. ASSUME TDH # t PROVE ring'[TDH].id = sent
    <3>1. d(TDH) = 0
      BY <1>2, Distances
    <3>2. CASE a > 0
      <4>1. TDH # TDT
        BY <1>6, <3>1, <3>2 DEF a
      <4> QED BY <1>2, <1>11, <1>15, <3>1, <3>2, <4>1 DEF TxInv, Numbered
    <3>3. CASE a = 0
      <4>1. TDH = TDT
        BY <1>2, <3>1, <3>3, Distances DEF a
      <4>2. ring'[TDH] = Posted(b)[1]
        BY <1>2, <1>4, <1>11, <3>1, <3>3
      <4> QED BY <1>12, <4>1, <4>2 DEF NextId
    <3> QED BY <1>6, <3>2, <3>3
  <2>2. ASSUME NEW k \in InFlight', Plus(k, 1) # t
        PROVE  ring'[Plus(k, 1)].id =
                 IF ring'[k].type = "last" THEN (ring'[k].id + 1) % Ids ELSE ring'[k].id
    <3> DEFINE n == Plus(k, 1)
    <3>1. /\ k \in Index /\ n \in Index /\ d(k) \in Int /\ 0 <= d(k)
          /\ d(n) = d(k) + 1 /\ d(k) + 1 < a + m
      BY <1>22, <2>2
    <3>2. CASE d(k) + 1 < a
      <4>1. ring'[k] = ring[k] /\ ring'[n] = ring[n] /\ k \in InFlight
        BY <1>6, <1>10, <1>11, <1>15, <3>1, <3>2
      <4>2. n # TDT
        BY <1>2, <1>6, <3>1, <3>2 DEF a
      <4> QED BY <4>1, <4>2 DEF TxInv, Numbered
    <3>3. CASE d(k) + 1 = a
      <4>1. TDH # TDT /\ ring[k] = Last
        BY <1>24, <3>1, <3>3
      <4>2. ring'[k] = ring[k] /\ ring'[n] = Posted(b)[1]
        BY <1>6, <1>11, <3>1, <3>3
      <4> QED BY <1>12, <4>1, <4>2 DEF NextId
    <3>4. CASE a <= d(k)
      <4> DEFINE i == d(k) - a + 1
      <4>1. i \in 1 .. m /\ i \in 1 .. (m - 1) /\ d(n) - a + 1 = i + 1
        BY <1>4, <1>6, <3>1, <3>4
      <4>2. ring'[k] = Posted(b)[i] /\ ring'[n] = Posted(b)[i + 1]
        BY <1>6, <1>11, <3>1, <3>4, <4>1
      <4> HIDE DEF i
      <4>3. Posted(b)[i].type = b[i][1]
        BY <1>12, <4>1
      <4>4. /\ b[i][1] = "last" => Posted(b)[i + 1].id = (Posted(b)[i].id + 1) % Ids
            /\ b[i][1] # "last" => Posted(b)[i + 1].id = Posted(b)[i].id
        BY <1>12, <4>1
      <4> QED BY <4>2, <4>3, <4>4
    <3> QED BY <1>6, <3>1, <3>2, <3>3, <3>4
  <2> QED BY <1>1, <1>15, <2>1, <2>2 DEF Numbered, Plus
<1> QED BY <1>16, <1>17, <1>19, <1>20, <1>21, <1>25, <1>26 DEF TxInv
-----------------------------------------------------------------------------
(* A turn of e82545_tx_run                                                 *)

(* What e82545_transmit collects is one packet, the next one for the wire. *)
LEMMA PacketIds ==
  ASSUME TxInv, pc = "tx", NEW e \in Index, EndsAt(head, e)
  PROVE  /\ e \in Window(head, TDT) /\ ring[e].id = sent
         /\ ring[e].type = IF ring[head].type = "ctx" THEN "ctx" ELSE "last"
<1> DEFINE n == Plus(e, 1)
           P == {k \in Index : ring[k].id = sent}
<1>1. head \in Index /\ TDT \in Index /\ Cur = head /\ InFlight = Window(head, TDT)
  BY DEF TxInv, TxTypeOK, Cur, InFlight
<1>2. e \in Window(head, TDT)
  BY DEF EndsAt
<1>3. /\ n \in Index /\ Ahead(head, n) = Ahead(head, e) + 1
      /\ \A k \in Index : k \in Window(head, n) <=> Ahead(head, k) <= Ahead(head, e)
  BY <1>1, <1>2, CutWindow
<1>4. /\ TxSize \in Nat /\ Ahead(head, e) < Ahead(head, TDT)
      /\ \A j, k \in Index : Ahead(j, k) \in Int /\ 0 <= Ahead(j, k)
  BY <1>2, RingSize, RingArithmetic DEF Window
<1>5. head # TDT
  <2>1. Ahead(head, head) = 0
    BY <1>1, Distances
  <2> QED BY <1>1, <1>4, <2>1
<1>6. ring[head].id = sent
  BY <1>1, <1>5 DEF TxInv, Numbered
<1>7. CASE ring[head].type = "ctx"
  BY <1>2, <1>6, <1>7 DEF EndsAt
<1>8. CASE ring[head].type # "ctx"
  <2>1. ring[e].type = "last" /\ \A k \in Window(head, e) : ring[k].type = "data"
    BY <1>8 DEF EndsAt
  <2>2. ASSUME NEW i \in Window(head, n), ring[i].id = sent, Plus(i, 1) # n
        PROVE  ring[Plus(i, 1)].id = sent
    <3>1. i \in Index /\ i # e /\ Ahead(head, i) <= Ahead(head, e)
      BY <1>3, <2>2 DEF Window
    <3>2. Ahead(head, i) < Ahead(head, e)
      BY <1>1, <1>4, <3>1, Distances
    <3>3. i \in Window(head, e) /\ i \in Window(head, TDT)
      BY <1>1, <1>4, <3>1, <3>2 DEF Window
    <3>4. Plus(i, 1) \in Index /\ Ahead(head, Plus(i, 1)) = Ahead(head, i) + 1
      BY <1>1, <3>3, CutWindow
    <3>5. Plus(i, 1) # TDT
      BY <1>1, <1>4, <3>1, <3>2, <3>4
    <3> QED BY <1>1, <2>1, <2>2, <3>3, <3>5 DEF TxInv, Numbered
  <2>3. P \in SUBSET Index /\ head \in P
    BY <1>1, <1>6
  <2>4. \A i \in Window(head, n) : i \in P /\ Plus(i, 1) # n => Plus(i, 1) \in P
    <3>1. \A i \in Window(head, n) : Plus(i, 1) \in Index
      BY Neighbours DEF Window
    <3> HIDE DEF n
    <3> QED BY <2>2, <3>1 DEF n
  <2> HIDE DEF n, P
  <2>5. Window(head, n) \subseteq P
    BY <1>1, <1>3, <2>3, <2>4, AlongWindow
  <2>6. e \in P
    BY <1>1, <1>3, <1>4, <2>5
  <2> QED BY <1>2, <1>8, <2>1, <2>6 DEF P
<1> QED BY <1>7, <1>8

(* A loop that stops below its limit has looked at data descriptors only.  *)
LEMMA Stuck ==
  ASSUME TxInv, pc = "tx", lim > 0, ~CanTransmit
  PROVE  \A k \in Window(head, TDT) : ring[k].type = "data"
<1> DEFINE P == {k \in Index : \A j \in Index :
                                 Ahead(head, j) <= Ahead(head, k) => ring[j].type = "data"}
<1>1. /\ head \in Index /\ TDT \in Index /\ Cur = head /\ InFlight = Window(head, TDT)
      /\ \A k \in Index : ring[k].type \in {"ctx", "data", "last"}
  BY DEF TxInv, TxTypeOK, Desc, Cur, InFlight
<1>2. /\ TxSize \in Nat /\ Ahead(head, head) = 0
      /\ \A j, k \in Index : Ahead(j, k) \in Int /\ 0 <= Ahead(j, k)
  BY <1>1, RingSize, RingArithmetic, Distances
<1>3. \A e \in Index : ~EndsAt(head, e)
  BY DEF CanTransmit
<1>4. head # TDT => head \in P
  <2> SUFFICES ASSUME head # TDT PROVE head \in P
    OBVIOUS
  <2>1. head \in Window(head, TDT)
    <3>1. Ahead(head, TDT) # 0
      BY <1>1, <1>2, Distances
    <3> QED BY <1>1, <1>2, <3>1 DEF Window
  <2>2. Window(head, head) = {}
    BY <1>1, <1>2 DEF Window
  <2>3. ring[head].type = "data"
    BY <1>1, <1>3, <2>1, <2>2 DEF EndsAt
  <2>4. \A j \in Index : Ahead(head, j) <= Ahead(head, head) => j = head
    BY <1>1, <1>2, Distances
  <2> QED BY <1>1, <2>3, <2>4
<1>5. ASSUME NEW i \in Window(head, TDT), i \in P, Plus(i, 1) # TDT
      PROVE  Plus(i, 1) \in P
  <2> DEFINE n == Plus(i, 1)
  <2>1. /\ i \in Index /\ n \in Index /\ Ahead(head, n) = Ahead(head, i) + 1
        /\ Ahead(head, n) <= Ahead(head, TDT)
    BY <1>1, CutWindow DEF Window
  <2>2. \A j \in Index : Ahead(head, j) <= Ahead(head, i) => ring[j].type = "data"
    BY <1>5
  <2>3. ring[i].type = "data" /\ ring[head].type = "data"
    BY <1>1, <1>2, <2>1, <2>2
  <2>4. ring[n].type # "ctx"
    BY <1>1, <1>5, <2>3 DEF TxInv, PacketsWhole
  <2> HIDE DEF n, P
  <2>5. n \in Window(head, TDT)
    <3>1. Ahead(head, n) # Ahead(head, TDT)
      BY <1>1, <1>5, <2>1, Distances DEF n
    <3> QED BY <1>1, <1>2, <2>1, <3>1 DEF Window
  <2>6. \A k \in Window(head, n) : ring[k].type = "data"
    BY <1>1, <1>2, <2>1, <2>2 DEF Window
  <2>7. ring[n].type # "last"
    BY <1>3, <2>1, <2>3, <2>5, <2>6 DEF EndsAt
  <2>8. ring[n].type = "data"
    BY <1>1, <2>1, <2>4, <2>7
  <2>9. ASSUME NEW j \in Index, Ahead(head, j) <= Ahead(head, n) PROVE ring[j].type = "data"
    <3>1. CASE Ahead(head, j) = Ahead(head, n)
      BY <1>1, <2>1, <2>8, <3>1, Distances
    <3>2. CASE Ahead(head, j) # Ahead(head, n)
      BY <1>1, <1>2, <2>1, <2>2, <2>9, <3>2
    <3> QED BY <3>1, <3>2
  <2> QED BY <2>1, <2>9 DEF n, P
<1>6. P \in SUBSET Index
  OBVIOUS
<1> HIDE DEF P
<1>7. Window(head, TDT) \subseteq P
  BY <1>1, <1>4, <1>5, <1>6, AlongWindow
<1>8. ASSUME NEW k \in Window(head, TDT) PROVE ring[k].type = "data"
  BY <1>1, <1>2, <1>7 DEF P, Window
<1> QED BY <1>8

(* e82545_transmit_done changes DD, and of the packet only.                *)
LEMMA DoneChanges ==
  ASSUME TxTypeOK, NEW e \in Index, ring' = transmit_done(head, e)
  PROVE  /\ ring' \in [Index -> Desc]
         /\ \A k \in Index :
              /\ ring'[k].type = ring[k].type /\ ring'[k].id = ring[k].id
              /\ ring'[k].rs = ring[k].rs
              /\ ring[k].dd => ring'[k].dd
              /\ k \in Window(head, Plus(e, 1)) /\ ring[k].rs => ring'[k].dd
              /\ k \notin Window(head, Plus(e, 1)) => ring'[k].dd = ring[k].dd
<1>1. \A k \in Index : ring[k] \in Desc
  BY DEF TxTypeOK
<1>2. ASSUME NEW k \in Index
      PROVE  /\ ring'[k] \in Desc
             /\ ring'[k].type = ring[k].type /\ ring'[k].id = ring[k].id
             /\ ring'[k].rs = ring[k].rs
             /\ ring[k].dd => ring'[k].dd
             /\ k \in Window(head, Plus(e, 1)) /\ ring[k].rs => ring'[k].dd
             /\ k \notin Window(head, Plus(e, 1)) => ring'[k].dd = ring[k].dd
  <2>1. CASE k \in Window(head, Plus(e, 1)) /\ ring[k].rs
    <3>1. ring'[k] = [ring[k] EXCEPT !.dd = TRUE]
      BY <2>1 DEF transmit_done
    <3> QED BY <1>1, <2>1, <3>1 DEF Desc
  <2>2. CASE ~(k \in Window(head, Plus(e, 1)) /\ ring[k].rs)
    <3>1. ring'[k] = ring[k]
      BY <2>2 DEF transmit_done
    <3> QED BY <1>1, <2>2, <3>1
  <2> QED BY <2>1, <2>2
<1>3. ring' = [i \in Index |-> ring'[i]]
  BY DEF transmit_done
<1> QED BY <1>2, <1>3
LEMMA TransmitInv ==
  ASSUME TxInv, Transmit
  PROVE  TxInv'
<1> DEFINE h == head
<1>1. PICK e \in Index :
        /\ pc = "tx" /\ lim > 0 /\ EndsAt(head, e)
        /\ ring' = transmit_done(head, e)
        /\ tdwb' = (tdwb \/ \E i \in Window(head, Plus(e, 1)) : ring[i].rs)
        /\ lim' = lim - Ahead(head, Plus(e, 1))
        /\ head' = Plus(e, 1)
        /\ sent' = IF ring[head].type = "ctx" THEN sent ELSE (sent + 1) % Ids
        /\ UNCHANGED <<pc, dev, sawEmpty, intrVars>>
  BY DEF Transmit
<1> DEFINE n == Plus(e, 1)
<1>2. /\ TxTypeOK /\ h \in Index /\ TDT \in Index /\ TDH \in Index
      /\ Cur = h /\ InFlight = Window(h, TDT)
  BY <1>1 DEF TxInv, TxTypeOK, Cur, InFlight
<1>3. /\ e \in Window(h, TDT) /\ ring[e].id = sent
      /\ ring[e].type = IF ring[h].type = "ctx" THEN "ctx" ELSE "last"
  BY <1>1, PacketIds
<1>4. /\ n \in Index /\ Ahead(h, n) = Ahead(h, e) + 1 /\ Ahead(h, n) <= Ahead(h, TDT)
      /\ \A k \in Index : k \in Window(h, n) <=> Ahead(h, k) <= Ahead(h, e)
      /\ \A k \in Index : k \in Window(n, TDT) <=>
                           Ahead(h, e) < Ahead(h, k) /\ Ahead(h, k) < Ahead(h, TDT)
  BY <1>2, <1>3, CutWindow
<1>5. /\ TxSize \in Nat
      /\ \A j, k \in Index :
           Ahead(j, k) \in Int /\ 0 <= Ahead(j, k) /\ Ahead(j, k) < TxSize
  BY RingSize, RingArithmetic
<1>6. /\ ring' \in [Index -> Desc]
      /\ \A k \in Index :
           /\ ring'[k].type = ring[k].type /\ ring'[k].id = ring[k].id
           /\ ring'[k].rs = ring[k].rs
           /\ ring[k].dd => ring'[k].dd
           /\ k \in Window(h, n) /\ ring[k].rs => ring'[k].dd
           /\ k \notin Window(h, n) => ring'[k].dd = ring[k].dd
  BY <1>1, <1>2, DoneChanges
<1>7. UNCHANGED <<pc, enabled, active, size, TDH, TDHr, TDT, sawEmpty, intrVars>>
  BY <1>1 DEF dev
<1>8. /\ Plus(n, TxSize - 1) = e /\ n \notin Window(h, n)
      /\ \A k \in InFlight' : k \in InFlight /\ k \in Index /\ Plus(k, 1) \in Index
                              /\ k \notin Window(h, n)
  <2>1. Plus(n, TxSize - 1) = e
    BY Neighbours
  <2>2. InFlight' = Window(n, TDT)
    BY <1>1, <1>7 DEF InFlight, Cur, Window, Ahead
  <2>3. ASSUME NEW k \in Window(n, TDT)
        PROVE  k \in Window(h, TDT) /\ k \in Index /\ Plus(k, 1) \in Index /\ k \notin Window(h, n)
    <3>1. k \in Index
      BY DEF Window
    <3>2. Ahead(h, e) < Ahead(h, k) /\ Ahead(h, k) < Ahead(h, TDT)
      BY <1>4, <3>1
    <3>3. ~(Ahead(h, k) <= Ahead(h, e))
      BY <1>2, <1>3, <1>5, <3>1, <3>2
    <3> QED BY <1>4, <3>1, <3>2, <3>3, Neighbours DEF Window
  <2>4. ~(Ahead(h, n) <= Ahead(h, e))
    BY <1>2, <1>4, <1>5
  <2> QED BY <1>2, <1>4, <2>1, <2>2, <2>3, <2>4
<1> HIDE DEF n, h
<1>9. Cur' = n
  BY <1>1, <1>7 DEF Cur, n
<1>10. TxTypeOK'
  <2>1. IntrTypeOK'
    BY <1>7, IntrTypes DEF TxInv, TxTypeOK
  <2>2. sent' \in 0 .. (Ids - 1)
    BY <1>1, <1>2 DEF TxTypeOK, Ids
  <2>3. lim' \in Int
    <3>1. lim \in Int /\ Ahead(h, n) \in Int
      BY <1>2, <1>4, <1>5 DEF TxTypeOK
    <3> QED BY <1>1, <3>1 DEF h, n
  <2>4. tdwb' \in BOOLEAN
    BY <1>1
  <2> QED BY <1>1, <1>2, <1>4, <1>6, <1>7, <2>1, <2>2, <2>3, <2>4 DEF TxTypeOK, n
<1>11. Ahead(TDH, TDT)' <= MaxOut /\ HeadAtPacket' /\ EmptyStaysIdle'
  BY <1>1, <1>7 DEF TxInv, HeadAtPacket, EmptyStaysIdle, Ahead
<1>12. PacketsWhole'
  <2>1. ring'[Plus(n, TxSize - 1)].type # "data"
    BY <1>3, <1>6, <1>8
  <2>2. ASSUME NEW k \in InFlight', ring'[k].type = "data", Plus(k, 1) # TDT
        PROVE  ring'[Plus(k, 1)].type # "ctx"
    BY <1>6, <1>8, <2>2 DEF TxInv, PacketsWhole
  <2> QED BY <1>7, <1>9, <2>1, <2>2 DEF PacketsWhole, Plus
<1>13. Numbered'
  <2>1. n # TDT => ring'[n].id = sent'
    <3>1. n # TDT => ring[n].id = IF ring[e].type = "last" THEN (ring[e].id + 1) % Ids ELSE ring[e].id
      BY <1>2, <1>3 DEF TxInv, Numbered, n
    <3> QED BY <1>1, <1>3, <1>4, <1>6, <3>1 DEF h
  <2>2. ASSUME NEW k \in InFlight', Plus(k, 1) # TDT
        PROVE  ring'[Plus(k, 1)].id =
                 IF ring'[k].type = "last" THEN (ring'[k].id + 1) % Ids ELSE ring'[k].id
    <3>1. ring[Plus(k, 1)].id = IF ring[k].type = "last" THEN (ring[k].id + 1) % Ids ELSE ring[k].id
      BY <1>8, <2>2 DEF TxInv, Numbered
    <3> QED BY <1>6, <1>8, <3>1
  <2> QED BY <1>7, <1>9, <2>1, <2>2 DEF Numbered, Plus
<1>14. ReportedUpToHead'
  <2>1. ASSUME NEW k \in InFlight' PROVE ~ring'[k].dd
    BY <1>6, <1>8 DEF TxInv, ReportedUpToHead
  <2> DEFINE a == Ahead(TDH, h)
  <2>2. a \in Int /\ 0 <= a /\ a <= Ahead(TDH, TDT)
    BY <1>1, <1>2, <1>5 DEF TxInv, ReportedUpToHead, h
  <2>3. Ahead(h, TDT) = Ahead(TDH, TDT) - a
    BY <1>2, <2>2, Distances
  <2>4. Ahead(TDH, n) = a + Ahead(h, n)
    <3>1. CASE a <= Ahead(TDH, n)
      <4>1. Ahead(h, n) = Ahead(TDH, n) - a
        BY <1>2, <1>4, <3>1, Distances
      <4> QED BY <1>2, <1>4, <1>5, <2>2, <4>1
    <3>2. CASE Ahead(TDH, n) < a
      <4>1. Ahead(h, n) = Ahead(TDH, n) - a + TxSize
        BY <1>2, <1>4, <3>2, Distances
      <4> QED BY <1>2, <1>4, <1>5, <2>2, <2>3, <4>1
    <3> QED BY <1>2, <1>4, <1>5, <2>2, <3>1, <3>2
  <2>5. Ahead(TDH, n) <= Ahead(TDH, TDT)
    BY <1>2, <1>4, <1>5, <2>2, <2>3, <2>4
  <2>6. ASSUME NEW i \in Window(TDH, n), ring'[i].rs PROVE ring'[i].dd /\ tdwb'
    <3>1. i \in Index /\ Ahead(TDH, i) < Ahead(TDH, n) /\ ring[i].rs
      BY <1>6, <2>6 DEF Window
    <3>2. CASE Ahead(TDH, i) < a
      <4>1. i \in Window(TDH, h)
        BY <3>1, <3>2 DEF Window
      <4>2. ring[i].dd /\ tdwb
        BY <1>1, <3>1, <4>1 DEF TxInv, ReportedUpToHead, h
      <4> QED BY <1>1, <1>6, <3>1, <4>2
    <3>3. CASE a <= Ahead(TDH, i)
      <4>1. Ahead(h, i) = Ahead(TDH, i) - a
        BY <1>2, <3>1, <3>3, Distances
      <4>2. i \in Window(h, n)
        BY <1>2, <1>4, <1>5, <2>2, <2>4, <3>1, <4>1 DEF Window
      <4> QED BY <1>1, <1>6, <3>1, <4>2 DEF h, n
    <3> QED BY <1>2, <1>5, <2>2, <3>1, <3>2, <3>3
  <2>7. \A i \in Window(TDH, head)' : ring'[i].rs => ring'[i].dd /\ tdwb'
    <3>1. Window(TDH, head)' = Window(TDH, n)
      BY <1>1, <1>7 DEF Window, Ahead, n
    <3> QED BY <2>6, <3>1
  <2>8. Ahead(TDH, head)' <= Ahead(TDH, TDT)'
    BY <1>1, <1>7, <2>5 DEF Ahead, n
  <2> QED BY <2>1, <2>7, <2>8 DEF ReportedUpToHead
<1> QED BY <1>10, <1>11, <1>12, <1>13, <1>14 DEF TxInv

(* The end of e82545_tx_run                                                *)
LEMMA FinishInv ==
  ASSUME TxInv, Finish
  PROVE  TxInv'
<1>1. /\ pc = "tx" /\ ~CanTransmit /\ TDH' = head /\ pc' = "idle"
      /\ TDHr' = IF lim > 0 THEN TDT ELSE head
      /\ head' = 0 /\ lim' = 0 /\ tdwb' = FALSE
      /\ UNCHANGED <<enabled, active, size, TDT, ring, sent, sawEmpty>>
  BY DEF Finish
<1>2. /\ TxTypeOK /\ head \in Index /\ TDT \in Index /\ TDH \in Index
  BY DEF TxInv, TxTypeOK
<1>3. Cur' = Cur /\ InFlight' = InFlight /\ Outstanding' = Window(head, TDT)
  BY <1>1 DEF Cur, InFlight, Outstanding, Window, Ahead
<1>4. TxTypeOK'
  <2>1. IntrTypeOK'
    <3>1. \E bits \in SUBSET Bits : Cause(bits)
      BY TxBitsAssumption DEF Finish
    <3> QED BY <1>2, <3>1, IntrTypes DEF TxTypeOK
  <2>2. head' \in Index /\ lim' \in Int /\ tdwb' \in BOOLEAN
    <3>1. head' \in Index /\ lim' \in Int
      BY <1>1, RingSize DEF Index
    <3>2. tdwb' \in BOOLEAN
      BY <1>1
    <3> QED BY <3>1, <3>2
  <2>3. TDHr' \in Index
    BY <1>1, <1>2
  <2>4. sent' \in 0 .. (Ids - 1) /\ ring' \in [Index -> Desc] /\ size' \in {0, TxSize}
    BY <1>1, <1>2 DEF TxTypeOK
  <2> QED BY <1>1, <1>2, <2>1, <2>2, <2>3, <2>4 DEF TxTypeOK
<1>5. Ahead(TDH, TDT)' <= MaxOut
  <2>1. Ahead(head, TDT) = Ahead(TDH, TDT) - Ahead(TDH, head)
    BY <1>1, <1>2, Distances DEF TxInv, ReportedUpToHead
  <2>2. Ahead(TDH, TDT) \in Int /\ Ahead(TDH, head) \in Int /\ 0 <= Ahead(TDH, head)
    BY <1>2, RingArithmetic
  <2>3. Ahead(head, TDT) <= MaxOut
    BY <2>1, <2>2, BatchAssumption DEF TxInv
  <2> QED BY <1>1, <2>3 DEF Ahead
<1>6. HeadAtPacket'
  <2>1. CASE lim > 0
    <3>1. \A i \in Window(head, TDT) : ring[i].type = "data"
      BY <1>1, <2>1, Stuck
    <3> QED BY <1>1, <1>3, <2>1, <3>1 DEF HeadAtPacket
  <2>2. CASE ~(lim > 0)
    BY <1>1, <2>2 DEF HeadAtPacket
  <2> QED BY <2>1, <2>2
<1>7. PacketsWhole' /\ Numbered' /\ ReportedUpToHead'
  BY <1>1, <1>3 DEF TxInv, PacketsWhole, Numbered, ReportedUpToHead, Plus
<1>8. EmptyStaysIdle'
  BY <1>1 DEF TxInv, EmptyStaysIdle
<1> QED BY <1>4, <1>5, <1>6, <1>7, <1>8 DEF TxInv

LEMMA TxNextInv ==
  ASSUME TxInv, [TxNext]_txVars
  PROVE  TxInv'
<1>1. CASE \E b \in Batches : WriteTDT(b)
  BY <1>1, WriteTDTInv
<1>2. CASE WriteTDLEN \/ ReadTDH \/ Enable \/ Spin \/ Disable \/ ResetDevice \/ AccessIntr
  BY <1>2, HostInv
<1>3. CASE NoRequest \/ PollIdle \/ PollRun \/ UNCHANGED txVars
  BY <1>3, PollInv
<1>4. CASE Transmit
  BY <1>4, TransmitInv
<1>5. CASE Finish
  BY <1>5, FinishInv
<1> QED BY <1>1, <1>2, <1>3, <1>4, <1>5 DEF TxNext, TxHost, TxDevice

-----------------------------------------------------------------------------
(* e82545_tx_run finds, whenever it runs, a ring with whole packets in     *)
(* their order between head and tail, the head at the start of one, and    *)
(* leaves such a ring when it stores TDH and TDHr.                         *)
THEOREM TxInvariant == TxSpec => []TxInv
<1>1. TxInit => TxInv
  BY TxInitInv
<1>2. TxInv /\ [TxNext]_txVars => TxInv'
  BY TxNextInv
<1> QED BY <1>1, <1>2, PTL DEF TxSpec

(* e82545_transmit sends the packets in the order in which the host has    *)
(* added them, each from its first descriptor and once.                    *)
THEOREM PacketsOnce == TxSpec => SentOnceInOrder
<1>1. ASSUME TxInv, [TxNext]_txVars, sent' # sent
      PROVE  ring[head].id = sent /\ ring[Plus(head, TxSize - 1)].type # "data"
  <2>1. Transmit
    BY <1>1 DEF TxNext, TxHost, TxDevice, WriteTDT, WriteTDLEN, ReadTDH, Enable, Spin, Disable,
                ResetDevice, AccessIntr, NoRequest, PollIdle, PollRun, Finish, txVars
  <2>2. pc = "tx" /\ \E e \in Index : EndsAt(head, e)
    BY <2>1 DEF Transmit
  <2>3. head # TDT
    <3>1. Window(head, TDT) # {}
      BY <2>2 DEF EndsAt
    <3>2. head = TDT => Window(head, TDT) = {}
      <4>1. head \in Index
        BY <1>1 DEF TxInv, TxTypeOK
      <4>2. Ahead(head, head) = 0 /\ \A k \in Index : ~(Ahead(head, k) < 0)
        BY <4>1, Distances, RingArithmetic
      <4> QED BY <4>2 DEF Window
    <3> QED BY <3>1, <3>2
  <2>4. Cur = head
    BY <2>2 DEF Cur
  <2> QED BY <1>1, <2>3, <2>4 DEF TxInv, PacketsWhole, Numbered
<1>2. TxInv /\ [TxNext]_txVars =>
        [sent' # sent => /\ ring[head].id = sent
                         /\ ring[Plus(head, TxSize - 1)].type # "data"]_txVars
  BY <1>1
<1> QED BY <1>2, TxInvariant, PTL DEF TxSpec, SentOnceInOrder

(* When TDH is stored, every descriptor with RS that it passes has DD, and *)
(* ICR has TXDW, unless nothing was to be reported.                        *)
THEOREM CompletionsSeen == TxSpec => CompletionReported
<1>1. ASSUME TxInv, [TxNext]_txVars, pc = "tx", pc' = "idle",
             NEW i \in Window(TDH, TDH'), ring[i].rs
      PROVE  ring[i].dd /\ "TXDW" \in intr'.ICR
  <2>1. Finish
    BY <1>1 DEF TxNext, TxHost, TxDevice, WriteTDT, WriteTDLEN, ReadTDH, Enable, Spin, Disable,
                ResetDevice, AccessIntr, NoRequest, Request, PollIdle, PollRun, Transmit, txVars
  <2>2. ring[i].dd /\ tdwb
    BY <1>1, <2>1 DEF TxInv, ReportedUpToHead, Finish
  <2>3. PICK bits \in SUBSET Bits : "TXDW" \in bits /\ Cause(bits)
    BY <2>1, <2>2, TxBitsAssumption DEF Finish
  <2>4. "TXDW" \in intr'.ICR
    <3>1. intr \in IntrState
      BY <1>1 DEF TxInv, TxTypeOK, IntrTypeOK
    <3> QED BY <2>3, <3>1 DEF Cause, icr_assert, signal, IntrState
  <2> QED BY <2>2, <2>4
<1>2. TxInv /\ [TxNext]_txVars =>
        [(pc = "tx") /\ pc' = "idle" =>
           \A i \in Window(TDH, TDH') : ring[i].rs => ring[i].dd /\ "TXDW" \in intr'.ICR]_txVars
  BY <1>1
<1> QED BY <1>2, TxInvariant, PTL DEF TxSpec, CompletionReported
=============================================================================

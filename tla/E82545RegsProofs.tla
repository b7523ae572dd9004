-------------------------- MODULE E82545RegsProofs --------------------------
(***************************************************************************)
(* Proofs about the register file of the E1000, for every set of causes:   *)
(* the interrupt logic (E82545Intr) raises the line for every cause, alone *)
(* and among all the other registers, and the rings in use are those that  *)
(* the host reads back.  The shift registers behind EECD are an EEPROM for *)
(* every width of its addresses and words.                                 *)
(***************************************************************************)
EXTENDS E82545Regs, TLAPS, SequenceTheorems, WellFoundedInduction

-----------------------------------------------------------------------------
(* The interrupt logic                                                     *)

USE DEF Pending

(* signal only adds to what a record says: it keeps the causes and, with   *)
(* what was pending before signalled, leaves every pending cause so.       *)
LEMMA SignalProperties ==
  ASSUME NEW i \in IntrState, NEW new \in SUBSET Bits
  PROVE  LET s == signal(i, new)
         IN  /\ s \in IntrState
             /\ s.ICR = i.ICR /\ s.IMS = i.IMS /\ s.ITR = i.ITR
             /\ i.irq_asserted => s.irq_asserted
             /\ i.mevpitr => s.mevpitr
             /\ new # {} => s.irq_asserted \/ s.mevpitr
             /\ (i.mevpitr <=> i.callout) => (s.mevpitr <=> s.callout)
             /\ (i.irq_asserted /\ ~i.line) <=> (s.irq_asserted /\ ~s.line)
             /\ (i.line => i.irq_asserted) => (s.line => s.irq_asserted)
BY DEF signal, IntrState

(* An interrupt cause, new or not, is signalled when it is asserted.       *)
LEMMA CauseIInv ==
  ASSUME IntrInv, NEW bits \in SUBSET Bits, Cause(bits)
  PROVE  IntrInv'
<1> DEFINE i == [intr EXCEPT !.ICR = intr.ICR \cup bits]
           new == (bits \ intr.ICR) \cap intr.IMS
<1>1. intr \in IntrState
  BY DEF IntrInv, IntrTypeOK
<1>2. /\ i \in IntrState /\ new \in SUBSET Bits
      /\ i.ICR = intr.ICR \cup bits /\ i.IMS = intr.IMS
      /\ i.irq_asserted = intr.irq_asserted /\ i.mevpitr = intr.mevpitr
      /\ i.callout = intr.callout /\ i.line = intr.line
  BY <1>1 DEF IntrState
<1>3. intr' = signal(i, new) /\ resetting' = resetting
  BY DEF Cause, icr_assert
<1>4. Pending(i) # {} => new # {} \/ Pending(intr) # {}
  BY <1>1, <1>2 DEF IntrState
<1> HIDE DEF i, new
<1> QED
  BY <1>2, <1>3, <1>4, SignalProperties
  DEF IntrInv, IntrTypeOK, CausesSignalled, TimerMatches, LineMatches

(* A cause that is enabled after it was asserted is signalled too.         *)
LEMMA WriteIMSIInv ==
  ASSUME IntrInv, NEW bits \in SUBSET Bits, WriteIMS(bits)
  PROVE  IntrInv'
<1> DEFINE i == [intr EXCEPT !.IMS = intr.IMS \cup bits]
           new == (bits \cap intr.ICR) \ intr.IMS
<1>1. intr \in IntrState
  BY DEF IntrInv, IntrTypeOK
<1>2. /\ i \in IntrState /\ new \in SUBSET Bits
      /\ i.ICR = intr.ICR /\ i.IMS = intr.IMS \cup bits
      /\ i.irq_asserted = intr.irq_asserted /\ i.mevpitr = intr.mevpitr
      /\ i.callout = intr.callout /\ i.line = intr.line
  BY <1>1 DEF IntrState
<1>3. intr' = signal(i, new) /\ resetting' = resetting /\ (Careful => ~resetting)
  BY DEF WriteIMS, ims_change
<1>4. Pending(i) # {} => new # {} \/ Pending(intr) # {}
  BY <1>1, <1>2 DEF IntrState
<1> HIDE DEF i, new
<1> QED
  BY <1>2, <1>3, <1>4, SignalProperties
  DEF IntrInv, IntrTypeOK, CausesSignalled, TimerMatches, LineMatches

(* The steps that take causes away, and the timer.                         *)
LEMMA QuietIInv ==
  ASSUME IntrInv,
         \/ \E bits \in SUBSET Bits : WriteICR(bits) \/ WriteIMC(bits)
         \/ \E on \in BOOLEAN : WriteITR(on)
         \/ ReadICR \/ Reset \/ Timer
  PROVE  IntrInv'
<1> USE DEF IntrInv, IntrTypeOK, IntrState, CausesSignalled, TimerMatches, LineMatches
<1>1. ASSUME NEW bits \in SUBSET Bits, WriteICR(bits) PROVE IntrInv'
  BY <1>1 DEF WriteICR, icr_deassert
<1>2. ASSUME NEW bits \in SUBSET Bits, WriteIMC(bits) PROVE IntrInv'
  BY <1>2 DEF WriteIMC
<1>3. ASSUME NEW on \in BOOLEAN, WriteITR(on) PROVE IntrInv'
  BY <1>3 DEF WriteITR
<1>4. CASE ReadICR
  BY <1>4 DEF ReadICR, icr_deassert
<1>5. CASE Reset
  BY <1>5 DEF Reset, intr_reset
<1>6. CASE Timer
  BY <1>6 DEF Timer, itr_callback
<1> QED
  BY <1>1, <1>2, <1>3, <1>4, <1>5, <1>6

(* The interrupt logic of pci_e82545.c keeps its invariant, whatever the   *)
(* host writes and whenever the timer fires.                               *)
THEOREM InterruptInvariant == IntrSpec => []IntrInv
<1>1. IntrInit => IntrInv
  <2> SUFFICES ASSUME IntrInit PROVE IntrInv
    OBVIOUS
  <2>1. intr \in IntrState /\ intr.ICR = {} /\ intr.IMS = {}
    BY DEF IntrInit, InitIntr, IntrState
  <2>2. ~intr.mevpitr /\ ~intr.callout /\ ~intr.line /\ ~intr.irq_asserted
    BY DEF IntrInit, InitIntr
  <2> QED
    BY <2>1, <2>2 DEF IntrInit, IntrInv, IntrTypeOK, CausesSignalled, TimerMatches, LineMatches
<1>2. IntrInv /\ [IntrNext]_intrVars => IntrInv'
  <2> SUFFICES ASSUME IntrInv, [IntrNext]_intrVars PROVE IntrInv'
    OBVIOUS
  <2>1. ASSUME NEW bits \in SUBSET Bits, Cause(bits) PROVE IntrInv'
    BY <2>1, CauseIInv
  <2>2. ASSUME NEW bits \in SUBSET Bits, WriteIMS(bits) PROVE IntrInv'
    BY <2>2, WriteIMSIInv
  <2>3. CASE UNCHANGED intrVars
    BY <2>3 DEF intrVars, IntrInv, IntrTypeOK, CausesSignalled, TimerMatches, LineMatches
  <2> QED
    BY <2>1, <2>2, <2>3, QuietIInv DEF IntrNext
<1> QED
  BY <1>1, <1>2, PTL DEF IntrSpec

(* With a host that reads ICR after a reset no interrupt is lost: a cause  *)
(* it asked for has raised the line, or the timer will look at it.         *)
THEOREM NoInterruptLost == ASSUME Careful PROVE IntrSpec => []CausesReachHost
<1>1. IntrInv => CausesReachHost
  BY DEF IntrInv, CausesSignalled, TimerMatches, LineMatches, CausesReachHost
<1> QED
  BY <1>1, InterruptInvariant, PTL

(* The throttling of e82545_icr_assert, _ims_change and _itr_callback: the *)
(* line rises at most once in an interval.                                 *)
THEOREM ThrottlingWorks == IntrSpec => RateLimited
<1> DEFINE Rule == ~intr.line /\ intr'.line =>
                     (intr.callout => Timer) /\ (intr.ITR => intr'.callout)
<1>1. IntrInv /\ [IntrNext]_intrVars => [Rule]_intrVars
  <2> SUFFICES ASSUME IntrInv, IntrNext, ~intr.line, intr'.line
               PROVE  (intr.callout => Timer) /\ (intr.ITR => intr'.callout)
    OBVIOUS
  <2> USE DEF IntrInv, IntrTypeOK, IntrState, TimerMatches
  <2>1. ASSUME NEW bits \in SUBSET Bits, Cause(bits)
        PROVE  ~intr.callout /\ (intr.ITR => intr'.callout)
    BY <2>1 DEF Cause, icr_assert, signal
  <2>2. ASSUME NEW bits \in SUBSET Bits, WriteIMS(bits)
        PROVE  ~intr.callout /\ (intr.ITR => intr'.callout)
    BY <2>2 DEF WriteIMS, ims_change, signal
  <2>3. ASSUME NEW bits \in SUBSET Bits, WriteICR(bits) \/ WriteIMC(bits)
        PROVE  FALSE
    BY <2>3 DEF WriteICR, WriteIMC, icr_deassert
  <2>4. ASSUME NEW on \in BOOLEAN, WriteITR(on) PROVE FALSE
    BY <2>4 DEF WriteITR
  <2>5. ASSUME ReadICR \/ Reset PROVE FALSE
    BY <2>5 DEF ReadICR, Reset, icr_deassert, intr_reset
  <2>6. CASE Timer
    BY <2>6 DEF Timer, itr_callback
  <2> QED
    BY <2>1, <2>2, <2>3, <2>4, <2>5, <2>6 DEF IntrNext
<1> QED
  BY <1>1, InterruptInvariant, PTL DEF IntrSpec, RateLimited

-----------------------------------------------------------------------------
(* The registers around it                                                 *)

RingState == [on : BOOLEAN, ctl : SUBSET {"EN"}, BAL : Bases, BAH : Bases,
              base : Bases \X Bases]

RingType == ring \in [{"rx", "tx"} -> RingState]

RingInv == RingType /\ RingsCurrent

(* e82545_init leaves both rings off.                                      *)
LEMMA RingInitial == RegInit => RingInv
BY RegsAssumption DEF RegInit, RingInv, RingType, RingState, RingsCurrent, InitRing, read_base

(* Every write to a register of a ring, and the reset, keeps the record of *)
(* the address in use.                                                     *)
LEMMA RingStepKeeps == RingInv /\ [RegNext]_regVars => RingInv'
<1> SUFFICES ASSUME RingInv, [RegNext]_regVars PROVE RingInv'
  OBVIOUS
<1> USE DEF RingInv
<1>0. \A d \in {"rx", "tx"} : ring[d] \in RingState
  BY DEF RingType
<1>1. ASSUME UNCHANGED ring PROVE RingInv'
  BY <1>1 DEF RingType, RingsCurrent, read_base
<1>2. ASSUME NEW d \in {"rx", "tx"}, NEW v \in Bases, WriteBAL(d, v) PROVE RingInv'
  <2> DEFINE q == [ring[d] EXCEPT !.BAL = v]
             r == IF q.on THEN update_base(q) ELSE q
  <2>1. ring' = [ring EXCEPT ![d] = r]
    BY <1>2 DEF WriteBAL
  <2>2. /\ r \in RingState
        /\ r.on = ring[d].on /\ r.ctl = ring[d].ctl
        /\ r.on => r.base = <<r.BAH, r.BAL>>
    BY <1>0 DEF RingState, update_base
  <2> QED BY <2>1, <2>2 DEF RingType, RingsCurrent, read_base
<1>3. ASSUME NEW d \in {"rx", "tx"}, NEW v \in Bases, WriteBAH(d, v) PROVE RingInv'
  <2> DEFINE r == [ring[d] EXCEPT !.BAH = v]
  <2>1. \/ UNCHANGED ring
        \/ ring' = [ring EXCEPT ![d] = r] /\ ~(d = "rx" /\ ring[d].on)
    BY <1>3 DEF WriteBAH
  <2>2. /\ r \in RingState
        /\ r.on = ring[d].on /\ r.ctl = ring[d].ctl
        /\ r.base = ring[d].base /\ r.BAL = ring[d].BAL
    BY <1>0 DEF RingState
  <2> QED BY <1>1, <2>1, <2>2 DEF RingType, RingsCurrent, read_base
<1>4. ASSUME NEW d \in {"rx", "tx"}, NEW v \in CtlValues, WriteRingCtl(d, v) PROVE RingInv'
  <2> DEFINE on == "EN" \in v
             q == [ring[d] EXCEPT !.ctl = v \ {"reserved"}, !.on = on]
             r == IF on = ring[d].on THEN IF d = "rx" THEN q ELSE ring[d]
                  ELSE IF on THEN update_base(q)
                  ELSE [q EXCEPT !.base = <<0, 0>>]
  <2>1. ring' = [ring EXCEPT ![d] = r]
    BY <1>4 DEF WriteRingCtl
  <2>2. /\ q \in RingState
        /\ q.on <=> "EN" \in q.ctl
        /\ q.base = ring[d].base /\ q.BAL = ring[d].BAL /\ q.BAH = ring[d].BAH
    <3>1. v \ {"reserved"} \in SUBSET {"EN"} /\ ("EN" \in v \ {"reserved"} <=> on)
      BY DEF CtlValues
    <3>2. on \in BOOLEAN
      OBVIOUS
    <3> HIDE DEF on
    <3> QED BY <1>0, <3>1, <3>2 DEF RingState
  <2>3. r \in RingState
    BY <1>0, <2>2, RegsAssumption DEF RingState, update_base
  <2>4. /\ r.on <=> "EN" \in r.ctl
        /\ \/ r.on = ring[d].on /\ r.base = ring[d].base /\ r.BAL = ring[d].BAL /\ r.BAH = ring[d].BAH
           \/ r.on => r.base = <<r.BAH, r.BAL>>
    BY <1>0, <2>2 DEF RingState, update_base, RingsCurrent
  <2> QED BY <2>1, <2>3, <2>4 DEF RingType, RingsCurrent, read_base
<1>5. ASSUME NEW v \in Values, NEW rst \in BOOLEAN, WriteCTRL(v, rst) PROVE RingInv'
  <2>1. \/ UNCHANGED ring
        \/ ring' = [d \in {"rx", "tx"} |-> reset_ring(d)]
    BY <1>5 DEF WriteCTRL
  <2>2. \A d \in {"rx", "tx"} :
          reset_ring(d) \in RingState /\ ~reset_ring(d).on /\ reset_ring(d).ctl = {}
    BY <1>0, RegsAssumption DEF RingState, reset_ring
  <2> QED BY <1>1, <2>1, <2>2 DEF RingType, RingsCurrent, read_base
<1>6. UNCHANGED regVars => UNCHANGED ring
  BY DEF regVars
<1>7. IntrStep \/ EepromStep \/ PlainStep \/ FilterStep => UNCHANGED ring
  BY DEF IntrStep, EepromStep, PlainStep, FilterStep, regFileVars, WriteEECD, WritePlain,
         WriteMDIC, WriteRA, ReadRA
<1> QED BY <1>1, <1>2, <1>3, <1>4, <1>5, <1>6, <1>7 DEF RegNext, RingStep

(* For any addresses and any host the device uses the ring the host reads  *)
(* back: e82545_rx_update_rdba and e82545_tx_update_tdba are called where  *)
(* they are needed.                                                        *)
THEOREM RingsInUse == RegSpec => []RingsCurrent
<1>1. RingInv => RingsCurrent
  BY DEF RingInv
<1> QED BY RingInitial, RingStepKeeps, <1>1, PTL DEF RegSpec

(* The register file, with its reset, does to the interrupt logic nothing  *)
(* but what the module E82545Intr allows.                                  *)
THEOREM ImplementsIntr == RegSpec => IntrSpec
<1>1. RegInit => IntrInit
  BY DEF RegInit
<1>2. [RegNext]_regVars => [IntrNext]_intrVars
  <2>1. IntrStep => IntrNext
    BY DEF IntrStep, IntrNext
  <2>2. ASSUME NEW v \in Values, NEW rst \in BOOLEAN, WriteCTRL(v, rst)
        PROVE Reset \/ UNCHANGED intrVars
    BY <2>2 DEF WriteCTRL, intrVars
  <2>3. EepromStep \/ PlainStep \/ RingStep \/ FilterStep \/ UNCHANGED regVars => UNCHANGED intrVars
    BY DEF EepromStep, PlainStep, RingStep, FilterStep, regVars, intrVars, WriteEECD,
           WritePlain, WriteMDIC, WriteBAL, WriteBAH, WriteRingCtl, WriteRA, ReadRA
  <2> QED BY <2>1, <2>2, <2>3 DEF RegNext, IntrNext
<1> QED BY <1>1, <1>2, PTL DEF RegSpec, IntrSpec

(* No access to another register, and no order of accesses, makes the      *)
(* device lose a cause of a careful host or raise the line too often.      *)
THEOREM DeviceInterrupts ==
  ASSUME Careful
  PROVE  RegSpec => [](IntrInv /\ CausesReachHost) /\ RateLimited
BY InterruptInvariant, NoInterruptLost, ThrottlingWorks, ImplementsIntr, PTL

-----------------------------------------------------------------------------
(* Numbers and their bits                                                  *)

(* A set of natural numbers that is not empty has a least element ...      *)
LEMMA LeastNat ==
  ASSUME NEW T \in SUBSET Nat, T # {}
  PROVE  \E x \in T : \A y \in T : x <= y
<1>1. PICK x \in T : \A y \in T : ~ (<<y, x>> \in OpToRel(<, Nat))
  BY NatLessThanWellFounded, WFMin
<1>2. ASSUME NEW y \in T PROVE x <= y
  <2>1. <<y, x>> \in Nat \X Nat /\ <<y, x>>[1] = y /\ <<y, x>>[2] = x
    OBVIOUS
  <2>2. ~(y < x)
    BY <1>1, <2>1 DEF OpToRel
  <2> QED BY <2>2
<1> QED BY <1>2

(* ... so that what holds of 0, and of each number after one of which it   *)
(* holds, holds up to n.                                                   *)
LEMMA Counting ==
  ASSUME NEW n \in Nat, NEW P, 0 \in P,
         \A k \in 0 .. n : k < n /\ k \in P => k + 1 \in P
  PROVE  \A k \in 0 .. n : k \in P
<1> DEFINE T == {k \in 0 .. n : k \notin P}
<1>1. SUFFICES ASSUME T # {} PROVE FALSE
  OBVIOUS
<1>2. PICK k \in T : \A j \in T : k <= j
  <2>1. T \in SUBSET Nat /\ T # {}
    BY <1>1
  <2> HIDE DEF T
  <2> QED BY <2>1, LeastNat
<1>3. k \in 1 .. n /\ k - 1 \in 0 .. n /\ k - 1 < n
  BY <1>2
<1>4. k - 1 \in P
  BY <1>2, <1>3
<1>5. (k - 1) + 1 \in P
  BY <1>3, <1>4
<1> QED BY <1>2, <1>3, <1>5

(* A loop over 1 .. n that starts with z, and whose turn k takes x to      *)
(* g[k][x], has a history.                                                 *)
LEMMA Loop ==
  ASSUME NEW n \in Nat, NEW z \in Int, NEW g \in [1 .. n -> [Int -> Int]]
  PROVE  \E f \in [0 .. n -> Int] : f[0] = z /\ \A k \in 1 .. n : f[k] = g[k][f[k - 1]]
<1> DEFINE History(f, i) == f[0] = z /\ \A k \in 1 .. i : f[k] = g[k][f[k - 1]]
           P == {i \in 0 .. n : \E f \in [0 .. i -> Int] : History(f, i)}
<1>1. 0 \in P
  <2> DEFINE f == [k \in 0 .. 0 |-> z]
  <2>1. f \in [0 .. 0 -> Int] /\ f[0] = z
    OBVIOUS
  <2> HIDE DEF f
  <2>2. History(f, 0)
    BY <2>1
  <2>3. 0 \in 0 .. n
    OBVIOUS
  <2> HIDE DEF History
  <2> QED BY <2>1, <2>2, <2>3
<1>2. ASSUME NEW i \in 0 .. n, i < n, i \in P PROVE i + 1 \in P
  <2>0. i \in Nat /\ i + 1 \in 0 .. n
    BY <1>2
  <2>1. PICK f \in [0 .. i -> Int] : History(f, i)
    BY <1>2
  <2> DEFINE t == [k \in 0 .. (i + 1) |-> IF k <= i THEN f[k] ELSE g[i + 1][f[i]]]
  <2>2. i + 1 \in 1 .. n /\ i \in 0 .. i /\ g[i + 1] \in [Int -> Int]
    <3>1. i + 1 \in 1 .. n /\ i \in 0 .. i
      BY <2>0
    <3> QED BY <3>1
  <2>3. t \in [0 .. (i + 1) -> Int]
    <3>1. g[i + 1][f[i]] \in Int
      BY <2>2
    <3>2. ASSUME NEW k \in 0 .. (i + 1), k <= i PROVE f[k] \in Int
      BY <3>2
    <3> QED BY <3>1, <3>2
  <2>4. t[0] = z
    BY <2>1
  <2>5. ASSUME NEW k \in 1 .. (i + 1) PROVE t[k] = g[k][t[k - 1]]
    <3>1. CASE k <= i
      <4>1. k \in 1 .. i /\ k - 1 <= i /\ k - 1 \in 0 .. (i + 1)
        BY <3>1
      <4> QED BY <2>1, <3>1, <4>1
    <3>2. CASE k = i + 1
      <4>1. k - 1 = i /\ i \in 0 .. (i + 1) /\ i + 1 \in 0 .. (i + 1) /\ i <= i /\ ~(i + 1 <= i)
        BY <2>0, <3>2
      <4>2. t[i] = f[i] /\ t[i + 1] = g[i + 1][f[i]]
        BY <4>1
      <4> QED BY <3>2, <4>1, <4>2
    <3> QED BY <3>1, <3>2
  <2> HIDE DEF t
  <2>6. History(t, i + 1)
    BY <2>4, <2>5
  <2> HIDE DEF History
  <2> QED BY <2>0, <2>3, <2>6
<1>3. n \in P
  <2> HIDE DEF P
  <2>1. \A k \in 0 .. n : k < n /\ k \in P => k + 1 \in P
    BY <1>2
  <2>2. \A k \in 0 .. n : k \in P
    BY <1>1, <2>1, Counting
  <2> QED BY <2>2
<1> QED BY <1>3

(* Pow2 is what its recursive function says.                               *)
LEMMA PowLoop ==
  ASSUME NEW n \in Nat
  PROVE  \E pow : pow[0] = 1 /\ (\A k \in 1 .. n : pow[k] = 2 * pow[k - 1]) /\ Pow2(n) = pow[n]
<1> DEFINE pow == CHOOSE f : f = [k \in 0 .. n |-> IF k = 0 THEN 1 ELSE 2 * f[k - 1]]
           g == [k \in 1 .. n |-> [x \in Int |-> 2 * x]]
<1>1. Pow2(n) = pow[n]
  BY DEF Pow2
<1>2. g \in [1 .. n -> [Int -> Int]] /\ \A k \in 1 .. n, x \in Int : g[k][x] = 2 * x
  OBVIOUS
<1> HIDE DEF g
<1>3. PICK f \in [0 .. n -> Int] : f[0] = 1 /\ \A k \in 1 .. n : f[k] = g[k][f[k - 1]]
  <2>1. 1 \in Int
    OBVIOUS
  <2> QED BY <1>2, <2>1, Loop, Zenon
<1>4. ASSUME NEW k \in 0 .. n PROVE f[k] = IF k = 0 THEN 1 ELSE 2 * f[k - 1]
  <2>1. CASE k = 0
    BY <1>3, <2>1
  <2>2. CASE k # 0
    <3>1. k \in 1 .. n /\ k - 1 \in 0 .. n
      BY <2>2
    <3> QED BY <1>2, <1>3, <2>2, <3>1
  <2> QED BY <2>1, <2>2
<1>5. f = [k \in 0 .. n |-> IF k = 0 THEN 1 ELSE 2 * f[k - 1]]
  BY <1>4
<1>6. pow = [k \in 0 .. n |-> IF k = 0 THEN 1 ELSE 2 * pow[k - 1]]
  BY <1>5
<1> HIDE DEF pow
<1>7. pow[0] = 1 /\ \A k \in 1 .. n : pow[k] = 2 * pow[k - 1]
  <2>1. 0 \in 0 .. n /\ \A k \in 1 .. n : k \in 0 .. n /\ k # 0
    OBVIOUS
  <2> QED BY <1>6, <2>1
<1> QED BY <1>1, <1>7

(* Each power is twice the one before.                                     *)
LEMMA PowSteps ==
  ASSUME NEW n \in Nat
  PROVE  Pow2(0) = 1 /\ Pow2(n + 1) = 2 * Pow2(n)
<1>1. Pow2(0) = 1
  BY PowLoop
<1>2. PICK s : /\ s[0] = 1 /\ \A k \in 1 .. n : s[k] = 2 * s[k - 1]
               /\ Pow2(n) = s[n]
  BY PowLoop
<1>3. PICK t : /\ t[0] = 1 /\ \A k \in 1 .. (n + 1) : t[k] = 2 * t[k - 1]
               /\ Pow2(n + 1) = t[n + 1]
  BY PowLoop
<1> DEFINE P == {k \in 0 .. n : s[k] = t[k]}
<1>4. 0 \in P
  BY <1>2, <1>3
<1>5. ASSUME NEW k \in 0 .. n, k < n, k \in P PROVE k + 1 \in P
  <2>1. k + 1 \in 1 .. n /\ k + 1 \in 1 .. (n + 1) /\ k + 1 - 1 = k
    BY <1>5
  <2> QED BY <1>2, <1>3, <1>5, <2>1
<1>6. n \in P
  <2> HIDE DEF P
  <2> QED BY <1>4, <1>5, Counting
<1>7. n + 1 \in 1 .. (n + 1) /\ n + 1 - 1 = n
  OBVIOUS
<1> QED BY <1>1, <1>2, <1>3, <1>6, <1>7

(* What is known of powers of two                                          *)
LEMMA Powers ==
  /\ Pow2(0) = 1
  /\ \A n \in Nat : Pow2(n) \in Nat /\ Pow2(n) > 0 /\ Pow2(n + 1) = 2 * Pow2(n)
<1>1. ASSUME NEW n \in Nat PROVE Pow2(n) \in Nat /\ Pow2(n) > 0
  <2> DEFINE P == {k \in 0 .. n : Pow2(k) \in Nat /\ Pow2(k) > 0}
  <2>1. 0 \in P
    BY PowSteps
  <2>2. ASSUME NEW k \in 0 .. n, k < n, k \in P PROVE k + 1 \in P
    <3>1. Pow2(k + 1) = 2 * Pow2(k)
      BY PowSteps
    <3> QED BY <2>2, <3>1
  <2>3. n \in P
    <3> HIDE DEF P
    <3> QED BY <2>1, <2>2, Counting
  <2> QED BY <2>3
<1> QED BY <1>1, PowSteps

(* They grow.                                                              *)
LEMMA PowersGrow ==
  ASSUME NEW m \in Nat, NEW n \in Nat, m <= n
  PROVE  Pow2(m) <= Pow2(n)
<1> DEFINE P == {k \in 0 .. n : m <= k => Pow2(m) <= Pow2(k)}
<1>1. 0 \in P
  BY Powers
<1>2. ASSUME NEW k \in 0 .. n, k < n, k \in P PROVE k + 1 \in P
  <2>1. Pow2(k + 1) = 2 * Pow2(k) /\ Pow2(k) \in Nat /\ Pow2(m) \in Nat /\ k + 1 \in 0 .. n
    BY <1>2, Powers
  <2>2. CASE m <= k
    BY <1>2, <2>1, <2>2
  <2>3. CASE ~(m <= k)
    <3>1. m <= k + 1 => m = k + 1
      BY <2>3
    <3> QED BY <2>1, <3>1
  <2> QED BY <2>2, <2>3
<1>3. n \in P
  <2> HIDE DEF P
  <2> QED BY <1>1, <1>2, Counting
<1> QED BY <1>3

-----------------------------------------------------------------------------
(* Division                                                                *)

(* A quotient and a remainder are what the division gives.                 *)
LEMMA Quotient ==
  ASSUME NEW s \in Nat, s > 0, NEW x \in Int, NEW q \in Int, NEW r \in Nat, x = s * q + r, r < s
  PROVE  x \div s = q /\ x % s = r
<1> DEFINE a == x \div s
           b == x % s
<1>1. a \in Int /\ b \in Nat /\ b < s /\ s * q + r = s * a + b
  <2>1. x = s * (x \div s) + (x % s) /\ x % s \in 0 .. (s - 1) /\ x \div s \in Int
    OBVIOUS
  <2> QED BY <2>1
<1> HIDE DEF a, b
<1>2. CASE q < a
  <2>1. PICK d \in Nat : a = q + d + 1
    <3>1. a - q - 1 \in Nat /\ a = q + (a - q - 1) + 1
      BY <1>1, <1>2
    <3> QED BY <3>1
  <2>2. s * a = s * q + s * d + s
    BY <1>1, <2>1
  <2>3. s * d \in Nat /\ s * q \in Int
    BY <2>1
  <2> QED BY <1>1, <2>2, <2>3
<1>3. CASE a < q
  <2>1. PICK d \in Nat : q = a + d + 1
    <3>1. q - a - 1 \in Nat /\ q = a + (q - a - 1) + 1
      BY <1>1, <1>3
    <3> QED BY <3>1
  <2>2. s * q = s * a + s * d + s
    BY <1>1, <2>1
  <2>3. s * d \in Nat /\ s * a \in Int
    BY <1>1, <2>1
  <2> QED BY <1>1, <2>2, <2>3
<1>4. CASE q = a
  BY <1>1, <1>4 DEF a, b
<1> QED BY <1>1, <1>2, <1>3, <1>4

(* Division of an integer ...                                              *)
LEMMA Division ==
  ASSUME NEW s \in Nat, s > 0, NEW x \in Int
  PROVE  \E q \in Int, r \in Nat : x = s * q + r /\ r < s /\ q = x \div s /\ r = x % s
                                   /\ (x >= 0 => q \in Nat)
<1>1. x = s * (x \div s) + (x % s) /\ x % s \in 0 .. (s - 1) /\ x \div s \in Int
  OBVIOUS
<1>2. x >= 0 => x \div s \in Nat
  OBVIOUS
<1> QED BY <1>1, <1>2

(* ... and of a natural number                                             *)
LEMMA NatDivision ==
  ASSUME NEW s \in Nat, s > 0, NEW x \in Nat
  PROVE  \E q \in Nat, r \in Nat : x = s * q + r /\ r < s /\ q = x \div s /\ r = x % s
<1>1. x \in Int /\ x >= 0
  OBVIOUS
<1>2. PICK q \in Int, r \in Nat : x = s * q + r /\ r < s /\ q = x \div s /\ r = x % s
                                /\ (x >= 0 => q \in Nat)
  BY <1>1, Division
<1> QED BY <1>1, <1>2, Zenon

(* A shift by a bit                                                        *)
LEMMA Halves ==
  ASSUME NEW x \in Nat, NEW p \in Nat, p > 0
  PROVE  /\ x \div (2 * p) = (x \div 2) \div p
         /\ x % (2 * p) = 2 * ((x \div 2) % p) + (x % 2)
         /\ x = 2 * (x \div 2) + (x % 2) /\ x % 2 \in {0, 1} /\ x \div 2 \in Nat
<1>1. PICK a \in Int, b \in Nat : x = 2 * a + b /\ b < 2 /\ a = x \div 2 /\ b = x % 2 /\ a \in Nat
  BY Division
<1>2. PICK c \in Int, d \in Nat : a = p * c + d /\ d < p /\ c = a \div p /\ d = a % p
  BY <1>1, Division
<1>3. x = 2 * a + b /\ b < 2 /\ a \in Nat /\ a = p * c + d /\ d < p
  BY <1>1, <1>2, Zenon
<1>4. a = x \div 2 /\ b = x % 2 /\ c = a \div p /\ d = a % p
  BY <1>1, <1>2, Zenon
<1>5. PICK s \in Nat : s = 2 * p
  OBVIOUS
<1>6. PICK r \in Nat : r = 2 * d + b
  OBVIOUS
<1>7. r < s /\ s > 0
  BY <1>3, <1>5, <1>6
<1>8. x = s * c + r
  <2>1. 2 * a = 2 * (p * c) + 2 * d
    BY <1>3
  <2>2. 2 * (p * c) = s * c
    BY <1>5
  <2> QED BY <1>3, <1>6, <2>1, <2>2
<1>9. x \div s = c /\ x % s = r
  BY <1>7, <1>8, Quotient
<1>10. b \in {0, 1}
  BY <1>3
<1>11. /\ x \div s = (x \div 2) \div p /\ x % s = 2 * ((x \div 2) % p) + (x % 2)
       /\ x = 2 * (x \div 2) + (x % 2) /\ x % 2 \in {0, 1} /\ x \div 2 \in Nat
  BY <1>3, <1>4, <1>6, <1>9, <1>10, Zenon
<1> QED BY <1>5, <1>11, Zenon

(* A sum is what its recursive function says.                              *)
LEMMA SumLoop ==
  ASSUME NEW mem, NEW n \in Nat, \A k \in 1 .. n : mem[k - 1] \in Int
  PROVE  \E sum \in [0 .. n -> Int] :
           sum[0] = 0 /\ (\A k \in 1 .. n : sum[k] = sum[k - 1] + mem[k - 1]) /\ SumOf(mem, n) = sum[n]
<1> DEFINE sum == CHOOSE f : f = [k \in 0 .. n |-> IF k = 0 THEN 0 ELSE f[k - 1] + mem[k - 1]]
           g == [k \in 1 .. n |-> [x \in Int |-> x + mem[k - 1]]]
<1>1. SumOf(mem, n) = sum[n]
  BY DEF SumOf
<1>2. g \in [1 .. n -> [Int -> Int]] /\ \A k \in 1 .. n, x \in Int : g[k][x] = x + mem[k - 1]
  OBVIOUS
<1> HIDE DEF g
<1>3. PICK f \in [0 .. n -> Int] : f[0] = 0 /\ \A k \in 1 .. n : f[k] = g[k][f[k - 1]]
  <2>1. 0 \in Int
    OBVIOUS
  <2> QED BY <1>2, <2>1, Loop, Zenon
<1>4. ASSUME NEW k \in 0 .. n PROVE f[k] = IF k = 0 THEN 0 ELSE f[k - 1] + mem[k - 1]
  <2>1. CASE k = 0
    BY <1>3, <2>1
  <2>2. CASE k # 0
    <3>1. k \in 1 .. n /\ k - 1 \in 0 .. n
      BY <2>2
    <3> QED BY <1>2, <1>3, <2>2, <3>1
  <2> QED BY <2>1, <2>2
<1>5. f = [k \in 0 .. n |-> IF k = 0 THEN 0 ELSE f[k - 1] + mem[k - 1]]
  BY <1>4
<1>6. sum = [k \in 0 .. n |-> IF k = 0 THEN 0 ELSE sum[k - 1] + mem[k - 1]]
  BY <1>5
<1> HIDE DEF sum
<1>7. sum[0] = 0 /\ \A k \in 1 .. n : sum[k] = sum[k - 1] + mem[k - 1]
  <2>1. 0 \in 0 .. n /\ \A k \in 1 .. n : k \in 0 .. n /\ k # 0
    OBVIOUS
  <2> QED BY <1>6, <2>1
<1> DEFINE P == {k \in 0 .. n : sum[k] \in Int}
<1>8. \A k \in 0 .. n : k \in P
  <2>1. 0 \in P
    BY <1>7
  <2>2. ASSUME NEW k \in 0 .. n, k < n, k \in P PROVE k + 1 \in P
    <3>1. k + 1 \in 1 .. n /\ k + 1 \in 0 .. n /\ k + 1 - 1 = k
      BY <2>2
    <3>2. \A j \in 1 .. n : mem[j - 1] \in Int /\ sum[j] = sum[j - 1] + mem[j - 1]
      BY <1>7
    <3>3. mem[k] \in Int /\ sum[k + 1] = sum[k] + mem[k]
      BY <3>1, <3>2
    <3>4. sum[k + 1] \in Int
      BY <2>2, <3>3
    <3> QED BY <3>1, <3>4
  <2> HIDE DEF P
  <2> QED BY <2>1, <2>2, Counting
<1>9. sum \in [0 .. n -> Int]
  BY <1>6, <1>8
<1> QED BY <1>1, <1>7, <1>9

(* Memories that agree on the first n words have the same sum of them.     *)
LEMMA SumSteps ==
  ASSUME NEW mem, NEW w, NEW n \in Nat,
         \A k \in 1 .. (n + 1) : w[k - 1] \in Int,
         \A k \in 1 .. n : mem[k - 1] = w[k - 1]
  PROVE  SumOf(mem, n) \in Int /\ SumOf(w, n + 1) = SumOf(mem, n) + w[n]
<1>1. PICK s \in [0 .. n -> Int] :
        s[0] = 0 /\ (\A k \in 1 .. n : s[k] = s[k - 1] + mem[k - 1]) /\ SumOf(mem, n) = s[n]
  <2>1. \A k \in 1 .. n : mem[k - 1] \in Int
    OBVIOUS
  <2> QED BY <2>1, SumLoop
<1>2. PICK t \in [0 .. (n + 1) -> Int] :
        t[0] = 0 /\ (\A k \in 1 .. (n + 1) : t[k] = t[k - 1] + w[k - 1]) /\ SumOf(w, n + 1) = t[n + 1]
  <2>1. n + 1 \in Nat
    OBVIOUS
  <2> QED BY <2>1, SumLoop, Zenon
<1> DEFINE P == {k \in 0 .. n : s[k] = t[k]}
<1>3. 0 \in P
  BY <1>1, <1>2
<1>4. ASSUME NEW k \in 0 .. n, k < n, k \in P PROVE k + 1 \in P
  <2>1. k + 1 \in 1 .. n /\ k + 1 \in 1 .. (n + 1) /\ k + 1 - 1 = k /\ k + 1 \in 0 .. n
    BY <1>4
  <2>2. s[k + 1] = s[k] + mem[k]
    BY <1>1, <2>1
  <2>3. t[k + 1] = t[k] + w[k]
    BY <1>2, <2>1
  <2>4. mem[k] = w[k] /\ s[k] = t[k]
    BY <1>4, <2>1
  <2>5. s[k + 1] = t[k + 1]
    BY <2>2, <2>3, <2>4
  <2> QED BY <2>1, <2>5
<1>5. n \in P
  <2> HIDE DEF P
  <2>1. \A k \in 0 .. n : k < n /\ k \in P => k + 1 \in P
    BY <1>4
  <2>2. \A k \in 0 .. n : k \in P
    BY <1>3, <2>1, Counting
  <2> QED BY <2>2
<1>6. n + 1 \in 1 .. (n + 1) /\ n + 1 - 1 = n /\ n \in 0 .. n
  OBVIOUS
<1> QED BY <1>1, <1>2, <1>5, <1>6

(* The number of a sequence of bits, and of one with a bit more            *)
LEMMA ValueLoop ==
  ASSUME NEW bits, Len(bits) \in Nat, \A k \in 1 .. Len(bits) : bits[k] \in Int
  PROVE  \E value \in [0 .. Len(bits) -> Int] :
           /\ value[0] = 0 /\ \A k \in 1 .. Len(bits) : value[k] = 2 * value[k - 1] + bits[k]
           /\ Value(bits) = value[Len(bits)]
<1> DEFINE n == Len(bits)
           value == CHOOSE f : f = [k \in 0 .. n |-> IF k = 0 THEN 0 ELSE 2 * f[k - 1] + bits[k]]
           g == [k \in 1 .. n |-> [x \in Int |-> 2 * x + bits[k]]]
<1>1. Value(bits) = value[n]
  BY DEF Value
<1>2. g \in [1 .. n -> [Int -> Int]] /\ \A k \in 1 .. n, x \in Int : g[k][x] = 2 * x + bits[k]
  OBVIOUS
<1>0. n \in Nat
  OBVIOUS
<1> HIDE DEF g, n
<1>3. PICK f \in [0 .. n -> Int] : f[0] = 0 /\ \A k \in 1 .. n : f[k] = g[k][f[k - 1]]
  <2>1. 0 \in Int
    OBVIOUS
  <2> QED BY <1>0, <1>2, <2>1, Loop, Zenon
<1>4. ASSUME NEW k \in 0 .. n PROVE f[k] = IF k = 0 THEN 0 ELSE 2 * f[k - 1] + bits[k]
  <2>1. CASE k = 0
    BY <1>3, <2>1
  <2>2. CASE k # 0
    <3>1. k \in 1 .. n /\ k - 1 \in 0 .. n
      BY <1>0, <2>2
    <3> QED BY <1>2, <1>3, <2>2, <3>1
  <2> QED BY <2>1, <2>2
<1>5. f = [k \in 0 .. n |-> IF k = 0 THEN 0 ELSE 2 * f[k - 1] + bits[k]]
  BY <1>4
<1>6. value = [k \in 0 .. n |-> IF k = 0 THEN 0 ELSE 2 * value[k - 1] + bits[k]]
  BY <1>5
<1> HIDE DEF value
<1>7. value[0] = 0 /\ \A k \in 1 .. n : value[k] = 2 * value[k - 1] + bits[k]
  <2>1. 0 \in 0 .. n /\ \A k \in 1 .. n : k \in 0 .. n /\ k # 0
    BY <1>0
  <2> QED BY <1>6, <2>1
<1> DEFINE P == {k \in 0 .. n : value[k] \in Int}
<1>8. \A k \in 0 .. n : k \in P
  <2>1. 0 \in P
    BY <1>0, <1>7
  <2>2. ASSUME NEW k \in 0 .. n, k < n, k \in P PROVE k + 1 \in P
    <3>1. k + 1 \in 1 .. n /\ k + 1 \in 0 .. n /\ k + 1 - 1 = k
      BY <1>0, <2>2
    <3>2. bits[k + 1] \in Int
      BY <3>1 DEF n
    <3>3. value[k + 1] = 2 * value[k] + bits[k + 1]
      BY <1>7, <3>1
    <3>4. value[k + 1] \in Int
      BY <2>2, <3>2, <3>3
    <3> QED BY <3>1, <3>4
  <2> HIDE DEF P
  <2> QED BY <1>0, <2>1, <2>2, Counting
<1>9. value \in [0 .. n -> Int]
  BY <1>6, <1>8
<1> QED BY <1>1, <1>7, <1>9 DEF n

(* A bit more doubles the value.                                           *)
LEMMA ValueSteps ==
  ASSUME NEW bits, NEW more, NEW n \in Nat, Len(bits) = n, Len(more) = n + 1,
         \A k \in 1 .. (n + 1) : more[k] \in Int,
         \A k \in 1 .. n : bits[k] = more[k]
  PROVE  Value(bits) \in Int /\ Value(more) = 2 * Value(bits) + more[n + 1]
<1>1. PICK s \in [0 .. n -> Int] :
        s[0] = 0 /\ (\A k \in 1 .. n : s[k] = 2 * s[k - 1] + bits[k]) /\ Value(bits) = s[n]
  <2>1. \A k \in 1 .. n : bits[k] \in Int
    OBVIOUS
  <2> QED BY <2>1, ValueLoop
<1>2. PICK t \in [0 .. (n + 1) -> Int] :
        t[0] = 0 /\ (\A k \in 1 .. (n + 1) : t[k] = 2 * t[k - 1] + more[k]) /\ Value(more) = t[n + 1]
  <2>1. Len(more) \in Nat
    OBVIOUS
  <2> QED BY <2>1, ValueLoop
<1> DEFINE P == {k \in 0 .. n : s[k] = t[k]}
<1>3. 0 \in P
  BY <1>1, <1>2
<1>4. ASSUME NEW k \in 0 .. n, k < n, k \in P PROVE k + 1 \in P
  <2>1. k + 1 \in 1 .. n /\ k + 1 \in 1 .. (n + 1) /\ k + 1 - 1 = k /\ k + 1 \in 0 .. n
    BY <1>4
  <2>2. s[k + 1] = 2 * s[k] + bits[k + 1]
    BY <1>1, <2>1
  <2>3. t[k + 1] = 2 * t[k] + more[k + 1]
    BY <1>2, <2>1
  <2>4. bits[k + 1] = more[k + 1] /\ s[k] = t[k]
    BY <1>4, <2>1
  <2>5. s[k + 1] = t[k + 1]
    BY <2>2, <2>3, <2>4
  <2> QED BY <2>1, <2>5
<1>5. n \in P
  <2> HIDE DEF P
  <2>1. \A k \in 0 .. n : k < n /\ k \in P => k + 1 \in P
    BY <1>4
  <2>2. \A k \in 0 .. n : k \in P
    BY <1>3, <2>1, Counting
  <2> QED BY <2>2
<1>6. n + 1 \in 1 .. (n + 1) /\ n + 1 - 1 = n /\ n \in 0 .. n
  OBVIOUS
<1> QED BY <1>1, <1>2, <1>5, <1>6

(* The value of no bits                                                    *)
LEMMA ValueOfNone ==
  ASSUME NEW bits, Len(bits) = 0
  PROVE  Value(bits) = 0
<1>1. Len(bits) \in Nat /\ \A k \in 1 .. Len(bits) : bits[k] \in Int
  OBVIOUS
<1> QED BY <1>1, ValueLoop

-----------------------------------------------------------------------------
(* Bits                                                                    *)

(* The bits of a number are zeros and ones.                                *)
LEMMA BitsType ==
  ASSUME NEW x \in Nat, NEW n \in Nat
  PROVE  BitsOf(x, n) \in Seq({0, 1}) /\ Len(BitsOf(x, n)) = n
<1>1. ASSUME NEW i \in 1 .. n PROVE (x \div Pow2(n - i)) % 2 \in {0, 1}
  <2>1. n - i \in Nat
    OBVIOUS
  <2>2. Pow2(n - i) \in Nat /\ Pow2(n - i) > 0
    BY <2>1, Powers
  <2>3. x \div Pow2(n - i) \in Nat
    BY <2>2, Division
  <2> QED BY <2>3, Halves, Powers
<1>2. BitsOf(x, n) \in [1 .. n -> {0, 1}]
  BY <1>1 DEF BitsOf
<1> QED BY <1>2

(* Shifts by m, and by n                                                   *)
LEMMA ShiftTwice ==
  ASSUME NEW n \in Nat, NEW x \in Nat, NEW m \in Nat
  PROVE  (x \div Pow2(m)) \div Pow2(n) = x \div Pow2(m + n)
<1> DEFINE P == {k \in 0 .. m : \A y \in Nat : (y \div Pow2(k)) \div Pow2(n) = y \div Pow2(k + n)}
<1>1. 0 \in P
  <2>1. ASSUME NEW y \in Nat PROVE (y \div Pow2(0)) \div Pow2(n) = y \div Pow2(0 + n)
    <3>1. y \div Pow2(0) = y
      <4>1. y \div 1 = y
        OBVIOUS
      <4> QED BY <4>1, Powers
    <3>2. 0 + n = n
      OBVIOUS
    <3> QED BY <3>1, <3>2
  <2> QED BY <2>1
<1>2. ASSUME NEW k \in 0 .. m, k < m, k \in P PROVE k + 1 \in P
  <2>1. k \in Nat /\ k + 1 \in 0 .. m /\ k + n \in Nat /\ (k + 1) + n = (k + n) + 1
    BY <1>2
  <2>2. ASSUME NEW y \in Nat PROVE (y \div Pow2(k + 1)) \div Pow2(n) = y \div Pow2((k + 1) + n)
    <3>1. /\ Pow2(k + 1) = 2 * Pow2(k) /\ Pow2(k) \in Nat /\ Pow2(k) > 0
          /\ Pow2((k + n) + 1) = 2 * Pow2(k + n) /\ Pow2(k + n) \in Nat /\ Pow2(k + n) > 0
      BY <2>1, Powers
    <3>2. /\ y \div (2 * Pow2(k)) = (y \div 2) \div Pow2(k)
          /\ y \div (2 * Pow2(k + n)) = (y \div 2) \div Pow2(k + n)
          /\ y \div 2 \in Nat
      BY <3>1, Halves
    <3>3. ((y \div 2) \div Pow2(k)) \div Pow2(n) = (y \div 2) \div Pow2(k + n)
      BY <1>2, <3>2
    <3> QED BY <2>1, <3>1, <3>2, <3>3, Zenon
  <2> QED BY <2>1, <2>2
<1>3. m \in P
  <2> HIDE DEF P
  <2>1. \A k \in 0 .. m : k < m /\ k \in P => k + 1 \in P
    BY <1>2
  <2>2. \A k \in 0 .. m : k \in P
    BY <1>1, <2>1, Counting
  <2> QED BY <2>2
<1> QED BY <1>3

(* A bit more                                                              *)
LEMMA BitsAppend ==
  ASSUME NEW x \in Nat, NEW b \in {0, 1}, NEW n \in Nat
  PROVE  BitsOf(2 * x + b, n + 1) = Append(BitsOf(x, n), b)
<1> DEFINE y == 2 * x + b
<1>1. y \in Nat /\ y \div 2 = x /\ y % 2 = b
  <2>1. y \in Nat /\ b \in Nat /\ b < 2 /\ 2 \in Nat /\ 2 > 0
    OBVIOUS
  <2> QED BY <2>1, Quotient
<1>2. BitsOf(x, n) \in Seq({0, 1}) /\ Len(BitsOf(x, n)) = n
  BY BitsType
<1> HIDE DEF y
<1>3. BitsOf(y, n + 1) \in Seq({0, 1}) /\ Len(BitsOf(y, n + 1)) = n + 1
  <2>1. n + 1 \in Nat
    OBVIOUS
  <2> QED BY <1>1, <2>1, BitsType
<1>4. Append(BitsOf(x, n), b) \in Seq({0, 1}) /\ Len(Append(BitsOf(x, n), b)) = n + 1
  BY <1>2
<1>5. ASSUME NEW i \in 1 .. (n + 1) PROVE BitsOf(y, n + 1)[i] = Append(BitsOf(x, n), b)[i]
  <2>1. BitsOf(y, n + 1)[i] = (y \div Pow2((n + 1) - i)) % 2
    BY DEF BitsOf
  <2>2. CASE i = n + 1
    <3>1. Pow2((n + 1) - i) = 1
      BY <2>2, Powers
    <3>2. y \div 1 = y
      BY <1>1
    <3>3. Append(BitsOf(x, n), b)[i] = b
      BY <1>2, <2>2
    <3> QED BY <1>1, <2>1, <3>1, <3>2, <3>3, Zenon
  <2>3. CASE i # n + 1
    <3>1. i \in 1 .. n /\ n - i \in Nat /\ (n + 1) - i = (n - i) + 1
      BY <2>3
    <3>2. Pow2((n - i) + 1) = 2 * Pow2(n - i) /\ Pow2(n - i) \in Nat /\ Pow2(n - i) > 0
      BY <3>1, Powers
    <3>3. y \div (2 * Pow2(n - i)) = (y \div 2) \div Pow2(n - i)
      BY <1>1, <3>2, Halves
    <3>4. BitsOf(x, n)[i] = (x \div Pow2(n - i)) % 2
      BY <3>1 DEF BitsOf
    <3>5. Append(BitsOf(x, n), b)[i] = BitsOf(x, n)[i]
      BY <1>2, <3>1
    <3> QED BY <1>1, <2>1, <3>1, <3>2, <3>3, <3>4, <3>5, Zenon
  <2> QED BY <2>2, <2>3
<1> QED BY <1>3, <1>4, <1>5, SeqEqual DEF y

(* The last n bits are the remainder ...                                   *)
LEMMA ValueOfBits ==
  ASSUME NEW x \in Nat, NEW n \in Nat
  PROVE  Value(BitsOf(x, n)) = x % Pow2(n)
<1> DEFINE P == {k \in 0 .. n : \A y \in Nat : Value(BitsOf(y, k)) = y % Pow2(k)}
<1>1. 0 \in P
  <2>1. ASSUME NEW y \in Nat PROVE Value(BitsOf(y, 0)) = y % Pow2(0)
    <3>1. Value(BitsOf(y, 0)) = 0
      BY BitsType, ValueOfNone
    <3>2. y % 1 = 0
      OBVIOUS
    <3> QED BY <3>1, <3>2, Powers
  <2> QED BY <2>1
<1>2. ASSUME NEW k \in 0 .. n, k < n, k \in P PROVE k + 1 \in P
  <2>1. k \in Nat /\ k + 1 \in 0 .. n
    BY <1>2
  <2>2. ASSUME NEW y \in Nat PROVE Value(BitsOf(y, k + 1)) = y % Pow2(k + 1)
    <3>1. Pow2(k + 1) = 2 * Pow2(k) /\ Pow2(k) \in Nat /\ Pow2(k) > 0
      BY <2>1, Powers
    <3>2. /\ y % (2 * Pow2(k)) = 2 * ((y \div 2) % Pow2(k)) + (y % 2)
          /\ y = 2 * (y \div 2) + (y % 2) /\ y % 2 \in {0, 1} /\ y \div 2 \in Nat
      BY <3>1, Halves
    <3>3. PICK h \in Nat, b \in {0, 1} : h = y \div 2 /\ b = y % 2
      BY <3>2, Zenon
    <3>4. y = 2 * h + b
      BY <3>2, <3>3, Zenon
    <3>5. BitsOf(y, k + 1) = Append(BitsOf(h, k), b)
      BY <2>1, <3>4, BitsAppend
    <3>6. Value(BitsOf(y, k + 1)) = 2 * Value(BitsOf(h, k)) + b
      <4> DEFINE u == BitsOf(h, k)
                 w == BitsOf(y, k + 1)
      <4>1. u \in Seq({0, 1}) /\ Len(u) = k /\ w \in Seq({0, 1}) /\ Len(w) = k + 1
        BY <2>1, BitsType
      <4>2. w = Append(u, b)
        BY <3>5
      <4> HIDE DEF u, w
      <4>3. /\ \A i \in 1 .. (k + 1) : w[i] \in Int
            /\ \A i \in 1 .. k : u[i] = w[i]
            /\ w[k + 1] = b
        BY <2>1, <4>1, <4>2
      <4>4. Value(w) = 2 * Value(u) + w[k + 1]
        BY <2>1, <4>1, <4>3, ValueSteps
      <4> QED BY <4>3, <4>4 DEF u, w
    <3>7. Value(BitsOf(h, k)) = h % Pow2(k)
      BY <1>2
    <3> QED BY <3>1, <3>2, <3>3, <3>6, <3>7, Zenon
  <2> QED BY <2>1, <2>2
<1>3. n \in P
  <2> HIDE DEF P
  <2>1. \A k \in 0 .. n : k < n /\ k \in P => k + 1 \in P
    BY <1>2
  <2>2. \A k \in 0 .. n : k \in P
    BY <1>1, <2>1, Counting
  <2> QED BY <2>2
<1> QED BY <1>3

(* Nothing is cut from a number that fits.                                 *)
LEMMA Small ==
  ASSUME NEW x \in Nat, NEW s \in Nat, x < s
  PROVE  x % s = x /\ x \div s = 0
<1>1. s > 0 /\ x = s * 0 + x /\ 0 \in Int
  OBVIOUS
<1> QED BY <1>1, Quotient

(* ... and a remainder has the same last bits.                             *)
LEMMA BitOfRemainder ==
  ASSUME NEW y \in Nat, NEW k \in Nat, NEW n \in Nat, k < n
  PROVE  ((y % Pow2(n)) \div Pow2(k)) % 2 = (y \div Pow2(k)) % 2
<1> DEFINE Same(j) == \A x \in Nat, m \in Nat :
                        j < m => ((x % Pow2(m)) \div Pow2(j)) % 2 = (x \div Pow2(j)) % 2
           P == {j \in 0 .. k : Same(j)}
<1>1. Same(0)
  <2>1. ASSUME NEW x \in Nat, NEW m \in Nat, 0 < m
        PROVE  ((x % Pow2(m)) \div Pow2(0)) % 2 = (x \div Pow2(0)) % 2
    <3>1. m - 1 \in Nat /\ (m - 1) + 1 = m
      BY <2>1
    <3>2. Pow2(m) = 2 * Pow2(m - 1) /\ Pow2(m - 1) \in Nat /\ Pow2(m - 1) > 0 /\ Pow2(m) > 0 /\ Pow2(m) \in Nat
      BY <3>1, Powers
    <3>3. /\ x % (2 * Pow2(m - 1)) = 2 * ((x \div 2) % Pow2(m - 1)) + (x % 2)
          /\ x % 2 \in {0, 1} /\ x \div 2 \in Nat
      BY <3>2, Halves
    <3>4. PICK h \in Nat, b \in {0, 1} : h = (x \div 2) % Pow2(m - 1) /\ b = x % 2
      <4>1. (x \div 2) % Pow2(m - 1) \in Nat
        BY <3>2, <3>3, Division
      <4> QED BY <3>3, <4>1, Zenon
    <3>5. x % Pow2(m) = 2 * h + b
      BY <3>2, <3>3, <3>4, Zenon
    <3>6. (2 * h + b) % 2 = b
      <4>1. 2 * h + b \in Nat /\ b \in Nat /\ b < 2 /\ 2 \in Nat /\ 2 > 0
        OBVIOUS
      <4> QED BY <4>1, Quotient
    <3>7. \A z \in Nat : z \div Pow2(0) = z
      <4>1. \A z \in Nat : z \div 1 = z
        OBVIOUS
      <4> QED BY <4>1, Powers
    <3>8. x % Pow2(m) \in Nat
      BY <3>2, Division
    <3>9. (x % Pow2(m)) \div Pow2(0) = x % Pow2(m) /\ x \div Pow2(0) = x
      BY <3>7, <3>8
    <3> QED BY <3>4, <3>5, <3>6, <3>9, Zenon
  <2> QED BY <2>1
<1>2. ASSUME NEW j \in Nat, Same(j) PROVE Same(j + 1)
  <2>1. ASSUME NEW x \in Nat, NEW m \in Nat, j + 1 < m
        PROVE  ((x % Pow2(m)) \div Pow2(j + 1)) % 2 = (x \div Pow2(j + 1)) % 2
    <3> DEFINE p == Pow2(m - 1)
               q == Pow2(j)
    <3>1. m - 1 \in Nat /\ (m - 1) + 1 = m /\ j < m - 1
      BY <2>1
    <3>2. /\ Pow2(m) = 2 * p /\ p \in Nat /\ p > 0
          /\ Pow2(j + 1) = 2 * q /\ q \in Nat /\ q > 0
          /\ Pow2(m) \in Nat /\ Pow2(m) > 0
      BY <3>1, Powers
    <3>3. x % (2 * p) = 2 * ((x \div 2) % p) + (x % 2) /\ x % 2 \in {0, 1} /\ x \div 2 \in Nat
      BY <3>2, Halves
    <3>4. PICK h \in Nat, b \in {0, 1} : h = (x \div 2) % p /\ b = x % 2
      <4>1. (x \div 2) % p \in Nat
        BY <3>2, <3>3, Division
      <4> QED BY <3>3, <4>1, Zenon
    <3>5. PICK y1 \in Nat : y1 = x % Pow2(m)
      BY <3>2, Division
    <3>6. y1 = 2 * h + b
      BY <3>2, <3>3, <3>4, <3>5, Zenon
    <3>7. y1 \div 2 = h
      <4>1. b \in Nat /\ b < 2 /\ 2 \in Nat /\ 2 > 0
        OBVIOUS
      <4> QED BY <3>6, <4>1, Quotient
    <3>8. y1 \div (2 * q) = (y1 \div 2) \div q /\ x \div (2 * q) = (x \div 2) \div q
      BY <3>2, Halves
    <3>9. (((x \div 2) % p) \div q) % 2 = ((x \div 2) \div q) % 2
      BY <1>2, <3>1, <3>3
    <3> QED BY <3>2, <3>4, <3>5, <3>7, <3>8, <3>9, Zenon
  <2> QED BY <2>1
<1>3. k \in P
  <2> HIDE DEF Same
  <2>1. 0 \in P
    BY <1>1
  <2>2. ASSUME NEW j \in 0 .. k, j < k, j \in P PROVE j + 1 \in P
    <3>1. j \in Nat /\ j + 1 \in 0 .. k /\ Same(j)
      BY <2>2
    <3> QED BY <1>2, <3>1
  <2> HIDE DEF P
  <2>3. \A j \in 0 .. k : j < k /\ j \in P => j + 1 \in P
    BY <2>2
  <2>4. \A j \in 0 .. k : j \in P
    BY <2>1, <2>3, Counting
  <2> QED BY <2>4
<1> QED BY <1>3

-----------------------------------------------------------------------------
(* The EEPROM                                                              *)

Slice(S, s, m, n, u) ==
  u \in Seq(S) /\ Len(u) = (IF m <= n THEN n - m + 1 ELSE 0) /\ \A i \in 1 .. (n - m + 1) : u[i] = s[m + i - 1]

(* What SubSeq returns                                                     *)
LEMMA SliceOf ==
  ASSUME NEW S, NEW s, NEW m \in Int, NEW n \in Int, \A i \in m .. n : s[i] \in S
  PROVE  Slice(S, s, m, n, SubSeq(s, m, n))
BY SubSeqProperties DEF Slice

(* The parts of a frame: the operation and the address are in the shift    *)
(* register nvm_opaddr.                                                    *)
Parts(x, t, f) ==
  /\ f \in Seq({0, 1}) /\ Len(f) = OPADDR_BITS + Len(t)
  /\ Rom!Op(f) = x \div Pow2(AddrBits) /\ Rom!Addr(f) = x % Pow2(AddrBits)
  /\ Rom!Data(f) = Value(t)

(* The widths, as numbers                                                  *)
LEMMA NvmSizes ==
  /\ AddrBits \in Nat /\ AddrBits >= 1 /\ DataBits \in Nat /\ DataBits >= 1
  /\ OPADDR_BITS \in Nat /\ OPADDR_BITS = 3 + AddrBits /\ Rom!OpAddrLen = OPADDR_BITS
  /\ Size \in Nat /\ Size >= 2
BY NvmAssumption, Powers DEF OPADDR_BITS, Rom!OpAddrLen

(* The operation has three bits.                                           *)
LEMMA OpcodeRange ==
  ASSUME NEW x \in Nat, x < Pow2(OPADDR_BITS)
  PROVE  (x \div Pow2(AddrBits)) % Pow2(3) = x \div Pow2(AddrBits) /\ x \div Pow2(AddrBits) \in Nat
<1>1. AddrBits \in Nat /\ OPADDR_BITS = ((AddrBits + 1) + 1) + 1 /\ 3 = ((0 + 1) + 1) + 1
  BY NvmSizes
<1>2. PICK p \in Nat : p = Pow2(AddrBits) /\ p > 0 /\ Pow2(OPADDR_BITS) = 8 * p
  <2>1. /\ Pow2(AddrBits + 1) = 2 * Pow2(AddrBits)
        /\ Pow2((AddrBits + 1) + 1) = 2 * Pow2(AddrBits + 1)
        /\ Pow2(((AddrBits + 1) + 1) + 1) = 2 * Pow2((AddrBits + 1) + 1)
        /\ Pow2(AddrBits) \in Nat /\ Pow2(AddrBits) > 0
    BY <1>1, Powers
  <2> QED BY <1>1, <2>1
<1>3. Pow2(3) = 8
  <2>1. Pow2(1) = 2 /\ Pow2(2) = 4
    <3>1. 0 \in Nat /\ 1 \in Nat /\ 0 + 1 = 1 /\ 1 + 1 = 2
      OBVIOUS
    <3>2. Pow2(0 + 1) = 2 * Pow2(0) /\ Pow2(1 + 1) = 2 * Pow2(1)
      BY <3>1, Powers
    <3> QED BY <3>1, <3>2, Powers
  <2>2. 2 \in Nat /\ 2 + 1 = 3
    OBVIOUS
  <2>3. Pow2(2 + 1) = 2 * Pow2(2)
    BY <2>2, Powers
  <2> QED BY <2>1, <2>2, <2>3
<1>4. PICK a \in Nat, b \in Nat : x = p * a + b /\ b < p /\ a = x \div p /\ b = x % p
  BY <1>2, NatDivision, Zenon
<1>5. a \in Nat /\ a < 8
  <2>1. x = p * a + b /\ b < p /\ a \in Nat /\ x < 8 * p
    BY <1>2, <1>4, Zenon
  <2>2. CASE a < 8
    BY <2>1, <2>2
  <2>3. CASE a >= 8
    <3>1. PICK d \in Nat : a = 8 + d
      <4>1. a - 8 \in Nat /\ a = 8 + (a - 8)
        BY <2>1, <2>3
      <4> QED BY <4>1
    <3>2. p * a = 8 * p + p * d /\ p * d \in Nat
      BY <3>1
    <3> QED BY <2>1, <3>2
  <2> QED BY <2>1, <2>2, <2>3
<1>6. a % 8 = a
  BY <1>5
<1> QED BY <1>2, <1>3, <1>4, <1>5, <1>6, Zenon

(* The bits of nvm_opaddr and those after them are a frame of those parts. *)
LEMMA FrameHasParts ==
  ASSUME NEW x \in Nat, x < Pow2(OPADDR_BITS), NEW t \in Seq({0, 1}),
         NEW f, f = BitsOf(x, OPADDR_BITS) \o t
  PROVE  Parts(x, t, f)
<1> DEFINE u == BitsOf(x, OPADDR_BITS)
           A == AddrBits
<1>1. A \in Nat /\ A >= 1 /\ OPADDR_BITS \in Nat /\ OPADDR_BITS = 3 + A /\ Rom!OpAddrLen = 3 + A
  BY NvmSizes
<1>2. u \in Seq({0, 1}) /\ Len(u) = 3 + A
  BY <1>1, BitsType
<1>3. \A i \in 1 .. (3 + A) : u[i] = (x \div Pow2((3 + A) - i)) % 2
  BY <1>1 DEF BitsOf
<1>4. /\ f \in Seq({0, 1}) /\ Len(f) = 3 + A + Len(t) /\ Len(t) \in Nat
      /\ \A i \in 1 .. (3 + A) : f[i] = u[i]
      /\ \A i \in 1 .. Len(t) : f[(3 + A) + i] = t[i]
  <2>1. f = u \o t
    OBVIOUS
  <2> HIDE DEF u, A
  <2>2. /\ u \o t \in Seq({0, 1}) /\ Len(u \o t) = Len(u) + Len(t)
        /\ \A i \in 1 .. (Len(u) + Len(t)) :
             (u \o t)[i] = IF i <= Len(u) THEN u[i] ELSE t[i - Len(u)]
    BY <1>2, ConcatProperties, Zenon
  <2>3. Len(t) \in Nat
    BY LenProperties
  <2>4. ASSUME NEW i \in 1 .. (3 + A) PROVE f[i] = u[i]
    <3>1. i \in 1 .. (Len(u) + Len(t)) /\ i <= Len(u)
      BY <1>1, <1>2, <2>3
    <3> QED BY <2>1, <2>2, <3>1
  <2>5. ASSUME NEW i \in 1 .. Len(t) PROVE f[(3 + A) + i] = t[i]
    <3>1. /\ (3 + A) + i \in 1 .. (Len(u) + Len(t)) /\ ~((3 + A) + i <= Len(u))
          /\ ((3 + A) + i) - Len(u) = i
      BY <1>1, <1>2, <2>3
    <3> QED BY <2>1, <2>2, <3>1
  <2> QED BY <1>2, <2>1, <2>2, <2>3, <2>4, <2>5, Zenon
<1> HIDE DEF u, A
<1>5. SubSeq(f, 1, 3) = BitsOf(x \div Pow2(A), 3)
  <2> DEFINE y == x \div Pow2(A)
             s == SubSeq(f, 1, 3)
             w == BitsOf(y, 3)
  <2>1. y \in Nat
    <3>1. Pow2(A) \in Nat /\ Pow2(A) > 0
      BY <1>1, Powers
    <3> QED BY <3>1, NatDivision
  <2>2. w \in Seq({0, 1}) /\ Len(w) = 3
    BY <2>1, BitsType
  <2>3. s \in Seq({0, 1}) /\ Len(s) = 3 /\ \A i \in 1 .. 3 : s[i] = f[i]
    BY <1>1, <1>4, SubSeqProperties
  <2>4. ASSUME NEW i \in 1 .. 3 PROVE s[i] = w[i]
    <3>1. i \in 1 .. (3 + A) /\ 3 - i \in Nat /\ (3 + A) - i = A + (3 - i)
      BY <1>1
    <3>2. s[i] = (x \div Pow2(A + (3 - i))) % 2
      BY <1>3, <1>4, <2>3, <3>1
    <3>3. w[i] = (y \div Pow2(3 - i)) % 2
      BY DEF BitsOf
    <3>4. y \div Pow2(3 - i) = x \div Pow2(A + (3 - i))
      BY <1>1, <3>1, ShiftTwice
    <3> QED BY <3>2, <3>3, <3>4
  <2> HIDE DEF s, w
  <2>5. s = w
    BY <2>2, <2>3, <2>4, SeqEqual
  <2> QED BY <2>5 DEF s, w
<1>6. SubSeq(f, 4, 3 + A) = BitsOf(x, A)
  <2> DEFINE s == SubSeq(f, 4, 3 + A)
             w == BitsOf(x, A)
  <2>1. w \in Seq({0, 1}) /\ Len(w) = A
    BY <1>1, BitsType
  <2>2. s \in Seq({0, 1}) /\ Len(s) = A /\ \A i \in 1 .. A : s[i] = f[3 + i]
    <3>1. 4 \in Int /\ 3 + A \in Int /\ (3 + A) - 4 + 1 = A /\ 4 <= 3 + A
          /\ \A i \in 1 .. A : 4 + i - 1 = 3 + i
      BY <1>1
    <3>2. ASSUME NEW i \in 4 .. (3 + A) PROVE f[i] \in {0, 1}
      <4>1. i \in 1 .. Len(f)
        BY <1>1, <1>4
      <4> QED BY <1>4, <4>1
    <3>3. /\ s \in Seq({0, 1})
          /\ Len(s) = IF 4 <= 3 + A THEN (3 + A) - 4 + 1 ELSE 0
          /\ \A i \in 1 .. ((3 + A) - 4 + 1) : s[i] = f[4 + i - 1]
      <4>1. \A i \in 4 .. (3 + A) : f[i] \in {0, 1}
        BY <3>2
      <4>2. Slice({0, 1}, f, 4, 3 + A, SubSeq(f, 4, 3 + A))
        BY <3>1, <4>1, SliceOf, Zenon
      <4> QED BY <4>2, Zenon DEF Slice
    <3> HIDE DEF s
    <3> QED BY <3>1, <3>3
  <2>3. ASSUME NEW i \in 1 .. A PROVE s[i] = w[i]
    <3>1. 3 + i \in 1 .. (3 + A) /\ (3 + A) - (3 + i) = A - i
      BY <1>1
    <3>2. w[i] = (x \div Pow2(A - i)) % 2
      BY DEF BitsOf
    <3> QED BY <1>3, <1>4, <2>2, <3>1, <3>2
  <2> HIDE DEF s, w
  <2>4. s = w
    BY <2>1, <2>2, <2>3, SeqEqual
  <2> QED BY <2>4 DEF s, w
<1>7. SubSeq(f, (3 + A) + 1, Len(f)) = t
  <2> DEFINE s == SubSeq(f, (3 + A) + 1, Len(f))
  <2>1. s \in Seq({0, 1}) /\ Len(s) = Len(t) /\ \A i \in 1 .. Len(t) : s[i] = f[(3 + A) + i]
    <3> DEFINE a == (3 + A) + 1
               b == Len(f)
    <3>1. a \in Int /\ b \in Int /\ b - a + 1 = Len(t) /\ (~(a <= b) => Len(t) = 0)
          /\ \A i \in 1 .. Len(t) : a + i - 1 = (3 + A) + i
      BY <1>1, <1>4
    <3>2. ASSUME NEW i \in a .. b PROVE f[i] \in {0, 1}
      <4>1. i \in 1 .. Len(f)
        BY <1>1, <1>4
      <4> QED BY <1>4, <4>1
    <3> HIDE DEF a, b
    <3>3. /\ SubSeq(f, a, b) \in Seq({0, 1})
          /\ Len(SubSeq(f, a, b)) = IF a <= b THEN b - a + 1 ELSE 0
          /\ \A i \in 1 .. (b - a + 1) : SubSeq(f, a, b)[i] = f[a + i - 1]
      <4>1. \A i \in a .. b : f[i] \in {0, 1}
        BY <3>2
      <4>2. Slice({0, 1}, f, a, b, SubSeq(f, a, b))
        BY <3>1, <4>1, SliceOf, Zenon
      <4> QED BY <4>2, Zenon DEF Slice
    <3>4. s = SubSeq(f, a, b)
      BY DEF a, b
    <3> HIDE DEF s
    <3> QED BY <3>1, <3>3, <3>4
  <2> HIDE DEF s
  <2>2. s = t
    BY <1>4, <2>1, SeqEqual
  <2> QED BY <2>2 DEF s
<1>8. Rom!Op(f) = Value(SubSeq(f, 1, 3)) /\ Rom!Addr(f) = Value(SubSeq(f, 4, 3 + A))
      /\ Rom!Data(f) = Value(SubSeq(f, (3 + A) + 1, Len(f)))
  <2>1. \A z : Rom!Value(z) = Value(z)
    BY DEF Rom!Value, Value
  <2>2. /\ Rom!Op(f) = Rom!Value(SubSeq(f, 1, 3)) /\ Rom!Addr(f) = Rom!Value(SubSeq(f, 4, Rom!OpAddrLen))
        /\ Rom!Data(f) = Rom!Value(SubSeq(f, Rom!OpAddrLen + 1, Len(f)))
    BY DEF Rom!Op, Rom!Addr, Rom!Data
  <2> QED BY <1>1, <2>1, <2>2, Zenon
<1>9. Value(BitsOf(x \div Pow2(A), 3)) = x \div Pow2(A)
  <2>1. x \div Pow2(A) \in Nat /\ (x \div Pow2(A)) % Pow2(3) = x \div Pow2(A)
    BY OpcodeRange DEF A
  <2> QED BY <2>1, ValueOfBits
<1>10. Value(BitsOf(x, A)) = x % Pow2(A)
  BY <1>1, ValueOfBits
<1>11. Len(f) = OPADDR_BITS + Len(t)
  BY <1>1, <1>4
<1>12. /\ Rom!Op(f) = x \div Pow2(A) /\ Rom!Addr(f) = x % Pow2(A) /\ Rom!Data(f) = Value(t)
  BY <1>5, <1>6, <1>7, <1>8, <1>9, <1>10, Zenon
<1> QED BY <1>4, <1>11, <1>12, Zenon DEF Parts, A

(* The states of the shift registers between two edges of SK: what came in *)
(* has as many bits as nvm_bits says, and what goes out next is the rest   *)
(* of the addressed word.                                                  *)
NvmState ==
  [mode : {"OPADDR", "DATAIN", "DATAOUT"}, bits : Nat, opaddr : Nat, data : Nat,
   mem : [0 .. Size - 1 -> 0 .. Pow2(DataBits) - 1],
   pins : SUBSET {"SK", "CS", "DI", "REQ", "GNT", "DO"}]

WordOf(n) == IF Address(n) < Size THEN n.mem[Address(n)] ELSE 0

NvmInv(n) ==
  /\ n \in NvmState
  /\ n.mode = "OPADDR" => n.bits \in 1 .. OPADDR_BITS /\ n.opaddr < Pow2(OPADDR_BITS - n.bits)
  /\ n.mode # "OPADDR" => n.bits \in 1 .. DataBits /\ n.opaddr < Pow2(OPADDR_BITS)
  /\ n.mode = "DATAIN" => Opcode(n) = OPCODE_WRITE /\ n.data < Pow2(DataBits - n.bits)
  /\ n.mode = "DATAOUT" =>
       /\ Opcode(n) = OPCODE_READ /\ n.data < Pow2(DataBits)
       /\ \A i \in 1 .. n.bits :
            BitsOf(n.data, DataBits)[i] = BitsOf(WordOf(n), DataBits)[(DataBits - n.bits) + i]

(* A clock with the input b, as the EEPROM sees it: n before it, m after   *)
WordAt(mem, a) == IF a < Size THEN mem[a] ELSE 0

Clocked(n, b, m) ==
  LET old == FrameOf(n)
      f   == Append(old, IF Rom!Reading(old) THEN 0 ELSE b)
  IN  /\ FrameOf(m) = IF Rom!Complete(f) THEN <<>> ELSE f
      /\ m.mem = IF Rom!Complete(f) /\ Rom!Writing(f) /\ Rom!Addr(f) < Size
                   THEN [n.mem EXCEPT ![Rom!Addr(f)] = Rom!Data(f)]
                   ELSE n.mem
      /\ Output(m) = IF Rom!Reading(old)
                       THEN BitsOf(WordAt(n.mem, Rom!Addr(old)), DataBits)[Len(f) - OPADDR_BITS]
                       ELSE Output(n)

(* A frame without all of its operation and address                        *)
LEMMA ShortFrame ==
  ASSUME NEW f, Len(f) \in Nat, Len(f) < OPADDR_BITS
  PROVE  ~Rom!Reading(f) /\ ~Rom!Writing(f) /\ ~Rom!Complete(f)
<1>1. ~Rom!Reading(f) /\ ~Rom!Writing(f)
  BY NvmSizes DEF Rom!Reading, Rom!Writing
<1>2. Len(f) # OPADDR_BITS + DataBits /\ Len(f) # OPADDR_BITS + 0
  BY NvmSizes
<1> QED BY <1>1, <1>2, NvmSizes DEF Rom!Complete

(* A frame with all of them is complete after the bits of its operation.   *)
LEMMA LongFrame ==
  ASSUME NEW x \in Nat, x < Pow2(OPADDR_BITS), NEW t \in Seq({0, 1}), NEW f, Parts(x, t, f)
  PROVE  /\ Rom!Reading(f) <=> x \div Pow2(AddrBits) = OPCODE_READ
         /\ Rom!Writing(f) <=> x \div Pow2(AddrBits) = OPCODE_WRITE
         /\ Rom!Reading(f) \/ Rom!Writing(f) => (Rom!Complete(f) <=> Len(t) = DataBits)
         /\ ~(Rom!Reading(f) \/ Rom!Writing(f)) => (Rom!Complete(f) <=> Len(t) = 0)
<1>1. Len(t) \in Nat /\ Len(f) = OPADDR_BITS + Len(t) /\ Rom!Op(f) = x \div Pow2(AddrBits)
  BY LenProperties DEF Parts
<1>2. Len(f) >= Rom!OpAddrLen
  BY <1>1, NvmSizes
<1>3. /\ Rom!Reading(f) <=> x \div Pow2(AddrBits) = OPCODE_READ
      /\ Rom!Writing(f) <=> x \div Pow2(AddrBits) = OPCODE_WRITE
  BY <1>1, <1>2 DEF Rom!Reading, Rom!Writing, OPCODE_READ, OPCODE_WRITE
<1>4. Rom!Complete(f) <=> Len(f) = OPADDR_BITS + (IF Rom!Reading(f) \/ Rom!Writing(f) THEN DataBits ELSE 0)
  BY NvmSizes DEF Rom!Complete
<1>5. /\ Len(f) = OPADDR_BITS + DataBits <=> Len(t) = DataBits
      /\ Len(f) = OPADDR_BITS + 0 <=> Len(t) = 0
  BY <1>1, NvmSizes
<1> QED BY <1>3, <1>4, <1>5, Zenon

(* A frame that has not begun                                              *)
LEMMA NoBits ==
  ASSUME NEW x \in Nat
  PROVE  BitsOf(x, 0) = <<>> /\ Value(<<>>) = 0
<1>1. BitsOf(x, 0) \in Seq({0, 1}) /\ Len(BitsOf(x, 0)) = 0
  BY BitsType
<1>2. BitsOf(x, 0) = <<>>
  BY <1>1, EmptySeq
<1> QED BY <1>1, <1>2, ValueOfNone

(* Back to the opcode mode: no frame                                       *)
LEMMA OpcodeMode ==
  ASSUME NEW n \in NvmState
  PROVE  LET m == opcode_mode(n)
         IN  NvmInv(m) /\ FrameOf(m) = <<>> /\ m.mem = n.mem /\ m.pins = n.pins
<1> DEFINE m == opcode_mode(n)
<1>1. /\ m \in NvmState /\ m.mode = "OPADDR" /\ m.bits = OPADDR_BITS /\ m.opaddr = 0
      /\ m.mem = n.mem /\ m.pins = n.pins
  BY NvmSizes DEF opcode_mode, NvmState
<1> HIDE DEF m
<1>2. OPADDR_BITS - m.bits = 0 /\ OPADDR_BITS \in 1 .. OPADDR_BITS
  BY <1>1, NvmSizes
<1>3. FrameOf(m) = <<>>
  BY <1>1, <1>2, NoBits DEF FrameOf
<1>4. NvmInv(m)
  BY <1>1, <1>2, Powers DEF NvmInv
<1> QED BY <1>1, <1>3, <1>4 DEF m

(* The frame of each mode                                                  *)
LEMMA FrameOfMode ==
  ASSUME NEW n, NvmInv(n)
  PROVE  /\ n.mode = "OPADDR" =>
              FrameOf(n) = BitsOf(n.opaddr, OPADDR_BITS - n.bits) /\ ~Rom!Reading(FrameOf(n))
         /\ n.mode = "DATAOUT" =>
              /\ FrameOf(n) = BitsOf(n.opaddr, OPADDR_BITS) \o BitsOf(0, DataBits - n.bits)
              /\ Rom!Reading(FrameOf(n)) /\ Rom!Addr(FrameOf(n)) = Address(n)
         /\ n.mode = "DATAIN" =>
              /\ FrameOf(n) = BitsOf(n.opaddr, OPADDR_BITS) \o BitsOf(n.data, DataBits - n.bits)
              /\ ~Rom!Reading(FrameOf(n))
<1> DEFINE x == n.opaddr
<1>1. x \in Nat /\ n.data \in Nat /\ n.bits \in Nat /\ 0 \in Nat
  BY DEF NvmInv, NvmState
<1>2. ASSUME n.mode = "OPADDR"
      PROVE  FrameOf(n) = BitsOf(x, OPADDR_BITS - n.bits) /\ ~Rom!Reading(FrameOf(n))
  <2>1. FrameOf(n) = BitsOf(x, OPADDR_BITS - n.bits)
    BY <1>2 DEF FrameOf
  <2>2. OPADDR_BITS - n.bits \in Nat /\ OPADDR_BITS - n.bits < OPADDR_BITS
    BY <1>2, NvmSizes DEF NvmInv
  <2>3. Len(FrameOf(n)) = OPADDR_BITS - n.bits
    BY <1>1, <2>1, <2>2, BitsType
  <2> QED BY <2>1, <2>2, <2>3, ShortFrame
<1>3. ASSUME n.mode # "OPADDR", NEW d \in Nat,
             FrameOf(n) = BitsOf(x, OPADDR_BITS) \o BitsOf(d, DataBits - n.bits)
      PROVE  /\ Rom!Reading(FrameOf(n)) <=> Opcode(n) = OPCODE_READ
             /\ Rom!Addr(FrameOf(n)) = Address(n)
  <2>1. DataBits - n.bits \in Nat /\ x < Pow2(OPADDR_BITS)
    BY <1>3, NvmSizes DEF NvmInv
  <2>2. BitsOf(d, DataBits - n.bits) \in Seq({0, 1})
    BY <2>1, BitsType
  <2> DEFINE t == BitsOf(d, DataBits - n.bits)
             f == FrameOf(n)
  <2>3. t \in Seq({0, 1}) /\ f = BitsOf(x, OPADDR_BITS) \o t
    BY <1>3, <2>2
  <2> HIDE DEF t, f, x
  <2>4. Parts(x, t, f)
    BY <1>1, <2>1, <2>3, FrameHasParts
  <2>5. Rom!Reading(f) <=> x \div Pow2(AddrBits) = OPCODE_READ
    BY <1>1, <2>1, <2>3, <2>4, LongFrame
  <2>6. Rom!Addr(f) = x % Pow2(AddrBits)
    BY <2>4 DEF Parts
  <2> QED BY <2>5, <2>6, Zenon DEF f, x, Opcode, Address
<1>4. ASSUME n.mode = "DATAOUT"
      PROVE  /\ FrameOf(n) = BitsOf(x, OPADDR_BITS) \o BitsOf(0, DataBits - n.bits)
             /\ Rom!Reading(FrameOf(n)) /\ Rom!Addr(FrameOf(n)) = Address(n)
  <2>1. FrameOf(n) = BitsOf(x, OPADDR_BITS) \o BitsOf(0, DataBits - n.bits) /\ n.mode # "OPADDR"
    BY <1>4 DEF FrameOf
  <2>2. Opcode(n) = OPCODE_READ
    BY <1>4 DEF NvmInv
  <2> QED BY <1>1, <1>3, <2>1, <2>2, Zenon
<1>5. ASSUME n.mode = "DATAIN"
      PROVE  /\ FrameOf(n) = BitsOf(x, OPADDR_BITS) \o BitsOf(n.data, DataBits - n.bits)
             /\ ~Rom!Reading(FrameOf(n))
  <2>1. FrameOf(n) = BitsOf(x, OPADDR_BITS) \o BitsOf(n.data, DataBits - n.bits) /\ n.mode # "OPADDR"
    BY <1>5 DEF FrameOf
  <2>2. Opcode(n) # OPCODE_READ
    BY <1>5 DEF NvmInv, OPCODE_READ, OPCODE_WRITE
  <2> QED BY <1>1, <1>3, <2>1, <2>2, Zenon
<1> QED BY <1>2, <1>4, <1>5

(* An edge of SK, before the bit is shifted: q is n with other pins        *)
Edge(n, q) ==
  /\ NvmInv(n) /\ q \in NvmState /\ Output(q) = Output(n)
  /\ q.mode = n.mode /\ q.opaddr = n.opaddr /\ q.data = n.data /\ q.mem = n.mem
  /\ q.bits = n.bits - 1

(* An input is a bit.                                                      *)
LEMMA DiIsBit == \A n : Di(n) \in {0, 1}
BY DEF Di

(* A shifted register has a bit more.                                      *)
LEMMA OneBitMore ==
  ASSUME NEW x \in Nat, NEW b \in {0, 1}, NEW k \in Nat, x < Pow2(k)
  PROVE  2 * x + b \in Nat /\ 2 * x + b < Pow2(k + 1)
<1>1. Pow2(k + 1) = 2 * Pow2(k) /\ Pow2(k) \in Nat
  BY Powers
<1> QED BY <1>1

(* nvm_mode OPADDR: a bit of the operation or of the address comes in.     *)
LEMMA ShiftOpaddr ==
  ASSUME NEW n, NEW q, Edge(n, q), n.mode = "OPADDR"
  PROVE  LET m == shift_opaddr(q)
         IN  NvmInv(m) /\ Clocked(n, Di(q), m) /\ Inputs(m) = Inputs(q)
<1> DEFINE m == shift_opaddr(q)
           b == Di(q)
           x == n.opaddr
           y == 2 * x + b
           z == [q EXCEPT !.opaddr = 2 * @ + Di(q)]
           k == OPADDR_BITS - n.bits
           f == Append(FrameOf(n), b)
<1>1. /\ b \in {0, 1} /\ x \in Nat /\ n.bits \in Nat /\ n.bits >= 1 /\ k \in Nat /\ x < Pow2(k)
      /\ k + 1 <= OPADDR_BITS
      /\ q \in NvmState /\ Output(q) = Output(n) /\ q.mode = "OPADDR" /\ q.opaddr = x
      /\ q.mem = n.mem /\ q.bits = n.bits - 1
  BY DiIsBit, NvmSizes DEF Edge, NvmInv, NvmState
<1>2. /\ FrameOf(n) = BitsOf(x, k) /\ ~Rom!Reading(FrameOf(n))
  BY FrameOfMode DEF Edge
<1>3. y \in Nat /\ y < Pow2(k + 1) /\ f = BitsOf(y, k + 1)
  <2> HIDE DEF x, b, k
  <2>1. y \in Nat /\ y < Pow2(k + 1)
    BY <1>1, OneBitMore
  <2>2. BitsOf(y, k + 1) = Append(BitsOf(x, k), b)
    BY <1>1, BitsAppend
  <2> QED BY <1>2, <2>1, <2>2
<1>4. /\ z \in NvmState /\ z.mode = "OPADDR" /\ z.opaddr = y /\ z.mem = n.mem /\ z.pins = q.pins
      /\ z.bits = q.bits /\ Output(z) = Output(n)
  <2>1. z = [q EXCEPT !.opaddr = y]
    BY <1>1
  <2> HIDE DEF y, z
  <2> QED BY <1>1, <1>3, <2>1 DEF NvmState, Output
<1>5. m = IF q.bits > 0 THEN z
          ELSE CASE Opcode(z) = OPCODE_READ ->
                      [z EXCEPT !.mode = "DATAOUT", !.bits = DataBits,
                                !.data = IF Address(z) < Size THEN z.mem[Address(z)] ELSE 0]
                 [] Opcode(z) = OPCODE_WRITE ->
                      [z EXCEPT !.mode = "DATAIN", !.bits = DataBits, !.data = 0]
                 [] OTHER -> opcode_mode(z)
  BY Zenon DEF shift_opaddr
<1>6. k + 1 \in Nat /\ Len(f) = k + 1
  <2>1. k + 1 \in Nat
    BY <1>1
  <2> HIDE DEF k, y, f
  <2> QED BY <1>3, <2>1, BitsType
<1> HIDE DEF m, z, y, f, b
<1>7. Clocked(n, b, m) <=>
        /\ FrameOf(m) = IF Rom!Complete(f) THEN <<>> ELSE f
        /\ m.mem = IF Rom!Complete(f) /\ Rom!Writing(f) /\ Rom!Addr(f) < Size
                     THEN [n.mem EXCEPT ![Rom!Addr(f)] = Rom!Data(f)]
                     ELSE n.mem
        /\ Output(m) = Output(n)
  BY <1>2 DEF Clocked, f
<1>8. CASE q.bits > 0
  <2>1. m = z /\ k + 1 < OPADDR_BITS /\ OPADDR_BITS - z.bits = k + 1 /\ z.bits \in 1 .. OPADDR_BITS
    BY <1>1, <1>4, <1>5, <1>8, NvmSizes
  <2>2. ~Rom!Reading(f) /\ ~Rom!Writing(f) /\ ~Rom!Complete(f)
    BY <1>6, <2>1, ShortFrame
  <2>3. NvmInv(m)
    BY <1>3, <1>4, <2>1 DEF NvmInv
  <2>4. FrameOf(m) = f
    BY <1>3, <1>4, <2>1 DEF FrameOf
  <2>5. Clocked(n, b, m)
    BY <1>4, <1>7, <2>1, <2>2, <2>4
  <2> QED BY <1>4, <2>1, <2>3, <2>5 DEF Inputs, m, b
<1>9. CASE ~(q.bits > 0)
  <2>1. k + 1 = OPADDR_BITS /\ n.bits = 1
    BY <1>1, <1>9, NvmSizes
  <2>2. y < Pow2(OPADDR_BITS) /\ f = BitsOf(y, OPADDR_BITS)
    BY <1>3, <2>1, Zenon
  <2>3. BitsOf(0, 0) = <<>> /\ BitsOf(0, 0) \in Seq({0, 1}) /\ f \in Seq({0, 1})
    BY <1>3, <2>2, NoBits, BitsType, NvmSizes
  <2>4. f = BitsOf(y, OPADDR_BITS) \o BitsOf(0, 0)
    BY <2>2, <2>3
  <2>5. Parts(y, <<>>, f)
    BY <1>3, <2>2, <2>3, <2>4, FrameHasParts
  <2>6. /\ Rom!Reading(f) <=> Opcode(z) = OPCODE_READ
        /\ Rom!Writing(f) <=> Opcode(z) = OPCODE_WRITE
        /\ Rom!Reading(f) \/ Rom!Writing(f) => ~Rom!Complete(f)
        /\ ~(Rom!Reading(f) \/ Rom!Writing(f)) => Rom!Complete(f)
    <3>1. <<>> \in Seq({0, 1}) /\ Len(<<>>) = 0 /\ 0 # DataBits
      BY NvmSizes
    <3>2. /\ Rom!Reading(f) <=> y \div Pow2(AddrBits) = OPCODE_READ
          /\ Rom!Writing(f) <=> y \div Pow2(AddrBits) = OPCODE_WRITE
          /\ Rom!Reading(f) \/ Rom!Writing(f) => (Rom!Complete(f) <=> Len(<<>>) = DataBits)
          /\ ~(Rom!Reading(f) \/ Rom!Writing(f)) => (Rom!Complete(f) <=> Len(<<>>) = 0)
      BY <1>3, <2>2, <2>5, <3>1, LongFrame
    <3>3. Opcode(z) = y \div Pow2(AddrBits)
      BY <1>4 DEF Opcode
    <3> QED BY <3>1, <3>2, <3>3
  <2>7. DataBits \in Nat /\ DataBits - DataBits = 0 /\ DataBits \in 1 .. DataBits
    BY NvmSizes
  <2>8. CASE Opcode(z) = OPCODE_READ
    <3> DEFINE w == WordOf(z)
    <3>1. w \in Nat /\ w < Pow2(DataBits)
      <4>1. Address(z) \in Nat
        <5>1. Pow2(AddrBits) \in Nat /\ Pow2(AddrBits) > 0
          BY NvmSizes, Powers
        <5> QED BY <1>3, <1>4, <5>1, NatDivision DEF Address
      <4>2. 0 < Pow2(DataBits) /\ Pow2(DataBits) \in Nat
        BY NvmSizes, Powers
      <4>3. z.mem \in [0 .. Size - 1 -> 0 .. Pow2(DataBits) - 1]
        BY <1>4 DEF NvmState
      <4>4. CASE Address(z) < Size
        <5>1. Address(z) \in 0 .. Size - 1
          BY <4>1, <4>4, NvmSizes
        <5>2. z.mem[Address(z)] \in 0 .. Pow2(DataBits) - 1
          BY <4>3, <5>1
        <5> QED BY <4>2, <4>4, <5>2 DEF WordOf
      <4>5. CASE ~(Address(z) < Size)
        BY <4>2, <4>5 DEF WordOf
      <4> QED BY <4>4, <4>5
    <3>2. m = [z EXCEPT !.mode = "DATAOUT", !.bits = DataBits, !.data = w]
      <4>1. m = [z EXCEPT !.mode = "DATAOUT", !.bits = DataBits,
                          !.data = IF Address(z) < Size THEN z.mem[Address(z)] ELSE 0]
        <5> DEFINE r == [z EXCEPT !.mode = "DATAOUT", !.bits = DataBits,
                                  !.data = IF Address(z) < Size THEN z.mem[Address(z)] ELSE 0]
                   s == [z EXCEPT !.mode = "DATAIN", !.bits = DataBits, !.data = 0]
        <5>1. m = IF q.bits > 0 THEN z
                  ELSE CASE Opcode(z) = OPCODE_READ  -> r
                         [] Opcode(z) = OPCODE_WRITE -> s
                         [] OTHER                    -> opcode_mode(z)
          BY <1>5, Zenon
        <5> HIDE DEF r, s
        <5>2. m = r
          BY <1>9, <2>8, <5>1 DEF OPCODE_READ, OPCODE_WRITE
        <5> QED BY <5>2, Zenon DEF r
      <4> QED BY <4>1, Zenon DEF WordOf
    <3> HIDE DEF w
    <3>3. /\ m \in NvmState /\ m.mode = "DATAOUT" /\ m.bits = DataBits /\ m.data = w /\ m.opaddr = y
          /\ m.mem = n.mem /\ m.pins = q.pins
      BY <1>4, <2>7, <3>1, <3>2 DEF NvmState
    <3>4. Opcode(m) = Opcode(z) /\ WordOf(m) = w
      BY <1>4, <3>3 DEF Opcode, WordOf, Address, w
    <3>5. \A i \in 1 .. m.bits : BitsOf(m.data, DataBits)[i] = BitsOf(WordOf(m), DataBits)[(DataBits - m.bits) + i]
      <4>1. \A i \in 1 .. DataBits : 0 + i = i
        OBVIOUS
      <4> QED BY <2>7, <3>3, <3>4, <4>1
    <3>6. NvmInv(m)
      BY <2>2, <2>7, <2>8, <3>1, <3>3, <3>4, <3>5 DEF NvmInv, OPCODE_READ
    <3>7. FrameOf(m) = f
      BY <2>4, <2>7, <3>3 DEF FrameOf
    <3>8. Output(m) = Output(n) /\ Inputs(m) = Inputs(q)
      BY <1>1, <3>3 DEF Output, Inputs
    <3>9. Clocked(n, b, m)
      BY <1>7, <2>6, <2>8, <3>3, <3>7, <3>8
    <3> QED BY <3>6, <3>8, <3>9 DEF m, b
  <2>9. CASE Opcode(z) = OPCODE_WRITE
    <3>1. m = [z EXCEPT !.mode = "DATAIN", !.bits = DataBits, !.data = 0]
      BY <1>5, <1>9, <2>9 DEF OPCODE_READ, OPCODE_WRITE
    <3>2. /\ m \in NvmState /\ m.mode = "DATAIN" /\ m.bits = DataBits /\ m.data = 0 /\ m.opaddr = y
          /\ m.mem = n.mem /\ m.pins = q.pins
      BY <1>4, <2>7, <3>1 DEF NvmState
    <3>3. Opcode(m) = Opcode(z)
      BY <1>4, <3>2 DEF Opcode
    <3>4. NvmInv(m)
      BY <2>2, <2>7, <2>9, <3>2, <3>3, Powers DEF NvmInv
    <3>5. FrameOf(m) = f
      BY <2>4, <2>7, <3>2 DEF FrameOf
    <3>6. Output(m) = Output(n) /\ Inputs(m) = Inputs(q)
      BY <1>1, <3>2 DEF Output, Inputs
    <3>7. Clocked(n, b, m)
      BY <1>7, <2>6, <2>9, <3>2, <3>5, <3>6
    <3> QED BY <3>4, <3>6, <3>7 DEF m, b
  <2>10. CASE Opcode(z) # OPCODE_READ /\ Opcode(z) # OPCODE_WRITE
    <3>1. m = opcode_mode(z)
      BY <1>5, <1>9, <2>10
    <3>2. NvmInv(m) /\ FrameOf(m) = <<>> /\ m.mem = n.mem /\ m.pins = q.pins
      BY <1>4, <3>1, OpcodeMode
    <3>3. Output(m) = Output(n) /\ Inputs(m) = Inputs(q)
      BY <1>1, <3>2 DEF Output, Inputs
    <3>4. Clocked(n, b, m)
      BY <1>7, <2>6, <2>10, <3>2, <3>3
    <3> QED BY <3>2, <3>3, <3>4 DEF m, b
  <2> QED BY <2>8, <2>9, <2>10
<1> QED BY <1>1, <1>8, <1>9

(* The register of a word that goes out: its highest bit, and the others   *)
LEMMA HighBit ==
  ASSUME NEW d \in Nat, NEW k \in Nat, k >= 1, d < Pow2(k)
  PROVE  d \div Pow2(k - 1) = BitsOf(d, k)[1] /\ d \div Pow2(k - 1) \in {0, 1}
<1>1. k - 1 \in Nat /\ (k - 1) + 1 = k /\ 1 \in 1 .. k
  OBVIOUS
<1>2. PICK p \in Nat : p = Pow2(k - 1) /\ p > 0 /\ Pow2(k) = 2 * p
  <2>1. Pow2(k - 1) \in Nat /\ Pow2(k - 1) > 0 /\ Pow2((k - 1) + 1) = 2 * Pow2(k - 1)
    BY <1>1, Powers
  <2> QED BY <1>1, <2>1
<1>3. PICK a \in Nat, b \in Nat : d = p * a + b /\ b < p /\ a = d \div p /\ b = d % p
  BY <1>2, NatDivision, Zenon
<1>4. a \in {0, 1}
  <2>1. d < 2 * p
    BY <1>2
  <2>2. CASE a \in {0, 1}
    BY <2>2
  <2>3. CASE a \notin {0, 1}
    <3>1. PICK c \in Nat : a = 2 + c
      <4>1. a - 2 \in Nat /\ a = 2 + (a - 2)
        BY <2>3
      <4> QED BY <4>1
    <3>2. p * a = 2 * p + p * c /\ p * c \in Nat
      BY <3>1
    <3> HIDE <1>2
    <3>3. d = p * a + b
      BY <1>3
    <3> QED BY <2>1, <3>2, <3>3
  <2> QED BY <2>2, <2>3
<1>5. a % 2 = a
  BY <1>4
<1>6. BitsOf(d, k)[1] = (d \div p) % 2
  BY <1>1, <1>2 DEF BitsOf
<1> QED BY <1>2, <1>3, <1>4, <1>5, <1>6, Zenon

(* A shift moves each of the others one place up.                          *)
LEMMA ShiftedBits ==
  ASSUME NEW d \in Nat, NEW k \in Nat
  PROVE  /\ (2 * d) % Pow2(k) \in Nat /\ (2 * d) % Pow2(k) < Pow2(k)
         /\ \A i \in 1 .. (k - 1) : BitsOf((2 * d) % Pow2(k), k)[i] = BitsOf(d, k)[i + 1]
<1>1. Pow2(k) \in Nat /\ Pow2(k) > 0 /\ 2 * d \in Nat
  BY Powers
<1>2. (2 * d) % Pow2(k) \in Nat /\ (2 * d) % Pow2(k) < Pow2(k)
  BY <1>1, NatDivision
<1>3. ASSUME NEW i \in 1 .. (k - 1)
      PROVE  BitsOf((2 * d) % Pow2(k), k)[i] = BitsOf(d, k)[i + 1]
  <2>1. /\ k - i \in Nat /\ k - i < k /\ k - (i + 1) \in Nat /\ k - i = (k - (i + 1)) + 1
        /\ i \in 1 .. k /\ i + 1 \in 1 .. k
    OBVIOUS
  <2>2. PICK p \in Nat : p = Pow2(k - (i + 1)) /\ p > 0 /\ Pow2(k - i) = 2 * p
    <3>1. /\ Pow2(k - (i + 1)) \in Nat /\ Pow2(k - (i + 1)) > 0
          /\ Pow2((k - (i + 1)) + 1) = 2 * Pow2(k - (i + 1))
      BY <2>1, Powers
    <3> QED BY <2>1, <3>1
  <2>3. (((2 * d) % Pow2(k)) \div Pow2(k - i)) % 2 = ((2 * d) \div Pow2(k - i)) % 2
    BY <1>1, <2>1, BitOfRemainder
  <2>4. (2 * d) \div (2 * p) = d \div p
    <3>1. (2 * d) \div (2 * p) = ((2 * d) \div 2) \div p
      BY <1>1, <2>2, Halves
    <3>2. (2 * d) \div 2 = d
      OBVIOUS
    <3> QED BY <3>1, <3>2
  <2>5. BitsOf((2 * d) % Pow2(k), k)[i] = (((2 * d) % Pow2(k)) \div Pow2(k - i)) % 2
    BY <2>1 DEF BitsOf
  <2>6. BitsOf(d, k)[i + 1] = (d \div Pow2(k - (i + 1))) % 2
    BY <2>1 DEF BitsOf
  <2> QED BY <2>2, <2>3, <2>4, <2>5, <2>6, Zenon
<1> QED BY <1>2, <1>3

(* A bit at the end of a frame is one at the end of its last part.         *)
LEMMA AppendToPart ==
  ASSUME NEW s \in Seq({0, 1}), NEW t \in Seq({0, 1}), NEW b \in {0, 1}
  PROVE  Append(s \o t, b) = s \o Append(t, b)
OBVIOUS

(* The word of an address                                                  *)
LEMMA WordType ==
  ASSUME NEW n \in NvmState
  PROVE  /\ Address(n) \in Nat /\ WordOf(n) \in Nat /\ WordOf(n) < Pow2(DataBits)
         /\ Address(n) < Size => Address(n) \in 0 .. Size - 1
<1>1. Address(n) \in Nat
  <2>1. Pow2(AddrBits) \in Nat /\ Pow2(AddrBits) > 0
    BY NvmSizes, Powers
  <2>2. n.opaddr \in Nat
    BY DEF NvmState
  <2> QED BY <2>1, <2>2, NatDivision DEF Address
<1>2. 0 < Pow2(DataBits) /\ Pow2(DataBits) \in Nat
  BY NvmSizes, Powers
<1>3. n.mem \in [0 .. Size - 1 -> 0 .. Pow2(DataBits) - 1]
  BY DEF NvmState
<1>4. CASE Address(n) < Size
  <2>1. Address(n) \in 0 .. Size - 1
    BY <1>1, <1>4, NvmSizes
  <2>2. n.mem[Address(n)] \in 0 .. Pow2(DataBits) - 1
    BY <1>3, <2>1
  <2> QED BY <1>1, <1>2, <1>4, <2>1, <2>2 DEF WordOf
<1>5. CASE ~(Address(n) < Size)
  BY <1>1, <1>2, <1>5 DEF WordOf
<1> QED BY <1>4, <1>5

(* nvm_mode DATAOUT: a bit of the word goes to DO.                         *)
LEMMA ShiftOut ==
  ASSUME NEW n, NEW q, Edge(n, q), n.mode = "DATAOUT"
  PROVE  LET m == shift_out(q)
         IN  NvmInv(m) /\ Clocked(n, Di(q), m) /\ Inputs(m) = Inputs(q)
<1> DEFINE m == shift_out(q)
           x == n.opaddr
           k == DataBits - n.bits
           u == BitsOf(x, OPADDR_BITS)
           t == BitsOf(0, k + 1)
           f == Append(FrameOf(n), 0)
           high == q.data \div Pow2(DataBits - 1)
           z == [q EXCEPT !.pins = IF high = 1 THEN @ \cup {"DO"} ELSE @ \ {"DO"},
                          !.data = (2 * @) % Pow2(DataBits)]
<1>1. /\ n \in NvmState /\ n.bits \in 1 .. DataBits /\ x \in Nat /\ x < Pow2(OPADDR_BITS)
      /\ Opcode(n) = OPCODE_READ /\ n.data \in Nat /\ n.data < Pow2(DataBits)
      /\ \A i \in 1 .. n.bits :
           BitsOf(n.data, DataBits)[i] = BitsOf(WordOf(n), DataBits)[(DataBits - n.bits) + i]
      /\ q \in NvmState /\ Output(q) = Output(n) /\ q.mode = "DATAOUT" /\ q.opaddr = x
      /\ q.data = n.data /\ q.mem = n.mem /\ q.bits = n.bits - 1
  BY DEF Edge, NvmInv, NvmState
<1>2. /\ FrameOf(n) = u \o BitsOf(0, k) /\ Rom!Reading(FrameOf(n))
      /\ Rom!Addr(FrameOf(n)) = Address(n)
  BY FrameOfMode DEF Edge
<1>3. /\ DataBits \in Nat /\ DataBits >= 1 /\ k \in Nat /\ k + 1 \in Nat /\ k + 1 \in 1 .. DataBits
      /\ (k + 1 = DataBits <=> q.bits = 0) /\ q.bits \in Nat /\ q.bits <= DataBits
      /\ DataBits - q.bits = k + 1
  BY <1>1, NvmSizes
<1>4. /\ t \in Seq({0, 1}) /\ Len(t) = k + 1 /\ u \in Seq({0, 1}) /\ Len(u) = OPADDR_BITS
      /\ f = u \o t
  <2>1. 2 * 0 + 0 = 0 /\ 0 \in Nat /\ 0 \in {0, 1}
    OBVIOUS
  <2>2. BitsOf(2 * 0 + 0, k + 1) = Append(BitsOf(0, k), 0)
    BY <1>3, <2>1, BitsAppend
  <2>3. BitsOf(0, k) \in Seq({0, 1}) /\ t \in Seq({0, 1}) /\ Len(t) = k + 1
    BY <1>3, <2>1, BitsType
  <2>4. u \in Seq({0, 1}) /\ Len(u) = OPADDR_BITS
    BY <1>1, NvmSizes, BitsType
  <2> HIDE DEF u, k
  <2>5. Append(u \o BitsOf(0, k), 0) = u \o Append(BitsOf(0, k), 0)
    BY <2>1, <2>3, <2>4, AppendToPart
  <2> QED BY <1>2, <2>1, <2>2, <2>3, <2>4, <2>5, Zenon
<1> HIDE DEF u, t, f
<1>5. Parts(x, t, f)
  BY <1>1, <1>4, FrameHasParts DEF u
<1>6. /\ ~Rom!Writing(f) /\ (Rom!Complete(f) <=> q.bits = 0) /\ Len(f) - OPADDR_BITS = k + 1
  <2> HIDE DEF x, k
  <2>1. x \div Pow2(AddrBits) = OPCODE_READ
    BY <1>1 DEF Opcode, x
  <2>2. /\ Rom!Reading(f) <=> x \div Pow2(AddrBits) = OPCODE_READ
        /\ Rom!Writing(f) <=> x \div Pow2(AddrBits) = OPCODE_WRITE
        /\ Rom!Reading(f) \/ Rom!Writing(f) => (Rom!Complete(f) <=> Len(t) = DataBits)
    BY <1>1, <1>4, <1>5, LongFrame
  <2>3. OPCODE_READ # OPCODE_WRITE
    BY DEF OPCODE_READ, OPCODE_WRITE
  <2>4. Len(f) = OPADDR_BITS + Len(t)
    BY <1>5 DEF Parts
  <2> QED BY <1>3, <1>4, <2>1, <2>2, <2>3, <2>4, NvmSizes
<1>7. /\ high = BitsOf(n.data, DataBits)[1] /\ high \in {0, 1}
      /\ high = BitsOf(WordOf(n), DataBits)[k + 1]
  <2>1. high = BitsOf(n.data, DataBits)[1] /\ high \in {0, 1}
    BY <1>1, <1>3, HighBit
  <2>2. 1 \in 1 .. n.bits
    BY <1>1
  <2> QED BY <1>1, <2>1, <2>2
<1>8. /\ (2 * n.data) % Pow2(DataBits) \in Nat /\ (2 * n.data) % Pow2(DataBits) < Pow2(DataBits)
      /\ \A i \in 1 .. (DataBits - 1) :
           BitsOf((2 * n.data) % Pow2(DataBits), DataBits)[i] = BitsOf(n.data, DataBits)[i + 1]
  BY <1>1, <1>3, ShiftedBits
<1>9. /\ z \in NvmState /\ z.mode = "DATAOUT" /\ z.opaddr = x /\ z.mem = n.mem /\ z.bits = q.bits
      /\ z.data = (2 * n.data) % Pow2(DataBits) /\ Output(z) = high /\ Inputs(z) = Inputs(q)
  <2> DEFINE d == (2 * n.data) % Pow2(DataBits)
             p == IF high = 1 THEN q.pins \cup {"DO"} ELSE q.pins \ {"DO"}
  <2>1. z = [q EXCEPT !.pins = p, !.data = d]
    <3>1. (2 * q.data) % Pow2(DataBits) = d
      BY <1>1
    <3> HIDE DEF high, d
    <3> QED BY <3>1
  <2>2. p \in SUBSET {"SK", "CS", "DI", "REQ", "GNT", "DO"} /\ p \ {"DO", "GNT"} = q.pins \ {"DO", "GNT"}
    <3>1. q.pins \in SUBSET {"SK", "CS", "DI", "REQ", "GNT", "DO"}
      BY <1>1 DEF NvmState
    <3> HIDE DEF high
    <3> QED BY <3>1
  <2>3. (IF "DO" \in p THEN 1 ELSE 0) = high
    <3> HIDE DEF high
    <3> QED BY <1>7
  <2>4. d \in Nat
    BY <1>8
  <2> HIDE DEF d, p, z, high
  <2>5. /\ z \in NvmState /\ z.mode = "DATAOUT" /\ z.opaddr = x /\ z.mem = n.mem /\ z.bits = q.bits
        /\ z.data = d /\ z.pins = p
    BY <1>1, <2>1, <2>2, <2>4 DEF NvmState
  <2> QED BY <2>2, <2>3, <2>5, Zenon DEF Output, Inputs, d
<1>10. m = IF q.bits = 0 THEN opcode_mode(z) ELSE z
  <2>1. z.bits = q.bits
    BY <1>9
  <2> QED BY Zenon DEF shift_out
<1>11. WordAt(n.mem, Rom!Addr(FrameOf(n))) = WordOf(n)
  BY <1>2, Zenon DEF WordAt, WordOf
<1> HIDE DEF m, z, high
<1>12. Clocked(n, Di(q), m) <=>
         /\ FrameOf(m) = IF Rom!Complete(f) THEN <<>> ELSE f
         /\ m.mem = n.mem
         /\ Output(m) = high
  <2>1. f = Append(FrameOf(n), IF Rom!Reading(FrameOf(n)) THEN 0 ELSE Di(q))
    BY <1>2 DEF f
  <2>2. (IF Rom!Complete(f) /\ Rom!Writing(f) /\ Rom!Addr(f) < Size
           THEN [n.mem EXCEPT ![Rom!Addr(f)] = Rom!Data(f)] ELSE n.mem) = n.mem
    BY <1>6
  <2>3. BitsOf(WordAt(n.mem, Rom!Addr(FrameOf(n))), DataBits)[Len(f) - OPADDR_BITS] = high
    BY <1>6, <1>7, <1>11, Zenon
  <2> QED BY <1>2, <2>1, <2>2, <2>3, Zenon DEF Clocked
<1>13. CASE q.bits = 0
  <2>1. m = opcode_mode(z)
    BY <1>10, <1>13
  <2>2. NvmInv(m) /\ FrameOf(m) = <<>> /\ m.mem = n.mem /\ m.pins = z.pins
    BY <1>9, <2>1, OpcodeMode
  <2>3. Output(m) = high /\ Inputs(m) = Inputs(q)
    BY <1>9, <2>2 DEF Output, Inputs
  <2>4. Clocked(n, Di(q), m)
    BY <1>6, <1>12, <1>13, <2>2, <2>3
  <2> QED BY <2>2, <2>3, <2>4 DEF m
<1>14. CASE q.bits # 0
  <2>1. m = z
    BY <1>10, <1>14
  <2>2. Opcode(m) = Opcode(n) /\ WordOf(m) = WordOf(n)
    BY <1>9, <2>1 DEF Opcode, WordOf, Address
  <2>3. ASSUME NEW i \in 1 .. m.bits
        PROVE  BitsOf(m.data, DataBits)[i] = BitsOf(WordOf(m), DataBits)[(DataBits - m.bits) + i]
    <3>1. /\ i \in 1 .. (DataBits - 1) /\ i + 1 \in 1 .. n.bits
          /\ (DataBits - m.bits) + i = (DataBits - n.bits) + (i + 1)
      BY <1>1, <1>3, <1>9, <2>1
    <3>2. BitsOf(m.data, DataBits)[i] = BitsOf(n.data, DataBits)[i + 1]
      BY <1>8, <1>9, <2>1, <3>1
    <3>3. BitsOf(n.data, DataBits)[i + 1] = BitsOf(WordOf(n), DataBits)[(DataBits - n.bits) + (i + 1)]
      BY <1>1, <3>1
    <3> QED BY <2>2, <3>1, <3>2, <3>3
  <2>4. m.bits \in 1 .. DataBits
    BY <1>3, <1>9, <1>14, <2>1
  <2>5. NvmInv(m)
    <3>1. m \in NvmState /\ m.mode = "DATAOUT" /\ m.opaddr < Pow2(OPADDR_BITS) /\ m.data < Pow2(DataBits)
          /\ Opcode(m) = OPCODE_READ
      BY <1>1, <1>8, <1>9, <2>1, <2>2
    <3> QED BY <2>3, <2>4, <3>1 DEF NvmInv
  <2>6. FrameOf(m) = f
    <3>1. FrameOf(m) = BitsOf(x, OPADDR_BITS) \o BitsOf(0, DataBits - m.bits)
      BY <1>9, <2>1 DEF FrameOf
    <3> QED BY <1>3, <1>4, <1>9, <2>1, <3>1 DEF u, t
  <2>7. Output(m) = high /\ Inputs(m) = Inputs(q) /\ m.mem = n.mem
    BY <1>9, <2>1
  <2>8. Clocked(n, Di(q), m)
    BY <1>6, <1>12, <1>14, <2>6, <2>7
  <2> QED BY <2>5, <2>7, <2>8 DEF m
<1> QED BY <1>13, <1>14

(* nvm_mode DATAIN: a bit of the word comes from DI.                       *)
LEMMA ShiftIn ==
  ASSUME NEW n, NEW q, Edge(n, q), n.mode = "DATAIN"
  PROVE  LET m == shift_in(q)
         IN  NvmInv(m) /\ Clocked(n, Di(q), m) /\ Inputs(m) = Inputs(q)
<1> DEFINE m == shift_in(q)
           b == Di(q)
           x == n.opaddr
           d == n.data
           w == 2 * d + b
           k == DataBits - n.bits
           u == BitsOf(x, OPADDR_BITS)
           t == BitsOf(w, k + 1)
           f == Append(FrameOf(n), b)
           a == Address(n)
           z == [q EXCEPT !.data = w]
<1>1. /\ n \in NvmState /\ n.bits \in 1 .. DataBits /\ x \in Nat /\ x < Pow2(OPADDR_BITS)
      /\ Opcode(n) = OPCODE_WRITE /\ d \in Nat /\ d < Pow2(k) /\ b \in {0, 1}
      /\ q \in NvmState /\ Output(q) = Output(n) /\ q.mode = "DATAIN" /\ q.opaddr = x
      /\ q.data = d /\ q.mem = n.mem /\ q.bits = n.bits - 1
  BY DiIsBit DEF Edge, NvmInv, NvmState
<1>2. FrameOf(n) = u \o BitsOf(d, k) /\ ~Rom!Reading(FrameOf(n))
  BY FrameOfMode DEF Edge
<1>3. /\ DataBits \in Nat /\ DataBits >= 1 /\ k \in Nat /\ k + 1 \in Nat /\ k + 1 \in 1 .. DataBits
      /\ (k + 1 = DataBits <=> q.bits = 0) /\ q.bits \in Nat /\ q.bits <= DataBits
      /\ DataBits - q.bits = k + 1 /\ (q.bits > 0 <=> q.bits # 0)
  BY <1>1, NvmSizes
<1>4. /\ w \in Nat /\ w < Pow2(k + 1) /\ w % Pow2(DataBits) = w /\ w % Pow2(k + 1) = w
      /\ w \in 0 .. Pow2(DataBits) - 1
  <2> HIDE DEF b, d, k
  <2>1. w \in Nat /\ w < Pow2(k + 1)
    BY <1>1, <1>3, OneBitMore
  <2>2. Pow2(k + 1) <= Pow2(DataBits) /\ Pow2(k + 1) \in Nat /\ Pow2(DataBits) \in Nat
    <3>1. k + 1 \in Nat /\ DataBits \in Nat /\ k + 1 <= DataBits
      BY <1>3
    <3> QED BY <3>1, PowersGrow, Powers
  <2> HIDE DEF w
  <2>3. w < Pow2(DataBits) /\ w \in 0 .. Pow2(DataBits) - 1
    BY <2>1, <2>2
  <2> QED BY <2>1, <2>2, <2>3, Small
<1>5. /\ t \in Seq({0, 1}) /\ Len(t) = k + 1 /\ u \in Seq({0, 1}) /\ Len(u) = OPADDR_BITS
      /\ f = u \o t
  <2>1. t = Append(BitsOf(d, k), b)
    <3> HIDE DEF b, d, k
    <3> QED BY <1>1, <1>3, BitsAppend DEF w, t
  <2>2. BitsOf(d, k) \in Seq({0, 1}) /\ t \in Seq({0, 1}) /\ Len(t) = k + 1
    <3> HIDE DEF d, k, w
    <3> QED BY <1>1, <1>3, <1>4, BitsType
  <2>3. u \in Seq({0, 1}) /\ Len(u) = OPADDR_BITS
    BY <1>1, NvmSizes, BitsType
  <2> HIDE DEF u, k, b, d, t
  <2>4. Append(u \o BitsOf(d, k), b) = u \o Append(BitsOf(d, k), b)
    BY <1>1, <2>2, <2>3, AppendToPart
  <2> QED BY <1>2, <2>1, <2>2, <2>3, <2>4, Zenon
<1> HIDE DEF u, t, f, w
<1>6. Parts(x, t, f)
  BY <1>1, <1>5, FrameHasParts DEF u
<1>7. /\ Rom!Writing(f) /\ (Rom!Complete(f) <=> q.bits = 0)
      /\ Rom!Addr(f) = a /\ Rom!Data(f) = w
  <2> HIDE DEF x, k
  <2>1. x \div Pow2(AddrBits) = OPCODE_WRITE /\ x % Pow2(AddrBits) = a
    BY <1>1 DEF Opcode, Address, x
  <2>2. /\ Rom!Writing(f) <=> x \div Pow2(AddrBits) = OPCODE_WRITE
        /\ Rom!Reading(f) \/ Rom!Writing(f) => (Rom!Complete(f) <=> Len(t) = DataBits)
    BY <1>1, <1>5, <1>6, LongFrame
  <2>3. Rom!Addr(f) = x % Pow2(AddrBits) /\ Rom!Data(f) = Value(t)
    BY <1>6 DEF Parts
  <2>4. Value(t) = w
    BY <1>3, <1>4, ValueOfBits DEF t
  <2> QED BY <1>3, <1>5, <2>1, <2>2, <2>3, <2>4, Zenon
<1>8. /\ z \in NvmState /\ z.mode = "DATAIN" /\ z.opaddr = x /\ z.mem = n.mem /\ z.bits = q.bits
      /\ z.data = w /\ z.pins = q.pins /\ a \in Nat /\ Address(q) = a /\ Opcode(z) = OPCODE_WRITE
  BY <1>1, <1>4, WordType DEF NvmState, Opcode, Address
<1>9. m = IF q.bits > 0 THEN z
          ELSE IF a < Size THEN opcode_mode([z EXCEPT !.mem[a] = w])
          ELSE opcode_mode(z)
  <2>1. (2 * q.data + Di(q)) % Pow2(DataBits) = w
    BY <1>1, <1>4 DEF w
  <2> DEFINE G(y, c) == IF q.bits > 0 THEN [q EXCEPT !.data = y]
                        ELSE IF c < Size THEN opcode_mode([[q EXCEPT !.data = y] EXCEPT !.mem[c] = y])
                        ELSE opcode_mode([q EXCEPT !.data = y])
  <2>2. m = G((2 * q.data + Di(q)) % Pow2(DataBits), Address(q))
    BY Zenon DEF shift_in
  <2>3. G(w, a) = IF q.bits > 0 THEN z
                  ELSE IF a < Size THEN opcode_mode([z EXCEPT !.mem[a] = w])
                  ELSE opcode_mode(z)
    BY Zenon
  <2>4. Address(q) = a
    BY <1>8
  <2> HIDE DEF G, a, m, z
  <2> QED BY <2>1, <2>2, <2>3, <2>4, Zenon
<1> HIDE DEF m, z, b, a
<1>10. Clocked(n, b, m) <=>
         /\ FrameOf(m) = IF Rom!Complete(f) THEN <<>> ELSE f
         /\ m.mem = IF Rom!Complete(f) /\ a < Size THEN [n.mem EXCEPT ![a] = w] ELSE n.mem
         /\ Output(m) = Output(n)
  <2>1. f = Append(FrameOf(n), IF Rom!Reading(FrameOf(n)) THEN 0 ELSE b)
    BY <1>2 DEF f
  <2> QED BY <1>2, <1>7, <2>1, Zenon DEF Clocked
<1>11. CASE q.bits = 0
  <2> DEFINE y == IF a < Size THEN [z EXCEPT !.mem[a] = w] ELSE z
  <2>1. m = opcode_mode(y)
    <3>1. ~(q.bits > 0)
      BY <1>3, <1>11
    <3> QED BY <1>9, <3>1
  <2>2. y \in NvmState /\ y.pins = q.pins /\ y.mem = IF a < Size THEN [n.mem EXCEPT ![a] = w] ELSE n.mem
    <3>1. CASE a < Size
      <4>1. a \in 0 .. Size - 1 /\ n.mem \in [0 .. Size - 1 -> 0 .. Pow2(DataBits) - 1]
        BY <1>1, <1>8, <3>1, NvmSizes DEF NvmState
      <4>2. [n.mem EXCEPT ![a] = w] \in [0 .. Size - 1 -> 0 .. Pow2(DataBits) - 1]
        BY <1>4, <4>1
      <4>3. y = [z EXCEPT !.mem = [n.mem EXCEPT ![a] = w]]
        BY <1>8, <3>1
      <4> HIDE DEF y
      <4> QED BY <1>8, <3>1, <4>2, <4>3 DEF NvmState
    <3>2. CASE ~(a < Size)
      BY <1>8, <3>2
    <3> QED BY <3>1, <3>2
  <2> HIDE DEF y
  <2>3. NvmInv(m) /\ FrameOf(m) = <<>> /\ m.mem = y.mem /\ m.pins = y.pins
    BY <2>1, <2>2, OpcodeMode
  <2>4. Output(m) = Output(n) /\ Inputs(m) = Inputs(q)
    BY <1>1, <2>2, <2>3 DEF Output, Inputs
  <2>5. Clocked(n, b, m)
    BY <1>7, <1>10, <1>11, <2>2, <2>3, <2>4, Zenon
  <2> QED BY <2>3, <2>4, <2>5 DEF m, b
<1>12. CASE q.bits # 0
  <2>1. m = z
    BY <1>3, <1>9, <1>12
  <2>2. m.bits \in 1 .. DataBits /\ DataBits - m.bits = k + 1
    BY <1>3, <1>8, <1>12, <2>1
  <2>3. NvmInv(m)
    <3>1. m \in NvmState /\ m.mode = "DATAIN" /\ m.opaddr < Pow2(OPADDR_BITS)
          /\ m.data < Pow2(DataBits - m.bits) /\ Opcode(m) = OPCODE_WRITE
      BY <1>1, <1>4, <1>8, <2>1, <2>2
    <3> QED BY <2>2, <3>1 DEF NvmInv
  <2>4. FrameOf(m) = f
    <3>1. FrameOf(m) = BitsOf(x, OPADDR_BITS) \o BitsOf(w, DataBits - m.bits)
      BY <1>8, <2>1 DEF FrameOf
    <3> QED BY <1>5, <2>2, <3>1 DEF u, t
  <2>5. Output(m) = Output(n) /\ Inputs(m) = Inputs(q) /\ m.mem = n.mem
    BY <1>1, <1>8, <2>1 DEF Output, Inputs
  <2>6. Clocked(n, b, m)
    BY <1>7, <1>10, <1>12, <2>4, <2>5
  <2> QED BY <2>3, <2>5, <2>6 DEF m, b
<1> QED BY <1>11, <1>12

(* A write to EECD of the pins v                                           *)
LEMMA WriteEecd ==
  ASSUME NEW n, NvmInv(n), NEW v \in SUBSET {"SK", "CS", "DI", "REQ"}
  PROVE  LET m == write_eecd(n, v)
             b == IF "DI" \in v THEN 1 ELSE 0
         IN  /\ NvmInv(m) /\ Inputs(m) = v
             /\ "SK" \in v \ Inputs(n) /\ "CS" \in v => Clocked(n, b, m)
             /\ ~("SK" \in v \ Inputs(n) /\ "CS" \in v) =>
                  FrameOf(m) = FrameOf(n) /\ m.mem = n.mem /\ Output(m) = Output(n)
<1> DEFINE m == write_eecd(n, v)
           b == IF "DI" \in v THEN 1 ELSE 0
           p == (n.pins \cap {"DO"}) \cup v \cup IF "REQ" \in v THEN {"GNT"} ELSE {}
           q == [n EXCEPT !.pins = (@ \cap {"DO"}) \cup v \cup IF "REQ" \in v THEN {"GNT"} ELSE {}]
           e == [q EXCEPT !.bits = @ - 1]
<1>1. /\ n \in NvmState /\ n.bits \in Nat /\ n.bits >= 1 /\ n.pins \in SUBSET {"SK", "CS", "DI", "REQ", "GNT", "DO"}
      /\ n.mode \in {"OPADDR", "DATAIN", "DATAOUT"}
  BY NvmSizes DEF NvmInv, NvmState
<1>2. /\ p \in SUBSET {"SK", "CS", "DI", "REQ", "GNT", "DO"} /\ p \ {"DO", "GNT"} = v
      /\ ("DO" \in p <=> "DO" \in n.pins) /\ ("DI" \in p <=> "DI" \in v)
  BY <1>1
<1>3. q = [n EXCEPT !.pins = p]
  OBVIOUS
<1> HIDE DEF p, q
<1>4. /\ q \in NvmState /\ q.mode = n.mode /\ q.bits = n.bits /\ q.opaddr = n.opaddr
      /\ q.data = n.data /\ q.mem = n.mem /\ q.pins = p
  BY <1>1, <1>2, <1>3 DEF NvmState
<1>5. Inputs(q) = v /\ Output(q) = Output(n) /\ Di(q) = b
  BY <1>2, <1>4 DEF Inputs, Output, Di
<1>6. ("SK" \in v \ Inputs(n)) <=> ("SK" \in v \ n.pins)
  BY DEF Inputs
<1>7. m = IF "SK" \in v \ n.pins /\ "CS" \in v THEN eecd_strobe(q) ELSE q
  BY Zenon DEF write_eecd, q
<1>8. CASE ~("SK" \in v \ n.pins /\ "CS" \in v)
  <2>1. m = q
    BY <1>7, <1>8, Zenon
  <2> HIDE DEF m
  <2>2. FrameOf(m) = FrameOf(n)
    BY <1>4, <2>1, Zenon DEF FrameOf
  <2>3. NvmInv(m)
    <3>1. Opcode(q) = Opcode(n) /\ WordOf(q) = WordOf(n)
      BY <1>4, Zenon DEF Opcode, WordOf, Address
    <3> QED BY <1>4, <2>1, <3>1 DEF NvmInv
  <2> QED BY <1>4, <1>5, <1>6, <1>8, <2>1, <2>2, <2>3, Zenon DEF m
<1>9. CASE "SK" \in v \ n.pins /\ "CS" \in v
  <2>1. m = eecd_strobe(q)
    BY <1>7, <1>9, Zenon
  <2>2. /\ e \in NvmState /\ e.mode = n.mode /\ e.bits = n.bits - 1 /\ e.opaddr = n.opaddr
        /\ e.data = n.data /\ e.mem = n.mem /\ e.pins = q.pins
    BY <1>1, <1>4 DEF NvmState
  <2>3. Output(e) = Output(n) /\ Inputs(e) = v /\ Di(e) = b
    BY <1>5, <2>2, Zenon DEF Output, Inputs, Di
  <2>4. Edge(n, e)
    BY <2>2, <2>3 DEF Edge
  <2> HIDE DEF m, b
  <2>5. NvmInv(m) /\ Clocked(n, b, m) /\ Inputs(m) = v
    <3>1. m = CASE q.mode = "DATAOUT" -> shift_out(e)
                [] q.mode = "DATAIN"  -> shift_in(e)
                [] q.mode = "OPADDR"  -> shift_opaddr(e)
      BY <2>1, Zenon DEF eecd_strobe
    <3> HIDE DEF e
    <3>2. CASE n.mode = "DATAOUT"
      <4>1. m = shift_out(e)
        BY <1>4, <3>1, <3>2
      <4>2. NvmInv(shift_out(e)) /\ Clocked(n, Di(e), shift_out(e)) /\ Inputs(shift_out(e)) = Inputs(e)
        BY <2>4, <3>2, ShiftOut
      <4> QED BY <2>3, <4>1, <4>2, Zenon
    <3>3. CASE n.mode = "DATAIN"
      <4>1. m = shift_in(e)
        BY <1>4, <3>1, <3>3
      <4>2. NvmInv(shift_in(e)) /\ Clocked(n, Di(e), shift_in(e)) /\ Inputs(shift_in(e)) = Inputs(e)
        BY <2>4, <3>3, ShiftIn
      <4> QED BY <2>3, <4>1, <4>2, Zenon
    <3>4. CASE n.mode = "OPADDR"
      <4>1. m = shift_opaddr(e)
        BY <1>4, <3>1, <3>4
      <4>2. NvmInv(shift_opaddr(e)) /\ Clocked(n, Di(e), shift_opaddr(e)) /\ Inputs(shift_opaddr(e)) = Inputs(e)
        BY <2>4, <3>4, ShiftOpaddr
      <4> QED BY <2>3, <4>1, <4>2, Zenon
    <3> QED BY <1>1, <3>2, <3>3, <3>4
  <2> QED BY <1>6, <1>9, <2>5, Zenon DEF m, b
<1> QED BY <1>8, <1>9

(* The checksum of e82545_init_eeprom                                      *)
LEMMA Checksum ==
  ASSUME NEW s \in Int
  PROVE  LET c == (NVM_SUM - s) % Pow2(DataBits)
         IN  c \in 0 .. Pow2(DataBits) - 1 /\ (s + c) % Pow2(DataBits) = NVM_SUM
<1>1. PICK w \in Nat : w = Pow2(DataBits) /\ w > 0
  BY NvmSizes, Powers
<1>2. PICK u \in Nat : u = NVM_SUM /\ u < w
  <2>1. NVM_SUM \in 0 .. Pow2(DataBits) - 1
    BY NvmAssumption
  <2> QED BY <1>1, <2>1
<1>3. PICK x \in Int : x = u - s
  OBVIOUS
<1>4. PICK a \in Int, c \in Nat : x = w * a + c /\ c < w /\ c = x % w
  BY <1>1, Division, Zenon
<1>5. s + c \in Int /\ -a \in Int /\ s + c = w * (-a) + u
  <2>1. w * (-a) = -(w * a)
    BY <1>1, <1>4
  <2>2. w * a \in Int
    BY <1>1, <1>4
  <2>3. x = w * a + c /\ x = u - s
    BY <1>3, <1>4, Zenon
  <2> QED BY <2>1, <2>2, <2>3
<1>6. (s + c) % w = u
  BY <1>1, <1>2, <1>5, Quotient
<1>7. c \in 0 .. w - 1
  BY <1>4
<1>8. c = (NVM_SUM - s) % Pow2(DataBits)
  BY <1>1, <1>2, <1>3, <1>4, Zenon
<1> QED BY <1>1, <1>2, <1>6, <1>7, <1>8, Zenon

Memories == [0 .. Size - 1 -> 0 .. Pow2(DataBits) - 1]

(* e82545_init_eeprom formats the memory.                                  *)
LEMMA InitEeprom ==
  ASSUME NEW mem \in Memories
  PROVE  LET m == init_eeprom(mem)
         IN  /\ m \in Memories /\ Rom!Formatted(m)
             /\ \A a \in 0 .. Size - 2 : a \in DOMAIN Fixed \/ m[a] = mem[a]
<1> DEFINE W == 0 .. Pow2(DataBits) - 1
           r == [a \in DOMAIN mem |-> IF a \in DOMAIN Fixed THEN Fixed[a] ELSE mem[a]]
           s == SumOf(r, Size - 1)
           c == (NVM_SUM - s) % Pow2(DataBits)
           m == init_eeprom(mem)
<1>1. /\ Size \in Nat /\ Size >= 2 /\ Size - 1 \in Nat /\ (Size - 1) + 1 = Size
      /\ \A a \in 0 .. Size - 2 : a \in 0 .. Size - 1 /\ a # Size - 1
      /\ Size - 1 \in 0 .. Size - 1 /\ \A k \in 1 .. Size : k - 1 \in 0 .. Size - 1
      /\ \A k \in 1 .. (Size - 1) : k - 1 \in 0 .. Size - 1 /\ k - 1 # Size - 1
  BY NvmSizes
<1>2. r \in Memories /\ DOMAIN Fixed \subseteq 0 .. Size - 2 /\ \A a \in DOMAIN Fixed : Fixed[a] \in W
  <2>1. DOMAIN Fixed \subseteq 0 .. Size - 2 /\ \A a \in DOMAIN Fixed : Fixed[a] \in W
    BY NvmAssumption
  <2>2. DOMAIN mem = 0 .. Size - 1 /\ \A a \in 0 .. Size - 1 : mem[a] \in W
    BY DEF Memories
  <2> HIDE DEF W
  <2>3. ASSUME NEW a \in 0 .. Size - 1 PROVE (IF a \in DOMAIN Fixed THEN Fixed[a] ELSE mem[a]) \in W
    BY <2>1, <2>2, Zenon
  <2>4. r \in [0 .. Size - 1 -> W]
    BY <2>2, <2>3
  <2> QED BY <2>1, <2>4 DEF W, Memories
<1>3. m = [r EXCEPT ![Size - 1] = c]
  BY Zenon DEF init_eeprom
<1>4. \A a \in 0 .. Size - 1 : r[a] = IF a \in DOMAIN Fixed THEN Fixed[a] ELSE mem[a]
  BY DEF Memories
<1> HIDE DEF r
<1>5. s \in Int /\ \A x : x \in W => x \in Int
  <2>0. \A x : x \in W => x \in Int
    OBVIOUS
  <2>1. \A a \in 0 .. Size - 1 : r[a] \in Int
    BY <1>2, <2>0 DEF Memories
  <2>2. \A k \in 1 .. ((Size - 1) + 1) : r[k - 1] \in Int
    BY <1>1, <2>1
  <2>3. \A k \in 1 .. (Size - 1) : r[k - 1] = r[k - 1]
    OBVIOUS
  <2>4. SumOf(r, Size - 1) \in Int
    BY <1>1, <2>2, <2>3, SumSteps
  <2> QED BY <2>0, <2>4
<1>6. c \in W /\ (s + c) % Pow2(DataBits) = NVM_SUM
  <2> HIDE DEF s
  <2> QED BY <1>5, Checksum
<1> HIDE DEF s, c, m
<1>7. m \in Memories /\ m[Size - 1] = c /\ \A a \in 0 .. Size - 1 : a # Size - 1 => m[a] = r[a]
  <2> HIDE DEF W
  <2>1. r \in [0 .. Size - 1 -> W]
    BY <1>2 DEF Memories, W
  <2>2. m \in [0 .. Size - 1 -> W]
    BY <1>3, <1>6, <2>1
  <2>3. m[Size - 1] = c
    BY <1>1, <1>3, <2>1
  <2>4. \A a \in 0 .. Size - 1 : a # Size - 1 => m[a] = r[a]
    BY <1>3, <2>1
  <2> QED BY <2>2, <2>3, <2>4 DEF Memories, W
<1>8. SumOf(m, Size) = s + c
  <2>1. \A k \in 1 .. ((Size - 1) + 1) : m[k - 1] \in Int
    <3>1. \A a \in 0 .. Size - 1 : m[a] \in W
      <4> HIDE DEF W
      <4> QED BY <1>7 DEF Memories, W
    <3> HIDE DEF W
    <3> QED BY <1>1, <1>5, <3>1
  <2>2. \A k \in 1 .. (Size - 1) : r[k - 1] = m[k - 1]
    BY <1>1, <1>7
  <2>3. SumOf(m, (Size - 1) + 1) = SumOf(r, Size - 1) + m[Size - 1]
    BY <1>1, <2>1, <2>2, SumSteps
  <2> QED BY <1>1, <1>7, <2>3 DEF s
<1>9. Rom!Formatted(m)
  <2>1. \A a \in DOMAIN Fixed : m[a] = Fixed[a]
    BY <1>1, <1>2, <1>4, <1>7
  <2>2. Rom!SumOf(m, Size) = SumOf(m, Size) /\ Rom!Pow2(DataBits) = Pow2(DataBits)
    BY DEF Rom!SumOf, SumOf, Rom!Pow2, Pow2
  <2> QED BY <1>6, <1>8, <2>1, <2>2 DEF Rom!Formatted
<1>10. \A a \in 0 .. Size - 2 : a \in DOMAIN Fixed \/ m[a] = mem[a]
  BY <1>1, <1>4, <1>7
<1> QED BY <1>7, <1>9, <1>10 DEF m

(* e82545_reset                                                            *)
LEMMA NvmReset ==
  ASSUME NEW n \in NvmState
  PROVE  LET m == nvm_reset(n)
         IN  /\ NvmInv(m) /\ Inputs(m) = {} /\ FrameOf(m) = <<>> /\ Output(m) = 0
             /\ m.mem = init_eeprom(n.mem) /\ m.mem \in Memories
<1> DEFINE m == nvm_reset(n)
           e == init_eeprom(n.mem)
           y == [n EXCEPT !.pins = {}, !.mem = e]
<1>1. e \in Memories
  <2>1. n.mem \in Memories
    BY DEF NvmState, Memories
  <2> QED BY <2>1, InitEeprom
<1>2. m = opcode_mode(y)
  <2> HIDE DEF e
  <2>1. m = [opcode_mode(n) EXCEPT !.pins = {}, !.mem = e]
    BY Zenon DEF nvm_reset, e
  <2> QED BY <2>1 DEF opcode_mode, NvmState
<1>3. y \in NvmState /\ y.pins = {} /\ y.mem = e
  <2> HIDE DEF e
  <2> QED BY <1>1 DEF NvmState, Memories
<1> HIDE DEF m, y, e
<1>4. NvmInv(m) /\ FrameOf(m) = <<>> /\ m.mem = e /\ m.pins = {}
  BY <1>2, <1>3, OpcodeMode
<1>5. Inputs(m) = {} /\ Output(m) = 0
  BY <1>4 DEF Inputs, Output
<1> QED BY <1>1, <1>4, <1>5 DEF m, e

(* The words are those of the EEPROM.                                      *)
LEMMA RomWords == [0 .. Size - 1 -> Rom!Words] = Memories
<1>1. Rom!Words = 0 .. Pow2(DataBits) - 1
  BY DEF Rom!Words, Rom!Pow2, Pow2
<1> QED BY <1>1 DEF Memories

(* The device starts as an EEPROM ...                                      *)
LEMMA RomInitial == RegInit => NvmInv(nvm) /\ Rom!EepromInit
<1> SUFFICES ASSUME RegInit PROVE NvmInv(nvm) /\ Rom!EepromInit
  OBVIOUS
<1> DEFINE z == [a \in 0 .. Size - 1 |-> 0]
           n == [mode |-> "OPADDR", bits |-> 0, opaddr |-> 0, data |-> 0, mem |-> z, pins |-> {}]
<1>1. nvm = nvm_reset(n)
  BY DEF RegInit, InitNvm
<1>2. z \in Memories
  <2>1. 0 \in 0 .. Pow2(DataBits) - 1
    BY NvmSizes, Powers
  <2> QED BY <2>1 DEF Memories
<1>3. n \in NvmState /\ n.mem = z
  <2> HIDE DEF z
  <2> QED BY <1>2 DEF NvmState, Memories
<1> HIDE DEF n, z
<1>4. /\ NvmInv(nvm) /\ Inputs(nvm) = {} /\ FrameOf(nvm) = <<>> /\ Output(nvm) = 0
      /\ nvm.mem = init_eeprom(z) /\ nvm.mem \in Memories
  BY <1>1, <1>3, NvmReset
<1>5. Rom!Formatted(nvm.mem)
  BY <1>2, <1>4, InitEeprom
<1> QED BY <1>4, <1>5, RomWords, Zenon DEF Rom!EepromInit

(* ... and each of its steps is one of the EEPROM, or leaves it alone.     *)
LEMMA RomStep ==
  NvmInv(nvm) /\ [RegNext]_regVars => NvmInv(nvm)' /\ [Rom!EepromNext]_Rom!eepromVars
<1> SUFFICES ASSUME NvmInv(nvm), [RegNext]_regVars
             PROVE  NvmInv(nvm') /\ [Rom!EepromNext]_Rom!eepromVars
  BY Zenon
<1>1. CASE UNCHANGED nvm
  <2>1. NvmInv(nvm')
    BY <1>1
  <2>2. UNCHANGED Rom!eepromVars
    BY <1>1 DEF Rom!eepromVars
  <2> QED BY <2>1, <2>2
<1>2. ASSUME NEW v \in SUBSET {"SK", "CS", "DI", "REQ"}, WriteEECD(v)
      PROVE  NvmInv(nvm') /\ Rom!EepromNext
  <2> DEFINE b == IF "DI" \in v THEN 1 ELSE 0
  <2>1. nvm' = write_eecd(nvm, v)
    BY <1>2 DEF WriteEECD
  <2>2. /\ NvmInv(nvm') /\ Inputs(nvm') = v
        /\ "SK" \in v \ Inputs(nvm) /\ "CS" \in v => Clocked(nvm, b, nvm')
        /\ ~("SK" \in v \ Inputs(nvm) /\ "CS" \in v) =>
             FrameOf(nvm') = FrameOf(nvm) /\ nvm'.mem = nvm.mem /\ Output(nvm') = Output(nvm)
    BY <2>1, WriteEecd, Zenon
  <2>3. CASE "SK" \in v \ Inputs(nvm) /\ "CS" \in v
    <3>1. Clocked(nvm, b, nvm')
      BY <2>2, <2>3
    <3>2. \A a : Rom!Word(a) = WordAt(nvm.mem, a)
      BY Zenon DEF Rom!Word, WordAt
    <3>3. \A x, k : Rom!BitsOf(x, k) = BitsOf(x, k)
      BY Zenon DEF Rom!BitsOf, BitsOf, Rom!Pow2, Pow2
    <3>4. Rom!OpAddrLen = OPADDR_BITS
      BY NvmSizes
    <3>5. Rom!Clock(v)
      BY <2>2, <2>3, <3>1, <3>2, <3>3, <3>4, Zenon DEF Rom!Clock, Clocked
    <3> QED BY <2>2, <3>5, Zenon DEF Rom!EepromNext
  <2>4. CASE ~("SK" \in v \ Inputs(nvm) /\ "CS" \in v)
    <3>1. Rom!NoClock(v)
      BY <2>2, <2>4, Zenon DEF Rom!NoClock
    <3> QED BY <2>2, <3>1, Zenon DEF Rom!EepromNext
  <2> QED BY <2>3, <2>4
<1>3. CASE nvm' = nvm_reset(nvm)
  <2>1. nvm \in NvmState /\ nvm.mem \in Memories
    BY DEF NvmInv, NvmState, Memories
  <2>2. /\ NvmInv(nvm') /\ Inputs(nvm') = {} /\ FrameOf(nvm') = <<>> /\ Output(nvm') = 0
        /\ nvm'.mem = init_eeprom(nvm.mem) /\ nvm'.mem \in Memories
    BY <1>3, <2>1, NvmReset
  <2>3. /\ Rom!Formatted(nvm'.mem)
        /\ \A a \in 0 .. Size - 2 : a \in DOMAIN Fixed \/ nvm'.mem[a] = nvm.mem[a]
    BY <2>1, <2>2, InitEeprom
  <2>4. Rom!Restart
    BY <2>2, <2>3, RomWords, Zenon DEF Rom!Restart
  <2> QED BY <2>2, <2>4, Zenon DEF Rom!EepromNext
<1>4. CASE IntrStep
  BY <1>1, <1>4 DEF IntrStep
<1>5. CASE EepromStep
  BY <1>2, <1>5 DEF EepromStep
<1>6. CASE PlainStep
  <2>1. UNCHANGED nvm
    BY <1>6 DEF PlainStep, WritePlain, WriteMDIC
  <2> QED BY <1>1, <2>1
<1>7. CASE RingStep
  <2>1. UNCHANGED nvm
    BY <1>7 DEF RingStep, WriteBAL, WriteBAH, WriteRingCtl
  <2> QED BY <1>1, <2>1
<1>8. CASE FilterStep
  <2>1. UNCHANGED nvm
    BY <1>8 DEF FilterStep, WriteRA, ReadRA
  <2> QED BY <1>1, <2>1
<1>9. ASSUME NEW v \in Values, NEW rst \in BOOLEAN, WriteCTRL(v, rst)
      PROVE  NvmInv(nvm') /\ [Rom!EepromNext]_Rom!eepromVars
  <2>1. nvm' = nvm_reset(nvm) \/ UNCHANGED nvm
    BY <1>9 DEF WriteCTRL
  <2> QED BY <1>1, <1>3, <2>1
<1>10. CASE UNCHANGED regVars
  BY <1>1, <1>10 DEF regVars
<1> QED BY <1>4, <1>5, <1>6, <1>7, <1>8, <1>9, <1>10 DEF RegNext

(* The bit-serial state machine of pci_e82545.c (e82545_eecd_strobe, the   *)
(* writes to EECD, e82545_init_eeprom and the resets) is an EEPROM as the  *)
(* host sees one, for every width of the addresses and of the words.       *)
THEOREM EepromRefined == RegSpec => EepromSpec
<1>1. RegInit => NvmInv(nvm) /\ Rom!EepromInit
  BY RomInitial
<1>2. NvmInv(nvm) /\ [RegNext]_regVars => NvmInv(nvm)' /\ [Rom!EepromNext]_Rom!eepromVars
  BY RomStep
<1> QED BY <1>1, <1>2, PTL DEF RegSpec, EepromSpec, Rom!EepromSpec
=============================================================================

----------------------------- MODULE AhciProofs -----------------------------
(***************************************************************************)
(* Proofs about the AHCI port, for any number of command slots, any        *)
(* commands and, but for two theorems that say so, any host; and about the *)
(* data of its commands (AhciPrdt), for tables and sectors of any size.    *)
(***************************************************************************)
EXTENDS Ahci, AhciPrdt, TLAPS, SequenceTheorems, FiniteSetTheorems, WellFoundedInduction

(* The interrupt line of a port: InterruptLevel, of any port               *)
Level(p) ==
  /\ Enabled(p) # {} => p.gis
  /\ p.lintr <=> p.gis /\ p.gie

(* What the functions that post a FIS leave alone                          *)
Kept(p, q) ==
  /\ q.st = p.st /\ q.fre = p.fre /\ q.pending = p.pending
  /\ q.ie = p.ie /\ q.gie = p.gie

(* ahci_port_intr raises the line for what is enabled, and nothing else.   *)
LEMMA PortIntrProperties ==
  ASSUME NEW p \in PortState, p.lintr <=> p.gis /\ p.gie
  PROVE  LET q == port_intr(p)
         IN  /\ q \in PortState /\ Level(q) /\ Kept(p, q)
             /\ q.ci = p.ci /\ q.busy = p.busy /\ q.waitforclear = p.waitforclear
             /\ q.is = p.is
BY DEF port_intr, PortState, Level, Kept, Enabled

(* ahci_write_fis: the causes are recorded and signalled, and an error     *)
(* stops the port, if the host takes FISes.                                *)
LEMMA WriteFisProperties ==
  ASSUME NEW p \in PortState, Level(p), NEW irq \in SUBSET Causes, NEW error \in BOOLEAN
  PROVE  LET q == write_fis(p, irq, error)
         IN  /\ q \in PortState /\ Level(q) /\ Kept(p, q)
             /\ q.ci = p.ci /\ q.busy = p.busy
             /\ q.waitforclear <=> p.waitforclear \/ (error /\ p.fre)
             /\ p.fre => irq \subseteq q.is
<1> DEFINE causes == IF error THEN irq \cup {"TFE"} ELSE irq
           r == [p EXCEPT !.waitforclear = p.waitforclear \/ error]
           s == [r EXCEPT !.is = p.is \cup causes]
<1>1. causes \in SUBSET Causes /\ irq \subseteq causes
  BY DEF Causes
<1>2. /\ r \in PortState /\ Kept(p, r) /\ Level(r)
      /\ r.ci = p.ci /\ r.busy = p.busy /\ r.is = p.is
      /\ r.waitforclear = (p.waitforclear \/ error)
  BY DEF PortState, Kept, Level, Enabled
<1>3. /\ s \in PortState /\ Kept(p, s) /\ s.lintr = p.lintr /\ s.gis = p.gis
      /\ s.ci = p.ci /\ s.busy = p.busy /\ s.is = p.is \cup causes
      /\ s.waitforclear = (p.waitforclear \/ error)
  BY <1>1 DEF PortState, Kept
<1>4. write_fis(p, irq, error)
        = IF ~p.fre THEN p ELSE IF causes \subseteq p.is THEN r ELSE port_intr(s)
  BY DEF write_fis
<1> HIDE DEF causes, r, s
<1>5. LET q == port_intr(s)
      IN  /\ q \in PortState /\ Level(q) /\ Kept(s, q)
          /\ q.ci = s.ci /\ q.busy = s.busy /\ q.waitforclear = s.waitforclear
          /\ q.is = s.is
  BY <1>3, PortIntrProperties DEF Level, Kept
<1>6. CASE ~p.fre
  BY <1>6, <1>4 DEF Kept
<1>7. CASE p.fre /\ causes \subseteq p.is
  BY <1>7, <1>1, <1>2, <1>4
<1>8. CASE p.fre /\ ~(causes \subseteq p.is)
  BY <1>8, <1>1, <1>3, <1>4, <1>5 DEF Kept
<1> QED BY <1>6, <1>7, <1>8

(* The end of an NCQ command clears no bit of PxCI.                        *)
LEMMA SdbProperties ==
  ASSUME NEW p \in PortState, Level(p), NEW s \in Slots, NEW error \in BOOLEAN
  PROVE  LET q == write_fis_sdb(p, s, error)
         IN  /\ q \in PortState /\ Level(q) /\ Kept(p, q)
             /\ q.ci = p.ci /\ q.busy = p.busy
             /\ q.waitforclear <=> p.waitforclear \/ (error /\ p.fre)
             /\ p.fre => "SDB" \in q.is
<1> DEFINE r == [p EXCEPT !.sact = IF error THEN p.sact ELSE p.sact \ {s}, !.err = error]
<1>1. /\ r \in PortState /\ Level(r) /\ Kept(p, r)
      /\ r.ci = p.ci /\ r.busy = p.busy /\ r.waitforclear = p.waitforclear
  BY DEF PortState, Level, Kept, Enabled
<1>2. write_fis_sdb(p, s, error) = write_fis(r, {"SDB"}, error)
  BY DEF write_fis_sdb
<1>3. {"SDB"} \in SUBSET Causes
  BY DEF Causes
<1> HIDE DEF r
<1> QED BY <1>1, <1>2, <1>3, WriteFisProperties DEF Kept

(* The end of another command clears its bit, if it has not failed.        *)
LEMMA D2hProperties ==
  ASSUME NEW p \in PortState, Level(p), NEW s \in Slots, NEW error \in BOOLEAN
  PROVE  LET q == write_fis_d2h(p, s, error)
         IN  /\ q \in PortState /\ Level(q) /\ Kept(p, q)
             /\ error => q.ci = p.ci
             /\ ~error => q.ci = p.ci \ {s}
             /\ ~q.busy
             /\ q.waitforclear <=> p.waitforclear \/ (error /\ p.fre)
             /\ p.fre => "DHR" \in q.is
<1> DEFINE r == [p EXCEPT !.ci = IF error THEN p.ci ELSE p.ci \ {s},
                          !.busy = FALSE, !.err = error]
<1>1. /\ r \in PortState /\ Level(r) /\ Kept(p, r)
      /\ r.ci = (IF error THEN p.ci ELSE p.ci \ {s})
      /\ ~r.busy /\ r.waitforclear = p.waitforclear
  BY DEF PortState, Level, Kept, Enabled
<1>2. write_fis_d2h(p, s, error) = write_fis(r, {"DHR"}, error)
  BY DEF write_fis_d2h
<1>3. {"DHR"} \in SUBSET Causes
  BY DEF Causes
<1> HIDE DEF r
<1> QED BY <1>1, <1>2, <1>3, WriteFisProperties DEF Kept

(* An NCQ command that is accepted leaves PxCI.                            *)
LEMMA NcqProperties ==
  ASSUME NEW p \in PortState, Level(p), NEW s \in Slots
  PROVE  LET q == write_fis_d2h_ncq(p, s)
         IN  /\ q \in PortState /\ Level(q) /\ Kept(p, q)
             /\ q.ci = p.ci \ {s} /\ ~q.busy
             /\ q.waitforclear = p.waitforclear
<1> DEFINE r == [p EXCEPT !.ci = p.ci \ {s}, !.busy = FALSE, !.err = FALSE]
<1>1. /\ r \in PortState /\ Level(r) /\ Kept(p, r)
      /\ r.ci = p.ci \ {s} /\ ~r.busy /\ r.waitforclear = p.waitforclear
  BY DEF PortState, Level, Kept, Enabled
<1>2. write_fis_d2h_ncq(p, s) = write_fis(r, {}, FALSE)
  BY DEF write_fis_d2h_ncq
<1>3. {} \in SUBSET Causes
  OBVIOUS
<1> HIDE DEF r
<1>4. LET q == write_fis(r, {}, FALSE)
      IN  /\ q \in PortState /\ Level(q) /\ Kept(r, q)
          /\ q.ci = r.ci /\ q.busy = r.busy
          /\ q.waitforclear <=> r.waitforclear \/ (FALSE /\ r.fre)
  <2>1. FALSE \in BOOLEAN
    OBVIOUS
  <2> QED BY <2>1, <1>1, <1>3, WriteFisProperties
<1>5. write_fis(r, {}, FALSE).waitforclear \in BOOLEAN /\ r.waitforclear \in BOOLEAN
  BY <1>1, <1>4 DEF PortState
<1> QED BY <1>1, <1>2, <1>4, <1>5 DEF Kept

(* ahci_check_stopped only changes a port that is stopped and has nothing  *)
(* in flight.                                                              *)
LEMMA CheckStoppedProperties ==
  ASSUME NEW p \in PortState, Level(p)
  PROVE  LET q == check_stopped(p)
         IN  /\ q \in PortState /\ Level(q) /\ Kept(p, q) /\ q.busy = p.busy
             /\ q.is = p.is /\ q.lintr = p.lintr
             /\ p.st \/ p.pending # {} => q = p
             /\ ~p.st /\ p.pending = {} => q.ci = {} /\ ~q.waitforclear
<1> DEFINE r == [p EXCEPT !.ccs = 0, !.cr = FALSE, !.ci = {}, !.sact = {}, !.waitforclear = FALSE]
<1>1. CASE p.st \/ p.pending # {}
  <2>1. check_stopped(p) = p
    BY <1>1 DEF check_stopped
  <2> QED BY <1>1, <2>1 DEF Kept
<1>2. CASE ~p.st /\ p.pending = {}
  <2>1. check_stopped(p) = r
    BY <1>2 DEF check_stopped
  <2>2. 0 \in Slots
    BY NSlotsAssumption DEF Slots
  <2>3. r \in PortState /\ r.ci = {} /\ ~r.waitforclear
    BY <2>2 DEF PortState
  <2>4. /\ r.busy = p.busy /\ r.is = p.is /\ r.lintr = p.lintr /\ r.st = p.st
        /\ r.pending = p.pending /\ r.ie = p.ie /\ r.gis = p.gis /\ r.gie = p.gie
        /\ r.fre = p.fre
    BY DEF PortState
  <2> HIDE DEF r
  <2>5. Level(r) /\ Kept(p, r)
    BY <2>3, <2>4 DEF Level, Kept, Enabled
  <2> QED BY <1>2, <2>1, <2>3, <2>4, <2>5
<1> QED BY <1>1, <1>2

(* A set of natural numbers that is not empty has a least element.         *)
LEMMA LeastNat ==
  ASSUME NEW T \in SUBSET Nat, T # {}
  PROVE  \E x \in T : \A y \in T : x <= y
<1>1. \E x \in T : \A y \in T : ~ (<<y, x>> \in OpToRel(<, Nat))
  BY NatLessThanWellFounded, WFMin
<1>2. PICK x \in T : \A y \in T : ~ (<<y, x>> \in OpToRel(<, Nat))
  BY <1>1
<1>3. ASSUME NEW y \in T PROVE x <= y
  <2>1. <<y, x>> \in Nat \X Nat /\ <<y, x>>[1] = y /\ <<y, x>>[2] = x
    OBVIOUS
  <2>2. ~(y < x)
    BY <1>2, <2>1 DEF OpToRel
  <2> QED BY <2>2
<1> QED BY <1>3

(* NextSlot takes a slot that is issued and not in flight, wherever ccs is *)
(* in the ring of slots.                                                   *)
LEMMA NextSlotProperties ==
  ASSUME NEW p \in PortState, p.ci \ p.pending # {}
  PROVE  NextSlot(p) \in p.ci \ p.pending
<1> DEFINE free == p.ci \ p.pending
           far(s) == (s - p.ccs) % NSlots
<1>1. free \subseteq Slots /\ p.ccs \in Slots
  BY DEF PortState
<1>2. \A s \in free : far(s) \in Nat
  BY <1>1, NSlotsAssumption DEF Slots
<1>3. {far(s) : s \in free} \in SUBSET Nat /\ {far(s) : s \in free} # {}
  BY <1>2
<1>4. \E s \in free : \A t \in free : far(s) <= far(t)
  <2> DEFINE T == {far(s) : s \in free}
  <2>1. T \in SUBSET Nat /\ T # {}
    BY <1>3
  <2> HIDE DEF T
  <2>2. PICK x \in T : \A y \in T : x <= y
    BY <2>1, LeastNat
  <2>3. PICK s \in free : x = far(s)
    BY DEF T
  <2>4. \A t \in free : far(t) \in T
    BY DEF T
  <2> QED BY <2>2, <2>3, <2>4
<1> HIDE DEF free
<1> QED BY <1>4 DEF NextSlot, free

(***************************************************************************)
(* The inductive invariant: AhciInv with InterruptLevel.  In the place of  *)
(* the cardinality of the slots in the queue it has that every slot is     *)
(* queued once, so that the end of a command ends it for good.             *)
(***************************************************************************)
QueuedOnce      == \A i, j \in DOMAIN queue : queue[i] = queue[j] => i = j
PendingQueued   == port.pending = QueuedSlots
IssuedUntilEnd  == \A s \in QueuedSlots : s \in port.ci <=> ~table[s].ncq

IInv ==
  /\ TypeOK
  /\ QueuedOnce
  /\ PendingQueued
  /\ IssuedUntilEnd
  /\ BusyWithCommand
  /\ NothingLeft
  /\ InterruptLevel

(* A slot that is not queued yet joins the queue.                          *)
LEMMA QueueAppend ==
  ASSUME TypeOK, QueuedOnce, NEW s \in Slots, s \notin QueuedSlots,
         queue' = Append(queue, s)
  PROVE  queue' \in Seq(Slots) /\ QueuedOnce' /\ QueuedSlots' = QueuedSlots \cup {s}
<1> DEFINE n == Len(queue)
<1>1. queue \in Seq(Slots) /\ n \in Nat /\ DOMAIN queue = 1 .. n
  BY LenProperties DEF TypeOK
<1>2. /\ queue' \in Seq(Slots) /\ DOMAIN queue' = 1 .. (n + 1)
      /\ \A i \in 1 .. n : queue'[i] = queue[i]
      /\ queue'[n + 1] = s
  BY <1>1, AppendProperties, LenProperties
<1> HIDE DEF n
<1>3. \A i \in 1 .. n : queue[i] # s
  BY <1>1 DEF QueuedSlots
<1>4. QueuedOnce'
  BY <1>1, <1>2, <1>3 DEF QueuedOnce
<1>5. \A t : t \in QueuedSlots' <=> t \in QueuedSlots \cup {s}
  <2> SUFFICES ASSUME NEW t PROVE t \in QueuedSlots' <=> t \in QueuedSlots \cup {s}
    OBVIOUS
  <2>1. t \in QueuedSlots' <=> \E i \in 1 .. (n + 1) : t = queue'[i]
    BY <1>2 DEF QueuedSlots
  <2>2. t \in QueuedSlots <=> \E i \in 1 .. n : t = queue[i]
    BY <1>1 DEF QueuedSlots
  <2>3. (\E i \in 1 .. (n + 1) : t = queue'[i]) <=> (\E i \in 1 .. n : t = queue[i]) \/ t = s
    BY <1>1, <1>2
  <2> QED BY <2>1, <2>2, <2>3
<1> QED BY <1>2, <1>4, <1>5

(* blockif_dequeue takes the oldest slot, which is not queued again.       *)
LEMMA QueueTail ==
  ASSUME TypeOK, QueuedOnce, queue # <<>>, queue' = Tail(queue)
  PROVE  /\ queue' \in Seq(Slots) /\ QueuedOnce'
         /\ Head(queue) \in QueuedSlots /\ Head(queue) \in Slots
         /\ QueuedSlots' = QueuedSlots \ {Head(queue)}
<1> DEFINE n == Len(queue)
<1>1. queue \in Seq(Slots) /\ n \in Nat /\ n >= 1 /\ DOMAIN queue = 1 .. n
  BY LenProperties, EmptySeq DEF TypeOK
<1>2. /\ queue' \in Seq(Slots) /\ DOMAIN queue' = 1 .. (n - 1)
      /\ \A i \in 1 .. (n - 1) : queue'[i] = queue[i + 1]
      /\ Head(queue) = queue[1] /\ queue[1] \in Slots
  BY <1>1, HeadTailProperties, LenProperties, ElementOfSeq
<1> HIDE DEF n
<1>3. QueuedOnce'
  BY <1>1, <1>2 DEF QueuedOnce
<1>4. \A i \in 1 .. n : queue[i] = queue[1] => i = 1
  BY <1>1 DEF QueuedOnce
<1>5. \A t : t \in QueuedSlots' <=> t \in QueuedSlots \ {queue[1]}
  <2> SUFFICES ASSUME NEW t PROVE t \in QueuedSlots' <=> t \in QueuedSlots \ {queue[1]}
    OBVIOUS
  <2>1. t \in QueuedSlots' <=> \E i \in 1 .. (n - 1) : t = queue'[i]
    BY <1>2 DEF QueuedSlots
  <2>2. t \in QueuedSlots <=> \E i \in 1 .. n : t = queue[i]
    BY <1>1 DEF QueuedSlots
  <2>3. ASSUME NEW i \in 1 .. (n - 1), t = queue'[i]
        PROVE  t \in QueuedSlots /\ t # queue[1]
    <3>1. i + 1 \in 1 .. n /\ i + 1 # 1 /\ t = queue[i + 1]
      BY <1>1, <1>2, <2>3
    <3> QED BY <3>1, <1>4, <2>2
  <2>4. ASSUME NEW i \in 1 .. n, t = queue[i], t # queue[1]
        PROVE  \E j \in 1 .. (n - 1) : t = queue'[j]
    <3>1. i - 1 \in 1 .. (n - 1) /\ queue'[i - 1] = queue[i]
      <4>1. i # 1
        BY <2>4
      <4>2. i - 1 \in 1 .. (n - 1) /\ (i - 1) + 1 = i
        BY <4>1, <1>1
      <4> QED BY <4>2, <1>2
    <3> QED BY <3>1, <2>4
  <2> QED BY <2>1, <2>2, <2>3, <2>4
<1>6. queue[1] \in QueuedSlots
  BY <1>1 DEF QueuedSlots
<1> QED BY <1>2, <1>3, <1>5, <1>6

(* Each slot needs one ahci_ioreq at a time: there are enough of them.     *)
LEMMA QueueLength ==
  ASSUME TypeOK, QueuedOnce
  PROVE  /\ Len(queue) = Cardinality(QueuedSlots)
         /\ \A s \in Slots \ QueuedSlots : Len(queue) < NSlots
<1> DEFINE n == Len(queue)
<1>1. queue \in Seq(Slots) /\ n \in Nat /\ DOMAIN queue = 1 .. n
  BY LenProperties DEF TypeOK
<1>2. queue \in [1 .. n -> QueuedSlots] /\ QueuedSlots \subseteq Slots
  BY <1>1, ElementOfSeq DEF QueuedSlots
<1>3. queue \in Bijection(1 .. n, QueuedSlots)
  <2>1. \A t \in QueuedSlots : \E i \in 1 .. n : queue[i] = t
    BY <1>1 DEF QueuedSlots
  <2>2. \A i, j \in 1 .. n : queue[i] = queue[j] => i = j
    BY <1>1 DEF QueuedOnce
  <2> HIDE DEF n
  <2> QED BY <1>2, <2>1, <2>2 DEF Bijection, Injection, Surjection, IsInjective
<1>4. IsFiniteSet(1 .. n) /\ Cardinality(1 .. n) = n
  BY <1>1, FS_Interval
<1>5. n = Cardinality(QueuedSlots) /\ IsFiniteSet(QueuedSlots)
  BY <1>3, <1>4, FS_Bijection DEF ExistsBijection
<1>6. IsFiniteSet(Slots) /\ Cardinality(Slots) = NSlots
  BY FS_Interval, NSlotsAssumption DEF Slots
<1>7. ASSUME NEW s \in Slots \ QueuedSlots PROVE n < NSlots
  <2>1. QueuedSlots \in SUBSET Slots /\ QueuedSlots # Slots
    BY <1>2
  <2>2. Cardinality(QueuedSlots) <= NSlots /\ Cardinality(QueuedSlots) # NSlots
    BY <2>1, <1>6, FS_Subset
  <2> QED BY <2>2, <1>5, <1>1, NSlotsAssumption
<1> QED BY <1>5, <1>7

(* A write of the host while dm_loop is idle leaves nothing to start, as   *)
(* long as it issues no command and does not start the port.               *)
LEMMA WriteKeeps ==
  ASSUME IInv, NEW p \in PortState, Level(p),
         p.ci = port.ci, p.pending = port.pending, p.waitforclear = port.waitforclear,
         p.st => port.st, ~p.st \/ p.busy = port.busy, p.busy => port.busy,
         pc = "idle", pc' = "thr", port' = p, UNCHANGED <<table, queue>>, failed' \in BOOLEAN
  PROVE  IInv'
<1>1. QueuedSlots' = QueuedSlots
  BY DEF QueuedSlots
<1>2. ~Runnable(p)
  BY DEF IInv, NothingLeft, Runnable
<1> QED
  BY <1>1, <1>2 DEF IInv, TypeOK, QueuedOnce, PendingQueued, IssuedUntilEnd,
                    BusyWithCommand, NothingLeft, InterruptLevel, Level

(* The registers of the interrupts, PxSACT and the resets                  *)
LEMMA QuietWrites ==
  ASSUME IInv,
         \/ \E S \in Masks : WriteIS(S) \/ WriteIE(S)
         \/ WriteGIS
         \/ \E ie \in BOOLEAN : WriteGHC(ie)
         \/ \E S \in SUBSET Slots : WriteSACT(S)
         \/ HbaReset
         \/ WriteSCTL
  PROVE  IInv'
<1>t. port \in PortState /\ Level(port) /\ failed \in BOOLEAN
  BY DEF IInv, TypeOK, InterruptLevel, Level
<1>1. ASSUME NEW S \in Masks, WriteIS(S) \/ WriteIE(S)
      PROVE  IInv'
  <2> DEFINE p == IF WriteIS(S) THEN [port EXCEPT !.is = @ \ S] ELSE [port EXCEPT !.ie = S]
  <2>1. S \in SUBSET Causes
    BY MasksAssumption
  <2>2. p \in PortState /\ (p.lintr <=> p.gis /\ p.gie)
    BY <1>t, <2>1 DEF PortState, Level
  <2>3. /\ p.ci = port.ci /\ p.pending = port.pending /\ p.st = port.st
        /\ p.waitforclear = port.waitforclear /\ p.busy = port.busy
    BY <1>t DEF PortState
  <2>4. pc = "idle" /\ pc' = "thr" /\ port' = port_intr(p) /\ UNCHANGED <<table, queue, failed>>
    BY <1>1 DEF WriteIS, WriteIE, Write
  <2> HIDE DEF p
  <2> QED BY <1>t, <2>2, <2>3, <2>4, PortIntrProperties, WriteKeeps DEF Kept
<1>2. ASSUME NEW p, \/ p = [port EXCEPT !.gis = FALSE]
                    \/ \E ie \in BOOLEAN : p = [port EXCEPT !.gie = ie],
             Write(generate_intr(p))
      PROVE  IInv'
  <2> DEFINE q == generate_intr(p)
  <2>1. /\ p \in PortState
        /\ p.ci = port.ci /\ p.pending = port.pending /\ p.st = port.st
        /\ p.waitforclear = port.waitforclear /\ p.busy = port.busy
    BY <1>t, <1>2 DEF PortState
  <2>2. /\ q \in PortState /\ Level(q)
        /\ q.ci = p.ci /\ q.pending = p.pending /\ q.st = p.st
        /\ q.waitforclear = p.waitforclear /\ q.busy = p.busy
    BY <2>1 DEF generate_intr, PortState, Level, Enabled
  <2> HIDE DEF q
  <2> QED BY <1>t, <1>2, <2>1, <2>2, WriteKeeps DEF Write, q
<1>3. ASSUME NEW S \in SUBSET Slots, WriteSACT(S)
      PROVE  IInv'
  <2> DEFINE p == [port EXCEPT !.sact = @ \cup S]
  <2>1. /\ p \in PortState /\ Level(p)
        /\ p.ci = port.ci /\ p.pending = port.pending /\ p.st = port.st
        /\ p.waitforclear = port.waitforclear /\ p.busy = port.busy
    BY <1>t DEF PortState, Level, Enabled
  <2> HIDE DEF p
  <2> QED BY <1>t, <1>3, <2>1, WriteKeeps DEF WriteSACT, Write, p
<1>4. ASSUME HbaReset
      PROVE  IInv'
  <2> DEFINE p == ahci_reset(port)
  <2>1. /\ p \in PortState /\ Level(p)
        /\ p.ci = port.ci /\ p.pending = port.pending
        /\ p.waitforclear = port.waitforclear /\ ~p.st /\ ~p.busy
    BY <1>t DEF ahci_reset, port_reset, PortState, Level, Enabled
  <2> HIDE DEF p
  <2> QED BY <1>4, <2>1, WriteKeeps DEF HbaReset, p
<1>5. ASSUME WriteSCTL
      PROVE  IInv'
  <2> DEFINE p == IF port.st THEN port ELSE port_reset(port)
  <2>1. /\ p \in PortState /\ Level(p)
        /\ p.ci = port.ci /\ p.pending = port.pending /\ p.st = port.st
        /\ p.waitforclear = port.waitforclear
        /\ p.st => p.busy = port.busy
        /\ p.busy => port.busy
    BY <1>t DEF port_reset, PortState, Level, Enabled
  <2> HIDE DEF p
  <2> QED BY <1>t, <1>5, <2>1, WriteKeeps DEF WriteSCTL, Write, p
<1> QED
  BY <1>1, <1>2, <1>3, <1>4, <1>5 DEF WriteGIS, WriteGHC

(* Commands are issued while nothing is in flight.                         *)
LEMMA WriteCIKeeps ==
  ASSUME IInv, NEW S \in SUBSET Slots, NEW cmd \in [S -> Cmds], WriteCI(S, cmd)
  PROVE  IInv'
<1>1. /\ pc = "idle" /\ pc' = "mmio" /\ queue = <<>> /\ queue' = queue /\ failed' = failed
      /\ port' = [port EXCEPT !.ci = @ \cup S]
      /\ table' = [s \in Slots |-> IF s \in S THEN cmd[s] ELSE table[s]]
  BY DEF WriteCI, IInv, NothingLeft
<1>2. QueuedSlots = {} /\ QueuedSlots' = {}
  BY <1>1 DEF QueuedSlots
<1>3. /\ port' \in PortState /\ Level(port') /\ port'.pending = port.pending
      /\ port'.busy = port.busy
  BY <1>1 DEF IInv, TypeOK, InterruptLevel, PortState, Level, Enabled
<1>4. table' \in [Slots -> Cmds]
  BY <1>1 DEF IInv, TypeOK
<1> QED
  BY <1>1, <1>2, <1>3, <1>4 DEF IInv, TypeOK, QueuedOnce, PendingQueued, IssuedUntilEnd,
                    BusyWithCommand, NothingLeft, InterruptLevel, Level

(* Neither is anything in flight when the port is started or stopped.      *)
LEMMA WriteCMDKeeps ==
  ASSUME IInv, NEW st \in BOOLEAN, NEW fre \in BOOLEAN, NEW clo \in BOOLEAN,
         WriteCMD(st, fre, clo)
  PROVE  IInv'
<1>1. pc = "idle" /\ pc' = "mmio" /\ queue = <<>> /\ queue' = <<>> /\ table' = table
  BY DEF WriteCMD, IInv, NothingLeft
<1>2. QueuedSlots = {} /\ QueuedSlots' = {}
  BY <1>1 DEF QueuedSlots
<1>3. port \in PortState /\ Level(port) /\ port.pending = {} /\ ~port.busy
  BY <1>2 DEF IInv, TypeOK, PendingQueued, BusyWithCommand, InterruptLevel, Level
<1> DEFINE p == [port EXCEPT !.st = st, !.fre = fre]
           c == [p EXCEPT !.sact    = p.sact \ {s \in QueuedSlots : table[s].ncq},
                          !.ci      = p.ci \ {s \in QueuedSlots : ~table[s].ncq},
                          !.pending = p.pending \ QueuedSlots]
           q == IF st THEN [p EXCEPT !.cr = TRUE] ELSE check_stopped(c)
<1>4. port' = [q EXCEPT !.busy = @ /\ ~clo]
  BY DEF WriteCMD, port_stop
<1>5. /\ p \in PortState /\ Level(p) /\ p.pending = {} /\ ~p.busy
      /\ [p EXCEPT !.cr = TRUE] \in PortState /\ Level([p EXCEPT !.cr = TRUE])
      /\ [p EXCEPT !.cr = TRUE].pending = {} /\ ~[p EXCEPT !.cr = TRUE].busy
  BY <1>3 DEF PortState, Level, Enabled
<1>6. c \in PortState /\ Level(c) /\ c.pending = {} /\ ~c.busy
  BY <1>5 DEF PortState, Level, Enabled
<1> HIDE DEF p, c
<1>7. q \in PortState /\ Level(q) /\ q.pending = {} /\ ~q.busy
  BY <1>5, <1>6, CheckStoppedProperties DEF Kept
<1> HIDE DEF q
<1>8. port' \in PortState /\ Level(port') /\ port'.pending = {} /\ ~port'.busy
  BY <1>4, <1>7 DEF PortState, Level, Enabled
<1>9. failed' \in BOOLEAN
  BY DEF WriteCMD, IInv, TypeOK
<1> QED
  BY <1>1, <1>2, <1>8, <1>9 DEF IInv, TypeOK, QueuedOnce, PendingQueued, IssuedUntilEnd,
                    BusyWithCommand, NothingLeft, InterruptLevel, Level

(* What a turn of the loop begins with.                                    *)
LEMMA BegunProperties ==
  ASSUME IInv, NEW s \in Slots, Turn(s, table[s])
  PROVE  /\ s \in port.ci /\ s \notin port.pending /\ ~port.busy
         /\ port.st /\ ~port.waitforclear /\ pc \in {"mmio", "cb"}
         /\ Taken(s) \in PortState /\ Level(Taken(s)) /\ Kept(port, Taken(s))
         /\ Taken(s).ci = port.ci /\ ~Taken(s).busy /\ ~Taken(s).waitforclear
         /\ Begun(s) \in PortState /\ Level(Begun(s)) /\ Kept(port, Begun(s))
         /\ Begun(s).ci = port.ci /\ Begun(s).busy /\ ~Begun(s).waitforclear
<1>1. port \in PortState /\ Level(port)
  BY DEF IInv, TypeOK, InterruptLevel, Level
<1>2. /\ pc \in {"mmio", "cb"} /\ port.ci \ port.pending # {} /\ ~port.busy
      /\ port.st /\ ~port.waitforclear /\ s = NextSlot(port)
  BY DEF Turn, Runnable
<1>3. s \in port.ci \ port.pending
  BY <1>1, <1>2, NextSlotProperties
<1>4. (s + 1) % NSlots \in Slots
  BY NSlotsAssumption DEF Slots
<1>5. /\ Taken(s) \in PortState /\ Level(Taken(s)) /\ Kept(port, Taken(s))
      /\ Taken(s).ci = port.ci /\ Taken(s).busy = port.busy
      /\ Taken(s).waitforclear = port.waitforclear
  BY <1>1, <1>4 DEF Taken, PortState, Level, Kept, Enabled
<1>6. /\ Begun(s) \in PortState /\ Level(Begun(s)) /\ Kept(Taken(s), Begun(s))
      /\ Begun(s).ci = Taken(s).ci /\ Begun(s).busy
      /\ Begun(s).waitforclear = Taken(s).waitforclear
  BY <1>5 DEF Begun, PortState, Level, Kept, Enabled
<1> QED BY <1>2, <1>3, <1>5, <1>6 DEF Kept

(* A turn that ends the command, or passes over it, touches nothing that   *)
(* is in flight.                                                           *)
LEMMA TurnKeeps ==
  ASSUME IInv, NEW s \in Slots, Turn(s, table[s]),
         port' \in PortState, Level(port'), port'.pending = port.pending,
         port'.ci \in {port.ci, port.ci \ {s}}, ~port'.busy,
         UNCHANGED <<pc, table, queue>>, failed' \in BOOLEAN
  PROVE  IInv'
<1>1. QueuedSlots' = QueuedSlots
  BY DEF QueuedSlots
<1>2. s \notin QueuedSlots /\ pc \in {"mmio", "cb"}
  BY BegunProperties DEF IInv, PendingQueued
<1>3. \A t \in QueuedSlots : t \in port'.ci <=> t \in port.ci
  BY <1>2
<1> QED
  BY <1>1, <1>2, <1>3 DEF IInv, TypeOK, QueuedOnce, PendingQueued, IssuedUntilEnd,
                    BusyWithCommand, NothingLeft, InterruptLevel, Level

(* ahci_handle_cmd and the others, when block_if is not needed: the port   *)
(* is not busy afterwards, and a failure stops it if the host takes FISes. *)
LEMMA StartEffect ==
  ASSUME IInv, NEW s \in Slots, StartImmediate(s) \/ StartEmptyTrim(s) \/ StartControl(s)
  PROVE  /\ Turn(s, table[s])
         /\ port' \in PortState /\ Level(port') /\ Kept(port, port')
         /\ port'.ci \in {port.ci, port.ci \ {s}} /\ ~port'.busy
         /\ UNCHANGED <<pc, table, queue>> /\ failed' \in BOOLEAN
         /\ failed' /\ port.fre => failed \/ port'.waitforclear
         /\ port'.waitforclear => failed'
<1>f. failed \in BOOLEAN /\ FALSE \in BOOLEAN
  BY DEF IInv, TypeOK
<1>t. Turn(s, table[s])
  BY DEF StartImmediate, StartEmptyTrim, StartControl
<1>b. /\ Taken(s) \in PortState /\ Level(Taken(s)) /\ Kept(port, Taken(s))
      /\ Taken(s).ci = port.ci /\ ~Taken(s).busy
      /\ Begun(s) \in PortState /\ Level(Begun(s)) /\ Kept(port, Begun(s))
      /\ Begun(s).ci = port.ci
      /\ ~Taken(s).waitforclear /\ ~Begun(s).waitforclear
  BY <1>t, BegunProperties
<1>1. CASE StartImmediate(s)
  <2>1. PICK error \in BOOLEAN :
          /\ port' = write_fis_d2h(Begun(s), s, error)
          /\ failed' = (failed \/ error)
          /\ UNCHANGED <<pc, table, queue>>
    BY <1>1 DEF StartImmediate
  <2>2. LET q == write_fis_d2h(Begun(s), s, error)
        IN  /\ q \in PortState /\ Level(q) /\ Kept(Begun(s), q)
            /\ q.ci \in {port.ci, port.ci \ {s}} /\ ~q.busy
            /\ q.waitforclear <=> Begun(s).waitforclear \/ (error /\ Begun(s).fre)
    BY <1>b, D2hProperties
  <2>3. /\ port' \in PortState /\ Level(port') /\ Kept(port, port')
        /\ port'.ci \in {port.ci, port.ci \ {s}} /\ ~port'.busy
        /\ error /\ port.fre => port'.waitforclear
        /\ port'.waitforclear => error
    BY <1>b, <2>1, <2>2 DEF Kept
  <2> QED BY <2>1, <2>3, <1>f, <1>t
<1>2. CASE StartEmptyTrim(s)
  <2> DEFINE n == write_fis_d2h_ncq(Begun(s), s)
             p == write_fis_sdb(n, s, FALSE)
             d == write_fis_d2h(Begun(s), s, FALSE)
  <2>1. /\ port' = IF table[s].ncq THEN p ELSE d
        /\ UNCHANGED <<pc, table, queue, failed>>
    BY <1>2 DEF StartEmptyTrim
  <2>2. /\ n \in PortState /\ Level(n) /\ Kept(port, n)
        /\ n.ci = port.ci \ {s} /\ ~n.busy /\ ~n.waitforclear
    BY <1>b, NcqProperties DEF Kept
  <2>3. /\ d \in PortState /\ Level(d) /\ Kept(port, d)
        /\ d.ci = port.ci \ {s} /\ ~d.busy /\ ~d.waitforclear
    <3>1. /\ d \in PortState /\ Level(d) /\ Kept(Begun(s), d)
          /\ ~FALSE => d.ci = Begun(s).ci \ {s}
          /\ ~d.busy
          /\ d.waitforclear <=> Begun(s).waitforclear \/ (FALSE /\ Begun(s).fre)
      BY <1>f, <1>b, D2hProperties
    <3> QED BY <1>b, <3>1 DEF Kept
  <2> HIDE DEF n, d
  <2>4. /\ p \in PortState /\ Level(p) /\ Kept(port, p)
        /\ p.ci = port.ci \ {s} /\ ~p.busy /\ ~p.waitforclear
    <3>1. /\ p \in PortState /\ Level(p) /\ Kept(n, p)
          /\ p.ci = n.ci /\ p.busy = n.busy
          /\ p.waitforclear <=> n.waitforclear \/ (FALSE /\ n.fre)
      BY <1>f, <2>2, SdbProperties
    <3> QED BY <2>2, <3>1 DEF Kept
  <2> HIDE DEF p
  <2> QED BY <2>1, <2>3, <2>4, <1>f, <1>t
<1>3. CASE StartControl(s)
  <2> DEFINE p == Taken(s)
             q == CASE table[s].op = "SRST" -> [p EXCEPT !.reset = TRUE]
                    [] table[s].op = "NOSRST" /\ p.reset -> port_reset([p EXCEPT !.reset = FALSE])
                    [] OTHER -> p
  <2>1. /\ table[s].op \in {"SRST", "NOSRST", "NOTFIS"}
        /\ port' = IF table[s].op = "NOTFIS" THEN q ELSE [q EXCEPT !.ci = @ \ {s}]
        /\ UNCHANGED <<pc, table, queue, failed>>
    BY <1>3 DEF StartControl
  <2>2. /\ p \in PortState /\ Level(p) /\ Kept(port, p) /\ p.ci = port.ci /\ ~p.busy
        /\ ~p.waitforclear
    BY <1>b
  <2> HIDE DEF p
  <2>3. /\ q \in PortState /\ Level(q) /\ Kept(port, q) /\ q.ci = port.ci /\ ~q.busy
        /\ ~q.waitforclear
    <3>1. CASE table[s].op = "SRST"
      <4>1. q = [p EXCEPT !.reset = TRUE]
        BY <3>1
      <4> QED BY <4>1, <2>2 DEF PortState, Level, Enabled, Kept
    <3>2. CASE table[s].op = "NOSRST" /\ p.reset
      <4>1. q = port_reset([p EXCEPT !.reset = FALSE])
        BY <3>2
      <4> QED BY <4>1, <2>2 DEF port_reset, PortState, Level, Enabled, Kept
    <3>3. CASE table[s].op # "SRST" /\ ~(table[s].op = "NOSRST" /\ p.reset)
      <4>1. q = p
        BY <3>3
      <4> QED BY <4>1, <2>2
    <3> QED BY <3>1, <3>2, <3>3
  <2> HIDE DEF q
  <2>4. LET r == [q EXCEPT !.ci = @ \ {s}]
        IN  /\ r \in PortState /\ Level(r) /\ Kept(port, r)
            /\ r.ci = port.ci \ {s} /\ ~r.busy /\ ~r.waitforclear
    BY <2>3 DEF PortState, Level, Enabled, Kept
  <2> QED BY <2>1, <2>3, <2>4, <1>f, <1>t
<1> QED BY <1>1, <1>2, <1>3

LEMMA StartKeeps ==
  ASSUME IInv, NEW s \in Slots, StartImmediate(s) \/ StartEmptyTrim(s) \/ StartControl(s)
  PROVE  IInv'
<1>1. /\ Turn(s, table[s])
      /\ port' \in PortState /\ Level(port') /\ port'.pending = port.pending
      /\ port'.ci \in {port.ci, port.ci \ {s}} /\ ~port'.busy
      /\ UNCHANGED <<pc, table, queue>> /\ failed' \in BOOLEAN
  BY StartEffect DEF Kept
<1> QED BY <1>1, TurnKeeps

(* ahci_handle_rw, _flush and _dsm_trim: the command goes into block_if.   *)
LEMMA StartIoKeeps ==
  ASSUME IInv, NEW s \in Slots, StartIo(s)
  PROVE  IInv'
<1> DEFINE p == [Begun(s) EXCEPT !.pending = @ \cup {s}]
<1>1. /\ Turn(s, table[s]) /\ pc = "mmio"
      /\ port' = IF table[s].ncq THEN write_fis_d2h_ncq(p, s) ELSE p
      /\ queue' = Append(queue, s)
      /\ pc' = pc /\ table' = table /\ failed' = failed
  BY DEF StartIo
<1>2. s \in port.ci /\ s \notin QueuedSlots
  BY <1>1, BegunProperties DEF IInv, PendingQueued
<1>3. queue' \in Seq(Slots) /\ QueuedOnce' /\ QueuedSlots' = QueuedSlots \cup {s}
  BY <1>1, <1>2, QueueAppend DEF IInv
<1>4. /\ p \in PortState /\ Level(p) /\ p.ci = port.ci
      /\ p.pending = port.pending \cup {s}
  BY <1>1, BegunProperties DEF PortState, Level, Kept, Enabled
<1> HIDE DEF p
<1>5. CASE table[s].ncq
  <2>1. /\ port' \in PortState /\ Level(port') /\ port'.pending = port.pending \cup {s}
        /\ port'.ci = port.ci \ {s} /\ ~port'.busy
    BY <1>1, <1>4, <1>5, NcqProperties DEF Kept
  <2> QED
    BY <2>1, <1>1, <1>2, <1>3, <1>5 DEF IInv, TypeOK, PendingQueued, IssuedUntilEnd,
                    BusyWithCommand, NothingLeft, InterruptLevel, Level
<1>6. CASE ~table[s].ncq
  <2>1. /\ port' \in PortState /\ Level(port') /\ port'.pending = port.pending \cup {s}
        /\ port'.ci = port.ci
    BY <1>1, <1>4, <1>6
  <2> QED
    BY <2>1, <1>1, <1>2, <1>3, <1>6 DEF IInv, TypeOK, PendingQueued, IssuedUntilEnd,
                    BusyWithCommand, NothingLeft, InterruptLevel, Level
<1> QED BY <1>5, <1>6

(* What ata_ioreq_cb does to the port when the oldest command has ended    *)
LEMMA AnsweredProperties ==
  ASSUME IInv, NEW s \in QueuedSlots
  PROVE  LET q == Answered(s)
         IN  /\ q \in PortState /\ Level(q) /\ q.pending = port.pending \ {s}
             /\ q.st = port.st /\ q.fre = port.fre /\ q.ie = port.ie /\ q.gie = port.gie
             /\ port.fre => q.is \cap {"DHR", "SDB"} # {}
             /\ q.busy => port.busy /\ table[s].ncq
             /\ port.st \/ q.pending # {} =>
                  /\ q.ci \in {port.ci, port.ci \ {s}}
                  /\ table[s].ncq => q.ci = port.ci
                  /\ ~table[s].ncq /\ ~Fails(table[s]) => q.ci = port.ci \ {s}
                  /\ q.waitforclear = (port.waitforclear \/ (Fails(table[s]) /\ port.fre))
             /\ ~port.st /\ q.pending = {} => q.ci = {} /\ ~q.waitforclear
<1> DEFINE error == Fails(table[s])
           p == IF table[s].ncq THEN write_fis_sdb(port, s, error)
                                ELSE write_fis_d2h(port, s, error)
           r == [p EXCEPT !.pending = @ \ {s}]
<1>1. /\ port \in PortState /\ Level(port) /\ s \in Slots /\ error \in BOOLEAN
  BY DEF IInv, TypeOK, InterruptLevel, Level, PendingQueued, PortState, Fails
<1> HIDE DEF error
<1>2. /\ p \in PortState /\ Level(p) /\ Kept(port, p)
      /\ p.ci \in {port.ci, port.ci \ {s}}
      /\ p.busy => port.busy /\ table[s].ncq
      /\ table[s].ncq => p.ci = port.ci
      /\ ~table[s].ncq /\ ~error => p.ci = port.ci \ {s}
      /\ p.waitforclear <=> port.waitforclear \/ (error /\ port.fre)
      /\ port.fre => p.is \cap {"DHR", "SDB"} # {}
  <2>1. CASE table[s].ncq
    <3>1. p = write_fis_sdb(port, s, error)
      BY <2>1
    <3> HIDE DEF p
    <3> QED BY <3>1, <2>1, <1>1, SdbProperties
  <2>2. CASE ~table[s].ncq
    <3>1. p = write_fis_d2h(port, s, error)
      BY <2>2
    <3> HIDE DEF p
    <3> QED BY <3>1, <2>2, <1>1, D2hProperties
  <2> QED BY <2>1, <2>2
<1> HIDE DEF p
<1>3. /\ r \in PortState /\ Level(r) /\ r.pending = port.pending \ {s}
      /\ r.st = port.st /\ r.fre = port.fre /\ r.ie = port.ie /\ r.gie = port.gie
      /\ r.ci = p.ci /\ r.busy = p.busy /\ r.waitforclear = p.waitforclear /\ r.is = p.is
  BY <1>2 DEF PortState, Level, Kept, Enabled
<1>4. Answered(s) = check_stopped(r)
  BY DEF Answered, p, error
<1> HIDE DEF r
<1>5. LET q == check_stopped(r)
      IN  /\ q \in PortState /\ Level(q) /\ Kept(r, q) /\ q.busy = r.busy
          /\ q.is = r.is
          /\ r.st \/ r.pending # {} => q = r
          /\ ~r.st /\ r.pending = {} => q.ci = {} /\ ~q.waitforclear
  BY <1>3, CheckStoppedProperties
<1>6. p.waitforclear = (port.waitforclear \/ (error /\ port.fre))
  BY <1>1, <1>2 DEF PortState
<1>7. CASE port.st \/ r.pending # {}
  <2>1. Answered(s) = r
    BY <1>3, <1>4, <1>5, <1>7
  <2> QED BY <2>1, <1>2, <1>3, <1>6, <1>7 DEF Kept, error
<1>8. CASE ~port.st /\ r.pending = {}
  <2> DEFINE q == Answered(s)
  <2>1. /\ q \in PortState /\ Level(q) /\ Kept(r, q) /\ q.busy = r.busy /\ q.is = r.is
        /\ q.ci = {} /\ ~q.waitforclear
    BY <1>3, <1>4, <1>5, <1>8
  <2> HIDE DEF q
  <2>2. /\ q.st = port.st /\ q.fre = port.fre /\ q.ie = port.ie /\ q.gie = port.gie
        /\ q.pending = port.pending \ {s} /\ q.pending = {}
        /\ q.busy => port.busy /\ table[s].ncq
        /\ port.fre => q.is \cap {"DHR", "SDB"} # {}
    BY <2>1, <1>2, <1>3, <1>8 DEF Kept
  <2> QED BY <2>1, <2>2, <1>8 DEF q
<1> QED BY <1>7, <1>8

(* ata_ioreq_cb takes the oldest slot out of all three records at once.    *)
LEMMA CallbackKeeps ==
  ASSUME IInv, Callback
  PROVE  IInv'
<1> DEFINE s == Head(queue)
<1>1. /\ queue # <<>> /\ queue' = Tail(queue) /\ table' = table /\ pc' = "cb"
      /\ port' = Answered(s) /\ failed' = (failed \/ Fails(table[s]))
  BY DEF Callback
<1>2. /\ queue' \in Seq(Slots) /\ QueuedOnce' /\ s \in QueuedSlots /\ s \in Slots
      /\ QueuedSlots' = QueuedSlots \ {s}
  BY <1>1, QueueTail DEF IInv
<1> HIDE DEF s
<1>3. /\ port' \in PortState /\ Level(port') /\ port'.pending = port.pending \ {s}
      /\ port'.busy => port.busy /\ table[s].ncq
      /\ port.st \/ port'.pending # {} => port'.ci \in {port.ci, port.ci \ {s}}
  BY <1>1, <1>2, AnsweredProperties
<1>4. failed' \in BOOLEAN
  BY <1>1 DEF IInv, TypeOK, Fails
<1>5. PendingQueued'
  BY <1>2, <1>3 DEF IInv, PendingQueued
<1>6. IssuedUntilEnd'
  <2>1. ASSUME NEW t \in QueuedSlots' PROVE t \in port'.ci <=> ~table[t].ncq
    BY <2>1, <1>2, <1>3, <1>5 DEF IInv, PendingQueued, IssuedUntilEnd
  <2> QED BY <2>1, <1>1 DEF IssuedUntilEnd
<1>7. BusyWithCommand'
  BY <1>1, <1>2, <1>3 DEF IInv, BusyWithCommand
<1> QED
  BY <1>1, <1>2, <1>3, <1>4, <1>5, <1>6, <1>7
  DEF IInv, TypeOK, NothingLeft, InterruptLevel, Level

(* Steps of dm_loop and blockif_thr that change nothing but pc: none of    *)
(* them leaves a runnable slot behind.                                     *)
LEMMA PcSteps ==
  ASSUME IInv,
         \/ \E s \in Slots : StartIoDies(s)
         \/ PortDone \/ CallbackDies \/ ThrDone \/ UNCHANGED vars
  PROVE  IInv'
<1>1. UNCHANGED <<port, table, queue, failed>>
  BY DEF StartIoDies, PortDone, CallbackDies, ThrDone, vars
<1>2. QueuedSlots' = QueuedSlots
  BY <1>1 DEF QueuedSlots
<1>3. /\ pc' \in {"idle", "mmio", "thr", "cb", "dead"}
      /\ pc' = "idle" => queue = <<>>
      /\ pc' \in {"idle", "thr"} /\ queue = <<>> => ~Runnable(port)
  BY DEF IInv, TypeOK, NothingLeft, StartIoDies, PortDone, CallbackDies, ThrDone, vars
<1> QED
  BY <1>1, <1>2, <1>3 DEF IInv, TypeOK, QueuedOnce, PendingQueued, IssuedUntilEnd,
                    BusyWithCommand, NothingLeft, InterruptLevel

LEMMA InitKeeps == Init => IInv
<1> SUFFICES ASSUME Init PROVE IInv
  OBVIOUS
<1>1. pc = "idle" /\ port = InitPort /\ queue = <<>> /\ failed = FALSE
  BY DEF Init
<1>2. table \in [Slots -> Cmds]
  <2>1. (CHOOSE c \in Cmds : TRUE) \in Cmds
    BY CmdsAssumption
  <2> QED BY <2>1 DEF Init
<1>3. QueuedSlots = {} /\ queue \in Seq(Slots)
  BY <1>1 DEF QueuedSlots
<1>4. /\ InitPort \in PortState /\ Level(InitPort) /\ InitPort.pending = {}
      /\ ~InitPort.busy /\ ~Runnable(InitPort)
  BY NSlotsAssumption DEF InitPort, PortState, Level, Enabled, Runnable, Slots
<1>5. TypeOK
  BY <1>1, <1>2, <1>3, <1>4 DEF TypeOK
<1>6. QueuedOnce
  BY <1>1 DEF QueuedOnce
<1>7. PendingQueued /\ IssuedUntilEnd /\ BusyWithCommand
  BY <1>1, <1>3, <1>4 DEF PendingQueued, IssuedUntilEnd, BusyWithCommand
<1>8. NothingLeft /\ InterruptLevel
  BY <1>1, <1>4 DEF NothingLeft, InterruptLevel, Level
<1> QED BY <1>5, <1>6, <1>7, <1>8 DEF IInv

LEMMA NextKeeps == IInv /\ [Next]_vars => IInv'
<1> SUFFICES ASSUME IInv, [Next]_vars PROVE IInv'
  OBVIOUS
<1>1. CASE Host
  <2>1. ASSUME NEW S \in SUBSET Slots \ {{}}, NEW cmd \in [S -> Cmds], WriteCI(S, cmd)
        PROVE  IInv'
    BY <2>1, WriteCIKeeps
  <2>2. ASSUME NEW st \in BOOLEAN, NEW fre \in BOOLEAN, NEW clo \in BOOLEAN,
               WriteCMD(st, fre, clo)
        PROVE  IInv'
    BY <2>2, WriteCMDKeeps
  <2> QED BY <1>1, <2>1, <2>2, QuietWrites DEF Host
<1>2. CASE Device
  <2>1. ASSUME NEW s \in Slots, Start(s) PROVE IInv'
    BY <2>1, StartKeeps, StartIoKeeps, PcSteps DEF Start
  <2> QED BY <1>2, <2>1, CallbackKeeps, PcSteps DEF Device
<1> QED BY <1>1, <1>2, PcSteps DEF Next

(* The port of pci_ahci.c keeps its invariant, for any host and any        *)
(* number of slots.                                                        *)
THEOREM PortInvariant == Spec => []IInv
BY InitKeeps, NextKeeps, PTL DEF Spec

(* What the port has pending, what block_if has queued and what the host   *)
(* sees in PxCI stay in step, however the host issues, stops and resets    *)
(* and in whatever order commands start, end and fail (ahci_handle_slot,   *)
(* ata_ioreq_cb, ahci_port_stop).                                          *)
THEOREM RecordsAgree == Spec => []AhciInv
<1>1. IInv => AhciInv
  BY QueueLength DEF IInv, PendingQueued, IssuedUntilEnd, AhciInv, InFlight
<1> QED BY <1>1, PortInvariant, PTL

(* The interrupt line follows the global IS and GHC.IE, and no enabled     *)
(* cause is left without its bit: ahci_port_intr and ahci_generate_intr.   *)
THEOREM InterruptFollows == Spec => []InterruptLevel
<1>1. IInv => InterruptLevel
  BY DEF IInv
<1> QED BY <1>1, PortInvariant, PTL

(* Every slot that could still start has an ahci_ioreq.                    *)
LEMMA FreeIoreq == IInv /\ Runnable(port) => Len(queue) < IoReqs
<1> SUFFICES ASSUME IInv, Runnable(port) PROVE Len(queue) < IoReqs
  OBVIOUS
<1>1. port \in PortState /\ NextSlot(port) \in port.ci \ port.pending
  BY NextSlotProperties DEF IInv, TypeOK, Runnable
<1>2. NextSlot(port) \in Slots \ QueuedSlots
  BY <1>1 DEF IInv, PendingQueued, PortState
<1>3. Len(queue) < NSlots /\ Len(queue) \in Nat
  BY <1>2, QueueLength, LenProperties DEF IInv, TypeOK
<1> QED BY <1>3, IoReqsAssumption, NSlotsAssumption

(* ahci_handle_rw, _flush and _dsm_trim always find a free ahci_ioreq, as  *)
(* ahci_port has as many as slots: STAILQ_FIRST(&p->iofhd) is never NULL.  *)
THEOREM IoreqAvailable == Spec => [](Runnable(port) => Len(queue) < IoReqs)
<1>1. IInv => (Runnable(port) => Len(queue) < IoReqs)
  BY FreeIoreq
<1> QED BY <1>1, PortInvariant, PTL

(* The end of every command that went through block_if raises the line,    *)
(* when the host takes FISes and has enabled the interrupts.               *)
THEOREM EndInterrupts == Spec => CompletionInterrupts
<1> DEFINE Rule == pc = "thr" /\ pc' = "cb" /\ port.fre /\ port.gie /\ {"DHR", "SDB"} \subseteq port.ie
                     => port'.lintr
<1>1. IInv /\ [Next]_vars => [Rule]_vars
  <2> SUFFICES ASSUME IInv, Next, pc = "thr", pc' = "cb", port.fre, port.gie,
                      {"DHR", "SDB"} \subseteq port.ie
               PROVE  port'.lintr
    OBVIOUS
  <2>1. Callback
    BY DEF Next, Host, Device, Start, WriteIS, WriteIE, WriteGIS, WriteGHC, WriteSACT, Write,
           HbaReset, WriteSCTL, WriteCI, WriteCMD, Turn, StartImmediate, StartEmptyTrim,
           StartControl, StartIo, StartIoDies, PortDone, CallbackDies, ThrDone
  <2> DEFINE s == Head(queue)
  <2>2. port' = Answered(s) /\ s \in QueuedSlots
    BY <2>1, QueueTail DEF Callback, IInv
  <2> HIDE DEF s
  <2>3. /\ Level(port') /\ port'.ie = port.ie /\ port'.gie = port.gie
        /\ port'.is \cap {"DHR", "SDB"} # {}
    BY <2>2, AnsweredProperties
  <2> QED BY <2>3 DEF Level, Enabled
<1> QED BY <1>1, PortInvariant, PTL DEF Spec, CompletionInterrupts
-----------------------------------------------------------------------------
(***************************************************************************)
(* A host that keeps to HostRule and StartRule.  What it adds to IInv: an  *)
(* error stops the port (the host takes FISes while it runs), and on a     *)
(* port that runs nothing else does; a command that is not NCQ is alone in *)
(* PxCI; and outside of an MMIO write every slot that is issued is in      *)
(* flight already, unless an error has stopped the port.  So the loop that *)
(* ata_ioreq_cb runs finds nothing to start, and block_if is never called  *)
(* with bc_mtx held.                                                       *)
(***************************************************************************)
ErrorStops  == failed => port.waitforclear
StopsKnown  == port.st /\ port.waitforclear => failed
FisTaken    == port.st => port.fre
RunsQueued  == queue # <<>> => port.st
OnePart     == \A s \in port.ci \cup QueuedSlots : table[s].parts <= 1
AloneOrNcq  == \A s, t \in port.ci : ~table[s].ncq => s = t
AllInFlight == pc # "mmio" \/ ~port.st => port.ci \subseteq port.pending \/ port.waitforclear

CarefulInv ==
  /\ pc # "dead"
  /\ ErrorStops
  /\ StopsKnown
  /\ FisTaken
  /\ RunsQueued
  /\ OnePart
  /\ AloneOrNcq
  /\ AllInFlight

(* A step that issues no command, and neither stops nor starts the port    *)
(* with something in flight, keeps what is said of the commands.           *)
LEMMA FewerIssued ==
  ASSUME CarefulInv, port'.ci \subseteq port.ci, QueuedSlots' \subseteq QueuedSlots \cup port.ci,
         table' = table
  PROVE  OnePart' /\ AloneOrNcq'
BY DEF CarefulInv, OnePart, AloneOrNcq

LEMMA CarefulInit == Init => CarefulInv
BY DEF Init, InitPort, CarefulInv, ErrorStops, StopsKnown, FisTaken, RunsQueued, OnePart, AloneOrNcq,
       AllInFlight, QueuedSlots

(* The writes that neither issue commands nor touch PxCMD                  *)
LEMMA CarefulQuiet ==
  ASSUME IInv, CarefulInv,
         \/ \E S \in Masks : WriteIS(S) \/ WriteIE(S)
         \/ WriteGIS
         \/ \E ie \in BOOLEAN : WriteGHC(ie)
         \/ \E S \in SUBSET Slots : WriteSACT(S)
         \/ HbaReset
         \/ WriteSCTL
  PROVE  CarefulInv'
<1>1. port \in PortState /\ pc = "idle" /\ pc' = "thr" /\ queue = <<>>
  BY DEF IInv, TypeOK, NothingLeft, WriteIS, WriteIE, WriteGIS, WriteGHC, WriteSACT, Write,
         HbaReset, WriteSCTL
<1> DEFINE Quiet == /\ port'.ci = port.ci /\ port'.pending = port.pending
                    /\ port'.waitforclear = port.waitforclear
                    /\ port'.st => port.st /\ port'.fre = port.fre
                    /\ UNCHANGED <<table, queue>> /\ (failed' => failed)
                    /\ (port'.st => failed' = failed)
<1>2. Quiet
  <2>1. ASSUME NEW S \in Masks, WriteIS(S) PROVE Quiet
    BY <2>1, <1>1 DEF WriteIS, Write, port_intr, PortState
  <2>2. ASSUME NEW S \in Masks, WriteIE(S) PROVE Quiet
    BY <2>2, <1>1 DEF WriteIE, Write, port_intr, PortState
  <2>3. ASSUME NEW p \in PortState, p.ci = port.ci, p.pending = port.pending, p.fre = port.fre,
               p.st = port.st, p.waitforclear = port.waitforclear, Write(generate_intr(p))
        PROVE  Quiet
    BY <2>3 DEF Write, generate_intr, PortState
  <2>6. CASE WriteGIS
    <3> DEFINE p == [port EXCEPT !.gis = FALSE]
    <3>1. /\ p \in PortState /\ p.ci = port.ci /\ p.pending = port.pending /\ p.fre = port.fre
          /\ p.st = port.st /\ p.waitforclear = port.waitforclear
      BY <1>1 DEF PortState
    <3> QED BY <3>1, <2>3, <2>6 DEF WriteGIS
  <2>7. ASSUME NEW ie \in BOOLEAN, WriteGHC(ie) PROVE Quiet
    <3> DEFINE p == [port EXCEPT !.gie = ie]
    <3>1. /\ p \in PortState /\ p.ci = port.ci /\ p.pending = port.pending /\ p.fre = port.fre
          /\ p.st = port.st /\ p.waitforclear = port.waitforclear
      BY <1>1 DEF PortState
    <3> QED BY <3>1, <2>3, <2>7 DEF WriteGHC
  <2>4. ASSUME NEW S \in SUBSET Slots, WriteSACT(S) PROVE Quiet
    BY <2>4, <1>1 DEF WriteSACT, Write, PortState
  <2>5. CASE HbaReset
    BY <2>5, <1>1 DEF HbaReset, ahci_reset, port_reset, PortState
  <2>8. CASE WriteSCTL
    BY <2>8, <1>1 DEF WriteSCTL, Write, port_reset, PortState
  <2> QED BY <2>1, <2>2, <2>4, <2>5, <2>6, <2>7, <2>8
<1>3. QueuedSlots' = QueuedSlots
  BY <1>2 DEF QueuedSlots
<1> QED
  BY <1>1, <1>2, <1>3, FewerIssued
  DEF CarefulInv, ErrorStops, StopsKnown, FisTaken, RunsQueued, AllInFlight

(* Commands are issued to a running port with none in PxCI.                *)
LEMMA CarefulWriteCI ==
  ASSUME Careful, IInv, CarefulInv, NEW S \in SUBSET Slots, NEW cmd \in [S -> Cmds],
         WriteCI(S, cmd)
  PROVE  CarefulInv'
<1>1. /\ pc' = "mmio" /\ queue = <<>> /\ queue' = queue /\ failed' = failed
      /\ port' = [port EXCEPT !.ci = @ \cup S]
      /\ table' = [s \in Slots |-> IF s \in S THEN cmd[s] ELSE table[s]]
      /\ HostRule(S, cmd)
  BY DEF WriteCI, IInv, NothingLeft
<1>2. /\ port'.ci = S /\ port'.st /\ port'.fre /\ port'.waitforclear = port.waitforclear
  BY <1>1 DEF IInv, TypeOK, PortState, HostRule
<1>3. QueuedSlots' = {}
  BY <1>1 DEF QueuedSlots
<1>4. \A s \in S : table'[s] = cmd[s]
  BY <1>1
<1>5. OnePart'
  BY <1>1, <1>2, <1>3, <1>4 DEF OnePart, HostRule
<1>6. AloneOrNcq'
  BY <1>1, <1>2, <1>4 DEF AloneOrNcq, HostRule
<1> QED
  BY <1>1, <1>2, <1>5, <1>6 DEF CarefulInv, ErrorStops, StopsKnown, FisTaken, RunsQueued, AllInFlight

(* A port that is stopped forgets its commands and its errors.             *)
LEMMA CarefulWriteCMD ==
  ASSUME Careful, IInv, CarefulInv, NEW st \in BOOLEAN, NEW fre \in BOOLEAN, NEW clo \in BOOLEAN,
         WriteCMD(st, fre, clo)
  PROVE  CarefulInv'
<1>1. /\ pc' = "mmio" /\ queue = <<>> /\ queue' = <<>> /\ table' = table
      /\ failed' = (failed /\ st)
      /\ st => fre /\ (port.waitforclear => port.st)
  BY DEF WriteCMD, StartRule, IInv, NothingLeft
<1>2. QueuedSlots = {} /\ QueuedSlots' = {}
  BY <1>1 DEF QueuedSlots
<1>3. port \in PortState /\ port.pending = {}
  BY <1>2 DEF IInv, TypeOK, PendingQueued
<1> DEFINE p == [port EXCEPT !.st = st, !.fre = fre]
           c == [p EXCEPT !.sact    = p.sact \ {s \in QueuedSlots : table[s].ncq},
                          !.ci      = p.ci \ {s \in QueuedSlots : ~table[s].ncq},
                          !.pending = p.pending \ QueuedSlots]
           q == IF st THEN [p EXCEPT !.cr = TRUE] ELSE check_stopped(c)
<1>4. port' = [q EXCEPT !.busy = @ /\ ~clo]
  BY DEF WriteCMD, port_stop
<1>5. CASE st
  <2> DEFINE r == [p EXCEPT !.cr = TRUE]
  <2>1. /\ r \in PortState /\ r.st = st /\ r.fre = fre /\ r.ci = port.ci
        /\ r.waitforclear = port.waitforclear
    BY <1>3 DEF PortState
  <2>2. q = r
    BY <1>5
  <2> HIDE DEF q, r
  <2>3. /\ port'.st = st /\ port'.fre = fre /\ port'.ci = port.ci
        /\ port'.waitforclear = port.waitforclear
    BY <1>4, <2>1, <2>2 DEF PortState
  <2> QED
    BY <1>1, <1>2, <1>5, <2>3, FewerIssued
    DEF CarefulInv, ErrorStops, StopsKnown, FisTaken, RunsQueued, AllInFlight
<1>6. CASE ~st
  <2>1. c \in PortState /\ ~c.st /\ c.pending = {}
    BY <1>3, <1>6 DEF PortState
  <2>2. q = check_stopped(c)
    BY <1>6
  <2> HIDE DEF q, c
  <2>3. q \in PortState /\ ~q.st /\ q.ci = {} /\ ~q.waitforclear
    <3>1. check_stopped(c) = [c EXCEPT !.ccs = 0, !.cr = FALSE, !.ci = {}, !.sact = {},
                                       !.waitforclear = FALSE]
      BY <2>1 DEF check_stopped
    <3>2. 0 \in Slots
      BY NSlotsAssumption DEF Slots
    <3> QED
      BY <2>1, <2>2, <3>1, <3>2 DEF PortState
  <2>4. ~port'.st /\ port'.ci = {} /\ ~port'.waitforclear
    BY <1>4, <2>3 DEF PortState
  <2>5. ErrorStops'
    <3>1. ~failed'  BY <1>1, <1>6
    <3> QED         BY <3>1 DEF ErrorStops
  <2>6. FisTaken' /\ AllInFlight' /\ StopsKnown'
    BY <2>4 DEF FisTaken, AllInFlight, StopsKnown
  <2>7. RunsQueued'
    BY <1>1 DEF RunsQueued
  <2>8. OnePart' /\ AloneOrNcq'
    BY <1>1, <1>2, <2>4, FewerIssued
  <2> QED BY <1>1, <2>5, <2>6, <2>7, <2>8 DEF CarefulInv
<1> QED BY <1>5, <1>6

(* With all commands in flight only an MMIO write starts one.              *)
LEMMA CarefulTurn ==
  ASSUME IInv, CarefulInv, NEW s \in Slots, Turn(s, table[s])
  PROVE  /\ pc = "mmio" /\ ~failed
         /\ s \in port.ci /\ port.st /\ port.fre /\ Len(queue) < IoReqs
<1>1. /\ s \in port.ci /\ s \notin port.pending /\ port.st /\ ~port.waitforclear
      /\ pc \in {"mmio", "cb"}
  BY BegunProperties
<1>2. Len(queue) < IoReqs
  BY FreeIoreq DEF Turn
<1> QED BY <1>1, <1>2 DEF CarefulInv, AllInFlight, ErrorStops, StopsKnown, FisTaken

LEMMA CarefulStart ==
  ASSUME IInv, CarefulInv, NEW s \in Slots, Start(s)
  PROVE  CarefulInv'
<1>1. /\ pc = "mmio" /\ ~failed /\ s \in port.ci /\ port.st /\ port.fre
      /\ Len(queue) < IoReqs
  <2>1. Turn(s, table[s])
    BY DEF Start, StartImmediate, StartEmptyTrim, StartControl, StartIo, StartIoDies
  <2> QED BY <2>1, CarefulTurn
<1>2. CASE StartImmediate(s) \/ StartEmptyTrim(s) \/ StartControl(s)
  <2>1. /\ Kept(port, port') /\ port'.ci \subseteq port.ci
        /\ UNCHANGED <<pc, table, queue>>
        /\ failed' => port'.waitforclear
        /\ port'.waitforclear => failed'
    BY <1>1, <1>2, StartEffect
  <2>2. QueuedSlots' = QueuedSlots
    BY <2>1 DEF QueuedSlots
  <2> QED
    BY <1>1, <2>1, <2>2, FewerIssued
    DEF CarefulInv, ErrorStops, StopsKnown, FisTaken, RunsQueued, AllInFlight, Kept
<1>3. CASE StartIo(s)
  <2> DEFINE p == [Begun(s) EXCEPT !.pending = @ \cup {s}]
  <2>1. /\ Turn(s, table[s])
        /\ port' = IF table[s].ncq THEN write_fis_d2h_ncq(p, s) ELSE p
        /\ queue' = Append(queue, s)
        /\ pc' = pc /\ table' = table /\ failed' = failed
    BY <1>3 DEF StartIo
  <2>2. /\ p \in PortState /\ Level(p) /\ p.ci = port.ci
        /\ p.st = port.st /\ p.fre = port.fre /\ ~p.waitforclear
    BY <2>1, BegunProperties DEF PortState, Level, Kept, Enabled
  <2> HIDE DEF p
  <2>3. /\ port'.ci \subseteq port.ci /\ port'.st = port.st /\ port'.fre = port.fre
        /\ ~port'.waitforclear
    BY <2>1, <2>2, NcqProperties DEF Kept
  <2>4. QueuedSlots' = QueuedSlots \cup {s}
    <3>1. s \notin QueuedSlots
      BY <2>1, BegunProperties DEF IInv, PendingQueued
    <3> QED BY <2>1, <3>1, QueueAppend DEF IInv
  <2> QED
    BY <1>1, <2>1, <2>3, <2>4, FewerIssued
    DEF CarefulInv, ErrorStops, StopsKnown, FisTaken, RunsQueued, AllInFlight
<1>4. ~StartIoDies(s)
  <2>1. Len(queue) \in Nat /\ IoReqs \in Nat
    BY IoReqsAssumption, LenProperties DEF IInv, TypeOK
  <2> QED BY <1>1, <2>1 DEF StartIoDies
<1> QED BY <1>2, <1>3, <1>4 DEF Start

(* The end of a command leaves in PxCI only what is in flight, or an error *)
(* that stops the port; a command of one request needs no second one.      *)
LEMMA CarefulDevice ==
  ASSUME IInv, CarefulInv, PortDone \/ Callback \/ CallbackDies \/ ThrDone
  PROVE  CarefulInv'
<1>1. CASE PortDone
  <2>1. pc' = "thr" /\ UNCHANGED <<port, table, queue, failed>> /\ ~Runnable(port)
    BY <1>1 DEF PortDone
  <2>2. QueuedSlots' = QueuedSlots
    BY <2>1 DEF QueuedSlots
  <2>3. port.ci \subseteq port.pending \/ port.waitforclear
    <3>1. CASE port.busy
      <4>1. PICK s \in QueuedSlots : ~table[s].ncq
        BY <3>1 DEF IInv, BusyWithCommand
      <4>2. s \in port.ci /\ s \in port.pending
        BY <4>1 DEF IInv, IssuedUntilEnd, PendingQueued
      <4> QED BY <4>1, <4>2 DEF CarefulInv, AloneOrNcq
    <3>2. CASE ~port.busy
      BY <3>2, <2>1 DEF Runnable, CarefulInv, AllInFlight
    <3> QED BY <3>1, <3>2
  <2> QED
    BY <2>1, <2>2, <2>3, FewerIssued
    DEF CarefulInv, ErrorStops, StopsKnown, FisTaken, RunsQueued, AllInFlight
<1>2. CASE Callback
  <2> DEFINE s == Head(queue)
  <2>1. /\ pc = "thr" /\ queue # <<>> /\ queue' = Tail(queue) /\ table' = table /\ pc' = "cb"
        /\ port' = Answered(s) /\ failed' = (failed \/ Fails(table[s]))
    BY <1>2 DEF Callback
  <2>2. s \in QueuedSlots /\ QueuedSlots' = QueuedSlots \ {s}
    BY <2>1, QueueTail DEF IInv
  <2> HIDE DEF s
  <2>3. port.st /\ port.fre
    BY <2>1 DEF CarefulInv, RunsQueued, FisTaken
  <2>4. /\ port'.st = port.st /\ port'.fre = port.fre /\ port'.pending = port.pending \ {s}
        /\ port'.ci \in {port.ci, port.ci \ {s}}
        /\ table[s].ncq => port'.ci = port.ci
        /\ ~table[s].ncq /\ ~Fails(table[s]) => port'.ci = port.ci \ {s}
        /\ port'.waitforclear = (port.waitforclear \/ Fails(table[s]))
    BY <2>1, <2>2, <2>3, AnsweredProperties
  <2>5. port'.ci \subseteq port'.pending \/ port'.waitforclear
    <3>1. table[s].ncq => s \notin port.ci
      BY <2>2 DEF IInv, IssuedUntilEnd
    <3>2. port.ci \subseteq port.pending \/ port.waitforclear
      BY <2>1 DEF CarefulInv, AllInFlight
    <3> QED BY <2>4, <3>1, <3>2
  <2>6. OnePart' /\ AloneOrNcq'
    BY <2>1, <2>2, <2>4, FewerIssued
  <2>7. RunsQueued' /\ FisTaken'
    BY <2>3, <2>4 DEF RunsQueued, FisTaken
  <2>8. ErrorStops' /\ StopsKnown'
    BY <2>1, <2>3, <2>4 DEF CarefulInv, ErrorStops, StopsKnown
  <2> QED BY <2>1, <2>5, <2>6, <2>7, <2>8 DEF CarefulInv, AllInFlight
<1>3. CASE CallbackDies
  <2> DEFINE s == Head(queue)
  <2>1. queue # <<>> /\ table[s].parts > 1
    BY <1>3 DEF CallbackDies
  <2>2. s \in QueuedSlots /\ s \in Slots
    <3>1. queue \in Seq(Slots) /\ 1 \in DOMAIN queue /\ s = queue[1]
      BY <2>1, EmptySeq, LenProperties, HeadTailProperties DEF IInv, TypeOK
    <3> QED BY <3>1, ElementOfSeq, LenProperties DEF QueuedSlots
  <2>3. table[s].parts \in Nat
    BY <2>2, CmdsAssumption DEF IInv, TypeOK, AllCmds
  <2> QED BY <2>1, <2>2, <2>3 DEF CarefulInv, OnePart
<1>4. CASE ThrDone
  <2>1. pc = "thr" /\ pc' = "idle" /\ UNCHANGED <<port, table, queue, failed>>
    BY <1>4 DEF ThrDone
  <2>2. QueuedSlots' = QueuedSlots
    BY <2>1 DEF QueuedSlots
  <2> QED
    BY <2>1, <2>2, FewerIssued DEF CarefulInv, ErrorStops, StopsKnown, FisTaken, RunsQueued, AllInFlight
<1> QED BY <1>1, <1>2, <1>3, <1>4

LEMMA CarefulNext == Careful /\ IInv /\ CarefulInv /\ [Next]_vars => CarefulInv'
<1> SUFFICES ASSUME Careful, IInv, CarefulInv, [Next]_vars PROVE CarefulInv'
  OBVIOUS
<1>1. CASE Host
  <2>1. ASSUME NEW S \in SUBSET Slots \ {{}}, NEW cmd \in [S -> Cmds], WriteCI(S, cmd)
        PROVE  CarefulInv'
    BY <2>1, CarefulWriteCI
  <2>2. ASSUME NEW st \in BOOLEAN, NEW fre \in BOOLEAN, NEW clo \in BOOLEAN,
               WriteCMD(st, fre, clo)
        PROVE  CarefulInv'
    BY <2>2, CarefulWriteCMD
  <2> QED BY <1>1, <2>1, <2>2, CarefulQuiet DEF Host
<1>2. CASE Device
  BY <1>2, CarefulStart, CarefulDevice DEF Device
<1>3. CASE UNCHANGED vars
  BY <1>3 DEF vars, CarefulInv, ErrorStops, StopsKnown, FisTaken, RunsQueued, OnePart, AloneOrNcq,
              AllInFlight, QueuedSlots
<1> QED BY <1>1, <1>2, <1>3 DEF Next

(* For a host that keeps to HostRule, any number of slots and any mix of   *)
(* NCQ and other commands, failing or not, no assertion fails: block_if is *)
(* called with bc_mtx free, and with an ahci_ioreq.                        *)
THEOREM CarefulHostSafe == ASSUME Careful PROVE Spec => []NoAssertionFails
<1>1. Init => IInv /\ CarefulInv
  BY InitKeeps, CarefulInit
<1>2. IInv /\ CarefulInv /\ [Next]_vars => IInv' /\ CarefulInv'
  BY NextKeeps, CarefulNext
<1>3. CarefulInv => NoAssertionFails
  BY DEF CarefulInv, NoAssertionFails
<1> QED BY <1>1, <1>2, <1>3, PTL DEF Spec

(* For such a host the comment of ahci_handle_port holds: "Stop if device  *)
(* is busy or in error".  After a failed command no slot is started.       *)
THEOREM CarefulHostStops == ASSUME Careful PROVE Spec => StopsOnError
<1> DEFINE Rule == (pc \in {"mmio", "cb"}) /\ (pc' = pc \/ pc' = "dead") => ~failed
<1>1. Init => IInv /\ CarefulInv
  BY InitKeeps, CarefulInit
<1>2. IInv /\ CarefulInv /\ [Next]_vars => IInv' /\ CarefulInv'
  BY NextKeeps, CarefulNext
<1>3. IInv /\ CarefulInv /\ [Next]_vars => [Rule]_vars
  <2> SUFFICES ASSUME IInv, CarefulInv, Next, pc \in {"mmio", "cb"}, pc' = pc \/ pc' = "dead"
               PROVE  ~failed
    OBVIOUS
  <2>1. PICK s \in Slots : Turn(s, table[s])
    BY DEF Next, Host, Device, Start, WriteIS, WriteIE, WriteGIS, WriteGHC, WriteSACT, Write,
           HbaReset, WriteSCTL, WriteCI, WriteCMD, StartImmediate, StartEmptyTrim,
           StartControl, StartIo, StartIoDies, PortDone, Callback, CallbackDies, ThrDone
  <2> QED BY <2>1, CarefulTurn
<1> QED BY <1>1, <1>2, <1>3, PTL DEF Spec, StopsOnError

(* The safety half of CommandsEnd.  When the device waits for the host, a  *)
(* running port has no command left, or one has failed since the host last *)
(* stopped or reset the port: ahci_handle_port does not wait for the flag  *)
(* of an error that a reset has hidden.                                    *)
NothingWaits == pc = "idle" /\ port.st /\ port.ci # {} => failed

THEOREM CarefulHostKnows == ASSUME Careful PROVE Spec => []NothingWaits
<1>1. Init => IInv /\ CarefulInv
  BY InitKeeps, CarefulInit
<1>2. IInv /\ CarefulInv /\ [Next]_vars => IInv' /\ CarefulInv'
  BY NextKeeps, CarefulNext
<1>3. IInv /\ CarefulInv => NothingWaits
  <2> SUFFICES ASSUME IInv, CarefulInv, pc = "idle", port.st, port.ci # {}
               PROVE  failed
    BY DEF NothingWaits
  <2>1. queue = <<>>
    BY DEF IInv, NothingLeft
  <2>2. port.pending = {}
    BY <2>1 DEF QueuedSlots, IInv, PendingQueued
  <2>3. port.waitforclear
    BY <2>2 DEF CarefulInv, AllInFlight
  <2> QED BY <2>3 DEF CarefulInv, StopsKnown
<1> QED BY <1>1, <1>2, <1>3, PTL DEF Spec
-----------------------------------------------------------------------------
(* The data of commands (AhciPrdt)                                         *)

(* Induction: what holds of 0, and of each number after one of which it    *)
(* holds, holds up to n.                                                   *)
LEMMA Counting ==
  ASSUME NEW n \in Nat, NEW P, 0 \in P,
         \A k \in 0 .. n : k < n /\ k \in P => k + 1 \in P
  PROVE  \A k \in 0 .. n : k \in P
<1> DEFINE T == {k \in 0 .. n : k \notin P}
<1>1. SUFFICES ASSUME T # {} PROVE FALSE
  OBVIOUS
<1>2. PICK k \in T : \A j \in T : k <= j
  <2>1. T \in SUBSET Nat /\ T # {}
    BY <1>1
  <2> HIDE DEF T
  <2> QED BY <2>1, LeastNat
<1>3. k \in 1 .. n /\ k - 1 \in 0 .. n /\ k - 1 < n
  BY <1>2
<1>4. k - 1 \in P
  BY <1>2, <1>3
<1>5. (k - 1) + 1 \in P
  BY <1>3, <1>4
<1> QED BY <1>2, <1>3, <1>5

(* FirstSum is what its recursive function says: there is such a function. *)
LEMMA SumExists ==
  ASSUME NEW f, NEW n \in Nat
  PROVE  \E sum : /\ sum[0] = 0 /\ \A k \in 1 .. n : sum[k] = sum[k - 1] + f[k]
                  /\ FirstSum(f, n) = sum[n]
<1> DEFINE P == {i \in 0 .. n :
                   \E s : s = [k \in 0 .. i |-> IF k = 0 THEN 0 ELSE s[k - 1] + f[k]]}
           sum == CHOOSE s : s = [k \in 0 .. n |-> IF k = 0 THEN 0 ELSE s[k - 1] + f[k]]
<1>1. FirstSum(f, n) = sum[n]
  BY DEF FirstSum
<1>2. 0 \in P
  <2> DEFINE s == [k \in 0 .. 0 |-> 0]
  <2>1. s = [k \in 0 .. 0 |-> IF k = 0 THEN 0 ELSE s[k - 1] + f[k]]
    OBVIOUS
  <2> HIDE DEF s
  <2> QED BY <2>1
<1>3. ASSUME NEW i \in 0 .. n, i < n, i \in P PROVE i + 1 \in P
  <2>1. PICK s : s = [k \in 0 .. i |-> IF k = 0 THEN 0 ELSE s[k - 1] + f[k]]
    BY <1>3
  <2> DEFINE t == [k \in 0 .. (i + 1) |-> IF k <= i THEN s[k] ELSE s[i] + f[i + 1]]
  <2>2. ASSUME NEW k \in 0 .. (i + 1)
        PROVE  t[k] = IF k = 0 THEN 0 ELSE t[k - 1] + f[k]
    <3>1. CASE k = 0
      BY <2>1, <3>1
    <3>2. CASE k \in 1 .. i
      <4>1. k - 1 \in 0 .. i /\ k \in 0 .. i
        BY <3>2
      <4>2. s[k] = s[k - 1] + f[k]
        BY <2>1, <3>2, <4>1
      <4>3. t[k] = s[k] /\ t[k - 1] = s[k - 1]
        BY <3>2, <4>1
      <4> QED BY <3>2, <4>2, <4>3
    <3>3. CASE k = i + 1
      <4>1. k - 1 = i /\ t[k - 1] = s[i] /\ t[k] = s[i] + f[i + 1]
        BY <3>3
      <4> QED BY <3>3, <4>1
    <3> QED BY <3>1, <3>2, <3>3
  <2>3. t = [k \in 0 .. (i + 1) |-> IF k = 0 THEN 0 ELSE t[k - 1] + f[k]]
    <3>1. t = [k \in 0 .. (i + 1) |-> t[k]]
      OBVIOUS
    <3> HIDE DEF t
    <3> QED BY <2>2, <3>1
  <2> HIDE DEF t
  <2>4. \E u : u = [k \in 0 .. (i + 1) |-> IF k = 0 THEN 0 ELSE u[k - 1] + f[k]]
    BY <2>3
  <2>5. i + 1 \in 0 .. n
    BY <1>3
  <2> QED BY <2>4, <2>5
<1>4. n \in P
  <2> HIDE DEF P
  <2> QED BY <1>2, <1>3, Counting
<1>5. sum = [k \in 0 .. n |-> IF k = 0 THEN 0 ELSE sum[k - 1] + f[k]]
  BY <1>4
<1> HIDE DEF sum
<1>6. sum[0] = 0 /\ \A k \in 1 .. n : sum[k] = sum[k - 1] + f[k]
  <2>1. 0 \in 0 .. n /\ \A k \in 1 .. n : k \in 0 .. n /\ k # 0
    OBVIOUS
  <2> QED BY <1>5, <2>1
<1> QED BY <1>1, <1>6

LEMMA SumSteps ==
  ASSUME NEW f, NEW n \in Nat
  PROVE  FirstSum(f, 0) = 0 /\ FirstSum(f, n + 1) = FirstSum(f, n) + f[n + 1]
<1>1. FirstSum(f, 0) = 0
  BY SumExists
<1>2. PICK s : /\ s[0] = 0 /\ \A k \in 1 .. n : s[k] = s[k - 1] + f[k]
               /\ FirstSum(f, n) = s[n]
  BY SumExists
<1>3. PICK t : /\ t[0] = 0 /\ \A k \in 1 .. (n + 1) : t[k] = t[k - 1] + f[k]
               /\ FirstSum(f, n + 1) = t[n + 1]
  BY SumExists
<1> DEFINE P == {k \in 0 .. n : s[k] = t[k]}
<1>4. 0 \in P
  BY <1>2, <1>3
<1>5. ASSUME NEW k \in 0 .. n, k < n, k \in P PROVE k + 1 \in P
  <2>1. k + 1 \in 1 .. n /\ k + 1 \in 1 .. (n + 1) /\ k + 1 - 1 = k
    BY <1>5
  <2> QED BY <1>2, <1>3, <1>5, <2>1
<1>6. n \in P
  <2> HIDE DEF P
  <2> QED BY <1>4, <1>5, Counting
<1>7. n + 1 \in 1 .. (n + 1) /\ n + 1 - 1 = n
  OBVIOUS
<1> QED BY <1>1, <1>2, <1>3, <1>6, <1>7

(* Sums of natural numbers grow.                                           *)
LEMMA SumGrows ==
  ASSUME NEW f, NEW n \in Nat, \A k \in 1 .. n : f[k] \in Nat
  PROVE  \A k \in 0 .. n : /\ FirstSum(f, k) \in Nat
                           /\ \A j \in 0 .. k : FirstSum(f, j) <= FirstSum(f, k)
<1> DEFINE Holds(k) == \A j \in 0 .. k : FirstSum(f, j) \in Nat /\ FirstSum(f, j) <= FirstSum(f, k)
           P == {k \in 0 .. n : Holds(k)}
<1>1. Holds(0)
  <2>1. \A j \in 0 .. 0 : j = 0
    OBVIOUS
  <2> QED BY <2>1, SumSteps
<1>2. ASSUME NEW k \in 0 .. n, k < n, Holds(k) PROVE Holds(k + 1)
  <2>1. FirstSum(f, k + 1) = FirstSum(f, k) + f[k + 1]
    BY SumSteps
  <2>2. k \in 0 .. k /\ k + 1 \in 1 .. n
    BY <1>2
  <2>3. FirstSum(f, k) \in Nat /\ f[k + 1] \in Nat
    BY <1>2, <2>2
  <2>4. ASSUME NEW j \in 0 .. (k + 1)
        PROVE  FirstSum(f, j) \in Nat /\ FirstSum(f, j) <= FirstSum(f, k + 1)
    <3>1. CASE j \in 0 .. k
      <4>1. FirstSum(f, j) \in Nat /\ FirstSum(f, j) <= FirstSum(f, k)
        BY <1>2, <3>1
      <4> QED BY <2>1, <2>3, <4>1
    <3>2. CASE j = k + 1
      BY <2>1, <2>3, <3>2
    <3> QED BY <3>1, <3>2
  <2> QED BY <2>4
<1>3. \A k \in 0 .. n : k \in P
  <2> HIDE DEF Holds
  <2>1. 0 \in P
    BY <1>1
  <2>2. \A k \in 0 .. n : k < n /\ k \in P => k + 1 \in P
    BY <1>2
  <2> HIDE DEF P
  <2> QED BY <2>1, <2>2, Counting
<1> QED BY <1>3

(* A sum only depends on what it sums.                                     *)
LEMMA SumSame ==
  ASSUME NEW f, NEW g, NEW n \in Nat, \A k \in 1 .. n : f[k] = g[k]
  PROVE  \A k \in 0 .. n : FirstSum(f, k) = FirstSum(g, k)
<1> DEFINE P == {k \in 0 .. n : FirstSum(f, k) = FirstSum(g, k)}
<1>1. 0 \in P
  BY SumSteps
<1>2. ASSUME NEW k \in 0 .. n, k < n, k \in P PROVE k + 1 \in P
  <2>1. /\ FirstSum(f, k + 1) = FirstSum(f, k) + f[k + 1]
        /\ FirstSum(g, k + 1) = FirstSum(g, k) + g[k + 1]
    BY SumSteps
  <2>2. k + 1 \in 1 .. n
    BY <1>2
  <2> QED BY <1>2, <2>1, <2>2
<1>3. \A k \in 0 .. n : k \in P
  <2> HIDE DEF P
  <2> QED BY <1>1, <1>2, Counting
<1> QED BY <1>3

Vecs == [entry : Nat, off : Nat, len : Nat]

(* The bytes of the first vectors                                          *)
LEMMA UptoProperties ==
  ASSUME NEW v \in Seq(Vecs)
  PROVE  /\ Len(v) \in Nat /\ Upto(v, 0) = 0 /\ Total(v) = Upto(v, Len(v))
         /\ \A k \in 0 .. Len(v) : /\ Upto(v, k) \in Nat
                                   /\ \A j \in 0 .. k : Upto(v, j) <= Upto(v, k)
         /\ \A k \in 1 .. Len(v) : Upto(v, k) = Upto(v, k - 1) + v[k].len
<1> DEFINE f == [k \in DOMAIN v |-> v[k].len]
           n == Len(v)
<1>1. n \in Nat /\ DOMAIN v = 1 .. n
  BY LenProperties
<1>2. \A k \in 1 .. n : f[k] = v[k].len /\ f[k] \in Nat
  <2>1. \A k \in 1 .. n : v[k] \in Vecs
    BY <1>1, ElementOfSeq
  <2> QED BY <1>1, <2>1 DEF Vecs
<1>3. \A k : Upto(v, k) = FirstSum(f, k)
  BY DEF Upto
<1> HIDE DEF f, n
<1>4. \A k \in 0 .. n : /\ FirstSum(f, k) \in Nat
                        /\ \A j \in 0 .. k : FirstSum(f, j) <= FirstSum(f, k)
  BY <1>1, <1>2, SumGrows
<1>5. ASSUME NEW k \in 1 .. n PROVE FirstSum(f, k) = FirstSum(f, k - 1) + v[k].len
  <2>1. k - 1 \in Nat /\ (k - 1) + 1 = k
    BY <1>1
  <2>2. FirstSum(f, (k - 1) + 1) = FirstSum(f, k - 1) + f[(k - 1) + 1]
    BY <2>1, SumSteps
  <2> QED BY <1>2, <2>1, <2>2
<1>6. FirstSum(f, 0) = 0
  BY SumSteps
<1> QED BY <1>1, <1>3, <1>4, <1>5, <1>6 DEF Total, n

LEMMA UptoPrefix ==
  ASSUME NEW v \in Seq(Vecs), NEW w \in Seq(Vecs), NEW n \in Nat, n <= Len(v), n <= Len(w),
         \A k \in 1 .. n : v[k].len = w[k].len
  PROVE  \A k \in 0 .. n : Upto(v, k) = Upto(w, k)
<1> DEFINE f == [k \in DOMAIN v |-> v[k].len]
           g == [k \in DOMAIN w |-> w[k].len]
<1>1. \A k \in 1 .. n : k \in DOMAIN v /\ k \in DOMAIN w
  <2>1. /\ Len(v) \in Nat /\ DOMAIN v = 1 .. Len(v)
        /\ Len(w) \in Nat /\ DOMAIN w = 1 .. Len(w)
    BY LenProperties
  <2> QED BY <2>1
<1>2. \A k \in 1 .. n : f[k] = g[k]
  BY <1>1
<1>3. \A k : Upto(v, k) = FirstSum(f, k) /\ Upto(w, k) = FirstSum(g, k)
  BY DEF Upto
<1> HIDE DEF f, g
<1> QED BY <1>2, <1>3, SumSame

LEMMA UptoConcat ==
  ASSUME NEW v \in Seq(Vecs), NEW w \in Seq(Vecs)
  PROVE  /\ \A k \in 0 .. Len(v) : Upto(v \o w, k) = Upto(v, k)
         /\ \A k \in 0 .. Len(w) : Upto(v \o w, Len(v) + k) = Total(v) + Upto(w, k)
         /\ Total(v \o w) = Total(v) + Total(w)
<1> DEFINE x == v \o w
           m == Len(v)
           n == Len(w)
<1>1. /\ x \in Seq(Vecs) /\ m \in Nat /\ n \in Nat /\ Len(x) = m + n
      /\ \A k \in 1 .. (m + n) : x[k] = IF k <= m THEN v[k] ELSE w[k - m]
  BY ConcatProperties, LenProperties
<1> HIDE DEF x, m, n
<1>2. \A k \in 0 .. m : Upto(x, k) = Upto(v, k)
  <2>1. \A k \in 1 .. m : x[k].len = v[k].len
    BY <1>1
  <2>2. m <= Len(x) /\ m <= Len(v)
    BY <1>1 DEF m
  <2> QED BY <1>1, <2>1, <2>2, UptoPrefix
<1> DEFINE P == {k \in 0 .. n : Upto(x, m + k) = Total(v) + Upto(w, k)}
<1>3. 0 \in P
  <2>1. m \in 0 .. m
    BY <1>1
  <2>2. Upto(x, m) = Total(v) /\ Total(v) \in Nat /\ Upto(w, 0) = 0
    BY <1>2, <2>1, UptoProperties DEF m
  <2> QED BY <1>1, <2>2
<1>4. ASSUME NEW k \in 0 .. n, k < n, k \in P PROVE k + 1 \in P
  <2>1. /\ m + k + 1 \in 1 .. (m + n) /\ m + k + 1 - 1 = m + k /\ k + 1 \in 1 .. n /\ k + 1 - 1 = k
        /\ ~(m + k + 1 <= m) /\ m + k + 1 - m = k + 1 /\ k + 1 \in 0 .. n
    BY <1>1, <1>4
  <2>2. x[m + k + 1] = w[k + 1]
    BY <1>1, <2>1
  <2>3. Upto(x, m + k + 1) = Upto(x, m + k) + w[k + 1].len
    <3>1. \A j \in 1 .. Len(x) : Upto(x, j) = Upto(x, j - 1) + x[j].len
      BY <1>1, UptoProperties
    <3>2. PICK l \in 1 .. Len(x) : l = m + k + 1 /\ l - 1 = m + k
      BY <1>1, <2>1
    <3>3. Upto(x, l) = Upto(x, l - 1) + x[l].len
      BY <3>1
    <3>4. x[l] = w[k + 1]
      BY <2>2, <3>2
    <3> QED BY <3>2, <3>3, <3>4
  <2>4. Upto(w, k + 1) = Upto(w, k) + w[k + 1].len
    BY <2>1, UptoProperties DEF n
  <2>5. Upto(w, k) \in Nat /\ Total(v) \in Nat /\ w[k + 1].len \in Nat
    <3>1. k \in 0 .. n /\ m \in 0 .. m /\ w[k + 1] \in Vecs
      BY <1>1, <2>1, ElementOfSeq DEF n
    <3> QED BY <3>1, UptoProperties DEF Vecs, n, m
  <2>6. m + k + 1 = m + (k + 1)
    BY <1>1
  <2> QED BY <1>4, <2>1, <2>3, <2>4, <2>5, <2>6
<1>5. \A k \in 0 .. n : k \in P
  <2> HIDE DEF P
  <2> QED BY <1>1, <1>3, <1>4, Counting
<1>6. Total(x) = Total(v) + Total(w)
  <2>1. n \in 0 .. n
    BY <1>1
  <2> QED BY <1>1, <1>5, <2>1, UptoProperties DEF n
<1> QED BY <1>2, <1>5, <1>6 DEF x, m, n

(* w is v with a vector more.                                              *)
Longer(v, e, w) ==
  /\ w \in Seq(Vecs) /\ Len(w) = Len(v) + 1 /\ w # <<>>
  /\ \A k \in 1 .. Len(v) : w[k] = v[k]
  /\ w[Len(v) + 1] = e
  /\ \A k \in 0 .. Len(v) : Upto(w, k) = Upto(v, k)
  /\ Total(w) = Total(v) + e.len

LEMMA UptoAppend ==
  ASSUME NEW v \in Seq(Vecs), NEW e \in Vecs, NEW w, w = Append(v, e)
  PROVE  Longer(v, e, w)
<1>1. /\ w \in Seq(Vecs) /\ Len(w) = Len(v) + 1 /\ Len(v) \in Nat /\ w # <<>>
      /\ \A k \in 1 .. Len(v) : w[k] = v[k]
      /\ w[Len(v) + 1] = e
  BY AppendProperties, LenProperties
<1>2. \A k \in 0 .. Len(v) : Upto(w, k) = Upto(v, k)
  <2> DEFINE n == Len(v)
  <2>1. n \in Nat /\ n <= Len(v) /\ n <= Len(w) /\ \A k \in 1 .. n : w[k].len = v[k].len
    BY <1>1
  <2> HIDE DEF n
  <2>2. \A k \in 0 .. n : Upto(w, k) = Upto(v, k)
    BY <1>1, <2>1, UptoPrefix
  <2> QED BY <2>2 DEF n
<1>3. Total(w) = Total(v) + e.len
  <2>1. Len(v) + 1 \in 1 .. Len(w) /\ Len(v) + 1 - 1 = Len(v) /\ Len(v) \in 0 .. Len(v)
    BY <1>1
  <2>2. Upto(w, Len(v) + 1) = Upto(w, Len(v)) + e.len
    <3>1. \A j \in 1 .. Len(w) : Upto(w, j) = Upto(w, j - 1) + w[j].len
      BY <1>1, UptoProperties
    <3> QED BY <1>1, <2>1, <3>1
  <2> QED BY <1>1, <1>2, <2>1, <2>2, UptoProperties
<1> QED BY <1>1, <1>2, <1>3 DEF Longer

(* The loop of ahci_build_iov over a table                                 *)
Turns(tbl, bytes, from, max, turn) ==
  /\ turn[0] = [i |-> 0, skip |-> from, left |-> bytes - from, vecs |-> <<>>]
  /\ \A k \in 1 .. Len(tbl) : turn[k] = AddEntry(turn[k - 1], tbl[k], max)
  /\ Walk(tbl, bytes, from, max) = turn[Len(tbl)]

LEMMA WalkLoop ==
  ASSUME NEW tbl, Len(tbl) \in Nat, NEW bytes, NEW from, NEW max
  PROVE  \E turn : Turns(tbl, bytes, from, max, turn)
<1> DEFINE n == Len(tbl)
           start == [i |-> 0, skip |-> from, left |-> bytes - from, vecs |-> <<>>]
           Add(a, k) == AddEntry(a, tbl[k], max)
           turn == CHOOSE s : s = [k \in 0 .. n |-> IF k = 0 THEN start ELSE Add(s[k - 1], k)]
           P == {i \in 0 .. n : \E s : s = [k \in 0 .. i |-> IF k = 0 THEN start ELSE Add(s[k - 1], k)]}
<1>1. Walk(tbl, bytes, from, max) = turn[n]
  BY DEF Walk
<1>2. n \in Nat
  OBVIOUS
<1> HIDE DEF Add, n, start
<1>3. 0 \in P
  <2> DEFINE s == [k \in 0 .. 0 |-> start]
  <2>1. s = [k \in 0 .. 0 |-> IF k = 0 THEN start ELSE Add(s[k - 1], k)]
    OBVIOUS
  <2> HIDE DEF s
  <2> QED BY <1>2, <2>1
<1>4. ASSUME NEW i \in 0 .. n, i < n, i \in P PROVE i + 1 \in P
  <2>1. PICK s : s = [k \in 0 .. i |-> IF k = 0 THEN start ELSE Add(s[k - 1], k)]
    BY <1>4
  <2> DEFINE t == [k \in 0 .. (i + 1) |-> IF k <= i THEN s[k] ELSE Add(s[i], i + 1)]
  <2>2. ASSUME NEW k \in 0 .. (i + 1)
        PROVE  t[k] = IF k = 0 THEN start ELSE Add(t[k - 1], k)
    <3>1. CASE k = 0
      BY <2>1, <3>1
    <3>2. CASE k \in 1 .. i
      <4>1. k - 1 \in 0 .. i /\ k \in 0 .. i
        BY <3>2
      <4>2. s[k] = Add(s[k - 1], k)
        BY <2>1, <3>2, <4>1
      <4>3. t[k] = s[k] /\ t[k - 1] = s[k - 1]
        BY <3>2, <4>1
      <4> QED BY <3>2, <4>2, <4>3
    <3>3. CASE k = i + 1
      <4>1. k - 1 = i /\ t[k - 1] = s[i] /\ t[k] = Add(s[i], k)
        BY <3>3
      <4> QED BY <3>3, <4>1
    <3> QED BY <3>1, <3>2, <3>3
  <2>3. t = [k \in 0 .. (i + 1) |-> IF k = 0 THEN start ELSE Add(t[k - 1], k)]
    <3>1. t = [k \in 0 .. (i + 1) |-> t[k]]
      OBVIOUS
    <3> HIDE DEF t
    <3> QED BY <2>2, <3>1
  <2> HIDE DEF t
  <2>4. \E u : u = [k \in 0 .. (i + 1) |-> IF k = 0 THEN start ELSE Add(u[k - 1], k)]
    BY <2>3
  <2>5. i + 1 \in 0 .. n
    BY <1>2, <1>4
  <2> QED BY <2>4, <2>5
<1>5. n \in P
  <2> HIDE DEF P
  <2>1. \A i \in 0 .. n : i < n /\ i \in P => i + 1 \in P
    BY <1>4
  <2>2. \A i \in 0 .. n : i \in P
    BY <1>2, <1>3, <2>1, Counting
  <2> QED BY <1>2, <2>2
<1>6. turn = [k \in 0 .. n |-> IF k = 0 THEN start ELSE Add(turn[k - 1], k)]
  BY <1>5
<1> HIDE DEF turn
<1>7. turn[0] = start /\ \A k \in 1 .. n : turn[k] = Add(turn[k - 1], k)
  <2>1. 0 \in 0 .. n /\ \A k \in 1 .. n : k \in 0 .. n /\ k # 0
    BY <1>2
  <2> QED BY <1>6, <2>1
<1>8. Turns(tbl, bytes, from, max, turn)
  BY <1>1, <1>7 DEF Turns, Add, n, start
<1> QED BY <1>8

(* The vectors are the bytes of the table from from on, one for each entry *)
(* up to entry i.                                                          *)
Pieces(tbl, from, i, v) ==
  \A j \in 1 .. Len(v) :
    /\ v[j].entry = i - Len(v) + j /\ v[j].entry \in 1 .. Len(tbl)
    /\ v[j].len > 0 /\ v[j].off + v[j].len <= tbl[v[j].entry]
    /\ FirstSum(tbl, v[j].entry - 1) + v[j].off = from + Upto(v, j - 1)

(* The loop after k turns: it goes on from the last byte of the vectors,   *)
(* or, if there are none yet, a.skip bytes before the first.               *)
Walked(tbl, bytes, from, max, a, k) ==
  /\ a.i \in 0 .. k /\ a.skip \in Nat /\ a.left \in Nat
  /\ a.vecs \in Seq(Vecs) /\ Len(a.vecs) <= max
  /\ a.left = bytes - from - Total(a.vecs)
  /\ Len(a.vecs) = max \/ a.left = 0 \/ a.i = k
  /\ a.left > 0 => from + Total(a.vecs) = FirstSum(tbl, a.i) + a.skip
  /\ a.vecs # <<>> => a.skip = 0
  /\ Pieces(tbl, from, a.i, a.vecs)

(* A turn that adds a vector                                               *)
LEMMA WalkAdd ==
  ASSUME NEW tbl, NEW from \in Nat, NEW i \in Nat, i + 1 \in 1 .. Len(tbl),
         NEW v \in Seq(Vecs), Pieces(tbl, from, i, v),
         NEW e \in Vecs, e.entry = i + 1, e.len > 0, e.off + e.len <= tbl[i + 1],
         FirstSum(tbl, i) + e.off = from + Total(v),
         NEW w \in Seq(Vecs), Len(w) = Len(v) + 1, w[Len(v) + 1] = e,
         \A j \in 1 .. Len(v) : w[j] = v[j],
         \A j \in 0 .. Len(v) : Upto(w, j) = Upto(v, j)
  PROVE  Pieces(tbl, from, i + 1, w)
<1>1. Len(v) \in Nat /\ Total(v) = Upto(v, Len(v))
  BY UptoProperties
<1>2. SUFFICES ASSUME NEW j \in 1 .. Len(w)
      PROVE  /\ w[j].entry = (i + 1) - Len(w) + j /\ w[j].entry \in 1 .. Len(tbl)
             /\ w[j].len > 0 /\ w[j].off + w[j].len <= tbl[w[j].entry]
             /\ FirstSum(tbl, w[j].entry - 1) + w[j].off = from + Upto(w, j - 1)
  BY DEF Pieces
<1>3. CASE j = Len(v) + 1
  <2>1. w[j] = e /\ j - 1 = Len(v) /\ Len(v) \in 0 .. Len(v)
    BY <1>1, <1>3
  <2>2. Upto(w, j - 1) = Total(v)
    BY <1>1, <2>1
  <2>3. (i + 1) - Len(w) + j = i + 1 /\ (i + 1) - 1 = i
    BY <1>1, <1>3
  <2> QED BY <2>1, <2>2, <2>3
<1>4. CASE j \in 1 .. Len(v)
  <2>1. j - 1 \in 0 .. Len(v) /\ w[j] = v[j]
    BY <1>1, <1>4
  <2>2. Upto(w, j - 1) = Upto(v, j - 1)
    BY <2>1
  <2>3. (i + 1) - Len(w) + j = i - Len(v) + j
    BY <1>1, <1>4
  <2>4. /\ v[j].entry = i - Len(v) + j /\ v[j].entry \in 1 .. Len(tbl)
        /\ v[j].len > 0 /\ v[j].off + v[j].len <= tbl[v[j].entry]
        /\ FirstSum(tbl, v[j].entry - 1) + v[j].off = from + Upto(v, j - 1)
    BY <1>4 DEF Pieces
  <2> QED BY <2>1, <2>2, <2>3, <2>4
<1> QED BY <1>1, <1>3, <1>4

LEMMA WalkTurn ==
  ASSUME NEW tbl \in Seq(Nat \ {0}), NEW bytes \in Nat, NEW from \in Nat, NEW max \in Nat,
         NEW k \in 1 .. Len(tbl),
         NEW a, Walked(tbl, bytes, from, max, a, k - 1), NEW b, b = AddEntry(a, tbl[k], max)
  PROVE  Walked(tbl, bytes, from, max, b, k)
<1> DEFINE d == tbl[k]
           i == a.i
           skip == a.skip
           left == a.left
           v == a.vecs
           n == Smaller(d - skip, left)
           e == [entry |-> i + 1, off |-> skip, len |-> n]
<1>0. Len(tbl) \in Nat /\ d \in Nat /\ d > 0 /\ k \in Nat /\ k - 1 \in Nat /\ k - 1 + 1 = k
  <2>1. d \in Nat \ {0}
    BY ElementOfSeq
  <2> QED BY <2>1, LenProperties
<1>1. /\ i \in 0 .. (k - 1) /\ skip \in Nat /\ left \in Nat
      /\ v \in Seq(Vecs) /\ Len(v) <= max
      /\ left = bytes - from - Total(v)
      /\ Len(v) = max \/ left = 0 \/ i = k - 1
      /\ left > 0 => from + Total(v) = FirstSum(tbl, i) + skip
      /\ v # <<>> => skip = 0
      /\ Pieces(tbl, from, i, v)
  BY DEF Walked
<1>2. \/ (Len(v) = max \/ left = 0) /\ b = a
      \/ ~(Len(v) = max \/ left = 0) /\ d <= skip /\ b = [a EXCEPT !.i = i + 1, !.skip = skip - d]
      \/ /\ ~(Len(v) = max \/ left = 0) /\ ~(d <= skip)
         /\ b = [i |-> i + 1, skip |-> 0, left |-> left - n, vecs |-> Append(v, e)]
  BY DEF AddEntry
<1>3. CASE b = a /\ (Len(v) = max \/ left = 0)
  <2> HIDE DEF i, skip, left, v
  <2>1. i \in 0 .. k
    BY <1>0, <1>1
  <2>2. /\ b.i = i /\ b.skip = skip /\ b.left = left /\ b.vecs = v
    BY <1>3 DEF i, skip, left, v
  <2> QED BY <1>1, <1>3, <2>1, <2>2 DEF Walked
<1> HIDE DEF d
<1>4. ASSUME ~(Len(v) = max \/ left = 0)
      PROVE  /\ i = k - 1 /\ left > 0 /\ left \in Nat /\ skip \in Nat
             /\ FirstSum(tbl, i) \in Nat /\ FirstSum(tbl, k) = FirstSum(tbl, i) + d
             /\ i + 1 = k /\ i + 1 \in 0 .. k /\ from + Total(v) = FirstSum(tbl, i) + skip
             /\ Len(v) \in Nat /\ Total(v) \in Nat /\ Len(v) < max
  <2> HIDE DEF i, skip, left, v
  <2>1. i = k - 1 /\ left > 0
    BY <1>1, <1>4
  <2>2. FirstSum(tbl, k - 1 + 1) = FirstSum(tbl, k - 1) + tbl[k - 1 + 1]
    BY <1>0, SumSteps
  <2>3. FirstSum(tbl, k - 1) \in Nat
    <3>1. \A j \in 1 .. Len(tbl) : tbl[j] \in Nat
      <4>1. \A j \in 1 .. Len(tbl) : tbl[j] \in Nat \ {0}
        BY ElementOfSeq
      <4> QED BY <4>1
    <3>2. k - 1 \in 0 .. Len(tbl)
      BY <1>0
    <3> QED BY <1>0, <3>1, <3>2, SumGrows
  <2>4. Len(v) \in Nat /\ Total(v) \in Nat
    <3>1. Len(v) \in 0 .. Len(v)
      BY <1>1, UptoProperties
    <3> QED BY <1>1, <3>1, UptoProperties
  <2> QED BY <1>0, <1>1, <1>4, <2>1, <2>2, <2>3, <2>4 DEF d
<1>5. CASE /\ ~(Len(v) = max \/ left = 0) /\ d <= skip
           /\ b = [a EXCEPT !.i = i + 1, !.skip = skip - d]
  <2>1. b.i = i + 1 /\ b.skip = skip - d /\ b.left = left /\ b.vecs = v
    BY <1>5 DEF Walked
  <2> HIDE DEF i, skip, left, v
  <2>0. /\ i = k - 1 /\ left > 0 /\ left \in Nat /\ skip \in Nat
        /\ FirstSum(tbl, i) \in Nat /\ FirstSum(tbl, k) = FirstSum(tbl, i) + d
        /\ i + 1 = k /\ i + 1 \in 0 .. k /\ from + Total(v) = FirstSum(tbl, i) + skip
        /\ Len(v) \in Nat /\ Total(v) \in Nat /\ Len(v) < max
        /\ d <= skip
    BY <1>4, <1>5
  <2>2. skip - d \in Nat /\ v = <<>>
    <3>1. skip # 0
      BY <1>0, <2>0
    <3> QED BY <1>0, <1>1, <2>0, <3>1
  <2>3. from + Total(v) = FirstSum(tbl, k) + (skip - d)
    BY <1>0, <2>0
  <2>4. Pieces(tbl, from, i + 1, v)
    <3>1. Len(v) = 0
      BY <2>2, EmptySeq
    <3> QED BY <3>1 DEF Pieces
  <2> QED BY <1>1, <2>0, <2>1, <2>2, <2>3, <2>4 DEF Walked
<1>6. CASE /\ ~(Len(v) = max \/ left = 0) /\ ~(d <= skip)
           /\ b = [i |-> i + 1, skip |-> 0, left |-> left - n, vecs |-> Append(v, e)]
  <2> DEFINE w == Append(v, e)
             total == Total(v)
             sum == FirstSum(tbl, i)
  <2>1. b.i = i + 1 /\ b.skip = 0 /\ b.left = left - n /\ b.vecs = w
    BY <1>6
  <2>2. e.entry = i + 1 /\ e.off = skip /\ e.len = n /\ e = [entry |-> i + 1, off |-> skip, len |-> n]
    OBVIOUS
  <2> HIDE DEF i, skip, left, v, e, w
  <2>3. /\ i = k - 1 /\ i \in Nat /\ i + 1 = k /\ i + 1 \in 0 .. k /\ i + 1 \in 1 .. Len(tbl)
        /\ d = tbl[i + 1] /\ Len(v) < max /\ Len(v) \in Nat
    BY <1>0, <1>4, <1>6 DEF d
  <2>4. /\ left > 0 /\ left \in Nat /\ skip \in Nat /\ skip < d /\ sum \in Nat /\ total \in Nat
        /\ from + total = sum + skip /\ left = bytes - from - total
    BY <1>0, <1>1, <1>4, <1>6
  <2>5. FirstSum(tbl, i + 1) = sum + d
    BY <1>4, <1>6
  <2> HIDE DEF total, sum
  <2>6. /\ n \in Nat /\ n > 0 /\ skip + n <= d
        /\ left - n \in Nat /\ left - n = bytes - from - (total + n)
        /\ left - n > 0 => from + (total + n) = sum + d
    <3>1. n = Smaller(d - skip, left)
      OBVIOUS
    <3> HIDE DEF n
    <3> QED BY <1>0, <2>4, <3>1 DEF Smaller
  <2> HIDE DEF n
  <2>7. e \in Vecs
    BY <2>2, <2>3, <2>4, <2>6 DEF Vecs
  <2>8. /\ w \in Seq(Vecs) /\ Len(w) = Len(v) + 1 /\ w # <<>>
        /\ \A j \in 1 .. Len(v) : w[j] = v[j]
        /\ w[Len(v) + 1] = e
        /\ \A j \in 0 .. Len(v) : Upto(w, j) = Upto(v, j)
        /\ Total(w) = total + n
    <3>1. v \in Seq(Vecs) /\ w = Append(v, e)
      BY <1>1 DEF w
    <3>2. Longer(v, e, w)
      BY <2>7, <3>1, UptoAppend, Zenon
    <3>3. Total(v) = total
      BY DEF total
    <3>4. e.len = n
      BY <2>2
    <3> QED BY <3>2, <3>3, <3>4 DEF Longer
  <2>9. Pieces(tbl, from, i + 1, w)
    <3>1. FirstSum(tbl, i) + e.off = from + Total(v)
      BY <2>2, <2>4 DEF sum, total
    <3>2. e.off + e.len <= tbl[i + 1]
      BY <2>2, <2>3, <2>6
    <3> QED BY <1>1, <2>2, <2>3, <2>6, <2>7, <2>8, <3>1, <3>2, WalkAdd
  <2>10. /\ left - n \in Nat /\ left - n = bytes - from - Total(w)
         /\ left - n > 0 => from + Total(w) = FirstSum(tbl, i + 1) + 0
    <3>1. sum + d = sum + d + 0
      BY <1>0, <2>4
    <3> QED BY <2>5, <2>6, <2>8, <3>1
  <2>11. Len(w) <= max /\ b.i \in 0 .. k /\ b.i = k
    BY <2>1, <2>3, <2>8
  <2> QED BY <2>1, <2>3, <2>8, <2>9, <2>10, <2>11 DEF Walked
<1> QED BY <1>2, <1>3, <1>5, <1>6

(* The loop leaves the vectors of an iovec.                                *)
LEMMA WalkProperties ==
  ASSUME NEW tbl \in Seq(Nat \ {0}), NEW bytes \in Nat, NEW from \in Nat, NEW max \in Nat,
         from <= bytes, NEW a, a = Walk(tbl, bytes, from, max)
  PROVE  Walked(tbl, bytes, from, max, a, Len(tbl))
<1> DEFINE n == Len(tbl)
<1>1. n \in Nat
  BY LenProperties
<1>2. PICK turn :
           /\ turn[0] = [i |-> 0, skip |-> from, left |-> bytes - from, vecs |-> <<>>]
           /\ \A k \in 1 .. Len(tbl) : turn[k] = AddEntry(turn[k - 1], tbl[k], max)
           /\ Walk(tbl, bytes, from, max) = turn[Len(tbl)]
  <2>1. \E turn : Turns(tbl, bytes, from, max, turn)
    BY <1>1, WalkLoop
  <2> QED BY <2>1 DEF Turns
<1> DEFINE P == {k \in 0 .. n : Walked(tbl, bytes, from, max, turn[k], k)}
<1>3. 0 \in P
  <2> DEFINE b == turn[0]
  <2>1. b.i = 0 /\ b.skip = from /\ b.left = bytes - from /\ b.vecs = <<>>
    BY <1>2
  <2> HIDE DEF b
  <2>2. <<>> \in Seq(Vecs) /\ Len(<<>>) = 0
    BY EmptySeq
  <2>3. Total(<<>>) = 0 /\ FirstSum(tbl, 0) = 0
    <3>1. Upto(<<>>, 0) = 0 /\ Total(<<>>) = Upto(<<>>, Len(<<>>))
      BY <2>2, UptoProperties
    <3> QED BY <2>2, <3>1, SumSteps
  <2>4. Pieces(tbl, from, 0, <<>>)
    BY <2>2 DEF Pieces
  <2>5. bytes - from \in Nat /\ bytes - from = bytes - from - 0 /\ from + 0 = 0 + from /\ 0 <= max
    OBVIOUS
  <2>6. Walked(tbl, bytes, from, max, b, 0)
    BY <2>1, <2>2, <2>3, <2>4, <2>5 DEF Walked
  <2> QED BY <1>1, <2>6 DEF b
<1>4. ASSUME NEW k \in 0 .. n, k < n, k \in P PROVE k + 1 \in P
  <2>1. PICK l \in 1 .. Len(tbl) : l = k + 1 /\ l - 1 = k
    BY <1>1, <1>4
  <2> DEFINE b == turn[l]
             c == turn[l - 1]
  <2>2. b = AddEntry(c, tbl[l], max)
    BY <1>2
  <2>3. Walked(tbl, bytes, from, max, c, l - 1)
    BY <1>4, <2>1
  <2> HIDE DEF b, c
  <2>4. Walked(tbl, bytes, from, max, b, l)
    BY <2>2, <2>3, WalkTurn
  <2>5. Walked(tbl, bytes, from, max, turn[l], l)
    BY <2>4 DEF b
  <2> QED BY <2>1, <2>5
<1>5. n \in P
  <2>1. \A k \in 0 .. n : k < n /\ k \in P => k + 1 \in P
    BY <1>4
  <2> HIDE DEF P, n
  <2>2. \A k \in 0 .. n : k \in P
    BY <1>1, <1>3, <2>1, Counting
  <2> QED BY <1>1, <2>2
<1> QED BY <1>2, <1>5

(* Division                                                                *)
LEMMA Quotient ==
  ASSUME NEW s \in Nat, s > 0, NEW y \in Nat
  PROVE  y % s \in Nat /\ y % s < s /\ y % s <= y /\ \E q \in Nat : y = q * s + (y % s)
<1>1. y % s \in 0 .. (s - 1) /\ y \div s \in Nat
  OBVIOUS
<1>2. y = s * (y \div s) + (y % s)
  OBVIOUS
<1>3. y % s <= y
  BY <1>1, <1>2
<1> QED BY <1>1, <1>2, <1>3

LEMMA Remainder ==
  ASSUME NEW s \in Nat, s > 0, NEW x \in Nat, NEW q \in Nat, NEW r \in Nat, x = q * s + r, r < s
  PROVE  x % s = r
<1> DEFINE a == x \div s
           b == x % s
<1>1. a \in Nat /\ b \in Nat /\ b < s /\ q * s + r = s * a + b
  <2>1. x = s * (x \div s) + (x % s) /\ x % s \in 0 .. (s - 1) /\ x \div s \in Nat
    OBVIOUS
  <2> QED BY <2>1
<1> HIDE DEF a, b
<1>2. CASE q = a
  BY <1>1, <1>2
<1>3. CASE q < a
  <2>1. PICK d \in Nat : a = q + d + 1
    BY <1>1, <1>3
  <2>2. s * a = q * s + s * d + s
    BY <1>1, <2>1
  <2>3. s * d \in Nat /\ q * s \in Nat
    BY <2>1
  <2> QED BY <1>1, <2>2, <2>3
<1>4. CASE a < q
  <2>1. PICK d \in Nat : q = a + d + 1
    BY <1>1, <1>4
  <2>2. q * s = s * a + s * d + s
    BY <1>1, <2>1
  <2>3. s * d \in Nat /\ s * a \in Nat
    BY <1>1, <2>1
  <2> QED BY <1>1, <2>2, <2>3
<1> QED BY <1>1, <1>2, <1>3, <1>4 DEF b

(* What is added to whole sectors, and what remains without the rest       *)
Whole(s, x, y) ==
  (x + y) % s = y % s /\ y - (y % s) \in Nat /\ (x + (y - (y % s))) % s = 0

LEMMA WholeSectors ==
  ASSUME NEW s \in Nat, s > 0, NEW x \in Nat, NEW y \in Nat, x % s = 0
  PROVE  Whole(s, x, y)
<1>1. PICK p \in Nat : x = p * s
  <2>1. PICK p \in Nat : x = p * s + (x % s)
    BY Quotient
  <2>2. p * s \in Nat
    OBVIOUS
  <2> QED BY <2>1, <2>2
<1>2. PICK q \in Nat : y = q * s + (y % s)
  BY Quotient
<1> DEFINE r == y % s
<1>3. r \in Nat /\ r < s /\ y = q * s + r
  BY <1>2, Quotient
<1> HIDE DEF r
<1>4. PICK z \in Nat : z = x + y
  OBVIOUS
<1>5. PICK u \in Nat : u = p + q
  OBVIOUS
<1>6. u * s = p * s + q * s /\ u * s \in Nat /\ p * s \in Nat /\ q * s \in Nat
  BY <1>5
<1>7. z % s = r
  <2>1. z = u * s + r
    BY <1>1, <1>3, <1>4, <1>6
  <2> QED BY <1>3, <2>1, Remainder
<1>8. PICK w \in Nat : w = x + (y - r)
  BY <1>3, <1>6
<1>9. w % s = 0
  <2>1. w = u * s + 0
    BY <1>1, <1>3, <1>6, <1>8
  <2> QED BY <2>1, Remainder
<1>10. y - r \in Nat
  BY <1>3, <1>6
<1> QED BY <1>4, <1>7, <1>8, <1>9, <1>10 DEF Whole, r

(* The loop that takes the bytes of a part of a sector                     *)
Cuts(v, cut) ==
  /\ cut[0] = [j |-> Len(v), extra |-> Total(v) % Sect]
  /\ \A k \in 1 .. Len(v) : cut[k] = CutVector(cut[k - 1], v)
  /\ ~(Len(v) < IOV_MAX) =>
       RoundDown(v) = [k \in 1 .. cut[Len(v)].j |->
                         [v[k] EXCEPT !.len = IF k = cut[Len(v)].j THEN @ - cut[Len(v)].extra ELSE @]]

LEMMA CutLoop ==
  ASSUME NEW v, Len(v) \in Nat
  PROVE  \E cut : Cuts(v, cut)
<1> DEFINE n == Len(v)
           start == [j |-> Len(v), extra |-> Total(v) % Sect]
           Add(a) == CutVector(a, v)
           cut == CHOOSE s : s = [k \in 0 .. n |-> IF k = 0 THEN start ELSE Add(s[k - 1])]
           P == {i \in 0 .. n : \E s : s = [k \in 0 .. i |-> IF k = 0 THEN start ELSE Add(s[k - 1])]}
<1>1. ~(Len(v) < IOV_MAX) =>
        RoundDown(v) = [k \in 1 .. cut[n].j |->
                          [v[k] EXCEPT !.len = IF k = cut[n].j THEN @ - cut[n].extra ELSE @]]
  BY DEF RoundDown
<1>2. n \in Nat
  OBVIOUS
<1> HIDE DEF Add, n, start
<1>3. 0 \in P
  <2> DEFINE s == [k \in 0 .. 0 |-> start]
  <2>1. s = [k \in 0 .. 0 |-> IF k = 0 THEN start ELSE Add(s[k - 1])]
    OBVIOUS
  <2> HIDE DEF s
  <2> QED BY <1>2, <2>1
<1>4. ASSUME NEW i \in 0 .. n, i < n, i \in P PROVE i + 1 \in P
  <2>1. PICK s : s = [k \in 0 .. i |-> IF k = 0 THEN start ELSE Add(s[k - 1])]
    BY <1>4
  <2> DEFINE t == [k \in 0 .. (i + 1) |-> IF k <= i THEN s[k] ELSE Add(s[i])]
  <2>2. ASSUME NEW k \in 0 .. (i + 1)
        PROVE  t[k] = IF k = 0 THEN start ELSE Add(t[k - 1])
    <3>1. CASE k = 0
      BY <2>1, <3>1
    <3>2. CASE k \in 1 .. i
      <4>1. k - 1 \in 0 .. i /\ k \in 0 .. i
        BY <3>2
      <4>2. s[k] = Add(s[k - 1])
        BY <2>1, <3>2, <4>1
      <4>3. t[k] = s[k] /\ t[k - 1] = s[k - 1]
        BY <3>2, <4>1
      <4> QED BY <3>2, <4>2, <4>3
    <3>3. CASE k = i + 1
      <4>1. k - 1 = i /\ t[k - 1] = s[i] /\ t[k] = Add(s[i])
        BY <3>3
      <4> QED BY <3>3, <4>1
    <3> QED BY <3>1, <3>2, <3>3
  <2>3. t = [k \in 0 .. (i + 1) |-> IF k = 0 THEN start ELSE Add(t[k - 1])]
    <3>1. t = [k \in 0 .. (i + 1) |-> t[k]]
      OBVIOUS
    <3> HIDE DEF t
    <3> QED BY <2>2, <3>1
  <2> HIDE DEF t
  <2>4. \E u : u = [k \in 0 .. (i + 1) |-> IF k = 0 THEN start ELSE Add(u[k - 1])]
    BY <2>3
  <2>5. i + 1 \in 0 .. n
    BY <1>2, <1>4
  <2> QED BY <2>4, <2>5
<1>5. n \in P
  <2> HIDE DEF P
  <2>1. \A i \in 0 .. n : i < n /\ i \in P => i + 1 \in P
    BY <1>4
  <2>2. \A i \in 0 .. n : i \in P
    BY <1>2, <1>3, <2>1, Counting
  <2> QED BY <1>2, <2>2
<1>6. cut = [k \in 0 .. n |-> IF k = 0 THEN start ELSE Add(cut[k - 1])]
  BY <1>5
<1> HIDE DEF cut
<1>7. cut[0] = start /\ \A k \in 1 .. n : cut[k] = Add(cut[k - 1])
  <2>1. 0 \in 0 .. n /\ \A k \in 1 .. n : k \in 0 .. n /\ k # 0
    BY <1>2
  <2> QED BY <1>6, <2>1
<1>8. Cuts(v, cut)
  BY <1>1, <1>7 DEF Cuts, Add, n, start
<1> QED BY <1>8

(* That loop after k turns: the first a.j vectors have a.extra bytes more  *)
(* than there should be.                                                   *)
CutTo(v, keep, a, k) ==
  /\ a.j \in 0 .. Len(v) /\ a.extra \in Nat
  /\ Upto(v, a.j) = keep + a.extra
  /\ a.extra = 0 \/ (a.j > 0 /\ v[a.j].len > a.extra) \/ a.j = Len(v) - k

LEMMA CutTurn ==
  ASSUME NEW v \in Seq(Vecs), NEW keep \in Nat, NEW k \in 1 .. Len(v), NEW a, CutTo(v, keep, a, k - 1),
         NEW b, b = CutVector(a, v)
  PROVE  CutTo(v, keep, b, k)
<1>1. /\ Len(v) \in Nat /\ Upto(v, 0) = 0
      /\ \A j \in 0 .. Len(v) : Upto(v, j) \in Nat
      /\ \A j \in 1 .. Len(v) : Upto(v, j) = Upto(v, j - 1) + v[j].len
  BY UptoProperties
<1>2. /\ a.j \in 0 .. Len(v) /\ a.extra \in Nat
      /\ Upto(v, a.j) = keep + a.extra
      /\ a.extra = 0 \/ (a.j > 0 /\ v[a.j].len > a.extra) \/ a.j = Len(v) - (k - 1)
  BY DEF CutTo
<1> DEFINE j == a.j
           x == a.extra
<1>3. CASE x = 0 \/ v[j].len > x
  <2>1. b = a
    BY <1>3 DEF CutVector
  <2>2. x # 0 => j > 0
    BY <1>1, <1>2
  <2> QED BY <1>2, <1>3, <2>1, <2>2 DEF CutTo
<1>4. CASE ~(x = 0 \/ v[j].len > x)
  <2>1. b.j = j - 1 /\ b.extra = x - v[j].len
    BY <1>4 DEF CutVector
  <2> HIDE DEF j, x
  <2>2. j \in 0 .. Len(v) /\ x \in Nat /\ Upto(v, j) = keep + x /\ x # 0
    BY <1>2, <1>4 DEF j, x
  <2>3. j \in 1 .. Len(v)
    BY <1>1, <2>2
  <2>4. v[j].len \in Nat /\ v[j].len <= x
    <3>1. v[j] \in Vecs
      BY <2>3, ElementOfSeq
    <3> QED BY <1>4, <2>2, <3>1 DEF Vecs
  <2>5. j = Len(v) - (k - 1)
    BY <1>2, <1>4, <2>2, <2>4 DEF j, x
  <2>6. /\ j - 1 \in 0 .. Len(v) /\ x - v[j].len \in Nat /\ j - 1 = Len(v) - k
        /\ Upto(v, j - 1) = keep + (x - v[j].len)
    <3>1. Upto(v, j) = Upto(v, j - 1) + v[j].len /\ Upto(v, j - 1) \in Nat
      <4>1. j - 1 \in 0 .. Len(v)
        BY <1>1, <2>3
      <4> QED BY <1>1, <2>3, <4>1
    <3>2. PICK l \in Nat, u \in Nat : l = v[j].len /\ u = Upto(v, j - 1)
      BY <2>4, <3>1
    <3>3. keep + x = u + l /\ l <= x
      BY <2>2, <2>4, <3>1, <3>2
    <3>4. x - l \in Nat /\ u = keep + (x - l)
      BY <2>2, <3>3
    <3>5. j - 1 \in 0 .. Len(v) /\ j - 1 = Len(v) - k
      BY <1>1, <2>3, <2>5
    <3> QED BY <3>2, <3>4, <3>5
  <2> QED BY <2>1, <2>6 DEF CutTo
<1> QED BY <1>3, <1>4

(* q is the start of v: its last vector may be shorter.                    *)
Shortened(v, q) ==
  /\ q \in Seq(Vecs) /\ Len(q) <= Len(v)
  /\ \A k \in 1 .. Len(q) : /\ q[k].entry = v[k].entry /\ q[k].off = v[k].off
                            /\ q[k].len > 0 /\ q[k].len <= v[k].len
                            /\ Upto(q, k - 1) = Upto(v, k - 1)

LEMMA RoundDownProperties ==
  ASSUME NEW v \in Seq(Vecs), \A k \in 1 .. Len(v) : v[k].len > 0, ~(Len(v) < IOV_MAX),
         NEW q, q = RoundDown(v)
  PROVE  Shortened(v, q) /\ Total(q) = Total(v) - (Total(v) % Sect)
<1> DEFINE n == Len(v)
           total == Total(v)
           keep == total - (total % Sect)
<1>1. /\ n \in Nat /\ Upto(v, 0) = 0 /\ total = Upto(v, n) /\ total \in Nat
      /\ \A j \in 0 .. n : Upto(v, j) \in Nat
      /\ \A j \in 1 .. n : Upto(v, j) = Upto(v, j - 1) + v[j].len
  <2>1. n \in Nat
    BY LenProperties
  <2>2. n \in 0 .. n
    BY <2>1
  <2> QED BY <2>1, <2>2, UptoProperties
<1>2. keep \in Nat /\ total % Sect \in Nat /\ total = keep + (total % Sect)
  <2> HIDE DEF total
  <2>1. Sect \in Nat /\ Sect > 0
    BY PrdtAssumption
  <2>2. total % Sect \in Nat /\ total % Sect <= total
    BY <1>1, <2>1, Quotient
  <2> QED BY <1>1, <2>2
<1>3. PICK cut :
        /\ cut[0] = [j |-> n, extra |-> total % Sect]
        /\ \A k \in 1 .. n : cut[k] = CutVector(cut[k - 1], v)
        /\ q = [k \in 1 .. cut[n].j |->
                  [v[k] EXCEPT !.len = IF k = cut[n].j THEN @ - cut[n].extra ELSE @]]
  <2>1. PICK cut : Cuts(v, cut)
    BY <1>1, CutLoop
  <2> QED BY <2>1 DEF Cuts
<1> HIDE DEF n, total, keep
<1> DEFINE P == {k \in 0 .. n : CutTo(v, keep, cut[k], k)}
<1>4. 0 \in P
  <2> DEFINE b == cut[0]
  <2>1. b.j = n /\ b.extra = total % Sect
    BY <1>3
  <2> HIDE DEF b
  <2>2. n \in 0 .. n /\ n = n - 0
    BY <1>1
  <2>3. CutTo(v, keep, b, 0)
    BY <1>1, <1>2, <2>1, <2>2 DEF CutTo, n
  <2> QED BY <1>1, <2>3 DEF b
<1>5. ASSUME NEW k \in 0 .. n, k < n, k \in P PROVE k + 1 \in P
  <2>1. PICK l \in 1 .. Len(v) : l = k + 1 /\ l - 1 = k
    BY <1>1, <1>5 DEF n
  <2> DEFINE b == cut[l]
             c == cut[l - 1]
  <2>2. b = CutVector(c, v)
    BY <1>3 DEF n
  <2>3. CutTo(v, keep, c, l - 1)
    BY <1>5, <2>1
  <2> HIDE DEF b, c
  <2>4. CutTo(v, keep, b, l)
    BY <1>2, <2>2, <2>3, CutTurn
  <2>5. CutTo(v, keep, cut[l], l)
    BY <2>4 DEF b
  <2> QED BY <2>1, <2>5 DEF n
<1>6. n \in P
  <2>1. \A k \in 0 .. n : k < n /\ k \in P => k + 1 \in P
    BY <1>5
  <2> HIDE DEF P
  <2>2. \A k \in 0 .. n : k \in P
    BY <1>1, <1>4, <2>1, Counting
  <2> QED BY <1>1, <2>2
<1> DEFINE j == cut[n].j
           x == cut[n].extra
<1>7. /\ j \in 0 .. n /\ x \in Nat /\ Upto(v, j) = keep + x
      /\ x = 0 \/ (j > 0 /\ v[j].len > x)
  <2>1. /\ j \in 0 .. n /\ x \in Nat /\ Upto(v, j) = keep + x
        /\ x = 0 \/ (j > 0 /\ v[j].len > x) \/ j = n - n
    BY <1>6 DEF CutTo, n
  <2> HIDE DEF j, x
  <2>2. j = n - n => x = 0
    BY <1>1, <1>2, <2>1
  <2> QED BY <2>1, <2>2
<1>8. q = [k \in 1 .. j |-> [v[k] EXCEPT !.len = IF k = j THEN @ - x ELSE @]]
  BY <1>3
<1> HIDE DEF j, x
<1>9. \A k \in 1 .. j : v[k] \in Vecs /\ k \in 1 .. n
  <2>1. \A k \in 1 .. j : k \in 1 .. n
    BY <1>1, <1>7
  <2> QED BY <2>1, ElementOfSeq DEF n
<1>10. ASSUME NEW k \in 1 .. j
       PROVE  /\ q[k].entry = v[k].entry /\ q[k].off = v[k].off
              /\ q[k].len = IF k = j THEN v[k].len - x ELSE v[k].len
              /\ q[k] \in Vecs /\ q[k].len > 0 /\ q[k].len <= v[k].len
  <2> DEFINE u == v[k]
             w == q[k]
  <2>1. w = [u EXCEPT !.len = IF k = j THEN @ - x ELSE @]
    BY <1>8
  <2>2. u \in Vecs /\ u.len > 0
    BY <1>9 DEF n
  <2>3. k = j => x = 0 \/ u.len > x
    BY <1>7
  <2> HIDE DEF u, w
  <2>4. /\ w.entry = u.entry /\ w.off = u.off /\ w.len = IF k = j THEN u.len - x ELSE u.len
        /\ w = [entry |-> u.entry, off |-> u.off, len |-> w.len]
    BY <2>1, <2>2 DEF Vecs
  <2>5. u.len \in Nat /\ u.entry \in Nat /\ u.off \in Nat
    BY <2>2 DEF Vecs
  <2>6. w.len \in Nat /\ w.len > 0 /\ w.len <= u.len
    BY <1>7, <2>2, <2>3, <2>4, <2>5
  <2>7. w \in Vecs
    BY <2>4, <2>5, <2>6 DEF Vecs
  <2> QED BY <2>4, <2>6, <2>7 DEF u, w
<1>11. q \in Seq(Vecs) /\ Len(q) = j
  <2>1. j \in Nat
    BY <1>1, <1>7
  <2>2. q \in [1 .. j -> Vecs]
    BY <1>8, <1>10
  <2> QED BY <2>1, <2>2, SeqDef, LenProperties
<1>12. \A k \in 1 .. j : Upto(q, k - 1) = Upto(v, k - 1)
  <2>1. SUFFICES ASSUME NEW k \in 1 .. j PROVE Upto(q, k - 1) = Upto(v, k - 1)
    OBVIOUS
  <2>2. PICK m \in Nat : m = k - 1 /\ m <= Len(q) /\ m <= Len(v)
    BY <1>1, <1>7, <1>11 DEF n
  <2>3. \A i \in 1 .. m : q[i].len = v[i].len
    <3>1. \A i \in 1 .. m : i \in 1 .. j /\ i # j
      BY <1>1, <1>7, <2>2
    <3> QED BY <1>10, <3>1
  <2>4. \A i \in 0 .. m : Upto(q, i) = Upto(v, i)
    BY <1>11, <2>2, <2>3, UptoPrefix
  <2>5. m \in 0 .. m
    OBVIOUS
  <2> QED BY <2>2, <2>4, <2>5
<1>13. Total(q) = keep
  <2>1. /\ Upto(q, 0) = 0 /\ Total(q) = Upto(q, j)
        /\ \A k \in 1 .. j : Upto(q, k) = Upto(q, k - 1) + q[k].len
    BY <1>11, UptoProperties
  <2>2. CASE j = 0
    BY <1>1, <1>2, <1>7, <2>1, <2>2
  <2>3. CASE j \in 1 .. n
    <3>1. j \in 1 .. j
      BY <1>1, <2>3
    <3>2. Upto(q, j) = Upto(v, j - 1) + q[j].len
      BY <1>12, <2>1, <3>1
    <3>3. q[j].len = v[j].len - x /\ v[j].len \in Nat
      BY <1>9, <1>10, <3>1 DEF Vecs
    <3>4. Upto(v, j) = Upto(v, j - 1) + v[j].len /\ Upto(v, j - 1) \in Nat
      <4>1. j - 1 \in 0 .. n
        BY <1>1, <2>3
      <4> QED BY <1>1, <2>3, <4>1
    <3>5. PICK l \in Nat, u \in Nat : l = v[j].len /\ u = Upto(v, j - 1)
      BY <3>3, <3>4
    <3>6. keep + x = u + l
      BY <1>7, <3>4, <3>5
    <3>7. Total(q) = u + (l - x)
      BY <2>1, <3>2, <3>3, <3>5
    <3>8. u + (l - x) = keep
      BY <1>2, <1>7, <3>6
    <3> QED BY <3>7, <3>8
  <2> QED BY <1>1, <1>7, <2>2, <2>3
<1>14. Shortened(v, q)
  <2>1. j <= n
    BY <1>1, <1>7
  <2> QED BY <1>10, <1>11, <1>12, <2>1 DEF Shortened, n
<1> QED BY <1>13, <1>14 DEF keep, total

(* The vectors are the bytes of the table from from on.                    *)
Covers(tbl, from, v) ==
  \A k \in 1 .. Len(v) :
    /\ FirstSum(tbl, v[k].entry - 1) + v[k].off = from + Upto(v, k - 1)
    /\ v[k].len > 0 /\ v[k].off + v[k].len <= tbl[v[k].entry]

LEMMA TableSums ==
  ASSUME NEW tbl \in Seq(Nat \ {0})
  PROVE  /\ Len(tbl) \in Nat /\ FirstSum(tbl, 0) = 0
         /\ \A k \in 1 .. Len(tbl) : /\ tbl[k] \in Nat /\ tbl[k] > 0
                                     /\ FirstSum(tbl, k) = FirstSum(tbl, k - 1) + tbl[k]
         /\ \A k \in 0 .. Len(tbl) : /\ FirstSum(tbl, k) \in Nat
                                     /\ \A j \in 0 .. k : FirstSum(tbl, j) <= FirstSum(tbl, k)
<1>1. Len(tbl) \in Nat
  BY LenProperties
<1>2. \A k \in 1 .. Len(tbl) : tbl[k] \in Nat /\ tbl[k] > 0
  <2>1. \A k \in 1 .. Len(tbl) : tbl[k] \in Nat \ {0}
    BY ElementOfSeq
  <2> QED BY <2>1
<1>3. FirstSum(tbl, 0) = 0
  BY SumSteps
<1>4. ASSUME NEW k \in 1 .. Len(tbl) PROVE FirstSum(tbl, k) = FirstSum(tbl, k - 1) + tbl[k]
  <2>1. PICK m \in Nat : m = k - 1 /\ m + 1 = k
    BY <1>1
  <2>2. FirstSum(tbl, m + 1) = FirstSum(tbl, m) + tbl[m + 1]
    BY SumSteps
  <2> QED BY <2>1, <2>2
<1>5. \A k \in 0 .. Len(tbl) : /\ FirstSum(tbl, k) \in Nat
                               /\ \A j \in 0 .. k : FirstSum(tbl, j) <= FirstSum(tbl, k)
  BY <1>1, <1>2, SumGrows
<1> QED BY <1>1, <1>2, <1>3, <1>4, <1>5

(* How far the loop gets                                                   *)
Ended(tbl, bytes, from, max, a, v, to) ==
  /\ v \in Seq(Vecs) /\ Len(v) \in Nat /\ Len(v) <= max /\ Total(v) \in Nat /\ to \in Nat
  /\ Covers(tbl, from, v) /\ Pieces(tbl, from, a.i, v)
  /\ to <= bytes /\ to <= FirstSum(tbl, Len(tbl))
  /\ a.left \in Nat /\ a.left = bytes - to /\ a.i \in 0 .. Len(tbl)
  /\ Len(v) = max \/ to = bytes \/ a.i = Len(tbl)
  /\ a.i = Len(tbl) => to = bytes \/ to = FirstSum(tbl, Len(tbl))
  /\ to < bytes /\ v # <<>> => to = FirstSum(tbl, a.i)
  /\ v # <<>> => Total(v) > 0

LEMMA Reached ==
  ASSUME NEW tbl \in Seq(Nat \ {0}), NEW bytes \in Nat, NEW from \in Nat, NEW max \in Nat,
         from <= FirstSum(tbl, Len(tbl)),
         NEW a, Walked(tbl, bytes, from, max, a, Len(tbl)),
         NEW v, v = a.vecs, NEW to, to = from + Total(v)
  PROVE  Ended(tbl, bytes, from, max, a, v, to)
<1> DEFINE n == Len(tbl)
           i == a.i
           skip == a.skip
           left == a.left
<1>1. /\ i \in 0 .. n /\ skip \in Nat /\ left \in Nat
      /\ v \in Seq(Vecs) /\ Len(v) <= max
      /\ left = bytes - from - Total(v)
      /\ Len(v) = max \/ left = 0 \/ i = n
      /\ left > 0 => from + Total(v) = FirstSum(tbl, i) + skip
      /\ v # <<>> => skip = 0
      /\ Pieces(tbl, from, i, v)
  BY DEF Walked
<1>2. /\ Len(v) \in Nat /\ Total(v) \in Nat /\ Total(v) = Upto(v, Len(v)) /\ Upto(v, 0) = 0
      /\ \A k \in 0 .. Len(v) : Upto(v, k) \in Nat
      /\ \A k \in 1 .. Len(v) : Upto(v, k) = Upto(v, k - 1) + v[k].len
  <2>1. Len(v) \in 0 .. Len(v)
    BY <1>1, UptoProperties
  <2> QED BY <1>1, <2>1, UptoProperties
<1> HIDE DEF i, skip, left, n
<1>3. Covers(tbl, from, v)
  BY <1>1 DEF Pieces, Covers
<1>4. ASSUME v # <<>>
      PROVE  to <= FirstSum(tbl, n) /\ Total(v) > 0
  <2>1. PICK k \in 1 .. Len(v) : k = Len(v) /\ k - 1 \in 0 .. Len(v)
    <3>1. Len(v) # 0 /\ Len(v) \in Nat
      BY <1>1, <1>2, <1>4, EmptySeq
    <3>2. Len(v) \in 1 .. Len(v) /\ Len(v) - 1 \in 0 .. Len(v)
      BY <3>1
    <3> QED BY <3>2
  <2> DEFINE m == v[k].entry
             off == v[k].off
             l == v[k].len
             u == Upto(v, k - 1)
  <2>2. /\ m \in 1 .. n /\ l > 0 /\ off + l <= tbl[m] /\ FirstSum(tbl, m - 1) + off = from + u
    BY <1>1, <2>1 DEF Pieces, n
  <2>3. v[k] \in Vecs
    BY <1>1, ElementOfSeq
  <2>4. l \in Nat /\ off \in Nat /\ u \in Nat /\ Total(v) = u + l
    BY <1>2, <2>1, <2>3 DEF Vecs
  <2> HIDE DEF m, off, l, u
  <2>5. n \in Nat /\ m - 1 \in 0 .. n /\ m \in 0 .. n /\ n \in 0 .. n
    BY <2>2, TableSums DEF n
  <2>6. PICK s \in Nat, t \in Nat, w \in Nat, d \in Nat :
             s = FirstSum(tbl, m - 1) /\ t = FirstSum(tbl, m) /\ w = FirstSum(tbl, n) /\ d = tbl[m]
    BY <2>2, <2>5, TableSums DEF n
  <2>7. t = s + d /\ t <= w
    BY <2>2, <2>5, <2>6, TableSums DEF n
  <2>8. off + l <= d /\ s + off = from + u
    BY <2>2, <2>6
  <2>9. from + (u + l) <= w
    BY <2>4, <2>7, <2>8
  <2> QED BY <2>2, <2>4, <2>6, <2>9
<1>5. to \in Nat /\ to <= FirstSum(tbl, n)
  <2>1. CASE v = <<>>
    <3>1. Total(v) = 0
      BY <1>2, <2>1, EmptySeq
    <3> QED BY <3>1 DEF n
  <2> QED BY <1>2, <1>4, <2>1
<1>6. left = bytes - to /\ to <= bytes
  BY <1>1, <1>2
<1>7. FirstSum(tbl, i) \in Nat /\ FirstSum(tbl, n) \in Nat /\ n \in Nat
  <2>1. n \in 0 .. n /\ n \in Nat
    BY TableSums DEF n
  <2> QED BY <1>1, <2>1, TableSums DEF n
<1>8. to < bytes => to = FirstSum(tbl, i) + skip
  BY <1>1, <1>5, <1>6
<1>9. i = n => to = bytes \/ to = FirstSum(tbl, n)
  BY <1>1, <1>5, <1>6, <1>7, <1>8
<1>10. to < bytes /\ v # <<>> => to = FirstSum(tbl, i)
  BY <1>1, <1>7, <1>8
<1>11. Len(v) = max \/ to = bytes \/ i = n
  BY <1>1, <1>5, <1>6
<1> QED BY <1>1, <1>2, <1>3, <1>4, <1>5, <1>6, <1>9, <1>10, <1>11 DEF Ended, i, left, n

(* A full iovec without a whole sector                                     *)
LEMMA SmallEntries ==
  ASSUME NEW tbl \in Seq(Nat \ {0}), NEW from \in Nat, NEW i \in 0 .. Len(tbl),
         NEW v \in Seq(Vecs), Len(v) = IOV_MAX, Pieces(tbl, from, i, v),
         from + Total(v) = FirstSum(tbl, i), Total(v) < Sect
  PROVE  \E n \in 1 .. (Len(tbl) - IOV_MAX + 1) :
            FirstSum(tbl, n + IOV_MAX - 1) - FirstSum(tbl, n) < Sect
<1>1. /\ IOV_MAX \in Nat /\ IOV_MAX > 0 /\ Sect \in Nat /\ Sect > 0 /\ Len(tbl) \in Nat /\ i \in Nat
      /\ 1 \in 1 .. Len(v)
  BY PrdtAssumption, TableSums
<1>2. Upto(v, 0) = 0 /\ Total(v) \in Nat
  <2>1. Len(v) \in 0 .. Len(v)
    BY <1>1
  <2> QED BY <2>1, UptoProperties
<1> DEFINE n == v[1].entry
           off == v[1].off
           l == v[1].len
<1>3. /\ n = i - IOV_MAX + 1 /\ n \in 1 .. Len(tbl) /\ l > 0 /\ off + l <= tbl[n]
      /\ FirstSum(tbl, n - 1) + off = from + Upto(v, 1 - 1)
  BY <1>1 DEF Pieces
<1>4. l \in Nat /\ off \in Nat
  <2>1. v[1] \in Vecs
    BY <1>1, ElementOfSeq
  <2> QED BY <2>1 DEF Vecs
<1> HIDE DEF n, off, l
<1>5. n - 1 \in 0 .. Len(tbl) /\ n \in 0 .. Len(tbl) /\ n + IOV_MAX - 1 = i /\ 1 - 1 = 0
  BY <1>1, <1>3
<1>6. PICK s \in Nat, t \in Nat, w \in Nat, d \in Nat :
           s = FirstSum(tbl, n - 1) /\ t = FirstSum(tbl, n) /\ w = FirstSum(tbl, i) /\ d = tbl[n]
  BY <1>3, <1>5, TableSums
<1>7. t = s + d
  BY <1>3, <1>6, TableSums
<1>8. s + off = from
  BY <1>2, <1>3, <1>5, <1>6
<1>9. off + l <= d /\ l > 0
  BY <1>3, <1>6
<1>10. w - t < Sect
  <2>1. from < t
    BY <1>4, <1>7, <1>8, <1>9
  <2> QED BY <1>1, <1>2, <1>6, <2>1
<1>11. n \in 1 .. (Len(tbl) - IOV_MAX + 1)
  BY <1>1, <1>3
<1>12. FirstSum(tbl, n + IOV_MAX - 1) - FirstSum(tbl, n) < Sect
  BY <1>5, <1>6, <1>10
<1> QED BY <1>11, <1>12

(* Where a READ or WRITE ends: at its length, or at the end of a shorter   *)
(* table, maybe without a part of a sector.                                *)
Final(tbl, bytes, to) ==
  LET want == Smaller(bytes, FirstSum(tbl, Len(tbl)))
  IN  to \in IF want = bytes THEN {bytes} ELSE {want, want - (want % Sect)}

LEMMA TotalPositive ==
  ASSUME NEW v \in Seq(Vecs), v # <<>>, \A k \in 1 .. Len(v) : v[k].len > 0
  PROVE  Total(v) \in Nat /\ Total(v) > 0
<1>1. Len(v) \in Nat /\ Len(v) # 0
  BY LenProperties, EmptySeq
<1>2. 1 \in 1 .. Len(v) /\ 1 \in 0 .. Len(v) /\ Len(v) \in 0 .. Len(v) /\ 1 - 1 = 0
  BY <1>1
<1>3. /\ Upto(v, 0) = 0 /\ Total(v) = Upto(v, Len(v))
      /\ Upto(v, Len(v)) \in Nat /\ Upto(v, 1) \in Nat /\ Upto(v, 1) <= Upto(v, Len(v))
      /\ Upto(v, 1) = Upto(v, 1 - 1) + v[1].len
  BY <1>2, UptoProperties
<1>4. v[1].len \in Nat /\ v[1].len > 0
  <2>1. v[1] \in Vecs
    BY <1>2, ElementOfSeq
  <2> QED BY <1>2, <2>1 DEF Vecs
<1> QED BY <1>2, <1>3, <1>4

LEMMA ShortenedCovers ==
  ASSUME NEW tbl \in Seq(Nat \ {0}), NEW from \in Nat, NEW i, NEW v \in Seq(Vecs),
         Pieces(tbl, from, i, v), NEW q, Shortened(v, q)
  PROVE  Covers(tbl, from, q)
<1>1. SUFFICES ASSUME NEW k \in 1 .. Len(q)
      PROVE  /\ FirstSum(tbl, q[k].entry - 1) + q[k].off = from + Upto(q, k - 1)
             /\ q[k].len > 0 /\ q[k].off + q[k].len <= tbl[q[k].entry]
  BY DEF Covers
<1>2. /\ q \in Seq(Vecs) /\ Len(q) <= Len(v)
      /\ q[k].entry = v[k].entry /\ q[k].off = v[k].off
      /\ q[k].len > 0 /\ q[k].len <= v[k].len /\ Upto(q, k - 1) = Upto(v, k - 1)
  BY DEF Shortened
<1>3. k \in 1 .. Len(v)
  <2>1. Len(q) \in Nat /\ Len(v) \in Nat
    BY <1>2, LenProperties
  <2> QED BY <1>2, <2>1
<1>4. /\ v[k].entry \in 1 .. Len(tbl) /\ v[k].off + v[k].len <= tbl[v[k].entry]
      /\ FirstSum(tbl, v[k].entry - 1) + v[k].off = from + Upto(v, k - 1)
  BY <1>3 DEF Pieces
<1>5. v[k].off \in Nat /\ v[k].len \in Nat /\ q[k].len \in Nat /\ tbl[v[k].entry] \in Nat
  <2>1. v[k] \in Vecs /\ q[k] \in Vecs
    BY <1>2, <1>3, ElementOfSeq
  <2> QED BY <1>4, <2>1, TableSums DEF Vecs
<1> DEFINE off == v[k].off
           l == v[k].len
           m == q[k].len
           d == tbl[v[k].entry]
<1>6. off \in Nat /\ l \in Nat /\ m \in Nat /\ d \in Nat /\ off + l <= d /\ m <= l
  BY <1>2, <1>4, <1>5
<1>7. off + m <= d
  <2> HIDE DEF off, l, m, d
  <2> QED BY <1>6
<1> QED BY <1>2, <1>4, <1>7

(* A request of ahci_build_iov: it does not go beyond the command and the  *)
(* table, and when it is not the last it takes whole sectors.              *)
Built(tbl, bytes, from, a, q, to) ==
  LET dead == Len(a.vecs) = IOV_MAX /\ q = <<>>
  IN  /\ q \in Seq(Vecs) /\ Len(q) <= IOV_MAX /\ Covers(tbl, from, q) /\ Total(q) \in Nat
      /\ to \in Nat /\ to <= bytes /\ to <= FirstSum(tbl, Len(tbl))
      /\ dead => \E n \in 1 .. (Len(tbl) - IOV_MAX + 1) :
                    FirstSum(tbl, n + IOV_MAX - 1) - FirstSum(tbl, n) < Sect
      /\ to < bytes /\ a.i < Len(tbl) /\ ~dead => to % Sect = 0 /\ Total(q) > 0
      /\ ~(to < bytes /\ a.i < Len(tbl)) => Final(tbl, bytes, to)

LEMMA Build ==
  ASSUME NEW tbl \in Seq(Nat \ {0}), NEW bytes \in Nat, NEW from \in Nat,
         bytes % Sect = 0, from % Sect = 0, from <= bytes, from <= FirstSum(tbl, Len(tbl)),
         NEW a, a = Walk(tbl, bytes, from, IOV_MAX), NEW q, q = RoundDown(a.vecs),
         NEW to, to = from + Total(q)
  PROVE  Built(tbl, bytes, from, a, q, to)
<1> DEFINE v == a.vecs
           i == a.i
           sum == FirstSum(tbl, Len(tbl))
           all == Total(v)
           end == from + all
<1>1. IOV_MAX \in Nat /\ IOV_MAX > 0 /\ Sect \in Nat /\ Sect > 0
  BY PrdtAssumption
<1>2. Walked(tbl, bytes, from, IOV_MAX, a, Len(tbl))
  BY <1>1, WalkProperties
<1>3. /\ v \in Seq(Vecs) /\ Len(v) \in Nat /\ Len(v) <= IOV_MAX /\ all \in Nat /\ end \in Nat
      /\ Covers(tbl, from, v) /\ Pieces(tbl, from, i, v)
      /\ end <= bytes /\ end <= sum /\ i \in 0 .. Len(tbl)
      /\ Len(v) = IOV_MAX \/ end = bytes \/ i = Len(tbl)
      /\ i = Len(tbl) => end = bytes \/ end = sum
      /\ end < bytes /\ v # <<>> => end = FirstSum(tbl, i)
      /\ v # <<>> => all > 0
  <2>1. v = a.vecs /\ end = from + Total(v)
    OBVIOUS
  <2> HIDE DEF v, end
  <2>2. Ended(tbl, bytes, from, IOV_MAX, a, v, end)
    BY <1>1, <1>2, <2>1, Reached
  <2> QED BY <2>2 DEF Ended, i, sum, all
<1>4. sum \in Nat /\ Len(tbl) \in Nat
  <2>1. Len(tbl) \in Nat /\ Len(tbl) \in 0 .. Len(tbl)
    BY TableSums
  <2> QED BY <2>1, TableSums
<1>5. q = RoundDown(v)
  OBVIOUS
<1>6. end = from + all
  OBVIOUS
<1> HIDE DEF v, i, sum, end
<1>7. ASSUME NEW x \in Nat, x = bytes \/ (x < bytes /\ x = sum) \/ (x < bytes /\ sum < bytes /\ x = sum - (sum % Sect)),
             x <= sum
      PROVE  Final(tbl, bytes, x)
  <2>1. CASE bytes <= sum
    <3>1. Smaller(bytes, sum) = bytes
      BY <1>4, <2>1 DEF Smaller
    <3>2. x = bytes
      BY <1>4, <1>7, <2>1
    <3> QED BY <3>1, <3>2 DEF Final, sum
  <2>2. CASE sum < bytes
    <3>1. Smaller(bytes, sum) = sum /\ sum # bytes
      BY <1>4, <2>2 DEF Smaller
    <3>2. x = sum \/ x = sum - (sum % Sect)
      BY <1>4, <1>7, <2>2
    <3> QED BY <3>1, <3>2 DEF Final, sum
  <2> QED BY <1>4, <2>1, <2>2
<1>8. CASE Len(v) < IOV_MAX
  <2>1. q = v
    BY <1>5, <1>8 DEF RoundDown
  <2>2. to = end /\ Total(q) = all
    BY <1>6, <2>1 DEF all
  <2> HIDE DEF all
  <2>3. ~(Len(v) = IOV_MAX) /\ (end = bytes \/ i = Len(tbl))
    BY <1>1, <1>3, <1>8
  <2>4. ~(to < bytes /\ i < Len(tbl))
    BY <1>3, <1>4, <2>2, <2>3
  <2>5. Final(tbl, bytes, end)
    BY <1>3, <1>4, <1>7, <2>3
  <2>6. v = a.vecs /\ i = a.i
    BY DEF v, i
  <2> QED BY <1>3, <2>1, <2>2, <2>3, <2>4, <2>5, <2>6 DEF Built, sum
<1>9. CASE ~(Len(v) < IOV_MAX)
  <2>1. Len(v) = IOV_MAX
    BY <1>1, <1>3, <1>9
  <2>2. Shortened(v, q) /\ Total(q) = all - (all % Sect)
    <3>1. \A k \in 1 .. Len(v) : v[k].len > 0
      BY <1>3 DEF Covers
    <3> QED BY <1>3, <1>5, <1>9, <3>1, RoundDownProperties DEF all
  <2> HIDE DEF all
  <2>3. /\ all % Sect = end % Sect /\ all - (all % Sect) \in Nat
        /\ (from + (all - (all % Sect))) % Sect = 0
    <3>1. Whole(Sect, from, all)
      BY <1>1, <1>3, WholeSectors
    <3> QED BY <1>6, <3>1 DEF Whole
  <2>4. /\ all % Sect \in Nat /\ all % Sect < Sect /\ all % Sect <= all
    BY <1>1, <1>3, Quotient
  <2> DEFINE r == all % Sect
             keep == all - r
  <2>5. /\ r \in Nat /\ r < Sect /\ r <= all /\ keep \in Nat /\ r = end % Sect
        /\ to % Sect = 0 /\ Total(q) = keep /\ to = from + keep
    BY <2>2, <2>3, <2>4
  <2>6. keep = all - r
    OBVIOUS
  <2> HIDE DEF r, keep
  <2>7. to \in Nat /\ to <= end /\ to = end - r
    <3>1. r \in Nat /\ r <= all /\ to = from + keep /\ all \in Nat
      BY <1>3, <2>5
    <3> QED BY <1>6, <2>6, <3>1
  <2>8. q \in Seq(Vecs) /\ Len(q) <= IOV_MAX /\ Covers(tbl, from, q)
    <3>1. Covers(tbl, from, q)
      BY <1>3, <2>2, ShortenedCovers
    <3> QED BY <2>1, <2>2, <3>1 DEF Shortened
  <2>9. end = bytes => r = 0
    BY <2>5
  <2>10. v # <<>> /\ all > 0
    <3>1. v # <<>>
      BY <1>1, <2>1, EmptySeq
    <3> QED BY <1>3, <3>1
  <2>11. ASSUME q = <<>>
         PROVE  \E n \in 1 .. (Len(tbl) - IOV_MAX + 1) :
                   FirstSum(tbl, n + IOV_MAX - 1) - FirstSum(tbl, n) < Sect
    <3>1. Total(q) = 0
      <4>1. Total(q) = Upto(q, Len(q)) /\ Upto(q, 0) = 0 /\ Len(q) = 0
        BY <2>8, <2>11, UptoProperties, EmptySeq
      <4> QED BY <4>1
    <3>2. all = r
      BY <1>3, <2>5, <2>6, <3>1
    <3>3. end < bytes
      BY <1>3, <2>9, <2>10, <3>2
    <3>4. from + Total(v) = FirstSum(tbl, i) /\ Total(v) < Sect
      BY <1>3, <1>6, <2>5, <2>10, <3>2, <3>3 DEF all
    <3> QED BY <1>3, <2>1, <3>4, SmallEntries
  <2>12. q # <<>> => Total(q) > 0
    <3>1. \A k \in 1 .. Len(q) : q[k].len > 0
      BY <2>8 DEF Covers
    <3> QED BY <2>8, <3>1, TotalPositive
  <2>13. ASSUME ~(to < bytes /\ i < Len(tbl)) PROVE Final(tbl, bytes, to)
    <3>1. to <= sum /\ to <= bytes
      BY <1>3, <1>4, <2>7
    <3>2. CASE to = bytes
      BY <1>7, <2>7, <3>1, <3>2
    <3>3. CASE to < bytes
      <4>1. end = bytes \/ end = sum
        BY <1>3, <1>4, <2>13, <3>3
      <4>2. end # bytes
        BY <2>5, <2>7, <2>9, <3>3
      <4>3. end = sum /\ sum < bytes /\ to = sum - (sum % Sect)
        BY <1>3, <1>4, <2>5, <2>7, <4>1, <4>2
      <4> QED BY <1>7, <2>7, <3>1, <3>3, <4>3
    <3> QED BY <2>7, <3>1, <3>2, <3>3
  <2>14. to <= bytes /\ to <= sum
    BY <1>3, <1>4, <2>7
  <2>15. v = a.vecs /\ i = a.i
    BY DEF v, i
  <2> QED BY <2>1, <2>5, <2>7, <2>8, <2>11, <2>12, <2>13, <2>14, <2>15 DEF Built, sum
<1> QED BY <1>8, <1>9

(* The inductive invariant: with PrdtExact, the lengths are whole sectors, *)
(* and a command that needs no other request has reached its end, the     *)
(* last request still in progress or not.                                  *)
PrdtTypes ==
  /\ op \in {"none", "rw", "copy", "trim", "dead"} /\ busy \in BOOLEAN /\ more \in BOOLEAN
  /\ len \in Nat /\ done \in Nat /\ iov \in Seq(Vecs) /\ moved \in Seq(Vecs)
  /\ prdt \in Seq(Nat) /\ (op \in {"rw", "copy", "dead"} => prdt \in Seq(Nat \ {0}))

PrdtInv ==
  /\ PrdtTypes
  /\ PrdtExact
  /\ busy => op \in {"rw", "trim"}
  /\ op = "rw" => /\ len % Sect = 0 /\ (more => busy)
                  /\ ~more => Final(prdt, len, done)
  /\ op = "trim" => /\ len = Len(prdt) /\ done <= Len(prdt) /\ (more => busy)
                    /\ ~more => done = Len(prdt)

(* The vectors x are the first to bytes of the table.                      *)
Starts(tbl, x, to) == x \in Seq(Vecs) /\ Covers(tbl, 0, x) /\ Total(x) = to

LEMMA ConcatCovers ==
  ASSUME NEW tbl, NEW v \in Seq(Vecs), NEW w \in Seq(Vecs), NEW from, from = Total(v),
         Covers(tbl, 0, v), Covers(tbl, from, w), NEW x, x = v \o w,
         NEW to, to = from + Total(w)
  PROVE  Starts(tbl, x, to)
<1> DEFINE m == Len(v)
           n == Len(w)
<1>1. /\ x \in Seq(Vecs) /\ m \in Nat /\ n \in Nat /\ Len(x) = m + n
      /\ \A k \in 1 .. (m + n) : x[k] = IF k <= m THEN v[k] ELSE w[k - m]
  BY ConcatProperties, LenProperties
<1>2. /\ \A k \in 0 .. m : Upto(x, k) = Upto(v, k)
      /\ \A k \in 0 .. n : Upto(x, m + k) = from + Upto(w, k)
      /\ Total(x) = from + Total(w)
  BY UptoConcat
<1>3. /\ \A k \in 0 .. m : Upto(v, k) \in Nat
      /\ \A k \in 0 .. n : Upto(w, k) \in Nat
      /\ from \in Nat
  <2>1. m \in 0 .. m
    BY <1>1
  <2> QED BY <2>1, UptoProperties
<1> HIDE DEF m, n
<1>4. ASSUME NEW k \in 1 .. Len(x)
      PROVE  /\ FirstSum(tbl, x[k].entry - 1) + x[k].off = 0 + Upto(x, k - 1)
             /\ x[k].len > 0 /\ x[k].off + x[k].len <= tbl[x[k].entry]
  <2>1. CASE k \in 1 .. m
    <3>1. x[k] = v[k] /\ k - 1 \in 0 .. m
      BY <1>1, <2>1
    <3>2. Upto(x, k - 1) = Upto(v, k - 1)
      BY <1>2, <3>1
    <3> QED BY <2>1, <3>1, <3>2 DEF Covers, m
  <2>2. CASE ~(k <= m)
    <3>1. PICK j \in 1 .. n : j = k - m /\ k - 1 = m + (j - 1) /\ j - 1 \in 0 .. n
      <4>1. k - m \in 1 .. n /\ k - 1 = m + ((k - m) - 1) /\ (k - m) - 1 \in 0 .. n
        BY <1>1, <2>2
      <4> QED BY <4>1
    <3>2. x[k] = w[j]
      BY <1>1, <2>2, <3>1
    <3>3. Upto(x, k - 1) = from + Upto(w, j - 1)
      BY <1>2, <3>1
    <3>4. 0 + Upto(x, k - 1) = from + Upto(w, j - 1)
      <4>1. Upto(w, j - 1) \in Nat
        BY <1>3, <3>1
      <4> QED BY <1>3, <3>3, <4>1
    <3>5. /\ FirstSum(tbl, w[j].entry - 1) + w[j].off = from + Upto(w, j - 1)
          /\ w[j].len > 0 /\ w[j].off + w[j].len <= tbl[w[j].entry]
      BY <3>1 DEF Covers, n
    <3> QED BY <3>2, <3>4, <3>5
  <2> QED BY <1>1, <2>1, <2>2
<1> QED BY <1>1, <1>2, <1>4 DEF Starts, Covers

(* Covers from the start of the table is what FromStart says.              *)
LEMMA FromStartCovers ==
  ASSUME NEW tbl, NEW v \in Seq(Vecs)
  PROVE  Covers(tbl, 0, v) <=>
           \A k \in DOMAIN v :
             /\ FirstSum(tbl, v[k].entry - 1) + v[k].off = Upto(v, k - 1)
             /\ v[k].len > 0 /\ v[k].off + v[k].len <= tbl[v[k].entry]
<1>1. DOMAIN v = 1 .. Len(v) /\ \A k \in 1 .. Len(v) : Upto(v, k - 1) \in Nat
  <2>1. Len(v) \in Nat /\ DOMAIN v = 1 .. Len(v)
    BY LenProperties
  <2>2. \A k \in 1 .. Len(v) : k - 1 \in 0 .. Len(v)
    BY <2>1
  <2> QED BY <2>1, <2>2, UptoProperties
<1>2. \A k \in 1 .. Len(v) : 0 + Upto(v, k - 1) = Upto(v, k - 1)
  BY <1>1
<1> QED BY <1>1, <1>2 DEF Covers

LEMMA BuildStep ==
  ASSUME NEW tbl \in Seq(Nat \ {0}), NEW bytes \in Nat, NEW from \in Nat,
         bytes % Sect = 0, from % Sect = 0, from <= bytes, from <= FirstSum(tbl, Len(tbl)),
         NEW v \in Seq(Vecs), Covers(tbl, 0, v), Total(v) = from,
         prdt' = tbl, len' = bytes, moved' = v, build_iov(tbl, bytes, from)
  PROVE  PrdtInv'
<1> DEFINE a == Walk(tbl, bytes, from, IOV_MAX)
           q == RoundDown(a.vecs)
           to == from + Total(q)
           dead == Len(a.vecs) = IOV_MAX /\ q = <<>>
           x == v \o q
<1>1. /\ q \in Seq(Vecs) /\ Len(q) <= IOV_MAX /\ Covers(tbl, from, q) /\ Total(q) \in Nat
      /\ to \in Nat /\ to <= bytes /\ to <= FirstSum(tbl, Len(tbl))
      /\ dead =>
           \E n \in 1 .. (Len(tbl) - IOV_MAX + 1) :
              FirstSum(tbl, n + IOV_MAX - 1) - FirstSum(tbl, n) < Sect
      /\ to < bytes /\ a.i < Len(tbl) /\ ~dead => to % Sect = 0 /\ Total(q) > 0
      /\ ~(to < bytes /\ a.i < Len(tbl)) => Final(tbl, bytes, to)
  <2>1. /\ a = Walk(tbl, bytes, from, IOV_MAX) /\ q = RoundDown(a.vecs) /\ to = from + Total(q)
    OBVIOUS
  <2> HIDE DEF a, q, to
  <2>2. Built(tbl, bytes, from, a, q, to)
    BY <2>1, Build
  <2> QED BY <2>2 DEF Built
<1>2. \/ /\ dead
         /\ op' = "dead" /\ busy' = FALSE /\ iov' = <<>> /\ done' = from /\ more' = FALSE
      \/ /\ ~dead
         /\ op' = "rw" /\ busy' = TRUE /\ iov' = q /\ done' = to
         /\ more' = (to < bytes /\ a.i < Len(tbl))
  BY DEF build_iov
<1>3. x \in Seq(Vecs) /\ Covers(tbl, 0, x) /\ Total(x) = to
  <2>1. x = v \o q /\ from = Total(v) /\ to = from + Total(q)
    OBVIOUS
  <2>2. q \in Seq(Vecs) /\ Covers(tbl, from, q)
    BY <1>1
  <2> HIDE DEF x, q, a, to
  <2>3. Starts(tbl, x, to)
    BY <2>1, <2>2, ConcatCovers, Zenon
  <2> QED BY <2>3 DEF Starts
<1>4. x = v \o q
  OBVIOUS
<1>5. tbl \in Seq(Nat) /\ Len(tbl) \in Nat
  <2>1. Len(tbl) \in Nat /\ DOMAIN tbl = 1 .. Len(tbl) /\ tbl \in [1 .. Len(tbl) -> Nat \ {0}]
    BY LenProperties
  <2>2. tbl \in [1 .. Len(tbl) -> Nat]
    BY <2>1
  <2> QED BY <2>1, <2>2, SeqDef
<1>6. <<>> \in Seq(Vecs)
  BY EmptySeq
<1>7. /\ prdt' = tbl /\ len' = bytes /\ moved' = v /\ bytes % Sect = 0 /\ bytes \in Nat /\ from \in Nat
      /\ tbl \in Seq(Nat \ {0}) /\ v \in Seq(Vecs)
  OBVIOUS
<1> HIDE DEF q, a, to, dead, x
<1>8. CASE /\ dead
           /\ op' = "dead" /\ busy' = FALSE /\ iov' = <<>> /\ done' = from /\ more' = FALSE
  <2>1. PrdtTypes'
    BY <1>5, <1>6, <1>7, <1>8 DEF PrdtTypes
  <2>2. PrdtExact'
    BY <1>1, <1>7, <1>8 DEF PrdtExact, Before
  <2> QED BY <1>8, <2>1, <2>2 DEF PrdtInv
<1>9. CASE /\ ~dead
           /\ op' = "rw" /\ busy' = TRUE /\ iov' = q /\ done' = to
           /\ more' = (to < bytes /\ a.i < Len(tbl))
  <2>1. PrdtTypes'
    BY <1>1, <1>5, <1>7, <1>9 DEF PrdtTypes
  <2>2. to <= Smaller(bytes, FirstSum(tbl, Len(tbl)))
    BY <1>1 DEF Smaller
  <2>3. FromStart(x)'
    <3>1. \A k \in DOMAIN x :
             /\ FirstSum(tbl, x[k].entry - 1) + x[k].off = Upto(x, k - 1)
             /\ x[k].len > 0 /\ x[k].off + x[k].len <= tbl[x[k].entry]
      BY <1>3, FromStartCovers
    <3> QED BY <1>7, <3>1 DEF FromStart, Before
  <2>4. more' => to % Sect = 0 /\ Total(q) > 0
    BY <1>1, <1>9
  <2>5. RwExact'
    BY <1>1, <1>3, <1>4, <1>7, <1>9, <2>2, <2>3, <2>4 DEF RwExact, Before
  <2>6. ~more' => Final(tbl, bytes, to)
    BY <1>1, <1>9
  <2> QED BY <1>7, <1>9, <2>1, <2>5, <2>6 DEF PrdtInv, PrdtExact
<1> QED BY <1>2, <1>8, <1>9

(* The vectors of a TRIM: the extents with sectors up to extent to.        *)
Trimmed(tbl, x, to) ==
  /\ x \in Seq(Vecs)
  /\ {x[k].entry : k \in DOMAIN x} = {i \in 1 .. to : tbl[i] # 0}
  /\ \A j, k \in DOMAIN x : j < k => x[j].entry < x[k].entry

(* The next of them, and its request                                       *)
NextExtent(tbl, from, next) ==
  /\ next \in (from + 1) .. Len(tbl) /\ tbl[next] # 0
  /\ \A i \in (from + 1) .. Len(tbl) : tbl[i] # 0 => next <= i

ExtentVecs(tbl, next) == <<[entry |-> next, off |-> 0, len |-> tbl[next]]>>

LEMMA TrimMore ==
  ASSUME NEW tbl \in Seq(Nat), NEW from \in 0 .. Len(tbl), NEW v, Trimmed(tbl, v, from),
         NEW next, NextExtent(tbl, from, next),
         NEW w, w = ExtentVecs(tbl, next), NEW x, x = v \o w
  PROVE  w \in Seq(Vecs) /\ Trimmed(tbl, x, next)
<1> DEFINE e == [entry |-> next, off |-> 0, len |-> tbl[next]]
           m == Len(v)
           n == Len(tbl)
<1>1. v \in Seq(Vecs) /\ m \in Nat /\ DOMAIN v = 1 .. m /\ n \in Nat
  BY LenProperties DEF Trimmed
<1>2. next \in 1 .. n /\ next \in Nat /\ from \in Nat /\ from < next
  BY <1>1 DEF NextExtent
<1>3. e \in Vecs /\ e.entry = next
  <2>1. tbl[next] \in Nat
    BY <1>2, ElementOfSeq
  <2> QED BY <1>2, <2>1 DEF Vecs
<1>4. w = <<e>>
  BY DEF ExtentVecs
<1> HIDE DEF e, m, n
<1>5. w \in Seq(Vecs) /\ Len(w) = 1 /\ w[1] = e
  BY <1>3, <1>4
<1>6. /\ x \in Seq(Vecs) /\ DOMAIN x = 1 .. (m + 1)
      /\ \A k \in 1 .. m : x[k] = v[k]
      /\ x[m + 1] = e
  <2>1. /\ x \in Seq(Vecs) /\ Len(x) = m + 1
        /\ \A k \in 1 .. (m + 1) : x[k] = IF k <= m THEN v[k] ELSE w[k - m]
    <3>1. /\ v \o w \in Seq(Vecs) /\ Len(v \o w) = Len(v) + Len(w)
          /\ \A k \in 1 .. (Len(v) + Len(w)) :
                (v \o w)[k] = IF k <= Len(v) THEN v[k] ELSE w[k - Len(v)]
      BY <1>1, <1>5, ConcatProperties, Zenon
    <3>2. Len(w) = 1 /\ Len(v) = m /\ x = v \o w
      BY <1>5 DEF m
    <3> QED BY <3>1, <3>2, Zenon
  <2>2. DOMAIN x = 1 .. (m + 1)
    BY <2>1, LenProperties
  <2>3. (m + 1) - m = 1 /\ ~(m + 1 <= m) /\ m + 1 \in 1 .. (m + 1) /\ \A k \in 1 .. m : k \in 1 .. (m + 1) /\ k <= m
    BY <1>1
  <2> QED BY <1>5, <2>1, <2>2, <2>3
<1>7. \A k \in 1 .. m : v[k].entry \in 1 .. from /\ tbl[v[k].entry] # 0
  BY <1>1 DEF Trimmed
<1>8. \A k \in 1 .. (m + 1) : k \in 1 .. m \/ k = m + 1
  BY <1>1
<1>9. \A i \in 1 .. next : i \in 1 .. from \/ i = next \/ (i \in (from + 1) .. Len(tbl) /\ i < next)
  BY <1>1, <1>2 DEF n
<1>10. \A i \in 1 .. next : tbl[i] # 0 => i \in 1 .. from \/ i = next
  <2>1. \A i \in (from + 1) .. Len(tbl) : tbl[i] # 0 => ~(i < next)
    BY <1>1, <1>2 DEF NextExtent, n
  <2> QED BY <1>9, <2>1
<1>11. {x[k].entry : k \in DOMAIN x} = {i \in 1 .. next : tbl[i] # 0}
  <2>1. ASSUME NEW k \in DOMAIN x PROVE x[k].entry \in {i \in 1 .. next : tbl[i] # 0}
    <3>1. CASE k \in 1 .. m
      <4>1. x[k].entry \in 1 .. from /\ tbl[x[k].entry] # 0
        BY <1>6, <1>7, <3>1
      <4> QED BY <1>2, <4>1
    <3>2. CASE k = m + 1
      <4>1. x[k].entry = next /\ next \in 1 .. next
        BY <1>2, <1>3, <1>6, <3>2
      <4>2. tbl[next] # 0
        BY DEF NextExtent
      <4> QED BY <4>1, <4>2
    <3> QED BY <1>6, <1>8, <3>1, <3>2
  <2>2. ASSUME NEW i \in 1 .. next, tbl[i] # 0 PROVE \E k \in DOMAIN x : x[k].entry = i
    <3>1. CASE i \in 1 .. from
      <4>1. PICK k \in DOMAIN v : v[k].entry = i
        BY <2>2, <3>1 DEF Trimmed
      <4>2. k \in 1 .. m /\ k \in 1 .. (m + 1)
        BY <1>1, <4>1
      <4> QED BY <1>6, <4>1, <4>2
    <3>2. CASE i = next
      <4>1. m + 1 \in 1 .. (m + 1)
        BY <1>1
      <4> QED BY <1>3, <1>6, <3>2, <4>1
    <3> QED BY <1>10, <2>2, <3>1, <3>2
  <2> DEFINE T == {i \in 1 .. next : tbl[i] # 0}
  <2>3. \A k \in DOMAIN x : x[k].entry \in T
    BY <2>1
  <2>4. \A i \in T : \E k \in DOMAIN x : x[k].entry = i
    BY <2>2
  <2> HIDE DEF T
  <2>5. {x[k].entry : k \in DOMAIN x} = T
    BY <2>3, <2>4, Zenon
  <2> QED BY <2>5 DEF T
<1>12. ASSUME NEW j \in DOMAIN x, NEW k \in DOMAIN x, j < k PROVE x[j].entry < x[k].entry
  <2>1. j \in 1 .. m
    BY <1>1, <1>6, <1>12
  <2>2. CASE k \in 1 .. m
    <3>1. v[j].entry < v[k].entry
      BY <1>1, <1>12, <2>1, <2>2 DEF Trimmed
    <3> QED BY <1>6, <2>1, <2>2, <3>1
  <2>3. CASE k = m + 1
    <3>1. v[j].entry \in 1 .. from /\ x[k].entry = next /\ x[j].entry = v[j].entry
      BY <1>3, <1>6, <1>7, <2>1, <2>3
    <3>2. v[j].entry < next
      BY <1>2, <3>1
    <3> QED BY <3>1, <3>2
  <2> QED BY <1>6, <1>8, <2>2, <2>3
<1> QED BY <1>5, <1>6, <1>11, <1>12 DEF Trimmed

LEMMA TrimStep ==
  ASSUME NEW tbl \in Seq(Nat), NEW from \in 0 .. Len(tbl), NEW v, Trimmed(tbl, v, from),
         prdt' = tbl, len' = Len(tbl), moved' = v, trim_from(tbl, from)
  PROVE  PrdtInv'
<1> DEFINE rest == {i \in (from + 1) .. Len(tbl) : tbl[i] # 0}
           next == CHOOSE i \in rest : \A j \in rest : i <= j
<1>1. /\ op' = "trim"
      /\ busy' = (rest # {})
      /\ iov' = IF rest = {} THEN <<>> ELSE <<[entry |-> next, off |-> 0, len |-> tbl[next]]>>
      /\ done' = IF rest = {} THEN Len(tbl) ELSE next
      /\ more' = (done' # Len(tbl))
  BY DEF trim_from
<1>2. Len(tbl) \in Nat /\ from \in Nat /\ v \in Seq(Vecs)
  BY LenProperties DEF Trimmed
<1>3. ASSUME NEW x, NEW w \in Seq(Vecs), NEW to \in 0 .. Len(tbl), x = v \o w, Trimmed(tbl, x, to),
             op' = "trim", iov' = w, done' = to, busy' \in BOOLEAN,
             more' = (done' # Len(tbl)), more' => busy', ~busy' => to = Len(tbl)
      PROVE  PrdtInv'
  <2>1. to \in Nat /\ to <= Len(tbl)
    BY <1>2
  <2>2. PrdtTypes'
    BY <1>2, <1>3, <2>1 DEF PrdtTypes
  <2>3. TrimExact'
    <3>1. /\ {x[k].entry : k \in DOMAIN x} = {i \in 1 .. to : tbl[i] # 0}
          /\ \A j, k \in DOMAIN x : j < k => x[j].entry < x[k].entry
      BY <1>3 DEF Trimmed
    <3>2. moved' \o iov' = x
      BY <1>3
    <3>3. prdt' = tbl /\ done' = to /\ (~busy' => to = Len(tbl))
      BY <1>3
    <3> QED BY <3>1, <3>2, <3>3 DEF TrimExact
  <2> QED BY <1>3, <2>1, <2>2, <2>3 DEF PrdtInv, PrdtExact
<1>4. CASE rest = {}
  <2>1. iov' = <<>> /\ done' = Len(tbl) /\ more' = FALSE /\ busy' = FALSE
    BY <1>1, <1>4
  <2>2. PICK x : x = v \o <<>>
    OBVIOUS
  <2>3. x = v
    BY <1>2, <2>2, ConcatEmptySeq
  <2>4. Trimmed(tbl, v, Len(tbl))
    <3>1. \A i \in 1 .. Len(tbl) : tbl[i] # 0 => i \in 1 .. from
      <4>1. \A i \in 1 .. Len(tbl) : i \in 1 .. from \/ i \in (from + 1) .. Len(tbl)
        BY <1>2
      <4>2. \A i \in (from + 1) .. Len(tbl) : tbl[i] = 0
        BY <1>4
      <4> QED BY <4>1, <4>2
    <3>2. \A i \in 1 .. from : i \in 1 .. Len(tbl)
      BY <1>2
    <3>3. {i \in 1 .. Len(tbl) : tbl[i] # 0} = {i \in 1 .. from : tbl[i] # 0}
      BY <3>1, <3>2
    <3> QED BY <3>3 DEF Trimmed
  <2>5. <<>> \in Seq(Vecs) /\ Len(tbl) \in 0 .. Len(tbl)
    BY <1>2, EmptySeq
  <2> QED BY <1>1, <1>3, <2>1, <2>2, <2>3, <2>4, <2>5
<1>5. CASE rest # {}
  <2>1. next \in rest /\ \A j \in rest : next <= j
    <3>1. rest \in SUBSET Nat
      BY <1>2
    <3> HIDE DEF rest
    <3>2. \E i \in rest : \A j \in rest : i <= j
      BY <1>5, <3>1, LeastNat
    <3> QED BY <3>2
  <2>2. NextExtent(tbl, from, next)
    BY <2>1 DEF NextExtent
  <2> DEFINE w == ExtentVecs(tbl, next)
             x == v \o w
  <2>3. busy' = TRUE /\ iov' = w /\ done' = next /\ more' = (done' # Len(tbl))
    BY <1>1, <1>5 DEF ExtentVecs
  <2>4. w = ExtentVecs(tbl, next) /\ x = v \o w
    OBVIOUS
  <2> HIDE DEF next, x, w
  <2>5. w \in Seq(Vecs) /\ Trimmed(tbl, x, next)
    BY <2>2, <2>4, TrimMore, Zenon
  <2>6. next \in 0 .. Len(tbl)
    BY <1>2, <2>2 DEF NextExtent
  <2> QED BY <1>1, <1>3, <2>3, <2>4, <2>5, <2>6
<1> QED BY <1>4, <1>5

LEMMA EmptyVecs ==
  ASSUME NEW tbl
  PROVE  /\ <<>> \in Seq(Vecs) /\ Total(<<>>) = 0 /\ Covers(tbl, 0, <<>>)
         /\ Trimmed(tbl, <<>>, 0)
<1>1. <<>> \in Seq(Vecs) /\ Len(<<>>) = 0 /\ DOMAIN <<>> = {}
  BY EmptySeq
<1>2. Total(<<>>) = 0
  <2>1. Upto(<<>>, 0) = 0 /\ Total(<<>>) = Upto(<<>>, Len(<<>>))
    BY <1>1, UptoProperties
  <2> QED BY <1>1, <2>1
<1>3. Covers(tbl, 0, <<>>)
  BY <1>1 DEF Covers
<1>4. {i \in 1 .. 0 : tbl[i] # 0} = {}
  OBVIOUS
<1>5. Trimmed(tbl, <<>>, 0)
  BY <1>1, <1>4 DEF Trimmed
<1> QED BY <1>1, <1>2, <1>3, <1>5

LEMMA HandleRwStep ==
  ASSUME NEW tbl \in Prdts, NEW count \in Counts, HandleRw(tbl, count)
  PROVE  PrdtInv'
<1> DEFINE c == IF count = 0 THEN MaxCount ELSE count
<1>1. c \in Nat /\ Sect \in Nat /\ Sect > 0 /\ tbl \in Seq(Nat \ {0})
  BY PrdtAssumption
<1>2. PICK bytes : bytes = Sect * c
  OBVIOUS
<1>3. /\ prdt' = tbl /\ len' = bytes /\ moved' = <<>> /\ build_iov(tbl, len', 0)
  BY <1>2 DEF HandleRw
<1> HIDE DEF c
<1>4. build_iov(tbl, bytes, 0)
  BY <1>3
<1>5. bytes \in Nat /\ bytes % Sect = 0 /\ 0 % Sect = 0 /\ 0 <= bytes
  <2>1. bytes \in Nat /\ bytes = c * Sect + 0
    BY <1>1, <1>2
  <2>2. bytes % Sect = 0
    BY <1>1, <2>1, Remainder
  <2>3. 0 = 0 * Sect + 0
    BY <1>1
  <2>4. 0 % Sect = 0
    BY <1>1, <2>3, Remainder
  <2> QED BY <2>1, <2>2, <2>4
<1>6. 0 <= FirstSum(tbl, Len(tbl))
  <2>1. Len(tbl) \in 0 .. Len(tbl)
    BY <1>1, TableSums
  <2>2. FirstSum(tbl, Len(tbl)) \in Nat
    BY <1>1, <2>1, TableSums
  <2> QED BY <2>2
<1>7. <<>> \in Seq(Vecs) /\ Total(<<>>) = 0 /\ Covers(tbl, 0, <<>>)
  BY EmptyVecs
<1> QED BY <1>1, <1>3, <1>4, <1>5, <1>6, <1>7, BuildStep

LEMMA NextRwStep ==
  ASSUME PrdtInv, NextRw
  PROVE  PrdtInv'
<1> DEFINE want == Smaller(len, FirstSum(prdt, Len(prdt)))
           v == moved \o iov
<1>1. /\ op = "rw" /\ more /\ moved' = v /\ prdt' = prdt /\ len' = len
      /\ build_iov(prdt, len, done)
  BY DEF NextRw
<1>2. /\ len \in Nat /\ done \in Nat /\ prdt \in Seq(Nat \ {0}) /\ iov \in Seq(Vecs) /\ moved \in Seq(Vecs)
      /\ len % Sect = 0
  BY <1>1 DEF PrdtInv, PrdtTypes
<1>3. FromStart(v) /\ Total(v) = done /\ done <= want /\ done % Sect = 0
  BY <1>1 DEF PrdtInv, PrdtExact, RwExact, Before
<1>4. v \in Seq(Vecs)
  BY <1>2, ConcatProperties
<1> HIDE DEF v
<1>5. Covers(prdt, 0, v)
  BY <1>3, <1>4, FromStartCovers DEF FromStart, Before
<1>6. done <= len /\ done <= FirstSum(prdt, Len(prdt))
  <2>1. FirstSum(prdt, Len(prdt)) \in Nat
    <3>1. Len(prdt) \in 0 .. Len(prdt)
      BY <1>2, TableSums
    <3> QED BY <1>2, <3>1, TableSums
  <2> QED BY <1>2, <1>3, <2>1 DEF Smaller
<1> QED BY <1>1, <1>2, <1>3, <1>4, <1>5, <1>6, BuildStep

LEMMA EndRwStep ==
  ASSUME PrdtInv, EndRw
  PROVE  PrdtInv'
<1> DEFINE v == moved \o iov
<1>1. /\ op = "rw" /\ ~more /\ busy' = FALSE /\ moved' = v /\ iov' = <<>>
      /\ op' = op /\ prdt' = prdt /\ len' = len /\ done' = done /\ more' = more
  BY DEF EndRw
<1>2. /\ len \in Nat /\ done \in Nat /\ prdt \in Seq(Nat \ {0}) /\ prdt \in Seq(Nat)
      /\ iov \in Seq(Vecs) /\ moved \in Seq(Vecs) /\ more \in BOOLEAN
      /\ len % Sect = 0 /\ Final(prdt, len, done)
  BY <1>1 DEF PrdtInv, PrdtTypes
<1>3. FromStart(v) /\ Total(v) = done /\ done <= Smaller(len, Before(Len(prdt)))
  BY <1>1 DEF PrdtInv, PrdtExact, RwExact
<1>4. v \in Seq(Vecs)
  BY <1>2, ConcatProperties
<1>5. PICK w \in Seq(Vecs) : w = v
  BY <1>4
<1>6. /\ moved' = w /\ FromStart(w) /\ Total(w) = done
  BY <1>1, <1>3, <1>5
<1> HIDE DEF v
<1>7. w \o <<>> = w /\ <<>> \in Seq(Vecs) /\ Len(<<>>) = 0 /\ 0 <= IOV_MAX
  <2>1. w \o <<>> = w
    BY ConcatEmptySeq
  <2> QED BY <2>1, EmptySeq, PrdtAssumption
<1>8. moved' \o iov' = w
  BY <1>1, <1>6, <1>7
<1>9. PrdtTypes'
  BY <1>1, <1>2, <1>6, <1>7 DEF PrdtTypes
<1>10. FromStart(w)'
  BY <1>1, <1>6 DEF FromStart, Before
<1>11. done \in IF Smaller(len, Before(Len(prdt))) = len THEN {len}
                ELSE {Smaller(len, Before(Len(prdt))), Smaller(len, Before(Len(prdt))) - (Smaller(len, Before(Len(prdt))) % Sect)}
  BY <1>2 DEF Final, Before
<1>12. RwExact'
  BY <1>1, <1>3, <1>6, <1>7, <1>8, <1>10, <1>11 DEF RwExact, Before
<1> QED BY <1>1, <1>2, <1>9, <1>12 DEF PrdtInv, PrdtExact

LEMMA CopyStep ==
  ASSUME PrdtInv, NEW tbl \in Prdts, CopyBuffer(tbl, Sect)
  PROVE  PrdtInv'
<1> DEFINE a == Walk(tbl, Sect, 0, Len(tbl))
           v == a.vecs
           to == 0 + Total(v)
           sum == FirstSum(tbl, Len(tbl))
<1>1. /\ ~busy /\ op' = "copy" /\ prdt' = tbl /\ len' = Sect /\ moved' = v /\ done' = Sect - a.left
      /\ busy' = busy /\ iov' = iov /\ more' = more
  BY DEF CopyBuffer
<1>2. /\ Sect \in Nat /\ tbl \in Seq(Nat \ {0}) /\ Len(tbl) \in Nat /\ 0 <= Sect /\ sum \in Nat
  <2>1. Sect \in Nat /\ tbl \in Seq(Nat \ {0})
    BY PrdtAssumption
  <2>2. Len(tbl) \in Nat /\ Len(tbl) \in 0 .. Len(tbl)
    BY <2>1, TableSums
  <2> QED BY <2>1, <2>2, TableSums
<1>3. Walked(tbl, Sect, 0, Len(tbl), a, Len(tbl))
  BY <1>2, WalkProperties
<1>4. Ended(tbl, Sect, 0, Len(tbl), a, v, to)
  <2>1. v = a.vecs /\ to = 0 + Total(v) /\ 0 <= FirstSum(tbl, Len(tbl))
    BY <1>2
  <2> HIDE DEF a, v, to
  <2> QED BY <1>2, <1>3, <2>1, Reached
<1> HIDE DEF a
<1>5. /\ v \in Seq(Vecs) /\ Len(v) \in Nat /\ Len(v) <= Len(tbl) /\ Total(v) \in Nat /\ to \in Nat
      /\ Covers(tbl, 0, v) /\ Pieces(tbl, 0, a.i, v)
      /\ to <= Sect /\ to <= sum
      /\ a.left \in Nat /\ a.left = Sect - to /\ a.i \in 0 .. Len(tbl)
      /\ Len(v) = Len(tbl) \/ to = Sect \/ a.i = Len(tbl)
      /\ a.i = Len(tbl) => to = Sect \/ to = sum
  BY <1>4 DEF Ended
<1>6. to = Total(v)
  BY <1>5
<1> HIDE DEF v, to, sum
<1>7. to = Sect \/ to = sum
  <2>1. CASE Len(v) = Len(tbl)
    <3>1. CASE Len(tbl) = 0
      <4>1. a.i = Len(tbl)
        BY <1>5, <3>1
      <4> QED BY <1>5, <4>1
    <3>2. CASE Len(tbl) > 0
      <4>1. 1 \in 1 .. Len(v)
        BY <1>2, <2>1, <3>2
      <4>2. v[1].entry = a.i - Len(v) + 1 /\ v[1].entry \in 1 .. Len(tbl)
        BY <1>5, <4>1 DEF Pieces
      <4>3. a.i = Len(tbl)
        BY <1>2, <1>5, <2>1, <4>2
      <4> QED BY <1>5, <4>3
    <3> QED BY <1>2, <3>1, <3>2
  <2> QED BY <1>5, <2>1
<1>8. to = Smaller(Sect, sum)
  BY <1>2, <1>5, <1>7 DEF Smaller
<1>9. done' = to
  BY <1>1, <1>2, <1>5
<1>10. tbl \in Seq(Nat)
  <2>1. DOMAIN tbl = 1 .. Len(tbl) /\ tbl \in [1 .. Len(tbl) -> Nat \ {0}]
    BY <1>2, LenProperties
  <2>2. tbl \in [1 .. Len(tbl) -> Nat]
    BY <2>1
  <2> QED BY <1>2, <2>2, SeqDef
<1>11. iov \in Seq(Vecs) /\ busy \in BOOLEAN /\ more \in BOOLEAN
  BY DEF PrdtInv, PrdtTypes
<1>12. PrdtTypes'
  BY <1>1, <1>2, <1>5, <1>9, <1>10, <1>11 DEF PrdtTypes
<1>13. FromStart(v)'
  <2>1. \A k \in DOMAIN v :
             /\ FirstSum(tbl, v[k].entry - 1) + v[k].off = Upto(v, k - 1)
             /\ v[k].len > 0 /\ v[k].off + v[k].len <= tbl[v[k].entry]
    BY <1>5, FromStartCovers
  <2> QED BY <1>1, <2>1 DEF FromStart, Before
<1>14. FromStart(moved)'
  BY <1>1, <1>13 DEF FromStart, Before
<1>15. PrdtExact'
  BY <1>1, <1>6, <1>8, <1>9, <1>14 DEF PrdtExact, Before, sum
<1> QED BY <1>1, <1>12, <1>15 DEF PrdtInv

LEMMA TrimSteps ==
  ASSUME PrdtInv, (\E tbl \in Extents : HandleTrim(tbl)) \/ NextTrim
  PROVE  PrdtInv'
<1>1. CASE \E tbl \in Extents : HandleTrim(tbl)
  <2>1. PICK tbl \in Extents : HandleTrim(tbl)
    BY <1>1
  <2>2. /\ prdt' = tbl /\ len' = Len(tbl) /\ moved' = <<>> /\ trim_from(tbl, 0)
    BY <2>1 DEF HandleTrim
  <2>3. tbl \in Seq(Nat) /\ Len(tbl) \in Nat
    BY PrdtAssumption, LenProperties
  <2>4. Trimmed(tbl, <<>>, 0) /\ 0 \in 0 .. Len(tbl)
    BY <2>3, EmptyVecs
  <2> QED BY <2>2, <2>3, <2>4, TrimStep
<1>2. CASE NextTrim
  <2> DEFINE v == moved \o iov
  <2>1. /\ op = "trim" /\ moved' = v /\ prdt' = prdt /\ len' = len /\ trim_from(prdt, done)
    BY <1>2 DEF NextTrim
  <2>2. /\ prdt \in Seq(Nat) /\ iov \in Seq(Vecs) /\ moved \in Seq(Vecs) /\ done \in Nat /\ done <= Len(prdt)
        /\ len = Len(prdt)
    BY <2>1 DEF PrdtInv, PrdtTypes
  <2>3. v \in Seq(Vecs)
    BY <2>2, ConcatProperties
  <2>4. Trimmed(prdt, v, done)
    BY <2>1, <2>3 DEF PrdtInv, PrdtExact, TrimExact, Trimmed
  <2>5. done \in 0 .. Len(prdt)
    BY <2>2, LenProperties
  <2> HIDE DEF v
  <2> QED BY <2>1, <2>2, <2>4, <2>5, TrimStep
<1> QED BY <1>1, <1>2

LEMMA EndTrimStep ==
  ASSUME PrdtInv, EndTrim
  PROVE  PrdtInv'
<1>1. /\ op = "trim" /\ ~more /\ busy' = FALSE /\ moved' = moved \o iov /\ iov' = <<>>
      /\ op' = op /\ prdt' = prdt /\ len' = len /\ done' = done /\ more' = more
  BY DEF EndTrim
<1>2. /\ len \in Nat /\ done \in Nat /\ prdt \in Seq(Nat)
      /\ iov \in Seq(Vecs) /\ moved \in Seq(Vecs) /\ more \in BOOLEAN
      /\ done = Len(prdt) /\ len = Len(prdt) /\ done <= Len(prdt)
  BY <1>1 DEF PrdtInv, PrdtTypes
<1>3. moved \o iov \in Seq(Vecs)
  BY <1>2, ConcatProperties
<1>4. PICK w \in Seq(Vecs) : w = moved \o iov
  BY <1>3
<1>5. /\ {w[k].entry : k \in DOMAIN w} = {i \in 1 .. done : prdt[i] # 0}
      /\ \A j, k \in DOMAIN w : j < k => w[j].entry < w[k].entry
  BY <1>1, <1>4 DEF PrdtInv, PrdtExact, TrimExact
<1>6. moved' = w
  BY <1>1, <1>4
<1>7. moved' \o iov' = w
  <2>1. w \o <<>> = w
    BY ConcatEmptySeq
  <2> QED BY <1>1, <1>6, <2>1
<1>8. <<>> \in Seq(Vecs)
  BY EmptySeq
<1>9. PrdtTypes'
  BY <1>1, <1>2, <1>6, <1>8 DEF PrdtTypes
<1>10. TrimExact'
  <2>1. done' = done /\ prdt' = prdt /\ done' = Len(prdt')
    BY <1>1, <1>2
  <2> QED BY <1>5, <1>7, <2>1 DEF TrimExact
<1> QED BY <1>1, <1>2, <1>9, <1>10 DEF PrdtInv, PrdtExact

LEMMA FailStep ==
  ASSUME PrdtInv, Fail
  PROVE  PrdtInv'
<1>1. /\ op' = "none" /\ busy' = FALSE /\ iov' = <<>> /\ more' = FALSE
      /\ prdt' = prdt /\ len' = len /\ done' = done /\ moved' = moved
  BY DEF Fail
<1>2. <<>> \in Seq(Vecs)
  BY EmptySeq
<1>3. PrdtTypes'
  BY <1>1, <1>2 DEF PrdtInv, PrdtTypes
<1>4. PrdtExact'
  BY <1>1 DEF PrdtExact
<1> QED BY <1>1, <1>3, <1>4 DEF PrdtInv

(* Whatever the tables, the counts and the lengths of an iovec and of a    *)
(* sector are, commands move the bytes that the host has asked for, each   *)
(* once and in order (ahci_handle_rw, ahci_build_iov, ata_ioreq_cb,        *)
(* ahci_handle_dsm_trim, read_prdt, write_prdt).                           *)
THEOREM BytesExact == PrdtSpec => []PrdtExact
<1>1. PrdtInit => PrdtInv
  <2> SUFFICES ASSUME PrdtInit PROVE PrdtInv
    OBVIOUS
  <2>1. <<>> \in Seq(Vecs) /\ <<>> \in Seq(Nat)
    BY EmptySeq
  <2>2. PrdtTypes
    BY <2>1 DEF PrdtInit, PrdtTypes
  <2>3. PrdtExact
    BY DEF PrdtInit, PrdtExact
  <2> QED BY <2>2, <2>3 DEF PrdtInit, PrdtInv
<1>2. PrdtInv /\ [PrdtCommand \/ PrdtCallback]_prdtVars => PrdtInv'
  <2> SUFFICES ASSUME PrdtInv, [PrdtCommand \/ PrdtCallback]_prdtVars PROVE PrdtInv'
    OBVIOUS
  <2>1. CASE \E tbl \in Prdts, count \in Counts : HandleRw(tbl, count)
    BY <2>1, HandleRwStep
  <2>2. CASE \E tbl \in Prdts : CopyBuffer(tbl, Sect)
    BY <2>2, CopyStep
  <2>3. CASE (\E tbl \in Extents : HandleTrim(tbl)) \/ NextTrim
    BY <2>3, TrimSteps
  <2>4. CASE NextRw
    BY <2>4, NextRwStep
  <2>5. CASE EndRw
    BY <2>5, EndRwStep
  <2>6. CASE EndTrim
    BY <2>6, EndTrimStep
  <2>7. CASE Fail
    BY <2>7, FailStep
  <2>8. CASE UNCHANGED prdtVars
    <3>1. /\ op' = op /\ busy' = busy /\ prdt' = prdt /\ len' = len /\ done' = done
          /\ iov' = iov /\ more' = more /\ moved' = moved
      BY <2>8 DEF prdtVars
    <3>2. PrdtTypes'
      BY <3>1 DEF PrdtInv, PrdtTypes
    <3>3. (RwExact' <=> RwExact) /\ (TrimExact' <=> TrimExact) /\ (FromStart(moved)' <=> FromStart(moved))
      BY <3>1 DEF RwExact, TrimExact, FromStart, Before
    <3>4. PrdtExact'
      BY <3>1, <3>3 DEF PrdtInv, PrdtExact, Before
    <3> QED BY <3>1, <3>2, <3>4 DEF PrdtInv
  <2> QED BY <2>1, <2>2, <2>3, <2>4, <2>5, <2>6, <2>7, <2>8 DEF PrdtCommand, PrdtCallback
<1>3. PrdtInv => PrdtExact
  BY DEF PrdtInv
<1> QED BY <1>1, <1>2, <1>3, PTL DEF PrdtSpec
=============================================================================

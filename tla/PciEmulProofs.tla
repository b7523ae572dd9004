---------------------------- MODULE PciEmulProofs ----------------------------
(***************************************************************************)
(* Proofs about PciEmul, for any set of devices and BARs and any host:     *)
(* first the memory map and the BARs, then the legacy interrupts.          *)
(***************************************************************************)
EXTENDS PciEmul, TLAPS, SequenceTheorems, WellFoundedInduction

-----------------------------------------------------------------------------
(* Counting                                                                *)

(* A set of natural numbers that is not empty has a least element ...      *)
LEMMA LeastNat ==
  ASSUME NEW T \in SUBSET Nat, T # {}
  PROVE  \E x \in T : \A y \in T : x <= y
<1>1. PICK x \in T : \A y \in T : ~ (<<y, x>> \in OpToRel(<, Nat))
  BY NatLessThanWellFounded, WFMin
<1>2. ASSUME NEW y \in T PROVE x <= y
  <2>1. <<y, x>> \in Nat \X Nat /\ <<y, x>>[1] = y /\ <<y, x>>[2] = x
    OBVIOUS
  <2>2. ~(y < x)
    BY <1>1, <2>1 DEF OpToRel
  <2> QED BY <2>2
<1> QED BY <1>2

(* ... which is induction: what holds of 0, and of each number after one   *)
(* of which it holds, holds up to n.                                       *)
LEMMA Counting ==
  ASSUME NEW n \in Nat, NEW P, 0 \in P,
         \A k \in 0 .. n : k < n /\ k \in P => k + 1 \in P
  PROVE  \A k \in 0 .. n : k \in P
<1> DEFINE T == {k \in 0 .. n : k \notin P}
<1>1. SUFFICES ASSUME T # {} PROVE FALSE
  OBVIOUS
<1>2. PICK k \in T : \A j \in T : k <= j
  <2>1. T \in SUBSET Nat /\ T # {}
    BY <1>1
  <2> HIDE DEF T
  <2> QED BY <2>1, LeastNat
<1>3. k \in 1 .. n /\ k - 1 \in 0 .. n /\ k - 1 < n
  BY <1>2
<1>4. k - 1 \in P
  BY <1>2, <1>3
<1>5. (k - 1) + 1 \in P
  BY <1>3, <1>4
<1> QED BY <1>2, <1>3, <1>5
-----------------------------------------------------------------------------
(* BARs and their ranges                                                   *)

(* Each BAR belongs to one device.                                         *)
LEMMA BarProperties ==
  /\ \A b \in Bars : DevOf(b) \in Devs /\ Size[b] \in Nat /\ Size[b] > 0
  /\ \A d \in Devs : Len(BarsOf[d]) \in Nat
  /\ \A d \in Devs : \A k \in 1 .. Len(BarsOf[d]) :
       BarsOf[d][k] \in Bars /\ DevOf(BarsOf[d][k]) = d
  /\ \A b \in Bars : \E k \in 1 .. Len(BarsOf[DevOf(b)]) : BarsOf[DevOf(b)][k] = b
  /\ \A d \in Devs : \A j, k \in 1 .. Len(BarsOf[d]) : BarsOf[d][j] = BarsOf[d][k] => j = k
<1>1. ASSUME NEW d \in Devs
      PROVE  /\ Len(BarsOf[d]) \in Nat /\ DOMAIN BarsOf[d] = 1 .. Len(BarsOf[d])
             /\ \A k \in 1 .. Len(BarsOf[d]) : BarsOf[d][k] \in Bars
  <2>1. BarsOf[d] \in Seq(Bars)
    BY DevsAssumption
  <2> QED BY <2>1, LenProperties, ElementOfSeq
<1>2. ASSUME NEW b \in Bars PROVE DevOf(b) \in Devs /\ b \in ToSet(BarsOf[DevOf(b)])
  BY DevsAssumption DEF DevOf
<1>3. ASSUME NEW d \in Devs, NEW k \in 1 .. Len(BarsOf[d]) PROVE DevOf(BarsOf[d][k]) = d
  <2>1. BarsOf[d][k] \in Bars /\ BarsOf[d][k] \in ToSet(BarsOf[d])
    BY <1>1 DEF ToSet
  <2> QED BY <2>1, <1>2, DevsAssumption
<1>4. ASSUME NEW b \in Bars
      PROVE  \E k \in 1 .. Len(BarsOf[DevOf(b)]) : BarsOf[DevOf(b)][k] = b
  BY <1>1, <1>2 DEF ToSet
<1>5. ASSUME NEW d \in Devs, NEW j \in 1 .. Len(BarsOf[d]), NEW k \in 1 .. Len(BarsOf[d]),
             BarsOf[d][j] = BarsOf[d][k]
      PROVE  j = k
  BY <1>1, <1>5, DevsAssumption DEF IsInjective
<1> QED BY <1>1, <1>2, <1>3, <1>4, <1>5, SizeAssumption

(* A range tells its BAR, covers its base, and is neither "PCI ECFG" nor   *)
(* the empty cache.                                                        *)
LEMMA RangeProperties ==
  ASSUME NEW b \in Bars, NEW a \in Nat
  PROVE  /\ RangeOf(b, a) \in Ranges
         /\ RangeOf(b, a).bar = b /\ RangeOf(b, a).base = a
         /\ RangeOf(b, a).end = a + Size[b] - 1 /\ RangeOf(b, a).name = DevOf(b)
         /\ Covers(RangeOf(b, a), a)
         /\ RangeOf(b, a) # Ecfg /\ RangeOf(b, a) # NoRange
<1>1. DevOf(b) \in Devs /\ Size[b] \in Nat /\ Size[b] > 0
  BY BarProperties
<1>2. b # Ecfg.bar /\ DevOf(b) # Ecfg.name
  BY <1>1, WindowAssumption
<1>3. a + Size[b] - 1 \in Nat
  BY <1>1
<1>4. RangeOf(b, a).base <= RangeOf(b, a).end
  BY <1>1 DEF RangeOf
<1>5. Ecfg.bar = "none"
  BY WindowAssumption
<1> QED BY <1>1, <1>2, <1>3, <1>4, <1>5 DEF RangeOf, Ranges, Covers, NoRange

LEMMA EcfgProperties ==
  /\ Ecfg \in Ranges /\ Ecfg # NoRange /\ Ecfg.bar \notin Bars /\ NoRange \in Ranges
  /\ NoRange.bar \notin Bars /\ ~\E a \in Nat : Covers(NoRange, a)
<1>1. /\ Ecfg \in [name : {"PCI ECFG"}, bar : {"none"}, base : Nat, end : Nat]
      /\ Ecfg.bar \notin Bars
  BY WindowAssumption
<1>2. /\ NoRange.name = "none" /\ NoRange.bar = "none" /\ NoRange.base = 1 /\ NoRange.end = 0
      /\ NoRange \in [name : {NoRange.name}, bar : {"none"}, base : Nat, end : Nat]
  BY DEF NoRange
<1>3. Ecfg.name = "PCI ECFG" /\ Ecfg.bar = "none"
  BY <1>1
<1>4. Ecfg \in Ranges /\ NoRange \in Ranges
  BY <1>1, <1>2, <1>3 DEF Ranges
<1>5. ASSUME NEW a \in Nat PROVE ~Covers(NoRange, a)
  <2>1. ~(a \in 1 .. 0)
    OBVIOUS
  <2> QED BY <1>2, <2>1 DEF Covers
<1>6. Ecfg # NoRange
  BY <1>2, <1>3
<1> QED BY <1>1, <1>2, <1>3, <1>4, <1>5, <1>6

(* What two BARs that are decoded have is another matter than what they    *)
(* are: a range of one is not a range of another.                          *)
LEMMA RangesDiffer ==
  ASSUME NEW b \in Bars, NEW c \in Bars, NEW x \in Nat, NEW y \in Nat, b # c
  PROVE  RangeOf(b, x) # RangeOf(c, y)
BY RangeProperties
-----------------------------------------------------------------------------
(* The memory map                                                          *)

MapType == [tree : SUBSET Ranges, hint : Ranges, ok : BOOLEAN]

(* register_mem adds the range or nothing, and does add it where no other  *)
(* range is in the way.                                                    *)
LEMMA RegisterEffect ==
  ASSUME NEW m \in MapType, NEW r \in Ranges, Covers(r, r.base), NEW q, q = register_mem(m, r)
  PROVE  /\ q \in MapType /\ q.hint = m.hint
         /\ m.tree \subseteq q.tree /\ q.tree \subseteq m.tree \cup {r}
         /\ q.ok => m.ok
         /\ m.ok /\ (\A s \in m.tree : ~Overlap(s, r)) => q.ok /\ q.tree = m.tree \cup {r}
<1>1. ASSUME NEW s \in m.tree, Covers(s, r.base) \/ Overlap(r, s)
      PROVE  Overlap(s, r)
  <2>1. s \in Ranges /\ s.base \in Nat /\ s.end \in Nat /\ r.base \in Nat /\ r.end \in Nat
    BY DEF MapType, Ranges
  <2> QED BY <1>1, <2>1 DEF Covers, Overlap
<1>2. (\A s \in m.tree : ~Overlap(s, r)) => q = [m EXCEPT !.tree = m.tree \cup {r}]
  BY <1>1 DEF register_mem, Found
<1>3. \/ q = m
      \/ q = [m EXCEPT !.ok = FALSE]
      \/ q = [m EXCEPT !.tree = m.tree \cup {r}]
  BY DEF register_mem
<1> QED BY <1>2, <1>3 DEF MapType

(* unregister_mem: without a failed assertion the range is in neither the  *)
(* tree nor the cache any more.                                            *)
LEMMA UnregisterEffect ==
  ASSUME NEW m \in MapType, NEW r \in Ranges, Covers(r, r.base), m.hint \in m.tree \cup {NoRange},
         NEW q, q = unregister_mem(m, r)
  PROVE  /\ q \in MapType
         /\ q.hint \in q.tree \cup {NoRange} /\ q.hint \in {m.hint, NoRange}
         /\ q.tree \subseteq m.tree
         /\ q.ok => m.ok /\ (r \in m.tree => r \notin q.tree)
         /\ m.ok /\ r \in m.tree /\ (\A s \in m.tree : s = r \/ ~Overlap(s, r))
              => q.ok /\ q.tree = m.tree \ {r}
<1> DEFINE same == {s \in Found(m, r.base) : s.name = r.name /\ s.base = r.base /\ s.end = r.end}
<1>1. same \subseteq m.tree
  BY DEF Found
<1>2. r \in m.tree => r \in same
  BY DEF Found
<1>3. (\A s \in m.tree : s = r \/ ~Overlap(s, r)) => same \subseteq {r}
  <2>1. ASSUME NEW s \in same PROVE Overlap(s, r)
    <3>1. s \in Ranges /\ s.base \in Nat /\ s.end \in Nat /\ r.base \in Nat /\ r.end \in Nat
      BY <1>1 DEF MapType, Ranges
    <3>2. s.base = r.base /\ s.end = r.end /\ Covers(s, r.base)
      BY DEF Found
    <3> QED BY <3>1, <3>2 DEF Covers, Overlap
  <2> QED BY <1>1, <2>1
<1>4. \/ same = {} /\ q = [m EXCEPT !.ok = FALSE]
      \/ same # {} /\ q = [m EXCEPT !.tree = m.tree \ same,
                                   !.hint = IF m.hint \in same THEN NoRange ELSE m.hint]
  BY DEF unregister_mem
<1>5. NoRange \in Ranges
  BY EcfgProperties
<1> HIDE DEF same
<1>6. CASE same = {}
  BY <1>2, <1>4, <1>6 DEF MapType
<1>7. CASE same # {}
  <2>1. q = [m EXCEPT !.tree = m.tree \ same, !.hint = IF m.hint \in same THEN NoRange ELSE m.hint]
    BY <1>4, <1>7
  <2>2. /\ q.tree = m.tree \ same /\ q.ok = m.ok
        /\ q.hint = IF m.hint \in same THEN NoRange ELSE m.hint
        /\ q \in MapType
    BY <2>1, <1>5 DEF MapType
  <2> QED BY <1>2, <1>3, <1>7, <2>2
<1> QED BY <1>6, <1>7

(* The loop of pci_emul_cmdsts_write over the BARs of a device             *)
LEMMA Loop ==
  ASSUME NEW d \in Devs, NEW on \in BOOLEAN
  PROVE  \E maps :
           /\ maps[0] = mem
           /\ \A k \in 1 .. Len(BarsOf[d]) : maps[k] = Switched(maps[k - 1], BarsOf[d][k], on)
           /\ SetDecoding(d, on) = maps[Len(BarsOf[d])]
<1> DEFINE n == Len(BarsOf[d])
           Sw(m, k) == Switched(m, BarsOf[d][k], on)
           maps == CHOOSE maps :
                     maps = [k \in 0 .. n |-> IF k = 0 THEN mem ELSE Sw(maps[k - 1], k)]
           P == {i \in 0 .. n : \E f : f = [k \in 0 .. i |-> IF k = 0 THEN mem ELSE Sw(f[k - 1], k)]}
<1>1. SetDecoding(d, on) = maps[n]
  BY DEF SetDecoding
<1>2. n \in Nat
  BY BarProperties
<1> HIDE DEF Sw, n
<1>3. 0 \in P
  <2> DEFINE f == [k \in 0 .. 0 |-> mem]
  <2>1. f = [k \in 0 .. 0 |-> IF k = 0 THEN mem ELSE Sw(f[k - 1], k)]
    OBVIOUS
  <2> HIDE DEF f
  <2> QED BY <1>2, <2>1
<1>4. ASSUME NEW i \in 0 .. n, i < n, i \in P PROVE i + 1 \in P
  <2>1. PICK f : f = [k \in 0 .. i |-> IF k = 0 THEN mem ELSE Sw(f[k - 1], k)]
    BY <1>4
  <2> DEFINE g == [k \in 0 .. (i + 1) |-> IF k <= i THEN f[k] ELSE Sw(f[i], i + 1)]
  <2>2. ASSUME NEW k \in 0 .. (i + 1)
        PROVE  g[k] = IF k = 0 THEN mem ELSE Sw(g[k - 1], k)
    <3>1. CASE k = 0
      BY <2>1, <3>1
    <3>2. CASE k \in 1 .. i
      <4>1. k - 1 \in 0 .. i /\ k \in 0 .. i
        BY <3>2
      <4>2. f[k] = Sw(f[k - 1], k)
        BY <2>1, <3>2, <4>1
      <4>3. g[k] = f[k] /\ g[k - 1] = f[k - 1]
        BY <3>2, <4>1
      <4> QED BY <3>2, <4>2, <4>3
    <3>3. CASE k = i + 1
      <4>1. k - 1 = i /\ g[k - 1] = f[i] /\ g[k] = Sw(f[i], k)
        BY <3>3
      <4> QED BY <3>3, <4>1
    <3> QED BY <3>1, <3>2, <3>3
  <2>3. g = [k \in 0 .. (i + 1) |-> IF k = 0 THEN mem ELSE Sw(g[k - 1], k)]
    <3>1. g = [k \in 0 .. (i + 1) |-> g[k]]
      OBVIOUS
    <3> HIDE DEF g
    <3> QED BY <2>2, <3>1
  <2> HIDE DEF g
  <2>4. \E h : h = [k \in 0 .. (i + 1) |-> IF k = 0 THEN mem ELSE Sw(h[k - 1], k)]
    BY <2>3
  <2>5. i + 1 \in 0 .. n
    BY <1>2, <1>4
  <2> QED BY <2>4, <2>5
<1>5. n \in P
  <2> HIDE DEF P
  <2> QED BY <1>2, <1>3, <1>4, Counting
<1>6. maps = [k \in 0 .. n |-> IF k = 0 THEN mem ELSE Sw(maps[k - 1], k)]
  BY <1>5
<1> HIDE DEF maps
<1>7. maps[0] = mem /\ \A k \in 1 .. n : maps[k] = Sw(maps[k - 1], k)
  <2>1. 0 \in 0 .. n /\ \A k \in 1 .. n : k \in 0 .. n /\ k # 0
    BY <1>2
  <2> QED BY <1>6, <2>1
<1> QED BY <1>1, <1>7 DEF Sw, n

(* The ranges of the first k BARs of a device                              *)
FirstRanges(d, k) == {RangeOf(BarsOf[d][j], addr[BarsOf[d][j]]) : j \in 1 .. k}
Enabled(d, on)    == [memen EXCEPT ![d] = on]

LEMMA FirstRangesGrow ==
  ASSUME NEW d \in Devs, NEW k \in Nat
  PROVE  /\ FirstRanges(d, 0) = {}
         /\ FirstRanges(d, k + 1) =
              FirstRanges(d, k) \cup {RangeOf(BarsOf[d][k + 1], addr[BarsOf[d][k + 1]])}
<1>1. 1 .. (k + 1) = (1 .. k) \cup {k + 1} /\ 1 .. 0 = {}
  OBVIOUS
<1> QED BY <1>1 DEF FirstRanges

LEMMA AllRanges ==
  ASSUME NEW d \in Devs, memen \in [Devs -> BOOLEAN]
  PROVE  LET own == FirstRanges(d, Len(BarsOf[d]))
         IN  /\ own = {RangeOf(b, addr[b]) : b \in {c \in Bars : DevOf(c) = d}}
             /\ Decoded(addr, Enabled(d, TRUE)) = Decoded(addr, memen) \cup own
             /\ addr \in [Bars -> Nat] =>
                  Decoded(addr, Enabled(d, FALSE)) = Decoded(addr, memen) \ own
<1> DEFINE own == FirstRanges(d, Len(BarsOf[d]))
           O   == {RangeOf(b, addr[b]) : b \in {c \in Bars : DevOf(c) = d}}
<1>1. own = O
  <2>1. ASSUME NEW r \in own PROVE r \in O
    <3>1. PICK j \in 1 .. Len(BarsOf[d]) : r = RangeOf(BarsOf[d][j], addr[BarsOf[d][j]])
      BY DEF FirstRanges
    <3> QED BY <3>1, BarProperties
  <2>2. ASSUME NEW r \in O PROVE r \in own
    <3>1. PICK b \in Bars : DevOf(b) = d /\ r = RangeOf(b, addr[b])
      OBVIOUS
    <3>2. PICK j \in 1 .. Len(BarsOf[d]) : BarsOf[d][j] = b
      BY <3>1, BarProperties
    <3> QED BY <3>1, <3>2 DEF FirstRanges
  <2> QED BY <2>1, <2>2
<1> HIDE DEF own
<1>2. \A b \in Bars : DevOf(b) \in Devs
  BY BarProperties
<1>3. \A on \in BOOLEAN, b \in Bars :
        Enabled(d, on)[DevOf(b)] = IF DevOf(b) = d THEN on ELSE memen[DevOf(b)]
  BY <1>2 DEF Enabled
<1>4. Decoded(addr, Enabled(d, TRUE)) = Decoded(addr, memen) \cup O
  BY <1>3 DEF Decoded
<1>5. ASSUME addr \in [Bars -> Nat]
      PROVE  Decoded(addr, Enabled(d, FALSE)) = Decoded(addr, memen) \ O
  <2>1. \A b \in Bars : RangeOf(b, addr[b]).bar = b /\ RangeOf(b, addr[b]) # Ecfg
    BY <1>5, RangeProperties
  <2>2. ASSUME NEW r \in Decoded(addr, Enabled(d, FALSE))
        PROVE  r \in Decoded(addr, memen) \ O
    <3>1. CASE r = Ecfg
      BY <2>1, <3>1 DEF Decoded
    <3>2. CASE \E b \in Bars : Enabled(d, FALSE)[DevOf(b)] /\ r = RangeOf(b, addr[b])
      <4>1. PICK b \in Bars : Enabled(d, FALSE)[DevOf(b)] /\ r = RangeOf(b, addr[b])
        BY <3>2
      <4>2. DevOf(b) # d /\ memen[DevOf(b)]
        BY <1>3, <4>1
      <4>3. r.bar = b
        BY <2>1, <4>1
      <4>4. r \notin O
        BY <2>1, <4>2, <4>3
      <4> QED BY <4>1, <4>2, <4>4 DEF Decoded
    <3> QED BY <2>2, <3>1, <3>2 DEF Decoded
  <2>3. ASSUME NEW r \in Decoded(addr, memen), r \notin O
        PROVE  r \in Decoded(addr, Enabled(d, FALSE))
    BY <1>3, <2>3 DEF Decoded
  <2> QED BY <2>2, <2>3
<1> QED BY <1>1, <1>4, <1>5 DEF own

(* What a range of the tree says of its BAR                                *)
LEMMA TreeRanges ==
  ASSUME PciInv, mem.ok, NEW r \in mem.tree, r.bar \in Bars
  PROVE  /\ r = RangeOf(r.bar, addr[r.bar]) /\ memen[DevOf(r.bar)]
         /\ addr[r.bar] \in Nat
<1>1. r.base = addr[r.bar] /\ memen[DevOf(r.bar)] /\ addr[r.bar] \in Nat
  BY DEF PciInv, HandlerMatches, PciTypeOK
<1>2. r # Ecfg
  BY EcfgProperties
<1>3. PICK b \in Bars : r = RangeOf(b, r.base)
  BY <1>2 DEF PciInv, PciTypeOK
<1> QED BY <1>1, <1>3, RangeProperties

(* pci_emul_cmdsts_write, when it turns the decoding of d on or off        *)
LEMMA DecodingEffect ==
  ASSUME PciInv, mem.ok, NEW d \in Devs, NEW on \in BOOLEAN, on # memen[d],
         NEW q, q = SetDecoding(d, on)
  PROVE  /\ q \in MapType /\ q.hint \in q.tree \cup {NoRange}
         /\ q.tree \subseteq mem.tree \cup (IF on THEN FirstRanges(d, Len(BarsOf[d])) ELSE {})
         /\ ~on /\ q.ok => \A r \in q.tree : r.bar \in Bars => DevOf(r.bar) # d
         /\ ~overlapped /\ ~Overlaps(addr, Enabled(d, on))
              => q.ok /\ q.tree = Decoded(addr, Enabled(d, on))
<1> DEFINE n == Len(BarsOf[d])
           bar(k) == BarsOf[d][k]
           R(k) == FirstRanges(d, k)
           clean == ~overlapped /\ ~Overlaps(addr, Enabled(d, on))
<1>1. PICK maps : /\ maps[0] = mem
                  /\ \A k \in 1 .. n : maps[k] = Switched(maps[k - 1], bar(k), on)
                  /\ q = maps[n]
  BY Loop
<1> DEFINE Holds(k) ==
             /\ maps[k] \in MapType /\ maps[k].hint \in maps[k].tree \cup {NoRange}
             /\ maps[k].tree \subseteq mem.tree \cup (IF on THEN R(k) ELSE {})
             /\ ~on /\ maps[k].ok => maps[k].tree \cap R(k) = {}
             /\ clean => /\ maps[k].ok
                         /\ maps[k].tree = IF on THEN mem.tree \cup R(k) ELSE mem.tree \ R(k)
           P == {k \in 0 .. n : Holds(k)}
<1>2. /\ n \in Nat /\ addr \in [Bars -> Nat] /\ memen \in [Devs -> BOOLEAN]
      /\ mem \in MapType /\ mem.hint \in mem.tree \cup {NoRange}
  BY BarProperties DEF PciInv, PciTypeOK, MapType, HintInTree
<1>3. R(0) = {} /\ \A k \in Nat : R(k + 1) = R(k) \cup {RangeOf(bar(k + 1), addr[bar(k + 1)])}
  BY FirstRangesGrow
<1>4. \A k \in 1 .. n : bar(k) \in Bars /\ DevOf(bar(k)) = d
  BY BarProperties
<1>5. clean => /\ mem.tree = Decoded(addr, memen)
               /\ \A r, s \in Decoded(addr, memen) : r = s \/ ~Overlap(r, s)
               /\ \A r, s \in Decoded(addr, Enabled(d, on)) : r = s \/ ~Overlap(r, s)
  BY DEF PciInv, TreeIsDecoded, Overlaps
<1>6. \A k \in 0 .. n : R(k) \subseteq R(n)
  BY <1>2 DEF FirstRanges
<1>7. /\ R(n) = {RangeOf(b, addr[b]) : b \in {c \in Bars : DevOf(c) = d}}
      /\ on => Decoded(addr, Enabled(d, on)) = Decoded(addr, memen) \cup R(n)
      /\ ~on => Decoded(addr, Enabled(d, on)) = Decoded(addr, memen) \ R(n)
  BY <1>2, AllRanges
<1>8. ~on => R(n) \subseteq Decoded(addr, memen)
  BY <1>2, <1>7 DEF Decoded
<1>9. on => R(n) \cap Decoded(addr, memen) = {}
  <2> SUFFICES ASSUME on, NEW r \in R(n), r \in Decoded(addr, memen) PROVE FALSE
    OBVIOUS
  <2>1. r.bar \in Bars /\ DevOf(r.bar) = d /\ r # Ecfg
    BY <1>2, <1>7, RangeProperties
  <2>2. memen[DevOf(r.bar)]
    BY <2>1, <1>2, RangeProperties DEF Decoded
  <2> QED BY <2>1, <2>2
<1>10. ASSUME NEW k \in 0 .. n, k < n
       PROVE  /\ k + 1 \in 1 .. n
              /\ RangeOf(bar(k + 1), addr[bar(k + 1)]) \in R(n)
              /\ RangeOf(bar(k + 1), addr[bar(k + 1)]) \notin R(k)
  <2>1. k + 1 \in 1 .. n
    BY <1>2, <1>10
  <2>2. RangeOf(bar(k + 1), addr[bar(k + 1)]) \in R(n)
    BY <2>1 DEF FirstRanges
  <2>3. ASSUME NEW j \in 1 .. k PROVE RangeOf(bar(j), addr[bar(j)]) # RangeOf(bar(k + 1), addr[bar(k + 1)])
    <3>1. j \in 1 .. n /\ j # k + 1
      BY <1>2
    <3>2. bar(j) # bar(k + 1)
      BY <2>1, <3>1, BarProperties
    <3> QED BY <1>2, <1>4, <2>1, <3>1, <3>2, RangesDiffer
  <2> QED BY <2>1, <2>2, <2>3 DEF FirstRanges
<1> HIDE DEF n, bar, R, clean
<1>11. Holds(0)
  BY <1>1, <1>2, <1>3, <1>5 DEF clean, PciInv, TreeIsDecoded
<1>12. ASSUME NEW k \in 0 .. n, k < n, Holds(k) PROVE Holds(k + 1)
  <2> DEFINE m == maps[k]
             p == maps[k + 1]
             r == RangeOf(bar(k + 1), addr[bar(k + 1)])
  <2>1. /\ k + 1 \in 1 .. n /\ r \in R(n) /\ r \notin R(k) /\ k \in Nat /\ k + 1 - 1 = k
        /\ R(k) \subseteq R(n)
    BY <1>2, <1>6, <1>10, <1>12
  <2>2. R(k + 1) = R(k) \cup {r}
    BY <1>3, <2>1
  <2>3. p = Switched(m, bar(k + 1), on)
    BY <1>1, <2>1
  <2>4. r \in Ranges /\ Covers(r, r.base)
    BY <1>2, <1>4, <2>1, RangeProperties
  <2>5. CASE on
    <3>1. p = register_mem(m, r)
      BY <2>3, <2>5 DEF Switched
    <3>2. m \in MapType
      BY <1>12
    <3>3. /\ p \in MapType /\ p.hint = m.hint
          /\ m.tree \subseteq p.tree /\ p.tree \subseteq m.tree \cup {r}
          /\ m.ok /\ (\A s \in m.tree : ~Overlap(s, r)) => p.ok /\ p.tree = m.tree \cup {r}
      <4> HIDE DEF m, p, r
      <4> QED BY <2>4, <3>1, <3>2, RegisterEffect
    <3>4. clean => p.ok /\ p.tree = mem.tree \cup R(k + 1)
      <4> SUFFICES ASSUME clean PROVE p.ok /\ p.tree = mem.tree \cup R(k + 1)
        OBVIOUS
      <4>1. m.ok /\ m.tree = mem.tree \cup R(k) /\ mem.tree = Decoded(addr, memen)
        BY <1>5, <1>12, <2>5
      <4>2. ASSUME NEW s \in m.tree PROVE ~Overlap(s, r)
        <5>1. s \in Decoded(addr, Enabled(d, on)) /\ r \in Decoded(addr, Enabled(d, on))
          BY <1>7, <2>1, <2>5, <4>1
        <5>2. s # r
          BY <1>9, <2>1, <2>5, <4>1
        <5> QED BY <1>5, <5>1, <5>2
      <4> QED BY <2>2, <3>3, <4>1, <4>2
    <3> QED BY <1>12, <2>2, <2>5, <3>3, <3>4
  <2>6. CASE ~on
    <3>1. p = unregister_mem(m, r)
      BY <2>3, <2>6 DEF Switched
    <3>2. m \in MapType /\ m.hint \in m.tree \cup {NoRange}
      BY <1>12
    <3>3. /\ p \in MapType /\ p.hint \in p.tree \cup {NoRange}
          /\ p.tree \subseteq m.tree
          /\ p.ok => m.ok /\ (r \in m.tree => r \notin p.tree)
          /\ m.ok /\ r \in m.tree /\ (\A s \in m.tree : s = r \/ ~Overlap(s, r))
               => p.ok /\ p.tree = m.tree \ {r}
      <4> HIDE DEF m, p, r
      <4> QED BY <2>4, <3>1, <3>2, UnregisterEffect
    <3>4. clean => p.ok /\ p.tree = mem.tree \ R(k + 1)
      <4> SUFFICES ASSUME clean PROVE p.ok /\ p.tree = mem.tree \ R(k + 1)
        OBVIOUS
      <4>1. m.ok /\ m.tree = mem.tree \ R(k) /\ mem.tree = Decoded(addr, memen)
        BY <1>5, <1>12, <2>6
      <4>2. r \in m.tree
        BY <1>8, <2>1, <2>6, <4>1
      <4>3. \A s \in m.tree : s = r \/ ~Overlap(s, r)
        BY <1>5, <4>1, <4>2
      <4> QED BY <2>2, <3>3, <4>1, <4>2, <4>3
    <3> QED BY <1>12, <2>2, <2>6, <3>3, <3>4
  <2> QED BY <2>5, <2>6
<1>13. Holds(n)
  <2> HIDE DEF Holds
  <2>1. 0 \in P
    BY <1>2, <1>11
  <2>2. \A k \in 0 .. n : k < n /\ k \in P => k + 1 \in P
    BY <1>2, <1>12
  <2> HIDE DEF P
  <2>3. \A k \in 0 .. n : k \in P
    BY <1>2, <2>1, <2>2, Counting
  <2> QED BY <1>2, <2>3 DEF P
<1>14. ASSUME ~on, q.ok, NEW r \in q.tree, r.bar \in Bars PROVE DevOf(r.bar) # d
  <2>1. r \in mem.tree /\ r \notin R(n)
    BY <1>1, <1>13, <1>14
  <2>2. r = RangeOf(r.bar, addr[r.bar])
    BY <1>14, <2>1, TreeRanges
  <2> QED BY <1>7, <1>14, <2>1, <2>2
<1>15. clean => q.ok /\ q.tree = Decoded(addr, Enabled(d, on))
  BY <1>1, <1>5, <1>7, <1>13
<1> QED BY <1>1, <1>13, <1>14, <1>15 DEF clean, R, n
(* pci_cfgrw, a write to a BAR that is decoded                             *)
LEMMA MoveEffect ==
  ASSUME PciInv, mem.ok, NEW b \in Bars, NEW a \in Nat, a # addr[b], memen[DevOf(b)],
         NEW q, q = update_bar_address(b, a)
  PROVE  /\ q \in MapType /\ q.hint \in q.tree \cup {NoRange}
         /\ q.tree \subseteq mem.tree \cup {RangeOf(b, a)}
         /\ q.ok => \A r \in q.tree : r.bar = b => r = RangeOf(b, a)
         /\ ~overlapped /\ ~Overlaps([addr EXCEPT ![b] = a], memen)
              => q.ok /\ q.tree = Decoded([addr EXCEPT ![b] = a], memen)
<1> DEFINE r == RangeOf(b, addr[b])
           s == RangeOf(b, a)
           m == unregister_mem(mem, r)
           at == [addr EXCEPT ![b] = a]
           clean == ~overlapped /\ ~Overlaps(at, memen)
<1>1. /\ addr \in [Bars -> Nat] /\ memen \in [Devs -> BOOLEAN]
      /\ mem \in MapType /\ mem.hint \in mem.tree \cup {NoRange}
  BY DEF PciInv, PciTypeOK, MapType, HintInTree
<1>2. q = register_mem(m, s)
  BY DEF update_bar_address
<1>3. /\ r \in Ranges /\ Covers(r, r.base) /\ r.bar = b /\ r # Ecfg
      /\ s \in Ranges /\ Covers(s, s.base) /\ s.bar = b /\ s # Ecfg
      /\ r.base # s.base
  BY <1>1, RangeProperties
<1>4. /\ m \in MapType /\ m.hint \in m.tree \cup {NoRange} /\ m.tree \subseteq mem.tree
      /\ m.ok /\ r \in mem.tree => r \notin m.tree
      /\ mem.ok /\ r \in mem.tree /\ (\A t \in mem.tree : t = r \/ ~Overlap(t, r))
           => m.ok /\ m.tree = mem.tree \ {r}
  <2> HIDE DEF m, r
  <2> QED BY <1>1, <1>3, UnregisterEffect DEF m
<1>5. /\ q \in MapType /\ q.hint = m.hint
      /\ m.tree \subseteq q.tree /\ q.tree \subseteq m.tree \cup {s}
      /\ q.ok => m.ok
      /\ m.ok /\ (\A t \in m.tree : ~Overlap(t, s)) => q.ok /\ q.tree = m.tree \cup {s}
  <2> HIDE DEF m, s
  <2> QED BY <1>2, <1>3, <1>4, RegisterEffect
<1>6. ASSUME q.ok, NEW t \in q.tree, t.bar = b PROVE t = s
  <2> SUFFICES ASSUME t \in m.tree PROVE FALSE
    BY <1>5
  <2>1. t \in mem.tree /\ m.ok
    BY <1>4, <1>5, <1>6
  <2>2. t = r
    BY <1>6, <2>1, TreeRanges
  <2> QED BY <1>4, <2>1, <2>2
<1>7. ASSUME clean PROVE q.ok /\ q.tree = Decoded(at, memen)
  <2>1. /\ mem.tree = Decoded(addr, memen)
        /\ \A t, u \in Decoded(addr, memen) : t = u \/ ~Overlap(t, u)
        /\ \A t, u \in Decoded(at, memen) : t = u \/ ~Overlap(t, u)
    BY <1>7 DEF PciInv, TreeIsDecoded, Overlaps
  <2>2. r \in mem.tree /\ s \in Decoded(at, memen)
    BY <1>1, <2>1 DEF Decoded
  <2>3. m.ok /\ m.tree = mem.tree \ {r}
    BY <1>4, <2>1, <2>2
  <2>4. Decoded(at, memen) = (mem.tree \ {r}) \cup {s}
    <3>1. \A c \in Bars : RangeOf(c, addr[c]).bar = c /\ RangeOf(c, at[c]).bar = c
      BY <1>1, RangeProperties
    <3>2. \A c \in Bars : at[c] = IF c = b THEN a ELSE addr[c]
      BY <1>1
    <3> HIDE DEF at
    <3>3. ASSUME NEW t \in Decoded(at, memen) PROVE t \in (mem.tree \ {r}) \cup {s}
      <4>1. CASE t = Ecfg
        BY <1>3, <2>1, <4>1 DEF Decoded
      <4>2. CASE \E c \in Bars : memen[DevOf(c)] /\ t = RangeOf(c, at[c])
        <5>1. PICK c \in Bars : memen[DevOf(c)] /\ t = RangeOf(c, at[c])
          BY <4>2
        <5>2. CASE c = b
          BY <3>2, <5>1, <5>2
        <5>3. CASE c # b
          <6>1. t = RangeOf(c, addr[c]) /\ t # r
            BY <3>1, <3>2, <5>1, <5>3, <1>3
          <6>2. t \in mem.tree
            BY <2>1, <5>1, <6>1 DEF Decoded
          <6> QED BY <6>1, <6>2
        <5> QED BY <5>2, <5>3
      <4> QED BY <3>3, <4>1, <4>2 DEF Decoded
    <3>4. ASSUME NEW t \in mem.tree, t # r PROVE t \in Decoded(at, memen)
      <4>1. CASE t = Ecfg
        BY <4>1 DEF Decoded
      <4>2. CASE \E c \in Bars : memen[DevOf(c)] /\ t = RangeOf(c, addr[c])
        <5>1. PICK c \in Bars : memen[DevOf(c)] /\ t = RangeOf(c, addr[c])
          BY <4>2
        <5>2. c # b
          BY <3>4, <5>1
        <5> QED BY <3>2, <5>1, <5>2 DEF Decoded
      <4> QED BY <2>1, <4>1, <4>2 DEF Decoded
    <3> QED BY <2>2, <3>3, <3>4
  <2>5. \A t \in m.tree : ~Overlap(t, s)
    <3> SUFFICES ASSUME NEW t \in m.tree PROVE ~Overlap(t, s)
      OBVIOUS
    <3>1. t \in Decoded(at, memen) /\ t \in mem.tree /\ t # r
      BY <2>3, <2>4
    <3>2. t # s
      <4>1. t.bar = b => t = r
        BY <3>1, TreeRanges
      <4> QED BY <1>3, <3>1, <4>1
    <3> QED BY <2>1, <2>2, <3>1, <3>2
  <2> QED BY <1>5, <2>3, <2>4, <2>5
<1> HIDE DEF clean
<1> QED BY <1>4, <1>5, <1>6, <1>7 DEF clean
-----------------------------------------------------------------------------
(* Interrupts                                                              *)

(* The part of the types that the interrupts need                          *)
LineTypes ==
  /\ intxdis \in [Devs -> BOOLEAN] /\ msi \in [Devs -> BOOLEAN]
  /\ irq \in [Devs -> BOOLEAN] /\ wanted \in [Devs -> BOOLEAN]
  /\ lintr \in [Devs -> {"IDLE", "ASSERTED", "PENDING"}]

(* What a state of pi_lintr says of device d                               *)
LineState(d) ==
  /\ irq[d] <=> lintr[d] = "ASSERTED"
  /\ wanted[d] <=> lintr[d] # "IDLE"
  /\ lintr[d] = "ASSERTED" => Permitted(d, intxdis, msi)
  /\ lintr[d] = "PENDING" => ~Permitted(d, intxdis, msi)

(* The inductive invariant: LineMatches says nothing of the state that     *)
(* pci_lintr_update acts on.                                               *)
LineInv == LineTypes /\ \A d \in Devs : LineState(d)

(* What an interrupt of another device leaves alone                        *)
LEMMA OtherLines ==
  ASSUME LineInv, NEW d \in Devs, LineTypes', LineState(d)',
         \A e \in Devs \ {d} : /\ intxdis'[e] = intxdis[e] /\ msi'[e] = msi[e]
                               /\ irq'[e] = irq[e] /\ wanted'[e] = wanted[e]
                               /\ lintr'[e] = lintr[e]
  PROVE  LineInv'
<1>1. SUFFICES ASSUME NEW e \in Devs, e # d
               PROVE  LineState(e)'
  BY DEF LineInv
<1>2. LineState(e)
  BY DEF LineInv
<1> QED BY <1>1, <1>2 DEF LineState, Permitted

(* init_pci leaves all interrupts idle.                                    *)
LEMMA InitLine == PciInit => LineInv
BY DEF PciInit, LineInv, LineTypes, LineState

(* pci_lintr_update after d has been masked or unmasked keeps the          *)
(* invariant, whichever register the host has written.                     *)
LEMMA UpdateLine ==
  ASSUME LineInv, NEW d \in Devs,
         intxdis' \in [Devs -> BOOLEAN], msi' \in [Devs -> BOOLEAN],
         \A e \in Devs \ {d} : intxdis'[e] = intxdis[e] /\ msi'[e] = msi[e],
         lintr_update(d, Permitted(d, intxdis', msi')), set_irq(d), wanted' = wanted
  PROVE  LineInv'
<1>1. LineTypes /\ LineState(d)
  BY DEF LineInv
<1>2. /\ lintr' \in [Devs -> {"IDLE", "ASSERTED", "PENDING"}]
      /\ lintr'[d] = IF lintr[d] = "IDLE" THEN "IDLE"
                     ELSE IF Permitted(d, intxdis', msi') THEN "ASSERTED" ELSE "PENDING"
      /\ \A e \in Devs \ {d} : lintr'[e] = lintr[e]
  BY <1>1 DEF LineTypes, lintr_update
<1>3. /\ irq' \in [Devs -> BOOLEAN]
      /\ irq'[d] <=> lintr'[d] = "ASSERTED"
      /\ \A e \in Devs \ {d} : irq'[e] = irq[e]
  BY <1>1 DEF LineTypes, set_irq
<1>4. LineTypes'
  BY <1>1, <1>2, <1>3 DEF LineTypes
<1>5. LineState(d)'
  BY <1>1, <1>2, <1>3 DEF LineState, Permitted
<1> QED BY <1>2, <1>3, <1>4, <1>5, OtherLines

(* Each step of the specification keeps the invariant.                     *)
LEMMA NextLine == LineInv /\ [PciNext]_pciVars => LineInv'
<1> SUFFICES ASSUME LineInv, [PciNext]_pciVars
             PROVE  LineInv'
  OBVIOUS
<1>t. LineTypes
  BY DEF LineInv
<1>u. ASSUME UNCHANGED ints
      PROVE  LineInv'
  BY <1>u DEF LineInv, LineTypes, LineState, Permitted, ints
<1>1. ASSUME NEW a \in Window, Access(a)
      PROVE  LineInv'
  BY <1>1, <1>u DEF Access
<1>2. ASSUME NEW b \in Bars, NEW a \in Bases[b], WriteBar(b, a)
      PROVE  LineInv'
  BY <1>2, <1>u DEF WriteBar
<1>3. ASSUME NEW d \in Devs, NEW on \in BOOLEAN, NEW dis \in BOOLEAN, WriteCommand(d, on, dis)
      PROVE  LineInv'
  <2>1. /\ intxdis' \in [Devs -> BOOLEAN] /\ msi' = msi /\ wanted' = wanted
        /\ \A e \in Devs \ {d} : intxdis'[e] = intxdis[e]
    BY <1>3, <1>t DEF WriteCommand, LineTypes
  <2>2. lintr_update(d, Permitted(d, intxdis', msi')) /\ set_irq(d)
    BY <1>3, <2>1 DEF WriteCommand
  <2> QED BY <2>1, <2>2, <1>t, UpdateLine DEF LineTypes
<1>4. ASSUME NEW d \in MsiDevs, NEW on \in BOOLEAN, WriteMsi(d, on)
      PROVE  LineInv'
  <2>1. d \in Devs
    BY DevsAssumption
  <2>2. /\ msi' \in [Devs -> BOOLEAN] /\ intxdis' = intxdis /\ wanted' = wanted
        /\ \A e \in Devs \ {d} : msi'[e] = msi[e]
    BY <1>4, <1>t DEF WriteMsi, LineTypes
  <2>3. lintr_update(d, Permitted(d, intxdis', msi')) /\ set_irq(d)
    BY <1>4, <2>2 DEF WriteMsi
  <2> QED BY <2>1, <2>2, <2>3, <1>t, UpdateLine DEF LineTypes
<1>5. ASSUME NEW d \in Devs, LintrAssert(d) \/ LintrDeassert(d)
      PROVE  LineInv'
  <2>1. LineState(d)
    BY DEF LineInv
  <2>2. /\ lintr' \in [Devs -> {"IDLE", "ASSERTED", "PENDING"}]
        /\ \A e \in Devs \ {d} : lintr'[e] = lintr[e]
    BY <1>5, <1>t DEF LineTypes, LintrAssert, LintrDeassert
  <2>3. /\ irq' \in [Devs -> BOOLEAN]
        /\ irq'[d] <=> lintr'[d] = "ASSERTED"
        /\ \A e \in Devs \ {d} : irq'[e] = irq[e]
    BY <1>5, <1>t DEF LineTypes, LintrAssert, LintrDeassert, set_irq
  <2>4. /\ wanted' \in [Devs -> BOOLEAN]
        /\ \A e \in Devs \ {d} : wanted'[e] = wanted[e]
        /\ intxdis' = intxdis /\ msi' = msi
    BY <1>5, <1>t DEF LineTypes, LintrAssert, LintrDeassert
  <2>5. LineTypes'
    BY <1>t, <2>2, <2>3, <2>4 DEF LineTypes
  <2>6. LineState(d)'
    <3>1. CASE LintrAssert(d)
      <4>1. wanted'[d] = TRUE
        BY <3>1, <1>t DEF LintrAssert, LineTypes
      <4>2. lintr'[d] = IF lintr[d] # "IDLE" THEN lintr[d]
                        ELSE IF Permitted(d, intxdis, msi) THEN "ASSERTED" ELSE "PENDING"
        BY <3>1, <1>t DEF LintrAssert, LineTypes
      <4> QED BY <4>1, <4>2, <2>1, <2>3, <2>4, <1>t DEF LineState, LineTypes, Permitted
    <3>2. CASE LintrDeassert(d)
      <4>1. wanted'[d] = FALSE /\ lintr'[d] = "IDLE"
        BY <3>2, <1>t DEF LintrDeassert, LineTypes
      <4> QED BY <4>1, <2>3 DEF LineState
    <3> QED BY <1>5, <3>1, <3>2
  <2> QED BY <2>2, <2>3, <2>4, <2>5, <2>6, OtherLines
<1>6. CASE UNCHANGED pciVars
  BY <1>6, <1>u DEF pciVars
<1> QED BY <1>1, <1>2, <1>3, <1>4, <1>5, <1>6 DEF PciNext

(* For any set of devices, the state of pi_lintr, the line, what the       *)
(* device asks for and the masks of the host agree: pci_lintr_assert,      *)
(* _deassert and _update.                                                  *)
THEOREM LineInvariant == PciSpec => []LineInv
BY InitLine, NextLine, PTL DEF PciSpec

(* The line of a device is up exactly while the device asserts it and the  *)
(* host lets it, however masking and asserting interleave.                 *)
THEOREM NoInterruptMasked == PciSpec => []LineMatches
<1>1. LineInv => LineMatches
  BY DEF LineInv, LineTypes, LineState, LineMatches
<1> QED BY <1>1, LineInvariant, PTL
-----------------------------------------------------------------------------
(* The BARs in all runs                                                    *)

(* The rest of the types                                                   *)
MapTypes ==
  /\ mem \in MapType
  /\ \A r \in mem.tree : r = Ecfg \/ \E b \in Bars : r = RangeOf(b, r.base)
  /\ addr \in [Bars -> Nat] /\ \A b \in Bars : addr[b] % Size[b] = 0
  /\ memen \in [Devs -> BOOLEAN] /\ overlapped \in BOOLEAN

LEMMA TypesSplit == PciTypeOK <=> MapTypes /\ LineTypes
BY DEF PciTypeOK, MapTypes, LineTypes, MapType

(* When an assertion has failed there is nothing more to say; a map in     *)
(* which none has is what PciInv asks for.                                 *)
LEMMA MapStep ==
  ASSUME PciInv, mem.ok, LineTypes',
         addr' \in [Bars -> Nat], \A b \in Bars : addr'[b] % Size[b] = 0,
         memen' \in [Devs -> BOOLEAN],
         overlapped' = (overlapped \/ Overlaps(addr', memen')),
         mem' \in MapType, mem'.hint \in mem'.tree \cup {NoRange},
         \A r \in mem'.tree : r \in mem.tree \/ \E b \in Bars : r = RangeOf(b, r.base),
         mem'.ok => \A r \in mem'.tree :
                      r.bar \in Bars => memen'[DevOf(r.bar)] /\ r.base = addr'[r.bar],
         ~overlapped /\ ~Overlaps(addr', memen') => mem'.ok /\ mem'.tree = Decoded(addr', memen')
  PROVE  PciInv'
<1>1. MapTypes'
  <2>1. MapTypes
    BY TypesSplit DEF PciInv
  <2>2. overlapped' \in BOOLEAN
    <3>1. Overlaps(addr', memen') \in BOOLEAN
      BY DEF Overlaps
    <3> QED BY <2>1, <3>1 DEF MapTypes
  <2> QED BY <2>1, <2>2 DEF MapTypes, MapType, RangeOf
<1>2. HandlerMatches'
  BY EcfgProperties DEF HandlerMatches, DevOf
<1>3. HintInTree' /\ TreeIsDecoded'
  BY DEF HintInTree, TreeIsDecoded, Overlaps, Decoded, DevOf, RangeOf
<1>4. PciTypeOK'
  BY <1>1, DevsAssumption DEF PciTypeOK, MapTypes, LineTypes, MapType
<1> QED BY <1>2, <1>3, <1>4 DEF PciInv

(* An access leaves a range of the tree in the cache.                      *)
LEMMA ReachedInTree ==
  ASSUME PciInv, NEW a \in Nat
  PROVE  Reached(mem, a) \in mem.tree \cup {NoRange}
<1>1. ~Covers(NoRange, a) /\ mem.hint \in mem.tree \cup {NoRange}
  BY EcfgProperties DEF PciInv, HintInTree
<1>2. Found(mem, a) \subseteq mem.tree
  BY DEF Found
<1> QED BY <1>1, <1>2 DEF Reached

(* Each step of the specification keeps the invariant.                     *)
LEMMA NextPci == PciInv /\ LineInv /\ [PciNext]_pciVars => PciInv'
<1> SUFFICES ASSUME PciInv, LineInv, [PciNext]_pciVars
             PROVE  PciInv'
  OBVIOUS
<1>t. /\ mem \in MapType /\ mem.hint \in mem.tree \cup {NoRange}
      /\ \A r \in mem.tree : r = Ecfg \/ \E b \in Bars : r = RangeOf(b, r.base)
      /\ addr \in [Bars -> Nat] /\ \A b \in Bars : addr[b] % Size[b] = 0
      /\ memen \in [Devs -> BOOLEAN]
      /\ mem.ok => \A r \in mem.tree :
                     r.bar \in Bars => memen[DevOf(r.bar)] /\ r.base = addr[r.bar]
      /\ ~overlapped => mem.ok /\ ~Overlaps(addr, memen) /\ mem.tree = Decoded(addr, memen)
  BY DEF PciInv, PciTypeOK, MapType, HintInTree, HandlerMatches, TreeIsDecoded
<1>l. LineTypes'
  BY NextLine DEF LineInv
<1>u. ASSUME UNCHANGED bars
      PROVE  PciInv'
  BY <1>u, <1>l, TypesSplit
     DEF bars, PciInv, PciTypeOK, LineTypes, HandlerMatches, HintInTree, TreeIsDecoded, Overlaps, Decoded
<1>1. ASSUME NEW a \in Window, Access(a)
      PROVE  PciInv'
  <2>1. /\ mem.ok /\ addr' = addr /\ memen' = memen /\ overlapped' = overlapped
        /\ mem' = access_memory(mem, a)
    BY <1>1 DEF Access
  <2>2. Reached(mem, a) \in mem.tree \cup {NoRange}
    BY ReachedInTree, WindowAssumption
  <2>3. /\ mem' \in MapType /\ mem'.tree = mem.tree /\ mem'.ok = mem.ok
        /\ mem'.hint \in mem.tree \cup {NoRange}
    BY <1>t, <2>1, <2>2 DEF access_memory, MapType
  <2> QED BY <1>t, <1>l, <2>1, <2>3, EcfgProperties
          DEF PciInv, PciTypeOK, LineTypes, MapType, HandlerMatches, HintInTree, TreeIsDecoded,
              Overlaps, Decoded
<1>2. ASSUME NEW b \in Bars, NEW a \in Bases[b], WriteBar(b, a)
      PROVE  PciInv'
  <2>1. /\ mem.ok /\ mem' = update_bar_address(b, a) /\ addr' = [addr EXCEPT ![b] = a]
        /\ overlapped' = (overlapped \/ Overlaps(addr', memen)) /\ memen' = memen
    BY <1>2 DEF WriteBar, ConfigAccess
  <2>2. a \in Nat /\ a % Size[b] = 0
    BY SizeAssumption
  <2>3. addr' \in [Bars -> Nat] /\ \A c \in Bars : addr'[c] % Size[c] = 0
    BY <1>t, <2>1, <2>2
  <2>4. CASE a = addr[b]
    <3>1. mem' = mem /\ addr' = addr
      BY <1>t, <2>1, <2>4 DEF update_bar_address
    <3> QED BY <1>t, <1>l, <2>1, <2>3, <3>1, MapStep
  <2>5. CASE ~memen[DevOf(b)]
    <3>1. mem' = mem
      BY <2>1, <2>5 DEF update_bar_address
    <3>2. Decoded(addr', memen) = Decoded(addr, memen)
      <4>1. \A c \in Bars : memen[DevOf(c)] => addr'[c] = addr[c]
        BY <1>t, <2>1, <2>5
      <4> QED BY <4>1 DEF Decoded
    <3>3. mem.ok => \A r \in mem.tree :
                      r.bar \in Bars => memen[DevOf(r.bar)] /\ r.base = addr'[r.bar]
      BY <1>t, <2>1, <2>5
    <3> QED BY <1>t, <1>l, <2>1, <2>3, <3>1, <3>2, <3>3, MapStep
  <2>6. CASE a # addr[b] /\ memen[DevOf(b)]
    <3>1. /\ mem' \in MapType /\ mem'.hint \in mem'.tree \cup {NoRange}
          /\ mem'.tree \subseteq mem.tree \cup {RangeOf(b, a)}
          /\ mem'.ok => \A r \in mem'.tree : r.bar = b => r = RangeOf(b, a)
          /\ ~overlapped /\ ~Overlaps(addr', memen)
               => mem'.ok /\ mem'.tree = Decoded(addr', memen)
      BY <2>1, <2>2, <2>6, MoveEffect
    <3>2. RangeOf(b, a).bar = b /\ RangeOf(b, a).base = a
      BY <2>2, RangeProperties
    <3>3. mem'.ok => \A r \in mem'.tree :
                       r.bar \in Bars => memen[DevOf(r.bar)] /\ r.base = addr'[r.bar]
      BY <1>t, <2>1, <2>6, <3>1, <3>2
    <3>4. \A r \in mem'.tree : r \in mem.tree \/ \E c \in Bars : r = RangeOf(c, r.base)
      BY <3>1, <3>2
    <3> QED BY <1>t, <1>l, <2>1, <2>3, <3>1, <3>3, <3>4, MapStep
  <2> QED BY <2>4, <2>5, <2>6
<1>3. ASSUME NEW d \in Devs, NEW on \in BOOLEAN, NEW dis \in BOOLEAN, WriteCommand(d, on, dis)
      PROVE  PciInv'
  <2>1. /\ mem.ok /\ mem' = IF on = memen[d] THEN mem ELSE SetDecoding(d, on)
        /\ memen' = [memen EXCEPT ![d] = on] /\ addr' = addr
        /\ overlapped' = (overlapped \/ Overlaps(addr, memen'))
    BY <1>3 DEF WriteCommand, ConfigAccess
  <2>2. memen' \in [Devs -> BOOLEAN] /\ memen' = Enabled(d, on)
    BY <1>t, <2>1 DEF Enabled
  <2>3. CASE on = memen[d]
    <3>1. mem' = mem /\ memen' = memen
      BY <1>t, <2>1, <2>3
    <3> QED BY <1>t, <1>l, <2>1, <3>1, MapStep
  <2>4. CASE on # memen[d]
    <3>1. /\ mem' \in MapType /\ mem'.hint \in mem'.tree \cup {NoRange}
          /\ mem'.tree \subseteq mem.tree \cup (IF on THEN FirstRanges(d, Len(BarsOf[d])) ELSE {})
          /\ ~on /\ mem'.ok => \A r \in mem'.tree : r.bar \in Bars => DevOf(r.bar) # d
          /\ ~overlapped /\ ~Overlaps(addr, memen')
               => mem'.ok /\ mem'.tree = Decoded(addr, memen')
      <4>1. mem.ok /\ mem' = SetDecoding(d, on) /\ addr' = addr /\ memen' = Enabled(d, on)
        BY <2>1, <2>2, <2>4
      <4> DEFINE q == mem'
      <4>2. q = SetDecoding(d, on)
        BY <4>1
      <4> HIDE DEF q
      <4>3. /\ q \in MapType /\ q.hint \in q.tree \cup {NoRange}
            /\ q.tree \subseteq mem.tree \cup (IF on THEN FirstRanges(d, Len(BarsOf[d])) ELSE {})
            /\ ~on /\ q.ok => \A r \in q.tree : r.bar \in Bars => DevOf(r.bar) # d
            /\ ~overlapped /\ ~Overlaps(addr, Enabled(d, on))
                 => q.ok /\ q.tree = Decoded(addr, Enabled(d, on))
        BY <2>4, <4>1, <4>2, DecodingEffect
      <4> QED BY <4>1, <4>3 DEF q
    <3>2. ASSUME NEW r \in FirstRanges(d, Len(BarsOf[d]))
          PROVE  /\ r.bar \in Bars /\ DevOf(r.bar) = d
                 /\ r.base = addr[r.bar] /\ r = RangeOf(r.bar, r.base)
      <4>1. PICK b \in Bars : DevOf(b) = d /\ r = RangeOf(b, addr[b])
        <5>1. FirstRanges(d, Len(BarsOf[d])) = {RangeOf(b, addr[b]) : b \in {c \in Bars : DevOf(c) = d}}
          BY <1>t, AllRanges
        <5> HIDE DEF FirstRanges
        <5>2. r \in {RangeOf(b, addr[b]) : b \in {c \in Bars : DevOf(c) = d}}
          BY <5>1
        <5> QED BY <5>2
      <4> QED BY <1>t, <4>1, RangeProperties
    <3>3. ASSUME mem'.ok, NEW r \in mem'.tree, r.bar \in Bars
          PROVE  memen'[DevOf(r.bar)] /\ r.base = addr[r.bar]
      <4>1. DevOf(r.bar) \in Devs
        BY <3>3, BarProperties
      <4>2. CASE r \in mem.tree
        <5>1. memen[DevOf(r.bar)] /\ r.base = addr[r.bar]
          BY <1>t, <2>1, <3>3, <4>2
        <5>2. DevOf(r.bar) = d => on
          BY <3>1, <3>3
        <5> QED BY <1>t, <2>1, <4>1, <5>1, <5>2
      <4>3. CASE on /\ r \in FirstRanges(d, Len(BarsOf[d]))
        BY <1>t, <2>1, <3>2, <4>3
      <4> QED BY <3>1, <4>2, <4>3
    <3>4. \A r \in mem'.tree : r \in mem.tree \/ \E b \in Bars : r = RangeOf(b, r.base)
      BY <3>1, <3>2
    <3> QED BY <1>t, <1>l, <2>1, <2>2, <3>1, <3>3, <3>4, MapStep
  <2> QED BY <2>3, <2>4
<1>4. ASSUME NEW d \in MsiDevs, NEW on \in BOOLEAN, WriteMsi(d, on)
      PROVE  PciInv'
  BY <1>4, <1>u DEF WriteMsi
<1>5. ASSUME NEW d \in Devs, LintrAssert(d) \/ LintrDeassert(d)
      PROVE  PciInv'
  BY <1>5, <1>u DEF LintrAssert, LintrDeassert
<1>6. CASE UNCHANGED pciVars
  BY <1>6, <1>u DEF pciVars
<1> QED BY <1>1, <1>2, <1>3, <1>4, <1>5, <1>6 DEF PciNext
-----------------------------------------------------------------------------
(* The allocation of the BARs                                              *)

LEMMA Rounded ==
  ASSUME NEW x \in Nat, NEW s \in Nat, s > 0
  PROVE  Roundup2(x, s) \in Nat /\ Roundup2(x, s) >= x /\ Roundup2(x, s) % s = 0
<1> DEFINE y == x + s - 1
           q == y \div s
<1>1. y \in Nat
  OBVIOUS
<1> HIDE DEF y
<1>2. q \in Nat /\ y = q * s + (y % s) /\ y % s \in 0 .. (s - 1)
  BY <1>1
<1> HIDE DEF q
<1>3. q * s \in Nat
  BY <1>2
<1>4. q * s >= x
  BY <1>2, <1>3 DEF y
<1>5. (q * s) % s = 0
  BY <1>2, SMTT(30)
<1> QED BY <1>3, <1>4, <1>5 DEF Roundup2, q, y

(* The place of each BAR in the order of the allocation                    *)
LEMMA OrderProperties ==
  /\ Len(AllBars) \in Nat /\ DOMAIN AllBars = 1 .. Len(AllBars)
  /\ \A k \in 1 .. Len(AllBars) :
       /\ AllBars[k] \in Bars /\ Size[AllBars[k]] \in Nat /\ Size[AllBars[k]] > 0
       /\ \A j \in 1 .. Len(AllBars) : AllBars[j] = AllBars[k] => j = k
  /\ \A b \in Bars : \E k \in 1 .. Len(AllBars) : AllBars[k] = b
<1>1. AllBars \in Seq(Bars)
  BY DevsAssumption
<1>2. /\ Len(AllBars) \in Nat /\ DOMAIN AllBars = 1 .. Len(AllBars)
      /\ \A k \in 1 .. Len(AllBars) : AllBars[k] \in Bars
  BY <1>1, LenProperties, ElementOfSeq
<1>3. \A b \in Bars : \E k \in 1 .. Len(AllBars) : AllBars[k] = b
  BY <1>2 DEF Bars, ToSet
<1>4. ASSUME NEW k \in 1 .. Len(AllBars), NEW j \in 1 .. Len(AllBars), AllBars[j] = AllBars[k]
      PROVE  j = k
  BY <1>2, <1>4, DevsAssumption DEF IsInjective
<1> QED BY <1>2, <1>3, <1>4, BarProperties

LEMMA AllocatedSteps ==
  /\ Allocated[0] = MemBase
  /\ \A k \in 1 .. Len(AllBars) :
       Allocated[k] = Roundup2(Allocated[k - 1], Size[AllBars[k]]) + Size[AllBars[k]]
<1> DEFINE n == Len(AllBars)
           Add(x, k) == Roundup2(x, Size[AllBars[k]]) + Size[AllBars[k]]
           alloc == CHOOSE alloc :
                      alloc = [k \in 0 .. n |-> IF k = 0 THEN MemBase ELSE Add(alloc[k - 1], k)]
           P == {i \in 0 .. n :
                   \E f : f = [k \in 0 .. i |-> IF k = 0 THEN MemBase ELSE Add(f[k - 1], k)]}
<1>1. Allocated = alloc
  BY DEF Allocated
<1>2. n \in Nat
  BY OrderProperties
<1> HIDE DEF Add, n
<1>3. 0 \in P
  <2> DEFINE f == [k \in 0 .. 0 |-> MemBase]
  <2>1. f = [k \in 0 .. 0 |-> IF k = 0 THEN MemBase ELSE Add(f[k - 1], k)]
    OBVIOUS
  <2> HIDE DEF f
  <2> QED BY <1>2, <2>1
<1>4. ASSUME NEW i \in 0 .. n, i < n, i \in P PROVE i + 1 \in P
  <2>1. PICK f : f = [k \in 0 .. i |-> IF k = 0 THEN MemBase ELSE Add(f[k - 1], k)]
    BY <1>4
  <2> DEFINE g == [k \in 0 .. (i + 1) |-> IF k <= i THEN f[k] ELSE Add(f[i], i + 1)]
  <2>2. ASSUME NEW k \in 0 .. (i + 1)
        PROVE  g[k] = IF k = 0 THEN MemBase ELSE Add(g[k - 1], k)
    <3>1. CASE k = 0
      BY <2>1, <3>1
    <3>2. CASE k \in 1 .. i
      <4>1. k - 1 \in 0 .. i /\ k \in 0 .. i
        BY <3>2
      <4>2. f[k] = Add(f[k - 1], k)
        BY <2>1, <3>2, <4>1
      <4>3. g[k] = f[k] /\ g[k - 1] = f[k - 1]
        BY <3>2, <4>1
      <4> QED BY <3>2, <4>2, <4>3
    <3>3. CASE k = i + 1
      <4>1. k - 1 = i /\ g[k - 1] = f[i] /\ g[k] = Add(f[i], k)
        BY <3>3
      <4> QED BY <3>3, <4>1
    <3> QED BY <3>1, <3>2, <3>3
  <2>3. g = [k \in 0 .. (i + 1) |-> IF k = 0 THEN MemBase ELSE Add(g[k - 1], k)]
    <3>1. g = [k \in 0 .. (i + 1) |-> g[k]]
      OBVIOUS
    <3> HIDE DEF g
    <3> QED BY <2>2, <3>1
  <2> HIDE DEF g
  <2>4. \E h : h = [k \in 0 .. (i + 1) |-> IF k = 0 THEN MemBase ELSE Add(h[k - 1], k)]
    BY <2>3
  <2>5. i + 1 \in 0 .. n
    BY <1>2, <1>4
  <2> QED BY <2>4, <2>5
<1>5. n \in P
  <2> HIDE DEF P
  <2> QED BY <1>2, <1>3, <1>4, Counting
<1>6. alloc = [k \in 0 .. n |-> IF k = 0 THEN MemBase ELSE Add(alloc[k - 1], k)]
  BY <1>5
<1> HIDE DEF alloc
<1>7. alloc[0] = MemBase /\ \A k \in 1 .. n : alloc[k] = Add(alloc[k - 1], k)
  <2>1. 0 \in 0 .. n /\ \A k \in 1 .. n : k \in 0 .. n /\ k # 0
    BY <1>2
  <2> QED BY <1>6, <2>1
<1> QED BY <1>1, <1>7 DEF Add, n

(* What is allocated only grows.                                           *)
LEMMA AllocatedGrows ==
  \A k \in 0 .. Len(AllBars) :
    \A j \in 0 .. k : Allocated[j] \in Nat /\ Allocated[j] <= Allocated[k]
<1> DEFINE n == Len(AllBars)
           Holds(k) == \A j \in 0 .. k : Allocated[j] \in Nat /\ Allocated[j] <= Allocated[k]
           P == {k \in 0 .. n : Holds(k)}
<1>1. n \in Nat
  BY OrderProperties
<1>2. Holds(0)
  <2>1. Allocated[0] \in Nat
    BY AllocatedSteps, WindowAssumption
  <2>2. \A j \in 0 .. 0 : j = 0
    OBVIOUS
  <2> QED BY <2>1, <2>2
<1>3. ASSUME NEW k \in 0 .. n, k < n, Holds(k) PROVE Holds(k + 1)
  <2>1. k + 1 \in 1 .. n /\ k + 1 - 1 = k
    BY <1>1, <1>3
  <2>k. k \in 0 .. k
    BY <1>3
  <2>0. Allocated[k] \in Nat
    BY <1>3, <2>k
  <2> DEFINE s == Size[AllBars[k + 1]]
  <2>2. s \in Nat /\ s > 0
    BY <2>1, OrderProperties
  <2>3. Allocated[k + 1] = Roundup2(Allocated[k], s) + s
    BY <2>1, AllocatedSteps
  <2> HIDE DEF s
  <2>4. Roundup2(Allocated[k], s) \in Nat /\ Roundup2(Allocated[k], s) >= Allocated[k]
    BY <2>0, <2>2, Rounded
  <2>5. Allocated[k + 1] \in Nat /\ Allocated[k + 1] >= Allocated[k] /\ Allocated[k] \in Nat
    BY <2>0, <2>2, <2>3, <2>4
  <2>6. ASSUME NEW j \in 0 .. (k + 1) PROVE Allocated[j] \in Nat /\ Allocated[j] <= Allocated[k + 1]
    <3>1. CASE j = k + 1
      BY <2>5, <3>1
    <3>2. CASE j \in 0 .. k
      <4>1. Allocated[j] \in Nat /\ Allocated[j] <= Allocated[k]
        BY <1>3, <3>2
      <4> QED BY <2>5, <4>1
    <3> QED BY <2>6, <3>1, <3>2
  <2> QED BY <2>5, <2>6
<1>4. \A k \in 0 .. n : k \in P
  <2> HIDE DEF Holds
  <2>1. 0 \in P
    BY <1>1, <1>2
  <2>2. \A k \in 0 .. n : k < n /\ k \in P => k + 1 \in P
    BY <1>1, <1>3
  <2> HIDE DEF P
  <2> QED BY <1>1, <2>1, <2>2, Counting
<1> QED BY <1>4

(* pci_emul_alloc_resource gives each BAR the room between two values of   *)
(* pci_emul_membase32, aligned by its size.                                *)
LEMMA InitBars ==
  ASSUME PciInit
  PROVE  /\ addr \in [Bars -> Nat] /\ \A b \in Bars : addr[b] % Size[b] = 0
         /\ \A b \in Bars : addr[b] + Size[b] <= Ecfg.base
         /\ \A b, c \in Bars : b # c => \/ addr[b] + Size[b] <= addr[c]
                                       \/ addr[c] + Size[c] <= addr[b]
<1> DEFINE n == Len(AllBars)
           At(b, k) == /\ AllBars[k] = b /\ addr[b] \in Nat /\ addr[b] % Size[b] = 0
                       /\ Allocated[k - 1] <= addr[b] /\ addr[b] + Size[b] = Allocated[k]
<1>1. addr = [b \in Bars |-> LET k == CHOOSE k \in DOMAIN AllBars : AllBars[k] = b
                             IN  Roundup2(Allocated[k - 1], Size[b])]
  BY DEF PciInit
<1>n. n \in Nat /\ \A k \in 1 .. n : k \in 0 .. n /\ k - 1 \in 0 .. n
  BY OrderProperties
<1>a. \A k \in 0 .. n : \A j \in 0 .. k : Allocated[j] \in Nat /\ Allocated[j] <= Allocated[k]
  BY AllocatedGrows
<1>2. ASSUME NEW b \in Bars PROVE \E k \in 1 .. n : At(b, k)
  <2> DEFINE k == CHOOSE k \in DOMAIN AllBars : AllBars[k] = b
  <2>1. k \in 1 .. n /\ AllBars[k] = b
    BY OrderProperties
  <2>2. addr[b] = Roundup2(Allocated[k - 1], Size[b])
    BY <1>1
  <2> HIDE DEF k
  <2>3. Allocated[k - 1] \in Nat
    <3>1. k - 1 \in 0 .. n /\ k - 1 \in 0 .. (k - 1)
      BY <2>1, <1>n
    <3> QED BY <3>1, <1>a
  <2>4. Size[b] \in Nat /\ Size[b] > 0
    BY BarProperties
  <2>5. addr[b] \in Nat /\ addr[b] % Size[b] = 0 /\ Allocated[k - 1] <= addr[b]
    BY <2>2, <2>3, <2>4, Rounded
  <2>6. addr[b] + Size[b] = Allocated[k]
    BY <2>1, <2>2, AllocatedSteps
  <2> QED BY <2>1, <2>5, <2>6
<1>3. ASSUME NEW b \in Bars
      PROVE  addr[b] \in Nat /\ addr[b] % Size[b] = 0 /\ addr[b] + Size[b] <= Ecfg.base
  <2>1. PICK k \in 1 .. n : At(b, k)
    BY <1>2
  <2>2. k \in 0 .. n /\ n \in 0 .. n
    BY <1>n
  <2>3. Allocated[k] <= Allocated[n] /\ Allocated[k] \in Nat /\ Allocated[n] \in Nat
    <3>1. k \in 0 .. n /\ n \in 0 .. n
      BY <1>n
    <3> QED BY <3>1, <1>a
  <2>4. Ecfg.base \in Nat /\ Allocated[n] <= Ecfg.base
    BY WindowAssumption, LimitAssumption
  <2> QED BY <2>1, <2>3, <2>4
<1>4. ASSUME NEW b \in Bars, NEW c \in Bars, b # c
      PROVE  \/ addr[b] + Size[b] <= addr[c]
             \/ addr[c] + Size[c] <= addr[b]
  <2>1. PICK k \in 1 .. n : At(b, k)
    BY <1>2
  <2>2. PICK j \in 1 .. n : At(c, j)
    BY <1>2
  <2>3. j # k
    BY <1>4, <2>1, <2>2
  <2> HIDE DEF n
  <2>4. CASE j < k
    <3>1. k - 1 \in 0 .. n /\ j \in 0 .. (k - 1)
      BY <1>n, <2>4
    <3>2. Allocated[j] <= Allocated[k - 1] /\ Allocated[j] \in Nat /\ Allocated[k - 1] \in Nat
      <4>1. k - 1 \in 0 .. (k - 1)
        BY <3>1, <1>n
      <4> QED BY <3>1, <4>1, <1>a
    <3> QED BY <2>1, <2>2, <3>2
  <2>5. CASE k < j
    <3>1. j - 1 \in 0 .. n /\ k \in 0 .. (j - 1)
      BY <1>n, <2>5
    <3>2. Allocated[k] <= Allocated[j - 1] /\ Allocated[k] \in Nat /\ Allocated[j - 1] \in Nat
      <4>1. j - 1 \in 0 .. (j - 1)
        BY <3>1, <1>n
      <4> QED BY <3>1, <4>1, <1>a
    <3> QED BY <2>1, <2>2, <3>2
  <2> QED BY <2>3, <2>4, <2>5, <1>n
<1>5. addr \in [Bars -> Nat]
  BY <1>1, <1>3
<1> QED BY <1>3, <1>4, <1>5

(* init_pci: the BARs are where they were allocated, and all decoded.      *)
LEMMA InitPci == PciInit => PciInv
<1> SUFFICES ASSUME PciInit PROVE PciInv
  OBVIOUS
<1>1. /\ addr \in [Bars -> Nat] /\ \A b \in Bars : addr[b] % Size[b] = 0
      /\ \A b \in Bars : addr[b] + Size[b] <= Ecfg.base
      /\ \A b, c \in Bars : b # c => addr[b] + Size[b] <= addr[c] \/ addr[c] + Size[c] <= addr[b]
  BY InitBars
<1>2. /\ mem.tree = {RangeOf(b, addr[b]) : b \in Bars} \cup {Ecfg} /\ mem.hint = NoRange /\ mem.ok
      /\ memen = [d \in Devs |-> TRUE] /\ overlapped = FALSE
      /\ mem = [tree |-> mem.tree, hint |-> NoRange, ok |-> TRUE]
  BY DEF PciInit
<1>3. \A b \in Bars :
        /\ RangeOf(b, addr[b]) \in Ranges /\ RangeOf(b, addr[b]).bar = b
        /\ RangeOf(b, addr[b]).base = addr[b] /\ RangeOf(b, addr[b]).end = addr[b] + Size[b] - 1
        /\ memen[DevOf(b)] /\ Size[b] \in Nat /\ Size[b] > 0 /\ addr[b] \in Nat
  BY <1>1, <1>2, RangeProperties, BarProperties
<1>4. LineTypes
  BY InitLine DEF LineInv
<1>5. mem.tree = Decoded(addr, memen)
  BY <1>2, <1>3 DEF Decoded
<1>6. mem \in MapType /\ \A r \in mem.tree : r = Ecfg \/ \E b \in Bars : r = RangeOf(b, r.base)
  <2>1. mem.tree \subseteq Ranges /\ NoRange \in Ranges
    BY <1>2, <1>3, EcfgProperties
  <2>2. mem \in MapType
    BY <1>2, <2>1 DEF MapType
  <2>3. ASSUME NEW r \in mem.tree, r # Ecfg PROVE \E b \in Bars : r = RangeOf(b, r.base)
    <3>1. PICK b \in Bars : r = RangeOf(b, addr[b])
      BY <1>2, <2>3
    <3>2. r.base = addr[b]
      BY <1>3, <3>1
    <3> QED BY <3>1, <3>2
  <2> QED BY <2>2, <2>3
<1>7. HandlerMatches
  <2> SUFFICES ASSUME NEW r \in mem.tree \cup {mem.hint}, r.bar \in Bars
               PROVE  memen[DevOf(r.bar)] /\ r.base = addr[r.bar]
    BY DEF HandlerMatches
  <2>1. r # Ecfg /\ r \in mem.tree
    BY <1>2, EcfgProperties
  <2>2. PICK b \in Bars : r = RangeOf(b, addr[b])
    BY <1>2, <2>1
  <2> QED BY <1>3, <2>2
<1>8. ~Overlaps(addr, memen)
  <2> SUFFICES ASSUME NEW r \in mem.tree, NEW s \in mem.tree, r # s, Overlap(r, s) PROVE FALSE
    BY <1>5 DEF Overlaps
  <2>1. Ecfg.base \in Nat /\ Ecfg.end \in Nat
    BY WindowAssumption
  <2>2. ASSUME NEW b \in Bars PROVE ~Overlap(RangeOf(b, addr[b]), Ecfg) /\ ~Overlap(Ecfg, RangeOf(b, addr[b]))
    BY <1>1, <1>3, <2>1 DEF Overlap
  <2>3. ASSUME NEW b \in Bars, NEW c \in Bars, b # c PROVE ~Overlap(RangeOf(b, addr[b]), RangeOf(c, addr[c]))
    <3>1. addr[b] + Size[b] <= addr[c] \/ addr[c] + Size[c] <= addr[b]
      BY <1>1, <2>3
    <3> QED BY <1>3, <3>1 DEF Overlap
  <2>4. /\ r = Ecfg \/ \E b \in Bars : r = RangeOf(b, addr[b])
        /\ s = Ecfg \/ \E b \in Bars : s = RangeOf(b, addr[b])
    BY <1>2
  <2> QED BY <2>2, <2>3, <2>4
<1>9. MapTypes
  BY <1>1, <1>2, <1>6 DEF MapTypes
<1> QED BY <1>2, <1>4, <1>5, <1>7, <1>8, <1>9, TypesSplit
        DEF PciInv, HintInTree, TreeIsDecoded

(* For any devices, BARs and host, the memory map follows the base and     *)
(* command registers: no range of a BAR that has moved or is disabled      *)
(* stays in the tree or in the cache (update_bar_address,                  *)
(* pci_emul_cmdsts_write, unregister_mem), and as long as no two ranges    *)
(* that are decoded have overlapped, none is missing.                      *)
THEOREM MapInvariant == PciSpec => []PciInv
<1>1. PciInit /\ [][PciNext]_pciVars => [](LineInv /\ PciInv)
  BY InitLine, NextLine, InitPci, NextPci, PTL
<1> QED BY <1>1, PTL DEF PciSpec

(* As long as no two ranges that are decoded have overlapped, an access of *)
(* the host reaches exactly the BAR that holds its address, with or        *)
(* without the cache of access_memory.                                     *)
THEOREM AccessesReachBars == PciSpec => []DecodesExactly
<1>1. ASSUME PciInv, ~overlapped, NEW a \in Window, NEW r \in Decoded(addr, memen)
      PROVE  Covers(r, a) <=> Reached(mem, a) = r
  <2>1. /\ mem.tree = Decoded(addr, memen) /\ mem.hint \in mem.tree \cup {NoRange}
        /\ \A s, t \in mem.tree : s = t \/ ~Overlap(s, t)
    BY <1>1 DEF PciInv, TreeIsDecoded, HintInTree, Overlaps
  <2>2. a \in Nat /\ ~Covers(NoRange, a) /\ NoRange \notin mem.tree
    <3>1. a \in Nat
      BY WindowAssumption
    <3>2. NoRange \notin mem.tree
      BY <1>1, EcfgProperties, RangeProperties DEF PciInv, PciTypeOK, Ranges
    <3> QED BY <3>1, <3>2, EcfgProperties
  <2>3. ASSUME NEW s \in mem.tree, NEW t \in mem.tree, Covers(s, a), Covers(t, a) PROVE s = t
    <3>1. /\ s.base \in Nat /\ s.end \in Nat /\ t.base \in Nat /\ t.end \in Nat
      BY <1>1 DEF PciInv, PciTypeOK, Ranges
    <3>2. Overlap(s, t)
      BY <2>2, <2>3, <3>1 DEF Covers, Overlap
    <3> QED BY <2>1, <3>2
  <2>4. CASE Covers(mem.hint, a)
    BY <2>1, <2>2, <2>3, <2>4 DEF Reached
  <2>5. CASE ~Covers(mem.hint, a) /\ Found(mem, a) = {}
    BY <2>1, <2>2, <2>5 DEF Reached, Found
  <2>6. CASE ~Covers(mem.hint, a) /\ Found(mem, a) # {}
    <3>1. Reached(mem, a) \in Found(mem, a)
      BY <2>6 DEF Reached
    <3> QED BY <2>1, <2>3, <3>1 DEF Found
  <2> QED BY <2>4, <2>5, <2>6
<1>2. PciInv => DecodesExactly
  BY <1>1 DEF DecodesExactly, PciInv, TreeIsDecoded
<1> QED BY <1>2, MapInvariant, PTL
=============================================================================

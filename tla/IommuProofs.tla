---------------------------- MODULE IommuProofs ------------------------------
(* Proofs about Iommu, for any number of pages, frames, entries of the TLB *)
(* and requests.                                                           *)
EXTENDS Iommu, TLAPS

Requests == [addr : Invalidate \cup Segmap, write : BOOLEAN, val : Pages \cup {None}]

(* The request asks for page r.val.                                        *)
Asks(r) == r.addr \in Invalidate /\ r.write

Types ==
  /\ pte \in [Pages -> Frames \cup {None}]
  /\ reqs \in SUBSET Requests
  /\ \A r \in reqs : Asks(r) => r.val \in Pages
  /\ tlb \in [Slots -> Entries]
  /\ lo \in [{0, 1} -> Frames \cup {None}]
  /\ walk \in {"idle", "lo0", "lo1", "tlbwr"}
  /\ walk # "idle" => hi \in Pairs

(* A pair has one entry, unless the plain tlbwr has given it a second.     *)
OneEntry ==
  \A i, j \in Slots :
    tlb[i].vpn2 = tlb[j].vpn2 /\ tlb[i].vpn2 # None /\ tlb[i].vpn2 \notin doubled => i = j

(* Between tlbp and tlbwi nothing changes EntryHi or the TLB.              *)
Exclusive ==
  cur # None =>
    /\ ~intr /\ walk = "idle"
    /\ cur \in reqs /\ Asks(cur)
    /\ hi = PairOf(cur.val)
    /\ IF tlbp(hi) = {} THEN index = None ELSE index \in tlbp(hi)

(* Frame v may stand for page p in the TLB.                                *)
Fresh(p, v) == v # None /\ p \notin Pending => v = pte[p]

(* What the miss handler has loaded                                        *)
WalkFresh ==
  /\ walk \in {"lo1", "tlbwr"} => Fresh(<<hi, 0>>, lo[0])
  /\ walk = "tlbwr" => Fresh(<<hi, 1>>, lo[1])

(* The inductive invariant: NoStale says nothing of the values on their    *)
(* way into the TLB, nor of how many entries a pair has.                   *)
IInv == Types /\ OneEntry /\ Exclusive /\ WalkFresh /\ NoStale

LEMMA HalfOfPage ==
  /\ \A p \in Pages : p = <<PairOf(p), p[2]>> /\ PairOf(p) \in Pairs /\ p[2] \in {0, 1}
  /\ \A q \in Pairs, h \in {0, 1} : <<q, h>> \in Pages /\ PairOf(<<q, h>>) = q /\ <<q, h>>[2] = h
BY DEF Pages, PairOf

(* dm_request takes the registers of both IOMMUs to emul_iommu, at the     *)
(* offsets it switches on.                                                 *)
LEMMA Dispatch ==
  ASSUME NEW r \in Requests
  PROVE  OpOf(r) = "invalidate" <=> Asks(r)
<1>1. r.addr \in {393216, 393472, 393224, 393480} /\ r.write \in BOOLEAN
  BY SMT DEF Requests, Invalidate, Segmap
<1>2. \A l \in fwd_map : ~Holds(l, r.addr)
  BY SMT, <1>1 DEF fwd_map, Holds
<1>3. PICK b \in {393216, 393472} : b <= r.addr /\ r.addr < b + 256
  BY SMT, <1>1
<1>4. PICK link : /\ link = [base |-> b, size |-> 256, request |-> "emul_iommu"]
                  /\ link \in emul_map /\ Holds(link, r.addr)
  <2>1. [base |-> b, size |-> 256, request |-> "emul_iommu"] \in emul_map
    BY SMT DEF emul_map
  <2>2. Holds([base |-> b, size |-> 256, request |-> "emul_iommu"], r.addr)
    BY SMT, <1>3 DEF Holds
  <2> QED BY SMT, <2>1, <2>2
<1>5. \A l \in emul_map : Holds(l, r.addr) => l = link
  <2> SUFFICES ASSUME NEW l \in emul_map, Holds(l, r.addr)
               PROVE  l = link
    BY SMT
  <2>1. CASE \E c \in {16384, 16416, 16512, 16544} :
               l = [base |-> c, size |-> 32, request |-> "emul_msgdma"]
    BY SMT, <2>1, <1>1 DEF Holds
  <2>2. CASE l = [base |-> 65536, size |-> 327680, request |-> "emul_pci"]
    BY SMT, <2>2, <1>1 DEF Holds
  <2>3. CASE \E c \in {393216, 393472} :
               l = [base |-> c, size |-> 256, request |-> "emul_iommu"]
    BY SMT, <2>3, <1>1, <1>3, <1>4 DEF Holds
  <2> QED BY SMT, <2>1, <2>2, <2>3 DEF emul_map
<1>6. dm_request(r.addr) = link
  <2>1. (CHOOSE l \in emul_map : Holds(l, r.addr)) = link
    BY SMT, <1>4, <1>5
  <2>2. \E l \in emul_map : Holds(l, r.addr)
    BY SMT, <1>4
  <2> QED BY SMT, <1>2, <2>1, <2>2 DEF dm_request
<1>7. OpOf(r) = "invalidate" <=> r.addr - b = 0 /\ r.write
  BY SMT, <1>4, <1>6 DEF OpOf
<1>8. r.addr - b = 0 <=> r.addr \in Invalidate
  BY SMT, <1>1, <1>3 DEF Invalidate
<1> QED BY SMT, <1>7, <1>8 DEF Asks

(* The host asks for a page it takes back, so what it was mapped to may    *)
(* stay in the TLB; nothing but the answer ends that.                      *)
LEMMA StaysFresh ==
  ASSUME Types, NEW p \in Pages, NEW v, Fresh(p, v),
         \/ pte' = pte /\ Pending \subseteq Pending'
         \/ \E q \in Pages : \E f : pte[q] = None /\ pte' = [pte EXCEPT ![q] = f] /\ reqs' = reqs
         \/ \E q \in Pages : /\ pte' = [pte EXCEPT ![q] = None]
                             /\ Pending' = Pending \cup {q}
  PROVE  Fresh(p, v)'
<1>1. CASE pte' = pte /\ Pending \subseteq Pending'
  BY <1>1 DEF Fresh
<1>2. ASSUME NEW q \in Pages, NEW f,
             pte[q] = None, pte' = [pte EXCEPT ![q] = f], reqs' = reqs
      PROVE  Fresh(p, v)'
  <2>1. Pending' = Pending
    BY <1>2 DEF Pending
  <2>2. pte'[p] = IF p = q THEN f ELSE pte[p]
    BY <1>2 DEF Types
  <2> QED BY <1>2, <2>1, <2>2 DEF Fresh
<1>3. ASSUME NEW q \in Pages, pte' = [pte EXCEPT ![q] = None], Pending' = Pending \cup {q}
      PROVE  Fresh(p, v)'
  <2>1. pte'[p] = IF p = q THEN None ELSE pte[p]
    BY <1>3 DEF Types
  <2> QED BY <1>3, <2>1 DEF Fresh
<1> QED BY <1>1, <1>2, <1>3

(* The same, for all that is in the TLB or on its way                      *)
LEMMA TlbStaysFresh ==
  ASSUME IInv, tlb' = tlb, lo' = lo, hi' = hi, walk' = walk, doubled' = doubled,
         \/ pte' = pte /\ Pending \subseteq Pending'
         \/ \E q \in Pages : \E f : pte[q] = None /\ pte' = [pte EXCEPT ![q] = f] /\ reqs' = reqs
         \/ \E q \in Pages : /\ pte' = [pte EXCEPT ![q] = None]
                             /\ Pending' = Pending \cup {q}
  PROVE  NoStale' /\ WalkFresh'
<1>1. NoStale'
  <2> SUFFICES ASSUME NEW i \in Slots, NEW p \in Pages,
                      tlb[i].vpn2 = PairOf(p), PairOf(p) \notin doubled
               PROVE  Fresh(p, tlb[i].lo[p[2]])'
    BY DEF NoStale, Fresh
  <2>1. Fresh(p, tlb[i].lo[p[2]])
    BY DEF IInv, NoStale, Fresh
  <2>2. \A v : Fresh(p, v) => Fresh(p, v)'
    BY StaysFresh DEF IInv
  <2> QED BY <2>1, <2>2 DEF Fresh
<1>2. WalkFresh'
  <2> SUFFICES ASSUME walk # "idle"
               PROVE  WalkFresh'
    BY DEF WalkFresh
  <2>1. <<hi, 0>> \in Pages /\ <<hi, 1>> \in Pages
    BY HalfOfPage DEF IInv, Types
  <2>2. \A p \in Pages : \A v : Fresh(p, v) => Fresh(p, v)'
    BY StaysFresh DEF IInv
  <2>3. \A h \in {0, 1} : Fresh(<<hi, h>>, lo[h]) => Fresh(<<hi, h>>, lo[h])'
    BY <2>1, <2>2 DEF Fresh
  <2> QED BY <2>3 DEF IInv, WalkFresh
<1> QED BY <1>1, <1>2

LEMMA InitIInv == IommuInit => IInv
<1> SUFFICES ASSUME IommuInit
             PROVE  IInv
  OBVIOUS
<1>1. [vpn2 |-> None, lo |-> [h \in {0, 1} |-> None]] \in Entries
  BY DEF Entries
<1>2. \A i \in Slots : tlb[i].vpn2 = None
  BY DEF IommuInit
<1>3. Types
  <2>1. tlb \in [Slots -> Entries]
    BY <1>1 DEF IommuInit
  <2> QED BY <2>1 DEF IommuInit, Types
<1>4. OneEntry /\ Exclusive /\ WalkFresh
  BY <1>2 DEF IommuInit, OneEntry, Exclusive, WalkFresh
<1>5. NoStale
  BY <1>2, HalfOfPage, NoneAssumption DEF NoStale
<1> QED BY <1>3, <1>4, <1>5 DEF IInv

(* The host changes its tables, or asks for something.                     *)
LEMMA HostStep ==
  ASSUME IInv,
         \/ \E p \in Pages, f \in Frames : Map(p, f)
         \/ \E p \in Pages, a \in Invalidate : Unmap(p, a)
         \/ \E a \in Segmap \cup Invalidate, w \in BOOLEAN : Request(a, w)
  PROVE  IInv'
<1> USE DEF IInv
<1>1. /\ tlb' = tlb /\ lo' = lo /\ hi' = hi /\ walk' = walk /\ cur' = cur
      /\ index' = index /\ intr' = intr /\ doubled' = doubled
      /\ reqs \subseteq reqs' /\ pte' \in [Pages -> Frames \cup {None}]
  BY DEF Map, Unmap, Request, miss, host, Types
<1>2. reqs' \in SUBSET Requests /\ \A r \in reqs' : Asks(r) => r.val \in Pages
  <2>1. CASE \E p \in Pages, f \in Frames : Map(p, f)
    BY <2>1 DEF Map, Types
  <2>2. ASSUME NEW p \in Pages, NEW a \in Invalidate, Unmap(p, a)
        PROVE  reqs' \in SUBSET Requests /\ \A r \in reqs' : Asks(r) => r.val \in Pages
    <3>1. PICK r : /\ r = [addr |-> a, write |-> TRUE, val |-> p]
                   /\ reqs' = reqs \cup {r}
      BY <2>2 DEF Unmap
    <3>2. r \in Requests /\ r.val \in Pages
      BY <3>1 DEF Requests
    <3> QED BY <3>1, <3>2 DEF Types
  <2>3. ASSUME NEW a \in Segmap \cup Invalidate, NEW w \in BOOLEAN, Request(a, w)
        PROVE  reqs' \in SUBSET Requests /\ \A r \in reqs' : Asks(r) => r.val \in Pages
    <3>1. PICK r : /\ r = [addr |-> a, write |-> w, val |-> None]
                   /\ reqs' = reqs \cup {r}
      BY <2>3 DEF Request
    <3>2. r \in Requests /\ ~Asks(r)
      BY <2>3, <3>1 DEF Requests, Asks, Request
    <3> QED BY <3>1, <3>2 DEF Types
  <2> QED BY <2>1, <2>2, <2>3
<1>3. NoStale' /\ WalkFresh'
  <2>1. CASE \E p \in Pages, f \in Frames : Map(p, f)
    BY <2>1, <1>1, TlbStaysFresh DEF Map
  <2>2. ASSUME NEW p \in Pages, NEW a \in Invalidate, Unmap(p, a)
        PROVE  NoStale' /\ WalkFresh'
    <3>1. PICK r : /\ r = [addr |-> a, write |-> TRUE, val |-> p]
                   /\ reqs' = reqs \cup {r}
      BY <2>2 DEF Unmap
    <3>2. r.addr \in Invalidate /\ r.write /\ r.val = p
      BY <3>1
    <3>3. Pending' = Pending \cup {p}
      BY <3>1, <3>2 DEF Pending
    <3>4. pte' = [pte EXCEPT ![p] = None]
      BY <2>2 DEF Unmap
    <3> QED BY <3>3, <3>4, <1>1, TlbStaysFresh
  <2>3. CASE \E a \in Segmap \cup Invalidate, w \in BOOLEAN : Request(a, w)
    <3>1. pte' = pte /\ Pending \subseteq Pending'
      BY <2>3 DEF Request, Pending, host
    <3> QED BY <3>1, <1>1, TlbStaysFresh
  <2> QED BY <2>1, <2>2, <2>3
<1>4. Types' /\ OneEntry'
  BY <1>1, <1>2 DEF Types, OneEntry
<1>5. Exclusive'
  BY <1>1 DEF Exclusive, tlbp
<1> QED BY <1>3, <1>4, <1>5

(* The first half of an invalidation finds an entry of the pair.           *)
LEMMA ProbeStep ==
  ASSUME IInv, NEW r \in reqs, Probe(r)
  PROVE  IInv'
<1> USE DEF IInv
<1>1. r \in Requests /\ Asks(r) /\ r.val \in Pages
  BY Dispatch DEF Probe, Types
<1>2. /\ tlb' = tlb /\ lo' = lo /\ pte' = pte /\ reqs' = reqs /\ walk' = walk
      /\ walk = "idle" /\ ~intr' /\ cur' = r /\ hi' = PairOf(r.val) /\ doubled' = doubled
  BY DEF Probe, intr_disable, host, miss
<1>3. IF tlbp(hi)' = {} THEN index' = None ELSE index' \in tlbp(hi)'
  BY <1>2 DEF Probe, tlbp
<1>4. Exclusive'
  BY <1>1, <1>2, <1>3 DEF Exclusive
<1>5. Types' /\ OneEntry' /\ WalkFresh'
  BY <1>2 DEF Types, OneEntry, WalkFresh
<1>6. NoStale'
  BY <1>2 DEF NoStale, Pending
<1> QED BY <1>4, <1>5, <1>6

(* The second half clears the entry; the host has its answer.              *)
LEMMA WriteIndexedStep ==
  ASSUME IInv, WriteIndexed
  PROVE  IInv'
<1> USE DEF IInv
<1> DEFINE empty == [vpn2 |-> hi, lo |-> [h \in {0, 1} |-> None]]
<1>1. /\ cur \in reqs /\ Asks(cur) /\ cur.val \in Pages /\ hi = PairOf(cur.val)
      /\ hi \in Pairs /\ walk = "idle"
      /\ IF tlbp(hi) = {} THEN index = None ELSE index \in tlbp(hi)
  BY HalfOfPage DEF WriteIndexed, Exclusive, Types
<1>2. /\ pte' = pte /\ reqs' = reqs \ {cur} /\ walk' = walk /\ cur' = None
      /\ doubled' = doubled
      /\ lo' \in [{0, 1} -> Frames \cup {None}]
  BY DEF WriteIndexed, host, miss, Types
<1>3. empty \in Entries
  BY <1>1 DEF Entries
<1>4. CASE index = None
  <2>1. tlb' = tlb
    BY <1>4 DEF WriteIndexed
  <2>2. tlbp(hi) = {}
    BY <1>1, <1>4, NoneAssumption DEF tlbp
  <2>3. NoStale'
    <3> SUFFICES ASSUME NEW i \in Slots, NEW p \in Pages, tlb[i].vpn2 = PairOf(p),
                        PairOf(p) \notin doubled
                 PROVE  Fresh(p, tlb[i].lo[p[2]])'
      BY <2>1, <1>2 DEF NoStale, Fresh
    <3>1. p # cur.val
      BY <2>2, <1>1 DEF tlbp
    <3>2. p \notin Pending' => p \notin Pending
      BY <3>1, <1>2 DEF Pending
    <3> QED BY <3>2, <2>1, <1>2 DEF NoStale, Fresh
  <2>4. Types' /\ OneEntry' /\ Exclusive' /\ WalkFresh'
    BY <2>1, <1>1, <1>2 DEF Types, OneEntry, Exclusive, WalkFresh
  <2> QED BY <2>3, <2>4
<1>5. CASE index # None
  <2>1. index \in Slots /\ tlb[index].vpn2 = hi
    BY <1>1, <1>5 DEF tlbp
  <2>2. tlb' = [tlb EXCEPT ![index] = empty]
    BY <1>5 DEF WriteIndexed
  <2> HIDE DEF empty
  <2>3. \A i \in Slots : tlb'[i] = IF i = index THEN empty ELSE tlb[i]
    BY <2>1, <2>2 DEF Types
  <2>4. empty.vpn2 = hi /\ \A h \in {0, 1} : empty.lo[h] = None
    BY DEF empty
  <2>5. \A i \in Slots : tlb'[i].vpn2 = tlb[i].vpn2
    BY <2>1, <2>3, <2>4
  <2>6. NoStale'
    <3> SUFFICES ASSUME NEW i \in Slots, NEW p \in Pages, tlb[i].vpn2 = PairOf(p),
                        PairOf(p) \notin doubled
                 PROVE  Fresh(p, tlb[i].lo[p[2]])'
      BY <2>5, <1>2 DEF NoStale, Fresh
    <3>1. CASE i = index
      BY <3>1, <2>3, <2>4, HalfOfPage DEF Fresh
    <3>2. CASE i # index
      <4>1. p # cur.val
        BY <3>2, <2>1, <1>1, HalfOfPage, NoneAssumption DEF OneEntry
      <4>2. p \notin Pending' => p \notin Pending
        BY <4>1, <1>2 DEF Pending
      <4> QED BY <4>2, <3>2, <2>3, <1>2 DEF NoStale, Fresh
    <3> QED BY <3>1, <3>2
  <2>7. OneEntry'
    BY <2>5, <1>2 DEF OneEntry
  <2>8. Types'
    BY <1>1, <1>2, <1>3, <2>2 DEF Types
  <2>9. Exclusive' /\ WalkFresh'
    BY <1>1, <1>2 DEF Exclusive, WalkFresh
  <2> QED BY <2>6, <2>7, <2>8, <2>9
<1> QED BY <1>4, <1>5

(* Other requests take nothing out of Pending.                             *)
LEMMA AnswerStep ==
  ASSUME IInv, NEW r \in reqs, Answer(r)
  PROVE  IInv'
<1> USE DEF IInv
<1>1. ~Asks(r)
  BY Dispatch DEF Answer, Types
<1>2. /\ tlb' = tlb /\ lo' = lo /\ hi' = hi /\ walk' = walk /\ pte' = pte
      /\ cur' = cur /\ cur = None /\ reqs' = reqs \ {r} /\ doubled' = doubled
  BY DEF Answer, host, miss
<1>3. Pending \subseteq Pending'
  BY <1>1, <1>2 DEF Pending, Asks
<1>4. NoStale' /\ WalkFresh'
  BY <1>2, <1>3, TlbStaysFresh
<1>5. Types' /\ OneEntry' /\ Exclusive'
  BY <1>2 DEF Types, OneEntry, Exclusive
<1> QED BY <1>4, <1>5

(* A miss starts when nothing is on its way, and not within                *)
(* tlb_invalidate_address.                                                 *)
LEMMA MissStep ==
  ASSUME IInv, NEW p \in Pages, Miss(p)
  PROVE  IInv'
<1> USE DEF IInv
<1>1. /\ tlb' = tlb /\ lo' = lo /\ pte' = pte /\ reqs' = reqs /\ cur' = cur
      /\ hi' \in Pairs /\ walk' \in {"idle", "lo0"} /\ cur = None /\ doubled' = doubled
  BY HalfOfPage DEF Miss, nosegtab, Exclusive, host
<1>2. NoStale' /\ WalkFresh'
  BY <1>1 DEF NoStale, Pending, WalkFresh
<1>3. Types' /\ OneEntry' /\ Exclusive'
  BY <1>1 DEF Types, OneEntry, Exclusive
<1> QED BY <1>2, <1>3

(* Each load is of the page table as it is then.                           *)
LEMMA LoadStep ==
  ASSUME IInv, LoadLo0 \/ LoadLo1
  PROVE  IInv'
<1> USE DEF IInv
<1>1. /\ tlb' = tlb /\ pte' = pte /\ reqs' = reqs /\ cur' = cur /\ hi' = hi
      /\ walk \in {"lo0", "lo1"} /\ walk' \in {"lo1", "tlbwr"} /\ doubled' = doubled
  BY DEF LoadLo0, LoadLo1, host
<1>2. /\ cur = None
      /\ hi \in Pairs /\ <<hi, 0>> \in Pages /\ <<hi, 1>> \in Pages
  BY <1>1, HalfOfPage DEF Exclusive, Types
<1>3. WalkFresh'
  <2>1. CASE LoadLo0
    <3>1. lo'[0] = pte'[<<hi', 0>>] /\ walk' = "lo1"
      BY <2>1, <1>1 DEF LoadLo0, Types
    <3> QED BY <3>1 DEF WalkFresh, Fresh
  <2>2. CASE LoadLo1
    <3>1. /\ lo'[1] = pte'[<<hi', 1>>] /\ lo'[0] = lo[0]
          /\ walk = "lo1" /\ walk' = "tlbwr"
      BY <2>2, <1>1 DEF LoadLo1, Types
    <3>2. Pending' = Pending
      BY <1>1 DEF Pending
    <3> QED BY <3>1, <3>2, <1>1 DEF WalkFresh, Fresh
  <2> QED BY <2>1, <2>2
<1>4. Types'
  <2>1. lo' \in [{0, 1} -> Frames \cup {None}]
    BY <1>2 DEF LoadLo0, LoadLo1, Types
  <2> QED BY <2>1, <1>1, <1>2 DEF Types
<1>5. NoStale' /\ OneEntry' /\ Exclusive'
  BY <1>1, <1>2 DEF NoStale, Pending, OneEntry, Exclusive
<1> QED BY <1>3, <1>4, <1>5

(* The entry gets what has been loaded.  A pair that then has two entries  *)
(* is doubled, and one that was stays so while an entry of it is there.    *)
LEMMA WriteRandomStep ==
  ASSUME IInv, NEW i \in Slots, WriteRandom(i)
  PROVE  IInv'
<1> USE DEF IInv
<1>1. /\ pte' = pte /\ reqs' = reqs /\ cur' = cur /\ hi' = hi /\ lo' = lo
      /\ walk = "tlbwr" /\ walk' = "idle"
  BY DEF WriteRandom, host
<1>2. cur = None /\ hi \in Pairs /\ hi # None
  BY <1>1, NoneAssumption DEF Exclusive, Types
<1>3. PICK e : e = [vpn2 |-> hi, lo |-> lo] /\ tlb' = [tlb EXCEPT ![i] = e]
  BY DEF WriteRandom
<1>4. e \in Entries /\ e.vpn2 = hi /\ e.lo = lo
  BY <1>2, <1>3 DEF Entries, Types
<1>5. \A j \in Slots : tlb'[j] = IF j = i THEN e ELSE tlb[j]
  BY <1>3 DEF Types
<1>6. \A q \in Pairs : q \notin doubled' =>
        /\ ~Twice(tlb', q)
        /\ q \in doubled => \A j \in Slots : tlb'[j].vpn2 # q
  BY DEF WriteRandom
<1>7. NoStale'
  <2> SUFFICES ASSUME NEW j \in Slots, NEW p \in Pages, tlb'[j].vpn2 = PairOf(p),
                      PairOf(p) \notin doubled'
               PROVE  Fresh(p, tlb[j].lo[p[2]])'
    BY DEF NoStale, Fresh
  <2>0. PairOf(p) \notin doubled
    BY <1>6, HalfOfPage
  <2>1. Pending' = Pending
    BY <1>1 DEF Pending
  <2>2. CASE j = i
    <3>1. tlb'[j].lo = lo /\ hi = PairOf(p) /\ p = <<hi, p[2]>> /\ p[2] \in {0, 1}
      BY <2>2, <1>4, <1>5, HalfOfPage
    <3>2. Fresh(p, lo[p[2]])
      <4>1. CASE p[2] = 0
        BY <4>1, <3>1, <1>1 DEF WalkFresh
      <4>2. CASE p[2] = 1
        BY <4>2, <3>1, <1>1 DEF WalkFresh
      <4> QED BY <4>1, <4>2, <3>1
    <3> QED BY <3>1, <3>2, <2>1, <1>1 DEF Fresh
  <2>3. CASE j # i
    BY <2>3, <2>0, <2>1, <1>1, <1>5 DEF NoStale, Fresh
  <2> QED BY <2>2, <2>3
<1>8. OneEntry'
  <2> SUFFICES ASSUME NEW j \in Slots, NEW k \in Slots,
                      tlb'[j].vpn2 = tlb'[k].vpn2, tlb'[j].vpn2 # None,
                      tlb'[j].vpn2 \notin doubled'
               PROVE  j = k
    BY DEF OneEntry
  <2>1. tlb'[j].vpn2 \in Pairs
    BY <1>4, <1>5 DEF Types, Entries
  <2> QED BY <2>1, <1>6 DEF Twice
<1>9. Types' /\ Exclusive' /\ WalkFresh'
  BY <1>1, <1>2, <1>3, <1>4 DEF Types, Exclusive, WalkFresh
<1> QED BY <1>7, <1>8, <1>9

LEMMA NextIInv == IInv /\ [IommuNext]_iommuVars => IInv'
<1> SUFFICES ASSUME IInv, [IommuNext]_iommuVars
             PROVE  IInv'
  OBVIOUS
<1>1. CASE UNCHANGED iommuVars
  BY <1>1 DEF iommuVars, host, miss, IInv, Types, OneEntry, Exclusive, WalkFresh, NoStale,
              Fresh, Pending, tlbp
<1> QED BY <1>1, HostStep, ProbeStep, AnswerStep, MissStep, WriteRandomStep,
           WriteIndexedStep, LoadStep DEF IommuNext

(* When emul_iommu has answered an invalidation, and until the plain tlbwr *)
(* of MipsTLBMissException gives the pair a second entry, no entry of the  *)
(* TLB maps the page to what it was: not by a miss that had loaded it      *)
(* before, not by the neighbour it shares an entry with, and whatever the  *)
(* interrupt handlers use.                                                 *)
THEOREM NoStaleTranslation == IommuSpec => []NoStale
<1>1. IInv => NoStale
  BY DEF IInv
<1> QED BY <1>1, InitIInv, NextIInv, PTL DEF IommuSpec
=============================================================================

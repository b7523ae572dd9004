-------------------------------- MODULE Iommu --------------------------------
(***************************************************************************)
(* The requests of the host as dm_request hands them out                   *)
(* (src/device-model.c), and the one of emul_iommu (src/emul_iommu.c) that *)
(* removes a page from the TLB of the device model (src/tlb.c).            *)
(*                                                                         *)
(* The device model reaches the memory of the host through page tables of  *)
(* the host.  MipsTLBMiss (src/tlbmiss.S) loads both pages of a pair, one  *)
(* after the other, while the host goes on changing its tables.  To take a *)
(* page back, the host changes the table and then asks the device model to *)
(* invalidate the page: when that is answered, the page is its own again.  *)
(*                                                                         *)
(* A miss is an exception: no request and no interrupt until it returns.   *)
(* It can come from the main loop between requests, and from an interrupt  *)
(* handler, which tlb_invalidate_address keeps away.  The CPU is external: *)
(* tlbwr picks any entry, and where a pair has two entries, which no CPU   *)
(* defines, tlbp and the uses of a page find either of them.               *)
(***************************************************************************)
EXTENDS Naturals, FiniteSets

CONSTANTS
  Pairs,    (* the pairs of pages that share an entry of the TLB           *)
  Frames,   (* the frames the host maps                                    *)
  Slots,    (* the entries of the TLB                                      *)
  None,     (* no frame, no pair, no slot, no request                      *)
  MaxReqs   (* bound on the requests that are not answered                 *)

ASSUME NoneAssumption == None \notin Pairs \cup Frames \cup Slots

Pages == Pairs \X {0, 1}
PairOf(p) == p[1]
Entries == [vpn2 : Pairs \cup {None}, lo : [{0, 1} -> Frames \cup {None}]]

VARIABLES
  pte,      (* the page tables of the host                                 *)
  tables,   (* the pairs for which it has allocated them                   *)
  segmap,   (* kernel_segmap has been set                                  *)
  reqs,     (* requests of the host that are not answered                  *)
  cur,      (* the one that tlb_invalidate_address works on                *)
  tlb,      (* the TLB                                                     *)
  hi,       (* CP0 EntryHi: the pair                                       *)
  lo,       (* CP0 EntryLo0 and EntryLo1                                   *)
  index,    (* the result of the last tlbp                                 *)
  intr,     (* interrupts are enabled                                      *)
  walk,     (* where the miss handler is                                   *)
  stuck,    (* it has ended in tlb_nosegtab0 or 1                          *)
  doubled   (* history: the pairs that have an entry, and have had two at  *)
            (* once since they had none                                    *)

host == <<pte, tables>>
miss == <<walk, stuck>>
iommuVars == <<host, segmap, reqs, cur, tlb, hi, lo, index, intr, miss, doubled>>
-----------------------------------------------------------------------------
(* fwd_map and emul_map, addresses relative to EPW_WINDOW                  *)
fwd_map ==
  {[base |-> b, size |-> 32, request |-> "fwd_request"] : b \in {0, 32, 64, 96}}
emul_map ==
  {[base |-> b, size |-> 32, request |-> "emul_msgdma"] : b \in {16384, 16416, 16512, 16544}}
    \cup {[base |-> 65536, size |-> 327680, request |-> "emul_pci"]}
    \cup {[base |-> b, size |-> 256, request |-> "emul_iommu"] : b \in {393216, 393472}}

Holds(link, addr) == link.base <= addr /\ addr < link.base + link.size

(* dm_request: forwarding comes first.  The windows of a map are disjoint. *)
dm_request(addr) ==
  IF \E l \in fwd_map : Holds(l, addr) THEN CHOOSE l \in fwd_map : Holds(l, addr)
  ELSE IF \E l \in emul_map : Holds(l, addr) THEN CHOOSE l \in emul_map : Holds(l, addr)
  ELSE [base |-> 0, size |-> 0, request |-> "unknown"]

(* What the handler of a request does to the state of this module:         *)
(* emul_iommu by the offset into its window, the others nothing            *)
OpOf(r) ==
  LET link == dm_request(r.addr)
  IN  IF link.request # "emul_iommu" THEN "other"
      ELSE IF r.addr - link.base = 0 /\ r.write THEN "invalidate"
      ELSE IF r.addr - link.base = 8 THEN "segmap" ELSE "other"

(* The registers of both IOMMUs, as the host has them                      *)
Invalidate == {393216, 393472}
Segmap == {393224, 393480}

(* The pages the host has asked to invalidate and has no answer for        *)
Pending == {r.val : r \in {q \in reqs : q.addr \in Invalidate /\ q.write}}
-----------------------------------------------------------------------------
IommuInit ==
  /\ pte = [p \in Pages |-> None] /\ tables = {}
  /\ segmap = FALSE /\ reqs = {} /\ cur = None
  /\ tlb = [i \in Slots |-> [vpn2 |-> None, lo |-> [h \in {0, 1} |-> None]]]
  /\ hi = None /\ lo = [h \in {0, 1} |-> None] /\ index = None
  /\ intr = TRUE /\ walk = "idle" /\ stuck = FALSE /\ doubled = {}

(* The host maps a page.                                                   *)
Map(p, f) ==
  /\ pte[p] = None
  /\ pte' = [pte EXCEPT ![p] = f]
  /\ tables' = tables \cup {PairOf(p)}
  /\ UNCHANGED <<segmap, reqs, cur, tlb, hi, lo, index, intr, miss, doubled>>

(* The host takes a page back and asks one of the IOMMUs to invalidate it. *)
(* It has one request for a page at a time.                                *)
Unmap(p, a) ==
  /\ pte[p] # None /\ p \notin Pending /\ Cardinality(reqs) < MaxReqs
  /\ pte' = [pte EXCEPT ![p] = None]
  /\ reqs' = reqs \cup {[addr |-> a, write |-> TRUE, val |-> p]}
  /\ UNCHANGED <<tables, segmap, cur, tlb, hi, lo, index, intr, miss, doubled>>

(* A request that asks for no invalidation                                 *)
Request(a, w) ==
  /\ a \notin Invalidate \/ ~w
  /\ Cardinality(reqs) < MaxReqs
  /\ reqs' = reqs \cup {[addr |-> a, write |-> w, val |-> None]}
  /\ UNCHANGED <<host, segmap, cur, tlb, hi, lo, index, intr, miss, doubled>>

(* The entries of a pair                                                   *)
tlbp(pair) == {i \in Slots : tlb[i].vpn2 = pair}

(* Mutant of disable: interrupts stay enabled.                             *)
intr_enabled == intr' = TRUE

intr_disable == intr' = FALSE

(* tlb_invalidate_address up to tlbp                                       *)
Probe(r) ==
  /\ walk = "idle" /\ cur = None /\ ~stuck
  /\ r \in reqs /\ OpOf(r) = "invalidate"
  /\ cur' = r
  /\ intr_disable
  /\ hi' = PairOf(r.val)
  /\ \/ tlbp(hi') = {} /\ index' = None
     \/ index' \in tlbp(hi')
  /\ UNCHANGED <<host, segmap, reqs, tlb, lo, miss, doubled>>

(* Its end, with tlbwi of an entry that is not valid, and epw_reply        *)
WriteIndexed ==
  /\ walk = "idle" /\ cur # None
  /\ tlb' = IF index = None THEN tlb
            ELSE [tlb EXCEPT ![index] = [vpn2 |-> hi, lo |-> [h \in {0, 1} |-> None]]]
  /\ lo' = IF index = None THEN lo ELSE [h \in {0, 1} |-> None]
  /\ reqs' = reqs \ {cur}
  /\ cur' = None
  /\ intr' = TRUE
  /\ UNCHANGED <<host, segmap, hi, index, miss, doubled>>

(* Any other request.  Even a read sets the segment map.                   *)
Answer(r) ==
  /\ walk = "idle" /\ cur = None /\ ~stuck
  /\ r \in reqs /\ OpOf(r) # "invalidate"
  /\ segmap' = (segmap \/ OpOf(r) = "segmap")
  /\ reqs' = reqs \ {r}
  /\ UNCHANGED <<host, cur, tlb, hi, lo, index, intr, miss, doubled>>

(* The handler finds the segment and the directory of the pair.            *)
Walkable(pair) == segmap /\ pair \in tables

(* tlb_nosegtab0 and tlb_nosegtab1 loop for ever.                          *)
nosegtab == walk' = "idle" /\ stuck' = TRUE

(* The device model uses a page that the TLB has no valid entry of: the    *)
(* CPU sets EntryHi, and the handler looks for the page tables.  It is     *)
(* MipsTLBMiss for a pair without an entry and MipsTLBMissException, which *)
(* does the same, for an entry that is not valid.                          *)
Miss(p) ==
  /\ walk = "idle" /\ (cur = None \/ intr) /\ ~stuck
  /\ tlbp(PairOf(p)) = {} \/ \E i \in tlbp(PairOf(p)) : tlb[i].lo[p[2]] = None
  /\ hi' = PairOf(p)
  /\ IF Walkable(PairOf(p)) THEN walk' = "lo0" /\ stuck' = FALSE ELSE nosegtab
  /\ UNCHANGED <<host, segmap, reqs, cur, tlb, lo, index, intr, doubled>>

(* MipsTLBMiss loads the entries of both pages ...                         *)
LoadLo0 ==
  /\ walk = "lo0"
  /\ lo' = [lo EXCEPT ![0] = pte[<<hi, 0>>]]
  /\ walk' = "lo1"
  /\ UNCHANGED <<host, segmap, reqs, cur, tlb, hi, index, intr, stuck, doubled>>

LoadLo1 ==
  /\ walk = "lo1"
  /\ lo' = [lo EXCEPT ![1] = pte[<<hi, 1>>]]
  /\ walk' = "tlbwr"
  /\ UNCHANGED <<host, segmap, reqs, cur, tlb, hi, index, intr, stuck, doubled>>

(* Pair q has two entries of the TLB t.                                    *)
Twice(t, q) == \E i, j \in Slots : i # j /\ t[i].vpn2 = q /\ t[j].vpn2 = q

(* ... and writes them to an entry the CPU picks.  An entry of the pair    *)
(* that is not valid, as tlb_invalidate_address leaves it, may stay beside *)
(* the new one.                                                            *)
WriteRandom(i) ==
  /\ walk = "tlbwr"
  /\ tlb' = [tlb EXCEPT ![i] = [vpn2 |-> hi, lo |-> lo]]
  /\ doubled' = {q \in Pairs : \/ Twice(tlb', q)
                               \/ q \in doubled /\ \E j \in Slots : tlb'[j].vpn2 = q}
  /\ walk' = "idle"
  /\ UNCHANGED <<host, segmap, reqs, cur, hi, lo, index, intr, stuck>>

IommuNext ==
  \/ \E p \in Pages, f \in Frames : Map(p, f)
  \/ \E p \in Pages, a \in Invalidate : Unmap(p, a)
  \/ \E a \in Segmap \cup Invalidate, w \in BOOLEAN : Request(a, w)
  \/ \E r \in reqs : Probe(r) \/ Answer(r)
  \/ \E p \in Pages : Miss(p)
  \/ \E i \in Slots : WriteRandom(i)
  \/ WriteIndexed \/ LoadLo0 \/ LoadLo1

IommuSpec == IommuInit /\ [][IommuNext]_iommuVars
-----------------------------------------------------------------------------
(* What the host relies on when its request has been answered: the TLB     *)
(* maps a page to the frame of the page table, unless the host has asked   *)
(* for the page and waits.  It has to hold whatever the host changes       *)
(* between the loads of a miss, with the two pages of a pair in one entry  *)
(* and the request for one of them, and while interrupts use other pages   *)
(* (tlb_invalidate_address, MipsTLBMiss).  It is not said of a pair that   *)
(* the plain tlbwr of MipsTLBMissException has given a second entry:       *)
(* tlb_invalidate_address clears one of the two, until both are gone.      *)
NoStale ==
  \A i \in Slots, p \in Pages :
    tlb[i].vpn2 = PairOf(p) /\ tlb[i].lo[p[2]] # None
      /\ p \notin Pending /\ PairOf(p) \notin doubled
        => tlb[i].lo[p[2]] = pte[p]
=============================================================================

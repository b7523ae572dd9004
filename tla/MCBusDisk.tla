------------------------------ MODULE MCBusDisk -----------------------------
(* The queues of block_if, what AHCI puts in the requests of a command, the *)
(* address decoding and interrupts of the PCI bus, and the TLB with the    *)
(* IOMMUs.  They share no state: a behaviour is one of BlockIf, AhciPrdt,  *)
(* PciEmul or Iommu.                                                       *)
(*                                                                         *)
(* The tables have up to five entries, of less than a sector, of one, and  *)
(* of more, for iovecs of three: one request, two, a request that is cut   *)
(* in its last entry or before, and tables that are longer and shorter     *)
(* than the command.                                                       *)
(*                                                                         *)
(* The two devices of bhyve_pci_init, in units of 64 KB from 0xfdb00000:   *)
(* configuration space at 1, the registers and the flash of the E1000 at 2 *)
(* and 4, those of the AHCI controller at 5.  Ecfg is moved to 6.  The     *)
(* last two units stand for the end of the address space, where a BAR is   *)
(* when the host writes ones to find its size.  The BAR of AHCI is smaller *)
(* than a unit: it covers or misses the others as a whole one would.       *)
(*                                                                         *)
(* The view takes the TLB as a bag of entries, since the order of entries  *)
(* makes no difference, and leaves the registers of the miss handler out   *)
(* while nothing is going to read them before it is written.               *)
EXTENDS MCBlockIf, AhciPrdt, PciEmul, Iommu

VARIABLE part

MCPrdts   == UNION {[1 .. n -> {1, 2, 4, 6}] : n \in 0 .. 5}
MCExtents == UNION {[1 .. n -> {0, 3}] : n \in 1 .. 4}

MCDevs   == {"e1000", "ahci"}
MCBarsOf == [d \in MCDevs |-> IF d = "e1000" THEN <<"reg", "flash">> ELSE <<"abar">>]
MCAllBars == <<"reg", "flash", "abar">>
MCSize   == [b \in {"reg", "flash", "abar"} |-> IF b = "reg" THEN 2 ELSE 1]
MCBases  == [b \in {"reg", "flash", "abar"} |->
               CASE b = "reg"   -> {0, 2, 4, 6, 8}
                 [] b = "flash" -> {1, 3, 4, 5, 9}
                 [] b = "abar"  -> {3, 4, 5, 6, 9}]
MCMsiDevs == {"ahci"}
MCWindow  == 1 .. 5
MCEcfg    == [name |-> "PCI ECFG", bar |-> "none", base |-> 6, end |-> 7]

DataNext == (op = "none" /\ prdt = <<>> /\ PrdtCommand) \/ PrdtCallback

(* Bound: what waits together is invalidations by the first IOMMU; any     *)
(* other request is alone.                                                 *)
FirstOrAlone == \A r \in reqs : reqs = {r} \/ (r.addr = 393216 /\ r.write)

MCInit ==
  /\ Init /\ PrdtInit /\ PciInit /\ IommuInit
  /\ part \in {"queues", "data", "pci", "tlb"}

MCNext ==
  /\ \/ /\ part = "queues" /\ Next
        /\ UNCHANGED <<prdtVars, pciVars, iommuVars>>
     \/ /\ part = "data" /\ DataNext
        /\ UNCHANGED <<vars, pciVars, iommuVars>>
     \/ /\ part = "pci" /\ PciNext
        /\ UNCHANGED <<vars, prdtVars, iommuVars>>
     \/ /\ part = "tlb" /\ IommuNext /\ FirstOrAlone'
        /\ UNCHANGED <<vars, prdtVars, pciVars>>
  /\ UNCHANGED part

MCSpec == MCInit /\ [][MCNext]_<<vars, prdtVars, pciVars, iommuVars, part>>

MCView ==
  <<vars, prdtVars, pciVars, part,
    host, segmap, reqs, cur, intr, miss, doubled,
    [e \in Range(tlb) |-> Cardinality({i \in Slots : tlb[i] = e})],
    IF walk = "idle" /\ cur = None THEN <<>> ELSE <<hi, lo>>,
    IF index = None \/ cur = None THEN None ELSE tlb[index]>>

MCSymmetry == Symmetry \cup Permutations(Pairs)
=============================================================================

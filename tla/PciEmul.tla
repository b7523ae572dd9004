------------------------------- MODULE PciEmul -------------------------------
(***************************************************************************)
(* bhyve/pci_emul.c, with bhyve/mem.c below it and emul_pci                *)
(* (src/emul_pci.c) above it: the BARs, the command register, the MSI      *)
(* capability and the legacy interrupt of the PCI devices.                 *)
(*                                                                         *)
(* A request of the host is one step: dm_loop handles it in a critical     *)
(* section.  emul_pci first looks for a BAR at the address; only if there  *)
(* is none it is an access to configuration space.  Both lie in the same   *)
(* window, so a BAR can hide configuration space.                          *)
(*                                                                         *)
(* Addresses are counted in units of the smallest BAR.  The masks of       *)
(* pci_cfgrw align a base to the size of its BAR.                          *)
(***************************************************************************)
EXTENDS MemMap, Sequences, SequencesExt

CONSTANTS
  Devs,     (* the devices                                                 *)
  BarsOf,   (* the memory BARs of each, in order                           *)
  AllBars,  (* those of all devices, in the order of their allocation      *)
  Size,     (* pi_bar[].size                                               *)
  Bases,    (* the addresses the host writes to each                       *)
  MsiDevs,  (* devices with an MSI capability                              *)
  MemBase,  (* pci_emul_membase32 at the start                             *)
  Config,   (* where the configuration space of the devices is             *)
  Window,   (* addresses that dm_request takes to emul_pci                 *)
  Ecfg      (* the range "PCI ECFG", outside of the window                 *)

Bars == ToSet(AllBars)

ASSUME DevsAssumption ==
  /\ AllBars \in Seq(Bars) /\ BarsOf \in [Devs -> Seq(Bars)] /\ MsiDevs \subseteq Devs
  /\ IsInjective(AllBars) /\ \A d \in Devs : IsInjective(BarsOf[d])
  /\ \A b \in Bars : \E d \in Devs : b \in ToSet(BarsOf[d])
  /\ \A d, e \in Devs : d # e => ToSet(BarsOf[d]) \cap ToSet(BarsOf[e]) = {}
ASSUME SizeAssumption ==
  /\ Size \in [Bars -> Nat \ {0}]
  /\ \A b \in Bars : Bases[b] \subseteq Nat /\ \A a \in Bases[b] : a % Size[b] = 0
ASSUME WindowAssumption ==
  /\ Window \subseteq Nat /\ Config \in Window /\ MemBase \in Nat
  /\ Ecfg \in [name : {"PCI ECFG"}, bar : {"none"}, base : Nat, end : Nat]
  /\ Ecfg.name \notin Devs /\ Ecfg.bar \notin Bars

(* pci_emul_alloc_resource: where a BAR goes, and pci_emul_membase32 after *)
(* the first k of them.  The limit, PCI_EMUL_MEMLIMIT32, is where Ecfg is. *)
Roundup2(x, size) == ((x + size - 1) \div size) * size
Allocated[k \in 0 .. Len(AllBars)] ==
  IF k = 0 THEN MemBase
  ELSE Roundup2(Allocated[k - 1], Size[AllBars[k]]) + Size[AllBars[k]]

ASSUME LimitAssumption == Allocated[Len(AllBars)] <= Ecfg.base

VARIABLES
  mem,        (* the memory map: see MemMap                                *)
  addr,       (* pi_bar[].addr                                             *)
  memen,      (* PCIM_CMD_MEMEN of each device                             *)
  intxdis,    (* PCIM_CMD_INTxDIS                                          *)
  msi,        (* pi_msi.enabled                                            *)
  lintr,      (* pi_lintr.state                                            *)
  irq,        (* the interrupt of each device in the BERI PIC              *)
  wanted,     (* history: the device has asserted its interrupt            *)
  overlapped  (* history: ranges that are decoded have overlapped          *)

bars == <<mem, addr, memen, overlapped>>
ints == <<intxdis, msi, lintr, irq, wanted>>
pciVars == <<bars, ints>>

DevOf(b) == CHOOSE d \in Devs : b \in ToSet(BarsOf[d])

RangeOf(b, a) == [name |-> DevOf(b), bar |-> b, base |-> a, end |-> a + Size[b] - 1]

(* init_pci: each device allocates and registers its BARs.                 *)
PciInit ==
  /\ addr = [b \in Bars |-> LET k == CHOOSE k \in DOMAIN AllBars : AllBars[k] = b
                            IN  Roundup2(Allocated[k - 1], Size[b])]
  /\ mem = [tree |-> {RangeOf(b, addr[b]) : b \in Bars} \cup {Ecfg},
            hint |-> NoRange,
            ok   |-> TRUE]
  /\ memen = [d \in Devs |-> TRUE]
  /\ intxdis = [d \in Devs |-> FALSE]
  /\ msi = [d \in Devs |-> FALSE]
  /\ lintr = [d \in Devs |-> "IDLE"]
  /\ irq = [d \in Devs |-> FALSE]
  /\ wanted = [d \in Devs |-> FALSE]
  /\ overlapped = FALSE

(* The address ranges the registers of the devices stand for               *)
Decoded(at, en) == {RangeOf(b, at[b]) : b \in {c \in Bars : en[DevOf(c)]}} \cup {Ecfg}

Overlaps(at, en) ==
  \E r, s \in Decoded(at, en) : r # s /\ Overlap(r, s)

(* A request to configuration space, and no BAR hides it                   *)
ConfigAccess == mem.ok /\ Reached(mem, Config) = NoRange

(* A request to another address.  With no range there it reads as ones.    *)
Access(a) ==
  /\ mem.ok
  /\ mem' = access_memory(mem, a)
  /\ UNCHANGED <<addr, memen, overlapped, ints>>

(* Mutant of update_bar_address: the old range is not unregistered.        *)
update_bar_address_both(b, a) ==
  IF a = addr[b] \/ ~memen[DevOf(b)] THEN mem ELSE register_mem(mem, RangeOf(b, a))

(* The memory map when BAR b, at addr[b], is moved to a                    *)
update_bar_address(b, a) ==
  IF a = addr[b] \/ ~memen[DevOf(b)] THEN mem
  ELSE register_mem(unregister_mem(mem, RangeOf(b, addr[b])), RangeOf(b, a))

(* pci_cfgrw, a write to a BAR                                             *)
WriteBar(b, a) ==
  /\ ConfigAccess
  /\ mem' = update_bar_address(b, a)
  /\ addr' = [addr EXCEPT ![b] = a]
  /\ overlapped' = (overlapped \/ Overlaps(addr', memen))
  /\ UNCHANGED <<memen, ints>>

Permitted(d, dis, m) == ~dis[d] /\ ~m[d]

(* Mutant of lintr_update: an interrupt that was masked stays pending.     *)
lintr_update_mask(d, permitted) ==
  lintr' = [lintr EXCEPT ![d] = IF @ = "ASSERTED" /\ ~permitted THEN "PENDING" ELSE @]

(* pci_lintr_update: the interrupt has been masked or unmasked.            *)
lintr_update(d, permitted) ==
  lintr' = [lintr EXCEPT ![d] =
              IF @ = "IDLE" THEN @ ELSE IF permitted THEN "ASSERTED" ELSE "PENDING"]

(* pci_irq_assert, pci_irq_deassert when the state of the line changes     *)
set_irq(d) == irq' = [irq EXCEPT ![d] = lintr'[d] = "ASSERTED"]

(* register_bar, unregister_bar                                            *)
Switched(m, b, on) ==
  IF on THEN register_mem(m, RangeOf(b, addr[b])) ELSE unregister_mem(m, RangeOf(b, addr[b]))

(* Registers or unregisters the BARs of d, one after the other             *)
SetDecoding(d, on) ==
  LET maps[k \in 0 .. Len(BarsOf[d])] ==
        IF k = 0 THEN mem ELSE Switched(maps[k - 1], BarsOf[d][k], on)
  IN  maps[Len(BarsOf[d])]

(* pci_emul_cmdsts_write                                                   *)
WriteCommand(d, on, dis) ==
  /\ ConfigAccess
  /\ mem' = IF on = memen[d] THEN mem ELSE SetDecoding(d, on)
  /\ memen' = [memen EXCEPT ![d] = on]
  /\ overlapped' = (overlapped \/ Overlaps(addr, memen'))
  /\ intxdis' = [intxdis EXCEPT ![d] = dis]
  /\ lintr_update(d, Permitted(d, intxdis', msi))
  /\ set_irq(d)
  /\ UNCHANGED <<addr, msi, wanted>>

(* msicap_cfgwrite of the message control register                         *)
WriteMsi(d, on) ==
  /\ ConfigAccess
  /\ msi' = [msi EXCEPT ![d] = on]
  /\ lintr_update(d, Permitted(d, intxdis, msi'))
  /\ set_irq(d)
  /\ UNCHANGED <<bars, intxdis, wanted>>

(* pci_lintr_assert, in a request, a poll or a timer of the device         *)
LintrAssert(d) ==
  /\ mem.ok
  /\ wanted' = [wanted EXCEPT ![d] = TRUE]
  /\ lintr' = [lintr EXCEPT ![d] =
                 IF @ # "IDLE" THEN @
                 ELSE IF Permitted(d, intxdis, msi) THEN "ASSERTED" ELSE "PENDING"]
  /\ set_irq(d)
  /\ UNCHANGED <<bars, intxdis, msi>>

(* pci_lintr_deassert                                                      *)
LintrDeassert(d) ==
  /\ mem.ok
  /\ wanted' = [wanted EXCEPT ![d] = FALSE]
  /\ lintr' = [lintr EXCEPT ![d] = "IDLE"]
  /\ set_irq(d)
  /\ UNCHANGED <<bars, intxdis, msi>>

PciNext ==
  \/ \E a \in Window : Access(a)
  \/ \E b \in Bars : \E a \in Bases[b] : WriteBar(b, a)
  \/ \E d \in Devs, on, dis \in BOOLEAN : WriteCommand(d, on, dis)
  \/ \E d \in MsiDevs, on \in BOOLEAN : WriteMsi(d, on)
  \/ \E d \in Devs : LintrAssert(d) \/ LintrDeassert(d)

PciSpec == PciInit /\ [][PciNext]_pciVars
-----------------------------------------------------------------------------
(* Types of the state: a range is that of a BAR, or "PCI ECFG", and a BAR  *)
(* is aligned by its size (pci_emul_alloc_pbar).                           *)
Ranges == [name : Devs \cup {NoRange.name, Ecfg.name}, bar : Bars \cup {"none"}, base : Nat, end : Nat]

PciTypeOK ==
  /\ mem \in [tree : SUBSET Ranges, hint : Ranges, ok : BOOLEAN]
  /\ \A r \in mem.tree : r = Ecfg \/ \E b \in Bars : r = RangeOf(b, r.base)
  /\ addr \in [Bars -> Nat] /\ \A b \in Bars : addr[b] % Size[b] = 0
  /\ \A f \in {memen, intxdis, msi, irq, wanted} : f \in [Devs -> BOOLEAN]
  /\ lintr \in [Devs -> {"IDLE", "ASSERTED", "PENDING"}]
  /\ overlapped \in BOOLEAN

(* The assertion of pci_emul_mem_handler: an address only reaches a BAR    *)
(* that holds it at that time, by the tree or by the cache, whatever the   *)
(* host has moved, disabled or laid over one another before.               *)
HandlerMatches ==
  mem.ok => \A r \in mem.tree \cup {mem.hint} :
              r.bar \in Bars => memen[DevOf(r.bar)] /\ r.base = addr[r.bar]

(* The cache never outlives the range it stands for.                       *)
HintInTree == mem.hint \in mem.tree \cup {NoRange}

(* As long as no two ranges that are decoded have overlapped, those are    *)
(* what is registered, and no assertion has failed.                        *)
TreeIsDecoded ==
  ~overlapped =>
    mem.ok /\ ~Overlaps(addr, memen) /\ mem.tree = Decoded(addr, memen)

(* Its parts: pci_emul_mem_handler is right about every range it is given, *)
(* and the memory map follows the registers as far as it can.              *)
PciInv == PciTypeOK /\ HandlerMatches /\ HintInTree /\ TreeIsDecoded

(* As long as no two ranges that are decoded have overlapped, the accesses *)
(* of the host reach exactly the BARs its configuration writes asked for,  *)
(* and no assertion of modify_bar_registration or unregister_mem fails.    *)
DecodesExactly ==
  ~overlapped =>
    /\ mem.ok
    /\ \A a \in Window : \A r \in Decoded(addr, memen) : Covers(r, a) <=> Reached(mem, a) = r

(* The line of a device is up exactly while the device asserts it and the  *)
(* host lets it (INTx not disabled, MSI not enabled): pci_lintr_assert,    *)
(* _deassert and _update, in any order of masking and asserting.           *)
LineMatches ==
  \A d \in Devs : irq[d] <=> wanted[d] /\ Permitted(d, intxdis, msi)
=============================================================================

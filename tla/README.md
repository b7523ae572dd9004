# Specifications of the device model

The device model (`src/README.md`) is bare-metal software that runs on a
core of its own beside a CHERI processor.  The other core, called *the host*
here, runs an operating system.  Its accesses to a window of physical addresses
arrive as requests, and the device model answers them as a PCI bus with an
E1000 network card and an AHCI disk would, or, in another build, as an mSGDMA
controller.  This directory holds TLA+ modules of that program, the
configurations that model-check them with TLC, and theorems about them that
TLAPS checks.  Paths below are relative to `src/`.

## 1. The system

### Scheduling

This decides what can interleave with what, and all the modules rest on it.

* `dm_loop` (`src/device-model.c`) runs for ever: if there is a request it
  handles it in a critical section and replies; then it polls.  In the PCI build
  it calls `e1000_poll` and `blockif_thr(NULL)`; in the other one
  `emul_msgdma_poll` for both units.  (`CONFIG_EMUL_PCI` chooses: both need
  the same FIFO.)
* `blockif_thr` is a thread in bhyve.  Here it is a function that drains
  the request queue with `bc_mtx` held, and returns when nothing can run.
* `bhyve/pthread.c` replaces pthreads: a mutex is a flag with an assertion that
  it is not set already, and `pthread_cond_wait` returns at once: it does not
  release the mutex.
* A callout (timer interrupt) ends the throttling interval of the E1000.
* A thread waits on a semaphore for the receive FIFO: `e1000_fifo_work` in the
  PCI build, `emul_msgdma_work` in the other.  The interrupt of the FIFO posts
  the semaphore.  Polls run between `intr_disable` and `intr_restore`.
* The host runs at the same time on its own core: it changes descriptor
  rings in its memory whenever it likes.  The hardware FIFO fills and empties.

### Components

| Component | Files | State | Operations | Hard behaviour | Correct when |
|---|---|---|---|---|---|
| Main loop and dispatch | `src/device-model.c`, `src/main.c` | the table of devices | `dm_loop`, `dm_request`, `dm_init` | order of polls and requests | every request is answered by the device that owns the address |
| Block device | `bhyve/block_if.c` | free, pending and busy queues, `bc_mtx` | `blockif_read/write/flush/delete`, `blockif_cancel`, `blockif_thr` | chaining of sequential requests, cancel of chained ones, callbacks under the mutex | each accepted request is answered once, in order; none is stranded |
| AHCI controller | `bhyve/pci_ahci.c` | HBA and port registers, `pending`, `ccs`, `iobhd`/`iofhd` | register writes, `ahci_handle_port`, `ata_ioreq_cb`, stop, reset | completion re-enters the command loop; NCQ and errors; interrupt status in three levels | records of commands in flight agree; no interrupt or command is lost; errors stop the port; a command moves exactly the bytes of its PRD table |
| E1000 interrupts | `bhyve/pci_e82545.c` | ICR, IMS, ITR, `esc_irq_asserted`, `esc_mevpitr` | `e82545_icr_assert`, `_ims_change`, `_icr_deassert`, `_itr_callback` | throttling against causes, masks, reset | an enabled cause reaches the host; at most one interrupt per interval |
| E1000 transmitter | `bhyve/pci_e82545.c` | TDH, TDHr, TDT, `esc_tx_active`, `esc_txctx` | `e82545_tx_poll`, `_tx_run`, `_transmit`, `_tx_disable` | packets split over writes and polls; the host adds descriptors meanwhile; headers, checksums and segments over vectors cut anywhere | every packet is sent once, in order, with the bytes the host means, and reported |
| E1000 receiver | `bhyve/pci_e82545.c` | RDH, RDT, FIFO | `e82545_tap_callback` from two threads | ring nearly full, multi-descriptor packets, frames that end with a buffer | packets arrive in order, only in descriptors of the device, with lengths that add up |
| E1000 EEPROM, MDI, filters, register file | `bhyve/pci_e82545.c` | serial state machine, address tables, `esc_rdba`, `esc_tdba` | `e82545_eecd_strobe`, `e82545_write_register`, `e82545_reset` | bit-serial protocol cut anywhere; copies of ring addresses | a read returns the addressed word; the ring in use is the one in the registers |
| mSGDMA controller | `src/emul_msgdma.c` | CSR and prefetcher registers, current descriptor, semaphore | `csr_w`, `pf_w`, `emul_msgdma_poll`, `emul_msgdma_work` | two threads on one ring; late interrupt | packets in order, sleeping host woken |
| IOMMU and TLB | `src/emul_iommu.c`, `src/tlb.c`, `src/tlbmiss.S` | segment map, TLB, CP0 registers | invalidate, set base, refill | the host changes its tables during a refill; interrupts between probe and write | no stale translation is used once an invalidation is answered |
| PCI configuration space | `bhyve/pci_emul.c` | BARs, command register, capabilities, interrupt lines | `pci_emul_cfgrw`, `update_bar_address`, `pci_lintr_*` | BARs that move and overlap | the address decoded is the one the BAR holds |
| Memory map | `bhyve/mem.c` | tree of ranges, one-entry cache | `register_mem`, `unregister_mem`, `emulate_mem` | stale cache, overlap | an access reaches the range registered for it |
| PCI bridge | `src/emul_pci.c`, `bhyve/bhyve_support.c` | BERI interrupt masks | ECAM and memory windows, `bhyve_irq` | | requests are decoded to the right function |
| Request forwarding | `src/fwd_device.c` | none | `emul_fwd_*` | widths | accesses keep address and width |
| pthread emulation | `bhyve/pthread.c` | lock words | lock, unlock, wait, signal | a nested lock is a failed assertion | no assertion fails |
| Start-up, tests, vendored headers | `src/start.S`, `src/test.c`, ... | | | | not modelled |
| MDX kernel, Altera FIFO driver | submodules that are not part of this repository | threads, semaphores, callouts, FIFO | | | external: modelled from the calls |

Interaction: `dm_request` calls `emul_pci`, which finds the BAR through the
memory map and calls the register handler of a device.  AHCI calls the block
device, which calls `ata_ioreq_cb` from `blockif_thr`.  The E1000 uses the FIFO,
the callout and `pci_lintr_assert`.  Interrupts to the host go through
`bhyve_irq` (PCI) or `send_soft_irq` (mSGDMA).

## 2. The modules

| Module | Models | State and actions |
|---|---|---|
| `BlockQueue` | `blockif_enqueue`, `_dequeue`, `_complete` as operators | no variables; shared with `AhciPort` |
| `BlockIf` | `block_if.c` | the free queue is a number (its elements are alike), the others are sequences.  `Submit`/`SubmitRefused` = `blockif_request`, `Cancel` = `blockif_cancel`, `Enter`, `Start`, `Finish`, `Leave` = `blockif_thr` with `blockif_proc` split before `blockif_complete` |
| `BlockService` | what the block device promises | the abstract specification of `BlockIf`: a FIFO of requests, answered once each in order unless withdrawn |
| `AhciPort` | registers of the port and functions that work on them alone | the record `port`, and one operator per function (`write_fis_d2h`, `port_intr`, `check_stopped`, `ahci_reset`, ...) |
| `Ahci` | `pci_ahci.c` over the service that `BlockIf` implements, and one iteration of `dm_loop` | `pc`: `idle`, a request (`mmio`), the drain (`thr`), a callback (`cb`).  A turn of the loop of `ahci_handle_port` is one of the `Start...` actions; `Callback` = `ata_ioreq_cb` |
| `E82545Intr` | interrupt logic of the E1000 | the record `intr`, one operator per function and one action per register access, plus `Timer` |
| `E82545Tx` | transmit side, with `E82545Intr` | `PollRun`, `Transmit` and `Finish` are the start, a turn of the loop and the end of `e82545_tx_run` |
| `E82545Rx` | receive side, with `E82545Intr` | `Poll`, `Receive`/`Filter`, `Finish`: the same for `e82545_tap_callback` |
| `E82545Regs` | the register file, with `E82545Intr` and `E82545Nvm` | plain registers, `ring` (RCTL/TCTL, BAL, BAH and the address in use), `uni` (the address filter), MDIC, and `e82545_reset`, which acts on all of them |
| `E82545Nvm` | the EEPROM: `e82545_init_eeprom`, `e82545_eecd_strobe`, writes and reads of EECD | the record `nvm`; operators, used by `E82545Regs` |
| `Eeprom` | what an EEPROM promises | the abstract specification of `E82545Nvm`: words, and a frame of bits.  `Inputs`, `Output` and `FrameOf` in `E82545Regs` are what the host sees of the shift registers |
| `Binary` | the bits of a number, powers of two, the sum of a memory | recursive functions that `E82545Nvm` and `Eeprom` share |
| `E82545Packet` | `e82545_transmit` from descriptors to bytes | the operator `transmit`: gather, copy of the header, VLAN tag, checksums, segmentation; `SetContext` and `SendPacket` apply it |
| `AhciPrdt` | `ahci_build_iov`, `ahci_handle_rw`, `ahci_handle_dsm_trim`, `read_prdt`, `write_prdt` and their part of `ata_ioreq_cb` | the bytes of one command.  `Walk` is the loop over the table, a recursive function over its entries: `HandleRw`, `NextRw`, `EndRw`, and the same for TRIM; `CopyBuffer`; `Fail` |
| `Iommu` | `dm_request` with its two tables, `emul_iommu`, `tlb_invalidate_address`, `MipsTLBMiss` | page tables of the host, the TLB, CP0 registers.  `Probe`, `WriteIndexed` = `tlb_invalidate_address` up to and from `tlbp`; `Miss`, `LoadLo0`, `LoadLo1`, `WriteRandom` = the handler |
| `Msgdma` | receive channel of the mSGDMA controller | two threads with a program counter each, the host, the FIFO |
| `MemMap` | `mem.c` as operators | the record of a memory map: the tree as a set of ranges, the cached range, and whether an assertion has failed |
| `PciEmul` | `pci_emul.c` and `emul_pci`, over `MemMap` | BARs (`WriteBar`, `Access`), the command register (`WriteCommand`), MSI enable (`WriteMsi`) and `pi_lintr` (`LintrAssert`, `LintrDeassert`) of each device |
| `BlockIfProofs`, `AhciProofs`, `E82545RegsProofs` (with those of `E82545Intr`), `E82545TxProofs`, `E82545RxProofs`, `MsgdmaProofs`, `PciEmulProofs`, `IommuProofs` | theorems | section 5 |
| `MCBlockIf`, `MCBusDisk`, `MCDisk`, `MCAhci`, `MCE82545Tx`, `MCE82545Rx`, `MCE82545Regs` | instances for TLC | |

`E82545Regs` and `E82545Nvm` extend `E82545Intr`: one `e82545_reset` acts on the
interrupt logic, the registers and the EEPROM at once.  Three MC modules have a
variable `part`, which is chosen at the start and stays: `MCBusDisk` (the queues of the disk, the data of an AHCI
command, PCI, or the IOMMU), `MCDisk` (the port of AHCI, or the queues under it) and `MCE82545Regs` (interrupts, EEPROM,
plain registers, rings, filters, or packets).  The parts share no state, but for
the reset, which each part of `MCE82545Regs` can take, so that
the behaviours of the parts side by side are all there is to see, and TLC
explores the sum of their states and not the product.

Definitions that are named "Mutant of ..." are variants with a plausible mistake.
Each is put in the place of its original to see that the properties notice.
`PROJECT.json` pairs them with properties, and maps every definition to lines.

What the modules abstract:

* *Block device.*  Extents are (offset, length) pairs.  The data, and the
  copy of it, are left out.  A caller may reuse the memory of a request that was
  answered; a flush keeps the offset that memory held.
* *AHCI.*  A command is the block operation it needs, NCQ or not, and the number
  of `block_if` requests it takes (one per 33 entries of the PRDT).  Tables are
  host memory and change only while their slot is idle.  Payloads of FISes, IDENTIFY and
  log data, ATAPI and the CCS field of PxCMD are left out.  The tables
  themselves are in `AhciPrdt`: an entry is its size, and a vector is a piece of an entry.  That
  module follows a command past its second request, which in `Ahci` fails an
  assertion (section 4), since the two questions are independent.  One port: `dm_init`
  gives only port 0 a store.  The message interrupt is left out, because
  `pci_generate_msi` delivers nothing on this platform.  A table without a host
  to device FIS ("NOTFIS") stays in PxCI: the loop of `ahci_handle_port` then
  does not end.  A reset of the HBA leaves `ci`, `pending`, `ccs` and
  `waitforclear` as the code does, and forgets the error that the host could see.  A host
  that then starts the port waits for ever, with nothing to tell it why, for `ahci_handle_port` to look at a
  command; only a write of PxCMD with ST clear ends this.  `CommandsEnd` does not excuse such a wait: it fails
  for this host.  `StartRule` excludes it from `Careful`, which is an assumption about the driver.
* *E1000.*  In the rings, packets are numbers (modulo 3: at most that many are told apart),
  with the number of descriptors they take and, on the receive side, their
  lengths.  What is in a packet that is sent is the matter of `E82545Packet`,
  where a byte has `Radix` values and a word `Radix^2`: the code keeps 16-bit words
  in the byte order of the network, and the machine is big-endian.  `MaxSegs` and `Slack`
  stand for `I82545_MAX_TXSEGS` and the bytes by which a header may be made
  longer to swallow its buffer.  A receive buffer has `Buf` bytes.
  The frames that arrive fit `MaxPktSz` with their CRC: the code counts on it and checks nothing.  The
  cause SRPD (`bhyve/pci_e82545.c:1043`), which is set for small packets, is left out.
  In `E82545Tx` and `E82545Rx` the host
  leaves IMS empty, since neither path reads the interrupt state;
  every order of causes, masks and timer is in `E82545Intr`.
* *PCI.*  A request is one step, because `dm_loop` handles it in a critical
  section.  `emul_pci` looks for a BAR first and takes only what no BAR answers for
  configuration space; both share a window, so a BAR can be laid over
  configuration space.  Addresses are counted in units of 64 KB, and the BAR
  of AHCI, which is smaller, is a unit.  I/O BARs (`register_inout` does
  nothing here), MSI-X, the other capabilities and widths are left out.  That a
  device raises or drops its interrupt at any time stands for the other modules.
* *IOMMU.*  The CPU is external.  A miss is an exception: nothing but the host runs
  beside the handler.  `tlbwr` writes any entry, also when the pair has one already (an entry that is not
  valid, as `tlb_invalidate_address` leaves it): the pair then has two.  The CPU does not define which of
  the two it uses, and `tlbp` finds either.  `doubled` records the pairs for which this has
  happened, until they have no entry left.  The host changes a page table
  before it asks for the invalidation of the page, and waits for the
  answer before it uses the page.
* *mSGDMA.*  `CONTROL_RESET` clears two registers and does not stop the polling,
  as in the code.  The interrupt `irq` of the host is a level that it
  clears.  The semaphore starts at 1.  `MaxSem` and `MaxFifo` are bounds.

## 3. What is checked

| Run | Instance | Shows |
|---|---|---|
| `bus_disk` | 3 requests, 4 elements, offsets 0..2, lengths 0..2; all PRD tables of up to 5 entries, iovecs of 3; the two devices of `bhyve_pci_init`, any host; 2 pairs of pages, 2 entries of the TLB, 2 requests | chains, overlaps, empty extents, equal ends, flushes with an old offset, cancels: the inductive invariant `IInv` of the proofs (with `NoLostWakeup`), `NeverRefused`, `DrainedAtLeave`; the vectors in the requests of a command: `PrdtExact`; the bus: `PciInv`, `DecodesExactly`, `LineMatches`; the TLB: `NoStale` |
| `disk` | 2 slots, a host that keeps to `HostRule` and `StartRule`; 3 requests, 2 elements (E2BIG is returned), read-only; fair | `NoAssertionFails`, `StopsOnError`, `WritesAnswered`, `CommandsEnd`; `EventuallyAnswered`; `BlockIf` implements `BlockService`, liveness included |
| `ahci_any_host` | 2 slots, any host | `AhciInv`, `InterruptLevel`, `CompletionInterrupts` |
| `e1000_intr` | 3 causes; EEPROM of 3 words of 2 bits; 5 plain registers; 31 cuts of four packets under 24 descriptors and 4 contexts; fair timer | `IntrInv`, `CausesReachHost`, `RateLimited`, `CausesDelivered`; `EepromSpec` (`E82545Nvm` implements `Eeprom`); `RingsCurrent`; `PacketCorrect` |
| `e1000_tx` | ring of 8, up to 3 descriptors, at most 2 per write, fair | `SentOnceInOrder`, `CompletionReported`, `TxInv`, `PacketsSent` |
| `e1000_rx` | ring of 8, buffers of 3 bytes, frames of 3 and of 5, fair | `RxInv`, `WritesOwnOnly`, `DeliveredInOrder`, `LengthsAddUp`, `FifoDrains` |
| `msgdma_rx` | ring of 3, FIFO of 2, fair | `MsgdmaInv`, `ReceivedInOrder`, `NotStranded`, `PacketsTaken` |
| `ahci_reentry`, `ahci_error`, `e1000_intr_reset`, `e1000_udp`, `e1000_rx_lengths` | see section 4 | violations |

The invariants whose names end in `Inv` put the types of a module together with
what ties its variables to one another: `AhciInv` the records of the commands in
flight (`InFlight`), BSY (`BusyWithCommand`) and what is left to do (`NothingLeft`); `TxInv` the
head of the ring, the packets in front of it and DD behind it; `RxInv` the descriptors
with DD and the heads (`RingAgrees`) and the packets in ring and FIFO (`RowNumbered`,
`FifoNumbered`); `PciInv` the ranges of the memory map and the BARs (`HandlerMatches`), the cached
range and the tree (`HintInTree`), and the tree and the registers (`TreeIsDecoded`);
`MsgdmaInv` the descriptors that the hardware owns (`OwnFromCur`) and the packets in the
others (`FilledInOrder`).  `IInv` of `BlockIf`, `IntrInv` and all of these are the
inductive invariants of section 5, or a consequence of them.

*Bounds.*  Three requests are the least with one between two others of a chain
and one to cancel; offsets 0..2 and lengths 0..2 make chains of two links, and
distinct requests that end at one offset.  Four elements are one more than the
requests, which is what `blockif_queuesz` promises; two make the queue run dry.
Two slots let one command fail while another is issued or in flight, and let
`ccs` wrap.  A ring of eight is the smallest that the E1000 accepts (TDLEN is a
multiple of 128 bytes); its limit per poll, a quarter of the ring, is then two
descriptors, so three in flight pass it.  `MaxOut` bounds what the host has in
flight.  On the receive side the limit of a poll is reached as well, with a packet of
two descriptors at its border.  A frame of three bytes ends with its buffer of three, where `len % bufsz` is 0, and one
of five takes two.  Three interrupt causes are enough for one
that is masked, one that is pending and one that arrives.  Three mSGDMA
descriptors are the least that distinguish empty, full and between, one being
kept out of the ring.  The addresses of the bus let each pair of BARs miss or
cover one another, at the base or behind it (BARs that are aligned by their
size overlap in no other way), and lie over configuration space, over the
range "PCI ECFG" (which is moved next to the window to be in reach), and at
the top of the address space, where a BAR is while the host sizes it.

Of the PRD tables all with up to five entries of 1, 2, 4 and 6 bytes are tried, for
sectors of 4 and iovecs of 3: there are commands of one request and of two, cuts that take
whole vectors away, tables longer and shorter than the command, and entries so small
that a full iovec holds less than a sector, where the assertion of `ahci_build_iov` fails.
A TRIM has up to four extents, empty ones anywhere.  The packets of `E82545Packet` have the headers of
Ethernet, IP and TCP or UDP, and 5 bytes of payload (or more), cut into up to five buffers at
odd and even places, in the headers, between header and payload, and in the payload;
four vectors are the most, so that the drop of a packet of too many vectors happens.  Segments are of 2 (three
segments, the last one short), 3 and 5 bytes.  The EEPROM has a fixed word, a free one, the checksum, and an
address without a word; two bits per word let a frame be cut at each kind of bit.  Two pairs
of pages and two entries let one pair evict the other, or have both; a request for each half of a pair can wait at once
(`FirstOrAlone` in `MCBusDisk`: requests of any other kind are alone).
One frame is enough to tell what was mapped from what is; the theorem has no such bound.  `MCView` takes
the TLB as a bag, since the places of entries make no difference, and leaves
out the CP0 registers while no handler and no invalidation runs: each of these writes what it reads.
The requests of the disk are alike, and so are the pairs, hence the symmetry.

*Deadlock* is checked except where the program may stop: a failed assertion
(`ahci_any_host`, `e1000_intr` and `bus_disk`, where the host is free to cause one), the end of a command in
`bus_disk` (`disk` checks the queues) and the endless loop of
`e82545_tx_disable` (`e1000_tx`).

*Fairness.*  `FairSpec` of `BlockIf`, `Ahci`, `E82545Tx` and `E82545Rx` has weak
fairness of the device alone: `dm_loop` runs for ever and none of these steps
waits for anything.  Nothing is assumed of the host, or of arriving packets.
`IntrFairSpec` and `MCE82545Regs` assume that a queued callout runs.  `Msgdma` has strong fairness
of each of its two threads: a thread is disabled while the other has interrupts off,
and the scheduler takes threads of equal priority in turn when they are on.  The
scheduler is in the MDX kernel, which is not part of the repository: this is an
assumption.  It matters that the loop of `emul_msgdma_poll`
ends: a host that keeps giving descriptors while packets keep arriving keeps
interrupts off without bound.  `PacketsTaken` does not depend on the
end of that loop.

*Assumptions on the host* are part of the modules, where they can be read:
`HostRule` and `StartRule` in `Ahci` (`Careful`), `Careful` in `E82545Intr` (it reads ICR
after a reset before it writes IMS), and the guards of the host actions of the rings (it
writes the ring size before it enables the ring, gives only descriptors that it
owns, and restarts an mSGDMA channel only when the device holds no descriptor), and
`HostContext` in `E82545Packet` (checksums and headers lie inside the packet, a
segment size is not zero).

## 4. What the runs found

* `ahci_reentry` (`bhyve/pthread.c:44`).  Two commands without NCQ are issued
  together.  The second one waits for the first, and is started by its callback.
  `blockif_thr` holds `bc_mtx` while it calls the callback, so
  `blockif_request` finds it locked, and the assertion fails.  A command
  with more than 33 PRD entries ends in the same way.  In bhyve the thread
  drops the mutex around the callback; the comment of `ata_ioreq_cb`
  still describes that.
* `ahci_error` (`bhyve/pci_ahci.c:320`).  "Stop if device is busy or in error"
  (`:1868`): `waitforclear` is only set by `ahci_write_fis`, after its
  early return for a port that takes no FIS.  A refused command then keeps its bit in
  PxCI and is started again at once, without end.
* `e1000_intr_reset` (`bhyve/pci_e82545.c:2384`).  A reset drops the line
  and leaves `esc_irq_asserted` set, so later causes do not raise it, until
  the host reads ICR.
* `e1000_udp` (`bhyve/pci_e82545.c:1494`).  "Update payload length." (`:1493`) stores
  a `uint32_t` without `htons` over the length and the checksum of the UDP header of a
  segment.  On this big-endian processor the length becomes 0, and the
  length goes where the checksum belongs.
* `e1000_rx_lengths` (`bhyve/pci_e82545.c:1034`).  The "Length of data DMAed into data buffer"
  (`:150`) of the last descriptor is `len % bufsz`: for a frame that ends with its buffer, 0.

One more disagreement is part of a property and not a run of its own.
`register_mem` reports success, and registers nothing, when the base of a range
lies in another one, and fails when the range overlaps in another way.  Once two decoded
BARs have overlapped, moving one away again fails the assertion of
`modify_bar_registration` (`bhyve/pci_emul.c:513`) or of `unregister_mem`
(`bhyve/mem.c:343`), or leaves a BAR that is not decoded.  `DecodesExactly`
therefore speaks of the time before an overlap; `HandlerMatches`, in `PciInv`, holds always.

Some properties leave out what the code does not do.  The segments of a packet share a header, in
which FIN and PUSH are cleared for the first and not restored for the last (`:1488`): `PacketCorrect`
asks for them only of a packet that is one segment.  It leaves the four bytes free that
`e1000_udp` is about, and `LengthsAddUp` the frames that `e1000_rx_lengths` is about.  A write to TDBAH while the
ring runs does not reach the address in use: `RingsCurrent` leaves that half out.

`NoStale` speaks of pairs that have not had two entries at once.  After an invalidation the refill
of a page finds the entry of its pair in the TLB, not valid, and takes the path of the TLB invalid exception, whose
`tlbwr` (`src/tlbmiss.S:125`) may write another entry.  The next invalidation then clears one
of the two, and the other one goes on mapping the page.  No document says which entry
`tlbwr` is expected to take, so that this is a limit of the property and not a run.

`e82545_tx_disable` (`bhyve/pci_e82545.c:1706`) does not return while `esc_tx_active` is set, and only the
next poll clears it.  The model reaches this loop (`Spin`): a host that stops or resets the device in
the first request after a transmission stops the device model.  One that has seen TDH at TDT, and has added nothing, does not
(`EmptyStaysIdle`).

## 5. What is proved

For every value of the constants that satisfies the assumptions of the
modules.  TLC has checked on the instances above each property that a theorem
states, and each inductive invariant before it was proved.

*`BlockIfProofs`* (any number of requests and elements, any extents).
`HeadRuns` and `DrainedAtLeave` are not inductive: that the oldest request is
never blocked depends on why each blocked request is blocked.  The
inductive invariant is `IInv`:

* `TypeOK`;
* `Conservation`: every element is in one queue;
* `BusyOnlyWhileLocked`: at most one busy element, answered, only while
  the mutex is held;
* `NoLostWakeup`: each blocked request has an *older* one, pending or busy, that
  ends where it starts.  "Older" is what makes it work: chains are
  well founded, so the head of the queue is never blocked unless a busy
  element unblocks it;
* `WaitingIsQueued`: a request is queued exactly when its caller waits, once.

`NoLostWakeup` survives a removal (by `Start`, `Finish` or `Cancel`) because
the removed element is remembered in the busy queue, or sets PEND whatever waits
for its end; it survives `Prepare`, which changes an offset, because
`WaitingIsQueued` says that the request is not queued then.  `QueueInvariant`,
`TypeCorrect`, `NoRequestStranded`, `CallbackOnce`, `OldestRuns` and
`NothingLeftBehind` follow.  `CallersFit` (`NeverRefused`) has as its hypothesis
that there are at most `MaxReq` callers; `blockif_queuesz` lets AHCI have one less.  A free element is missing only when `MaxReq` others are queued, and
those are distinct callers, so that the one who asks would be one too many.  `ImplementsService` shows that initial states and
steps map to those of `BlockService` or to stuttering: FIFO
order is exactly `OldestRuns` at the step `Start`.

*`AhciProofs`* (any number of slots up to the number of `ahci_ioreq`s, any commands and masks; for the
first five theorems any host).  The inductive invariant is `IInv`: `AhciInv` with `InterruptLevel`, in
the parts that a step can disturb.

* `QueuedOnce`: a slot is in the queue of `block_if` once.  Without it the end of a
  command would leave its slot queued and clear its pending bit;
* `PendingQueued` and `IssuedUntilEnd`: the pending bits are the queued slots, and
  PxCI has those that are not NCQ.  `QueueLength` makes `InFlight` of this, and `IoreqAvailable`
  follows: a slot that can be started is not queued, so at most the other slots are;
* `BusyWithCommand`: BSY means that a command is queued which clears it;
* `NothingLeft`: once the queue is empty no issued slot is runnable.  So neither the writes that run the loop of `ahci_handle_port` nor the others leave
  a command that only another write would start;
* `InterruptLevel`, which each function that posts a FIS keeps (`PortIntrProperties` to
  `NcqProperties`).

`EndInterrupts` (`CompletionInterrupts`) is an action property: the callback raises what the FIS
of its command raises.  The next three theorems assume `Careful`.  Their invariant `CarefulInv` adds what
the host rule gives: no error without `waitforclear` (`ErrorStops`), FISes are taken
(`FisTaken`), a command that is not NCQ is alone in PxCI (`AloneOrNcq`), commands take one request
(`OnePart`), and outside of the loop of `ahci_handle_port` all that is issued is in flight
(`AllInFlight`).  So a callback finds nothing it could start with `bc_mtx` held:
`CarefulHostSafe` (`NoAssertionFails`) and `CarefulHostStops` (`StopsOnError`).
`StopsKnown`, that a running port which waits has told the host of a failure, needs `StartRule`; it gives `CarefulHostKnows`, the
safety half of `CommandsEnd`: a command waits for nothing else (`NothingWaits`).  `CarefulInv` is
stated beside its proof; TLC has checked it on the instance of `disk`.

The second half of the module is about the data of a command (tables, counts, iovecs and sectors of any size).  `BytesExact`
(`PrdtExact`) follows from `PrdtInv`, which adds the types, that the length of a READ or WRITE is in whole
sectors, and that a command without `more` has come to its end, its last request still in progress or not
(`Final`).  The lemmas are about the two loops of `ahci_build_iov`.  `Covers` says of vectors
that they are the bytes of the table from a place on, in order and within their entries; the
loop over the table keeps it from turn to turn, and the loop that cuts
back to whole sectors shortens the end of it (`RoundDownProperties`).  `WholeSectors` puts both
together: the remainder that is cut is the remainder of the place in the command.  `SmallEntries` finds the entries because
of which an assertion fails.

*`E82545RegsProofs`* (any registers, values and causes).  First the interrupt logic alone.  `CausesReachHost` is about the
line, and the code looks at its record `esc_irq_asserted`.  `IntrInv` adds
that the record is right but after a reset (`LineMatches`), that
`esc_mevpitr` stands for a queued callout (`TimerMatches`), and that a
pending cause has one of the two (`CausesSignalled`).  Its last conjunct says
that a careful host has no cause enabled between a reset and its read of ICR.
`NoInterruptLost` and `ThrottlingWorks` follow.  `RingsInUse`: every write to
a register of a ring and both resets keep `RingsCurrent`, which is inductive with the
types of `ring`.  `ImplementsIntr`: a step of the register file is a step of
`E82545Intr` or leaves its variables alone; hence `DeviceInterrupts`: the theorems about
interrupts hold of the whole device.

`EepromRefined` (`EepromSpec`) is a refinement: the state machine behind EECD, for addresses and words of any
width, implements `Eeprom`.  The mapping reads the frame off the shift registers: `nvm_opaddr` has what
came in of operation and address, `nvm_data` what came in of a word.  The inductive invariant
`NvmInv` says that no register has more bits than were clocked (`nvm_opaddr < 2^k`), that the
mode fits the operation, and that what is left in `nvm_data` while a word goes out is the rest of the addressed word.
Each edge is one lemma per mode (`ShiftOpaddr`, `ShiftIn`, `ShiftOut`), from facts
about bits: a shift appends a bit (`BitsAppend`), the bits of a frame have the operation and the address as
values (`FrameHasParts`), and the remainder that `nvm_data <<= 1` leaves has the same last bits
(`BitOfRemainder`).  `InitEeprom` is the checksum: with the last word the sum is `NVM_SUM`, modulo the size of a word.
The multiplications and divisions of powers of two are put away in the lemmas before, since no
prover here reasons about them.

*`E82545TxProofs`* (a ring of any length, any number of descriptors per write and in flight).
`SentOnceInOrder` says that the descriptor at the head is the first one of the packet
that the wire has not had.  `TxInv` is inductive, and each part is needed for it:

* `HeadAtPacket`: between polls `esc_TDHr` is TDH, or has gone to the tail over a part of a packet
  (the fast path of `e82545_tx_run`), or the host added the rest and the next poll goes back;
* `PacketsWhole` and `Numbered`: what is in the window TDH..TDT starts at the start of
  a packet, no context is inside of one, and the numbers count the ends of packets;
* `ReportedUpToHead`: no DD in the window; in the loop what the head has passed has DD where it has RS;
* `EmptyStaysIdle`: a host that has seen all sent does not meet an active transmitter.

The work is in the lemmas on windows of a ring (`CutWindow`, `AlongWindow`): a packet from the head
to its end cuts the window in two, and what holds of the head and goes over from each descriptor of the
packet to the next holds of all of them (`PacketIds`: they have the number of the packet that is due).  `TxSize` is a multiple of eight, as TDLEN is; the remainders
are put away in `RingArithmetic`.  `PacketsOnce` and `CompletionsSeen` follow.

*`E82545RxProofs`* (a ring of any length, buffers of any size, any lengths of frames that the configuration
admits).  `RxInv` is inductive.  `RingAgrees`: the descriptors with DD are those from the one the host
looks at next up to the head, which does not pass RDT.  `LoopAgrees`: `left` counts the descriptors between head and
RDT, although the host moves RDT only between polls and a packet takes several.  `RowNumbered` and `FifoNumbered`:
packets in the ring are whole and in order, and the FIFO follows.  `Room` is the lemma that matters: the check
against `maxpktdesc` before a packet leaves room for every packet the FIFO can hold, also at the end of
the ring.  `OwnDescriptors` (`WritesOwnOnly`) and `InOrder` (`DeliveredInOrder`) follow.  `WholeFrames`
(`LengthsAddUp`) is about one turn of `e82545_tap_callback`: the head passes exactly the descriptors that it
writes, and their lengths add up to the frame if it does not end with its buffer.  It rests on the division of the frame by the buffer
(`FrameParts`, with a remainder of 0 for a frame that ends with its buffer) and on the sum over
a row of descriptors over the end of the ring (`LengthsOfRow`).

*`MsgdmaProofs`* (a ring of any length, a FIFO and a semaphore of any bound).  `MsgdmaInv` is inductive.
`OnePoller`: one thread is in the loop of `emul_msgdma_poll`, and the descriptor that it
has read is still the one at `cur_desc` when it fills it, although `intr_disable` is all that
keeps the other one out.  `OwnFromCur` and `FilledInOrder`: OWN is set from there on, and before there
are the packets that the host takes next.  `SleepsWaiting`: a host that sleeps has enabled the interrupt.
`PacketsInOrder` (`ReceivedInOrder`) follows, and `SleeperIsWoken`: `NotStranded` is inductive beside `MsgdmaInv`,
because the thread that fills the last descriptor the host waits for still has its interrupt to send.

*`IommuProofs`* (any pages, frames, TLB size and bound).  `NoStale` speaks of the entries of the TLB, and a value that is
stale there was stale before in a register of CP0.  The inductive invariant `IInv` adds
`WalkFresh` (what the handler has loaded is the entry of the table, or the host has asked for that page
since), `Exclusive` (between `tlbp` and `tlbwi` interrupts are off, and EntryHi and
Index still belong to the request) and `OneEntry` (a pair that is not in `doubled` has one entry, so that one
`tlbwi` removes it).  The argument is `StaysFresh`: a host that changes a page that was mapped has asked for it in the same step,
so a value is stale only while a request waits; and the request is answered only by
`WriteIndexed`, after which no entry has the page, if the pair had one.  `Dispatch` shows that the addresses of both
IOMMUs reach `emul_iommu` through `dm_request`.  `NoStaleTranslation` follows.

*`PciEmulProofs`* (any set of devices and BARs, of any sizes).  `MapInvariant` (`PciInv`) is about the memory map, for any host.  Two
parts had to be added to make it inductive.  `HintInTree`: without it an entry of the cache could
outlive its range.  `TreeIsDecoded`: until two decoded ranges overlap the tree is what the registers
say; `modify_bar_registration` needs it to find what it takes away.  A write to the command register goes through the BARs of a device
one after the other: the claim for the first k of them is kept by the next (`SetDecoding` is a
recursive function over them), and `LimitAssumption`, that the BARs of all devices fit below
`PCI_EMUL_MEMLIMIT32`, is what `pci_emul_alloc_resource` tests.  `AccessesReachBars` (`DecodesExactly`) follows: the tree has no two
ranges that share an address, so what `access_memory` finds, in the cache or not, is the one that holds it.

The interrupts are a matter of their own.  `LineMatches` compares the
line with what the device asks for and the masks.  The code acts on the state of
`pi_lintr`, so the inductive invariant `LineInv` ties that state to both:
IDLE means not asked for, PENDING asked for and masked, ASSERTED asked for and not
masked.  `UpdateLine` is the one argument behind all writes of the host.

*Only model-checked:*

* liveness (`EventuallyAnswered`, `WritesAnswered`, `CommandsEnd`, `CausesDelivered`, `PacketsSent`, `FifoDrains`,
  `PacketsTaken`) and the fairness part of `ServiceSpec`, which are out of the reach of the prover;
* `PacketCorrect`: what `e82545_transmit` computes goes through four loops, over vectors, bytes and segments, that are folds
  here, and the claim adds up checksums modulo `2^16 - 1`.

The installed provers cannot use the induction theorems of the library.  Where a proof needs induction, over the turns of a loop or the
bits of a number, the module defines the loop as a recursive function over 0..n, `Loop` (or its like in each module of
proofs) shows that the function exists, and `Counting` argues with the least number for which a claim
would fail (`LeastNat`, from the well-founded order of the numbers).

## 6. What is not modelled, and the plan

Left out for good: start-up code and assembly (`start.S`, `crt_init_globals.c`),
the console, the vendored headers, `test.c`, and the data of sectors.  The MDX kernel and the FIFO
driver are not in the repository.  `fwd_device.c` keeps no state: it is one access to a device that is not
here.  ATAPI is in `pci_ahci.c` but `dm_init` configures no port for it.  MSI and MSI-X deliver
nothing on this platform.  Multicast and unicast filters are stored and never used.

Next, in this order:

1. `PacketCorrect`: the loops of `E82545Packet` as recursive functions, first for the checksum of a packet cut
   anywhere (`e82545_iov_checksum`), then for a packet that is not segmented.
2. `Msgdma` with the transmit channel.
3. The copy of sectors between host and image (`blockif_proc`), with the widths and byte order of
   `bhyve_support.c`.
4. IDENTIFY, the log pages and the features of `ahci_handle_cmd`.

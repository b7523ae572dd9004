\* Three requests on four elements: the caller keeps to blockif_queuesz;
\* or the data of one AHCI command, which ends; or any host of the PCI bus,
\* which stops when an assertion fails; or the requests to the IOMMUs.
SPECIFICATION MCSpec
CONSTANTS
  Reqs = {r1, r2, r3}
  OFF_MAX <- MCOffMax
  MaxReq = 4
  Offsets <- MCOffsets
  Lens <- MCLens
  RdOnly = FALSE
  IOV_MAX = 3
  Sect = 4
  MaxCount = 4
  Counts = {0, 1, 2}
  Prdts <- MCPrdts
  Extents <- MCExtents
  Devs <- MCDevs
  BarsOf <- MCBarsOf
  AllBars <- MCAllBars
  Size <- MCSize
  Bases <- MCBases
  MsiDevs <- MCMsiDevs
  MemBase = 1
  Config = 1
  Window <- MCWindow
  Ecfg <- MCEcfg
  Pairs = {p1, p2}
  Frames = {f1}
  Slots = {s1, s2}
  None = None
  MaxReqs = 2
VIEW MCView
SYMMETRY MCSymmetry
INVARIANT IInv
INVARIANT NeverRefused
INVARIANT PrdtExact
INVARIANT PciInv
INVARIANT DecodesExactly
INVARIANT LineMatches
INVARIANT NoStale
PROPERTY DrainedAtLeave
CHECK_DEADLOCK FALSE

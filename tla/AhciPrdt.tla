------------------------------ MODULE AhciPrdt ------------------------------
(***************************************************************************)
(* The data of AHCI commands (bhyve/pci_ahci.c): which bytes of the memory *)
(* that a PRD table describes a command reads or writes.                   *)
(*                                                                         *)
(* A READ or WRITE is one block_if request after the other (ahci_handle_rw *)
(* and ata_ioreq_cb), each with the entries that ahci_build_iov puts in an *)
(* iovec; a TRIM is one request per extent; IDENTIFY and the like copy a   *)
(* buffer.  That the second request of a command fails an assertion here,  *)
(* because bc_mtx is held, is a matter of Ahci.tla: this module follows    *)
(* the command to its end.                                                 *)
(***************************************************************************)
EXTENDS Integers, Sequences

CONSTANTS
  IOV_MAX,  (* BLOCKIF_IOV_MAX: vectors of a request                       *)
  Sect,     (* blockif_sectsz                                              *)
  MaxCount, (* sectors of a command whose count field is zero              *)
  Counts,   (* count fields the host uses                                  *)
  Prdts,    (* PRD tables of the host: the sizes of the entries            *)
  Extents   (* the sectors of the extents of a TRIM                        *)

ASSUME PrdtAssumption ==
  /\ {IOV_MAX, Sect, MaxCount} \subseteq Nat \ {0}
  /\ Counts \subseteq Nat
  /\ Prdts \subseteq Seq(Nat \ {0}) /\ Extents \subseteq Seq(Nat)

VARIABLES
  op,    (* the last command: "none", "rw", "copy", "trim"; or "dead", a   *)
         (* failed assertion                                               *)
  busy,  (* it has a request in block_if                                   *)
  prdt,  (* the table of the command; of a TRIM its extents                *)
  len,   (* aior->len                                                      *)
  done,  (* aior->done, in a TRIM the extents that are passed              *)
  iov,   (* br_iov of that request                                         *)
  more,  (* aior->more                                                     *)
  moved  (* history: the vectors of the requests that have ended           *)

prdtVars == <<op, busy, prdt, len, done, iov, more, moved>>

PrdtInit ==
  /\ op = "none" /\ busy = FALSE /\ prdt = <<>> /\ len = 0 /\ done = 0
  /\ iov = <<>> /\ more = FALSE /\ moved = <<>>

(* The sum of the first n elements of f                                    *)
FirstSum(f, n) ==
  LET sum[k \in 0 .. n] == IF k = 0 THEN 0 ELSE sum[k - 1] + f[k]
  IN  sum[n]

(* The bytes of the first n vectors, and of all                            *)
Upto(vecs, n) == FirstSum([k \in DOMAIN vecs |-> vecs[k].len], n)
Total(vecs)   == Upto(vecs, Len(vecs))

Smaller(m, n) == IF m < n THEN m ELSE n

(* A turn of the loop over the table, for at most max vectors.  A vector   *)
(* is a piece of an entry.                                                 *)
AddEntry(a, dbcsz, max) ==
  LET n == Smaller(dbcsz - a.skip, a.left)
  IN  IF Len(a.vecs) = max \/ a.left = 0 THEN a
      ELSE IF dbcsz <= a.skip THEN [a EXCEPT !.i = @ + 1, !.skip = @ - dbcsz]
      ELSE [i    |-> a.i + 1,
            skip |-> 0,
            left |-> a.left - n,
            vecs |-> Append(a.vecs, [entry |-> a.i + 1, off |-> a.skip, len |-> n])]

(* The loop, for the bytes of the table from from on                       *)
Walk(table, bytes, from, max) ==
  LET turn[k \in 0 .. Len(table)] ==
        IF k = 0 THEN [i |-> 0, skip |-> from, left |-> bytes - from, vecs |-> <<>>]
        ELSE AddEntry(turn[k - 1], table[k], max)
  IN  turn[Len(table)]

(* A turn of the loop that takes a.extra bytes from the end of the first   *)
(* a.j vectors, and with them whole vectors                                *)
CutVector(a, vecs) ==
  IF a.extra = 0 \/ vecs[a.j].len > a.extra THEN a
  ELSE [j |-> a.j - 1, extra |-> a.extra - vecs[a.j].len]

(* Mutant of RoundDown: only the last vector becomes shorter.              *)
RoundDownLast(vecs) ==
  LET extra == Total(vecs) % Sect
      last  == vecs[Len(vecs)]
  IN  IF Len(vecs) < IOV_MAX \/ last.len <= extra THEN vecs
      ELSE [vecs EXCEPT ![Len(vecs)].len = @ - extra]

(* An iovec that is full ends with a whole sector.                         *)
RoundDown(vecs) ==
  LET cut[k \in 0 .. Len(vecs)] ==
        IF k = 0 THEN [j |-> Len(vecs), extra |-> Total(vecs) % Sect]
        ELSE CutVector(cut[k - 1], vecs)
      a == cut[Len(vecs)]
  IN  IF Len(vecs) < IOV_MAX THEN vecs
      ELSE [k \in 1 .. a.j |-> [vecs[k] EXCEPT !.len = IF k = a.j THEN @ - a.extra ELSE @]]

(* ahci_build_iov, for the bytes from from on, and its request             *)
build_iov(table, bytes, from) ==
  LET a    == Walk(table, bytes, from, IOV_MAX)
      vecs == RoundDown(a.vecs)
      to   == from + Total(vecs)
  IN  IF Len(a.vecs) = IOV_MAX /\ vecs = <<>>
        THEN op' = "dead" /\ busy' = FALSE /\ iov' = <<>> /\ done' = from /\ more' = FALSE
        ELSE op' = "rw" /\ busy' = TRUE /\ iov' = vecs /\ done' = to /\ more' = (to < bytes /\ a.i < Len(table))

(* ahci_handle_rw of a new command                                         *)
HandleRw(table, count) ==
  /\ ~busy /\ op # "dead"
  /\ prdt' = table
  /\ len' = Sect * (IF count = 0 THEN MaxCount ELSE count)
  /\ build_iov(table, len', 0)
  /\ moved' = <<>>

(* ata_ioreq_cb: a request has succeeded, and there is more to do ...      *)
NextRw ==
  /\ op = "rw" /\ busy /\ more
  /\ moved' = moved \o iov
  /\ build_iov(prdt, len, done)
  /\ UNCHANGED <<prdt, len>>

(* ... or not.                                                             *)
EndRw ==
  /\ op = "rw" /\ busy /\ ~more
  /\ busy' = FALSE
  /\ moved' = moved \o iov
  /\ iov' = <<>>
  /\ UNCHANGED <<op, prdt, len, done, more>>

(* A request has failed: the command ends, and prdbc is not written.       *)
Fail ==
  /\ busy
  /\ op' = "none" /\ busy' = FALSE
  /\ iov' = <<>> /\ more' = FALSE
  /\ UNCHANGED <<prdt, len, done, moved>>

(* read_prdt and write_prdt copy size bytes, entry by entry: they have no  *)
(* limit and skip nothing.                                                 *)
CopyBuffer(table, size) ==
  LET a == Walk(table, size, 0, Len(table))
  IN  /\ ~busy /\ op # "dead"
      /\ op' = "copy"
      /\ prdt' = table /\ len' = size
      /\ moved' = a.vecs
      /\ done' = size - a.left
      /\ UNCHANGED <<busy, iov, more>>

(* ahci_handle_dsm_trim from entry from on: extents of no sectors are      *)
(* passed over.  When nothing else follows, the command ends.              *)
trim_from(table, from) ==
  LET rest == {i \in (from + 1) .. Len(table) : table[i] # 0}
      next == CHOOSE i \in rest : \A j \in rest : i <= j
  IN  /\ op' = "trim"
      /\ busy' = (rest # {})
      /\ iov' = IF rest = {} THEN <<>> ELSE <<[entry |-> next, off |-> 0, len |-> table[next]]>>
      /\ done' = IF rest = {} THEN Len(table) ELSE next
      /\ more' = (done' # Len(table))

HandleTrim(table) ==
  /\ ~busy /\ op # "dead"
  /\ prdt' = table /\ len' = Len(table)
  /\ trim_from(table, 0)
  /\ moved' = <<>>

(* ata_ioreq_cb of a TRIM                                                  *)
NextTrim ==
  /\ op = "trim" /\ busy /\ more
  /\ moved' = moved \o iov
  /\ trim_from(prdt, done)
  /\ UNCHANGED <<prdt, len>>

EndTrim ==
  /\ op = "trim" /\ busy /\ ~more
  /\ busy' = FALSE
  /\ moved' = moved \o iov
  /\ iov' = <<>>
  /\ UNCHANGED <<op, prdt, len, done, more>>

PrdtCommand ==
  \/ \E table \in Prdts, count \in Counts : HandleRw(table, count)
  \/ \E table \in Prdts : CopyBuffer(table, Sect)
  \/ \E table \in Extents : HandleTrim(table)

PrdtCallback == NextRw \/ EndRw \/ NextTrim \/ EndTrim \/ Fail

PrdtSpec == PrdtInit /\ [][PrdtCommand \/ PrdtCallback]_prdtVars
-----------------------------------------------------------------------------
(* The bytes of the first n entries                                        *)
Before(n) == FirstSum(prdt, n)

(* The vectors are the first bytes of the table: in order, without a gap,  *)
(* none twice, and none outside of its entry.                              *)
FromStart(vecs) ==
  \A k \in DOMAIN vecs :
    /\ Before(vecs[k].entry - 1) + vecs[k].off = Upto(vecs, k - 1)
    /\ vecs[k].len > 0 /\ vecs[k].off + vecs[k].len <= prdt[vecs[k].entry]

(* A READ or WRITE moves each byte of its length, or of a table that is    *)
(* shorter, once, in requests that fit in an iovec; all but the last take  *)
(* whole sectors, so that the next one starts at the sector that br_offset *)
(* says.  Of a short table a part of a sector may be left.                 *)
RwExact ==
  LET all  == moved \o iov
      want == Smaller(len, Before(Len(prdt)))
  IN  /\ FromStart(all) /\ Total(all) = done /\ done <= want
      /\ Len(iov) <= IOV_MAX
      /\ more => done % Sect = 0 /\ Total(iov) > 0
      /\ ~busy => done \in IF want = len THEN {len} ELSE {want, want - (want % Sect)}

(* A TRIM deletes each extent that has sectors once.                       *)
TrimExact ==
  LET all == moved \o iov
  IN  /\ {all[k].entry : k \in DOMAIN all} = {i \in 1 .. done : prdt[i] # 0}
      /\ \A j, k \in DOMAIN all : j < k => all[j].entry < all[k].entry
      /\ ~busy => done = Len(prdt)

(* The commands move the bytes that the host has asked for, and prdbc says *)
(* how many (ahci_build_iov, ahci_handle_dsm_trim, read_prdt, write_prdt,  *)
(* ata_ioreq_cb).  The assertion of ahci_build_iov fails only for entries  *)
(* so small that a full iovec holds less than a sector.                    *)
PrdtExact ==
  /\ op = "rw" => RwExact
  /\ op = "copy" => FromStart(moved) /\ done = Total(moved) /\ done = Smaller(len, Before(Len(prdt)))
  /\ op = "trim" => TrimExact
  /\ op = "dead" => \E n \in 1 .. (Len(prdt) - IOV_MAX + 1) : Before(n + IOV_MAX - 1) - Before(n) < Sect
=============================================================================

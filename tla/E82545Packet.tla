---------------------------- MODULE E82545Packet ----------------------------
(***************************************************************************)
(* e82545_transmit of bhyve/pci_e82545.c: from the buffers of a packet and *)
(* the last context descriptor to the frames that go to the FIFO.          *)
(*                                                                         *)
(* An iov is a sequence of vectors, and a vector a sequence of bytes.  As  *)
(* in the code, offsets count from 0; the loops over vectors are folds.    *)
(* The hosts of the CHERI MIPS are big-endian, and htons is the identity.  *)
(***************************************************************************)
EXTENDS Integers, Sequences, SequencesExt

CONSTANTS
  Radix,    (* the values of a byte: 256 in the code                       *)
  MaxSegs,  (* I82545_MAX_TXSEGS                                           *)
  Slack,    (* a first vector longer than its header by less is copied     *)
  Vet,      (* the word esc_VET                                            *)
  Contexts, (* the context descriptors of the host                         *)
  Packets   (* its packets: the buffers, and the bits of their descriptors *)

ASSUME RadixAssumption == Radix \in Nat /\ Radix % 16 = 0 /\ Radix > 0
ASSUME SegsAssumption  == MaxSegs \in Nat \ {0} /\ Slack \in Nat

ETHER_ADDR_LEN == 6
ENCAP_LEN      == 4    (* ETHER_VLAN_ENCAP_LEN                             *)

Word   == Radix * Radix
Bytes  == 0 .. (Radix - 1)

VARIABLES
  txctx,  (* esc_txctx                                                     *)
  packet, (* history: the last packet                                      *)
  frames  (* history: the frames it became                                 *)

packetVars == <<txctx, packet, frames>>

(* A host has sent nothing yet.                                            *)
PacketInit == txctx \in Contexts /\ packet = <<>> /\ frames = <<>>

Least(m, n) == IF m < n THEN m ELSE n
Most(m, n)  == IF m > n THEN m ELSE n

Get(s, off)    == s[off + 1] * Radix + s[off + 2]
Put(s, off, w) == [s EXCEPT ![off + 1] = (w \div Radix) % Radix, ![off + 2] = w % Radix]

(* 32-bit words, modulo Word ^ 2                                           *)
GetLong(s, off)    == Get(s, off) * Word + Get(s, off + 2)
PutLong(s, off, w) == Put(Put(s, off, (w \div Word) % Word), off + 2, w % Word)
-----------------------------------------------------------------------------
(* e82545_carry                                                            *)
carry(sum) ==
  LET c == (sum % Word) + (sum \div Word)
  IN  IF c > Word - 1 THEN c - (Word - 1) ELSE c

(* e82545_buf_checksum: a byte that is left over is the high one.          *)
buf_checksum(buf) ==
  carry(FoldLeftDomain(LAMBDA sum, i : sum + (IF i % 2 = 1 THEN Radix * buf[i] ELSE buf[i]), 0, buf))

(* Mutant of AddVector: an odd number of bytes before it is forgotten.     *)
AddVectorEven(a, vec) ==
  LET now == Least(a.len, Len(vec) - a.off)
  IN  IF a.off > 0 /\ Len(vec) <= a.off
        THEN [a EXCEPT !.off = @ - Len(vec)]
        ELSE [a EXCEPT !.off = 0, !.len = @ - now,
                       !.sum = @ + buf_checksum(SubSeq(vec, a.off + 1, a.off + now))]

(* e82545_iov_checksum passes over a vector, or adds it to the sum.        *)
AddVector(a, vec) ==
  LET now == Least(a.len, Len(vec) - a.off)
      s   == buf_checksum(SubSeq(vec, a.off + 1, a.off + now))
  IN  IF a.off > 0 /\ Len(vec) <= a.off
        THEN [a EXCEPT !.off = @ - Len(vec)]
        ELSE [off |-> 0,
              len |-> a.len - now,
              odd |-> a.odd # (now % 2 = 1),
              sum |-> a.sum + (IF a.odd THEN s * Radix ELSE s)]

iov_checksum(iov, off, len) ==
  carry(FoldLeft(AddVector, [off |-> off, len |-> len, odd |-> FALSE, sum |-> 0], iov).sum)

(* e82545_transmit_checksum.  ck_len 0 is to the end of the packet.        *)
transmit_checksum(iov, ck) ==
  LET cklen == IF ck.len = 0 THEN Len(FlattenSeq(iov)) ELSE ck.len - ck.start + 1
      cksum == iov_checksum(iov, ck.start, cklen)
  IN  IF ck.valid THEN [iov EXCEPT ![1] = Put(@, ck.off, Word - 1 - cksum)] ELSE iov
-----------------------------------------------------------------------------
(* The vectors: every buffer that is not empty, the last one without the   *)
(* two bytes that are stripped of the checksum of the host.                *)
Gathered(p) ==
  LET iov == SelectSeq(p.bufs, LAMBDA b : b # <<>>)
      end == p.bufs[Len(p.bufs)]
  IN  IF p.ifcs \/ end = <<>> THEN iov
      ELSE [iov EXCEPT ![Len(iov)] = SubSeq(@, 1, Len(@) - 2)]

IsTso(p) == ~p.legacy /\ p.tse

(* ckinfo[0] and ckinfo[1]                                                 *)
Ck0(p, c) ==
  IF p.legacy THEN [valid |-> p.ic, start |-> p.css, off |-> p.cso, len |-> 0]
              ELSE [valid |-> p.ixsm, start |-> c.ipcss, off |-> c.ipcso, len |-> c.ipcse]
Ck1(p, c) ==
  [valid |-> ~p.legacy /\ p.txsm, start |-> c.tucss, off |-> c.tucso, len |-> c.tucse]

(* The bytes at the front that are to be changed                           *)
HeaderLength(p, c, iov) ==
  LET ckEnd(ck) == IF ck.valid THEN ck.off + 2 ELSE 0
      vlan == IF p.vle THEN 2 * ETHER_ADDR_LEN ELSE 0
      most == Most(vlan, Most(ckEnd(Ck0(p, c)), ckEnd(Ck1(p, c))))
  IN  IF IsTso(p) THEN c.hdr_len
      ELSE IF most # 0 /\ Len(iov[1]) \in (most + 1) .. (most + Slack - 1) THEN Len(iov[1])
      ELSE most

(* They become a vector of their own, in front of what they leave.         *)
CopyFrom(a, vec) ==
  LET now == Least(a.left, Len(vec))
  IN  [hdr  |-> a.hdr \o SubSeq(vec, 1, now),
       left |-> a.left - now,
       rest |-> IF a.left > 0 /\ now = Len(vec) THEN a.rest
                ELSE Append(a.rest, SubSeq(vec, now + 1, Len(vec)))]

Prepended(iov, hdrlen) ==
  LET a == FoldLeft(CopyFrom, [hdr |-> <<>>, left |-> hdrlen, rest |-> <<>>], iov)
  IN  IF hdrlen = 0 THEN iov ELSE <<a.hdr>> \o a.rest

(* The tag goes between the addresses and the type ...                     *)
Tagged(p, iov) ==
  LET tag == Put(Put(<<0, 0, 0, 0>>, 0, Vet), 2, p.special)
      at  == 2 * ETHER_ADDR_LEN
  IN  IF p.vle THEN [iov EXCEPT ![1] = SubSeq(@, 1, at) \o tag \o SubSeq(@, at + 1, Len(@))]
               ELSE iov

(* ... and moves what stands behind it.                                    *)
Moved(p, ck) ==
  IF p.vle
    THEN [ck EXCEPT !.start = @ + ENCAP_LEN, !.off = @ + ENCAP_LEN,
                    !.len = IF @ = 0 THEN 0 ELSE @ + ENCAP_LEN]
    ELSE ck
-----------------------------------------------------------------------------
(* A segment takes nleft bytes of the payload, from pvoff of vector pv on. *)
TakeFrom(iov, a, i) ==
  LET nnow == Least(a.nleft, Len(iov[i]) - a.pvoff)
      end  == a.pvoff + nnow = Len(iov[i])
  IN  IF i # a.pv \/ a.nleft = 0 THEN a
      ELSE [tiov  |-> Append(a.tiov, SubSeq(iov[i], a.pvoff + 1, a.pvoff + nnow)),
            nleft |-> a.nleft - nnow,
            pv    |-> IF end THEN a.pv + 1 ELSE a.pv,
            pvoff |-> IF end THEN 0 ELSE a.pvoff + nnow]

(* hdr[..] &= ~(TH_FIN | TH_PUSH)                                          *)
ClearFinPush(flags) == flags - (flags % 2) - 8 * ((flags \div 8) % 2)

(* The header of segment seg, which is now bytes long and has left bytes   *)
(* from its start to the end.  first is the header as the host wrote it.   *)
IpHeader(hdr, c, ip, ipid, seg, now) ==
  LET len == Len(hdr) - ip + now
  IN  IF c.ip THEN Put(Put(hdr, ip + 2, len), ip + 4, ipid + seg)
              ELSE Put(hdr, ip + 4, len - 40)

TcpHeader(hdr, c, tcp, tcpseq, now, left) ==
  LET seq == PutLong(hdr, tcp + 4, tcpseq + c.paylen - left)
  IN  IF ~c.tcp THEN PutLong(hdr, tcp + 4, Len(hdr) - tcp + now)
      ELSE IF now < left THEN [seq EXCEPT ![tcp + 14] = ClearFinPush(@)]
      ELSE seq

(* Segments 1 to n of the payload, in the vectors 2.. of iov.              *)
Segment(iov, c, ck0, ck1) ==
  LET first == iov[1]
      tcpcs == IF ck1.valid THEN Get(first, ck1.off) ELSE 0
      n     == (c.paylen + c.mss - 1) \div c.mss
      S[k \in 0 .. n] ==
        IF k = 0 THEN [hdr |-> first, pv |-> 2, pvoff |-> 0, frames |-> <<>>]
        ELSE LET s    == S[k - 1]
                 left == c.paylen - (k - 1) * c.mss
                 now  == Least(left, c.mss)
                 pay  == FoldLeftDomain(LAMBDA a, i : TakeFrom(iov, a, i),
                           [tiov |-> <<>>, nleft |-> now, pv |-> s.pv, pvoff |-> s.pvoff], iov)
                 ip   == IpHeader(s.hdr, c, ck0.start, Get(first, ck0.start + 4), k - 1, now)
                 tcp  == TcpHeader(ip, c, ck1.start, GetLong(first, ck1.start + 4), now, left)
                 h0   == IF ck0.valid THEN Put(tcp, ck0.off, Get(first, ck0.off)) ELSE tcp
                 t0   == transmit_checksum(<<h0>> \o pay.tiov, ck0)
                 sum  == tcpcs + Len(first) - ck1.start + now
                 h1   == IF ck1.valid THEN Put(t0[1], ck1.off, carry(sum)) ELSE t0[1]
                 t1   == transmit_checksum(<<h1>> \o pay.tiov, ck1)
             IN  [hdr |-> t1[1], pv |-> pay.pv, pvoff |-> pay.pvoff,
                  frames |-> Append(s.frames, FlattenSeq(t1))]
  IN  S[n].frames

(* e82545_transmit of a packet.  One of too many vectors is dropped.       *)
transmit(p, c) ==
  LET got == Gathered(p)
      iov == Tagged(p, Prepended(got, HeaderLength(p, c, got)))
      ck0 == Moved(p, Ck0(p, c))
      ck1 == Moved(p, Ck1(p, c))
  IN  IF Len(got) > MaxSegs THEN <<>>
      ELSE IF IsTso(p) THEN Segment(iov, c, ck0, ck1)
      ELSE <<FlattenSeq(transmit_checksum(transmit_checksum(iov, ck0), ck1))>>
-----------------------------------------------------------------------------
(* The bytes that the host means to send                                   *)
Data(p) == FlattenSeq(Gathered(p))

(* What the context descriptor and the packet have to agree on: checksums  *)
(* lie inside the packet, that of the IP header before the other, and a    *)
(* packet that is to be segmented has a header and a payload.  A buffer of *)
(* one byte cannot lose two.                                               *)
HostContext(p, c) ==
  LET cks == {ck \in {Ck0(p, c), Ck1(p, c)} : ck.valid}
  IN  /\ \A ck \in cks :
           /\ ck.off >= ck.start /\ (ck.off - ck.start) % 2 = 0
           /\ {ck.off + 1, ck.len} \subseteq 0 .. ((IF IsTso(p) THEN c.hdr_len ELSE Len(Data(p))) - 1)
      /\ \A ck \in cks : ck.off < c.tucss => p.legacy \/ c.ipcse \in ck.off .. (c.tucss - 1)
      /\ p.ifcs \/ Len(p.bufs[Len(p.bufs)]) # 1
      /\ IsTso(p) => /\ c.mss > 0 /\ c.paylen > 0
                     /\ Len(Data(p)) = c.hdr_len + c.paylen
                     /\ p.ixsm => c.ip

(* A context descriptor is kept for the packets that follow.               *)
SetContext(c) ==
  /\ txctx' = c
  /\ packet' = <<>> /\ frames' = <<>>

SendPacket(p) ==
  /\ HostContext(p, txctx)
  /\ packet' = p
  /\ frames' = transmit(p, txctx)
  /\ UNCHANGED txctx

PacketStep == (\E c \in Contexts : SetContext(c)) \/ (\E p \in Packets : SendPacket(p))
-----------------------------------------------------------------------------
(* What the receiver of a frame does: it takes the tag away ...            *)
Untagged(p, f) ==
  IF p.vle THEN SubSeq(f, 1, 2 * ETHER_ADDR_LEN) \o SubSeq(f, 2 * ETHER_ADDR_LEN + ENCAP_LEN + 1, Len(f))
           ELSE f

(* ... and adds up the words from ck.start on, with the pseudo-header that *)
(* the checksum field was preset to.                                       *)
Verifies(f, ck, pseudo) ==
  LET end   == IF ck.len = 0 THEN Len(f) - 1 ELSE ck.len
      value == [off \in ck.start .. end |-> IF (off - ck.start) % 2 = 0 THEN Radix * f[off + 1] ELSE f[off + 1]]
  IN  ck.valid => (MapThenSumSet(LAMBDA off : value[off], DOMAIN value) + pseudo) % (Word - 1) = 0

Field(ck) == IF ck.valid THEN {ck.off, ck.off + 1} ELSE {}

(* The frame has the bytes of the packet, but in the fields changed.       *)
SameBut(f, data, bytes, changed) ==
  \A off \in 0 .. (bytes - 1) : off \in changed \/ f[off + 1] = data[off + 1]

(* Segment k of n is a packet of its own: the next piece of the payload,   *)
(* with its length in the IP header, its IP identification, its TCP        *)
(* sequence number, checksums that verify, and no FIN or PUSH before the   *)
(* end.  (Of several segments the code sends them in none: hdr is shared,  *)
(* and has lost them.)  Of UDP it leaves bytes 4 to 7 of the header free:  *)
(* UdpLengths says what the length in them should be.                      *)
SegmentCorrect(p, c, k, n, f) ==
  LET data == Data(p)
      from == c.hdr_len + (k - 1) * c.mss
      ck0  == Ck0(p, c)
      ck1  == Ck1(p, c)
      ip   == c.ipcss
      tcp  == c.tucss
  IN  /\ SubSeq(f, c.hdr_len + 1, Len(f)) = SubSeq(data, from + 1, Least(from + c.mss, Len(data)))
      /\ SameBut(f, data, c.hdr_len,
                 (ip + 2) .. (ip + 5) \cup (tcp + 4) .. (tcp + 7) \cup {tcp + 13} \cup Field(ck0) \cup Field(ck1))
      /\ IF c.ip THEN /\ Get(f, ip + 2) = Len(f) - ip
                      /\ Get(f, ip + 4) = (Get(data, ip + 4) + k - 1) % Word
                 ELSE Get(f, ip + 4) = Len(f) - ip - 40
      /\ c.tcp => /\ GetLong(f, tcp + 4) = (GetLong(data, tcp + 4) + (k - 1) * c.mss) % (Word * Word)
                  /\ k < n => f[tcp + 14] % 2 = 0 /\ (f[tcp + 14] \div 8) % 2 = 0
                  /\ n = 1 => f[tcp + 14] = data[tcp + 14]
      /\ Verifies(f, ck0, Get(data, ck0.off))
      /\ Verifies(f, ck1, Get(data, ck1.off) + Len(f) - tcp)

(* The frames of a packet are what the host asked for, wherever it is cut  *)
(* into buffers (e82545_transmit): the bytes in order, the tag, checksums  *)
(* over odd pieces that verify, and segments that make up the payload.     *)
PacketCorrect ==
  packet # <<>> /\ Len(Gathered(packet)) <= MaxSegs =>
    LET p    == packet
        c    == txctx
        n    == Len(frames)
        data == Data(p)
        f(k) == Untagged(p, frames[k])
    IN  /\ n = IF IsTso(p) THEN (c.paylen + c.mss - 1) \div c.mss ELSE 1
        /\ p.vle => \A k \in 1 .. n : Get(frames[k], 12) = Vet /\ Get(frames[k], 14) = p.special
        /\ IF IsTso(p)
             THEN \A k \in 1 .. n : SegmentCorrect(p, c, k, n, f(k))
             ELSE /\ Len(f(1)) = Len(data)
                  /\ SameBut(f(1), data, Len(data), Field(Ck0(p, c)) \cup Field(Ck1(p, c)))
                  /\ \A ck \in {Ck0(p, c), Ck1(p, c)} : Verifies(f(1), ck, IF ck.valid THEN Get(data, ck.off) ELSE 0)

(* "Update payload length." (e82545_transmit): the UDP header of a segment *)
(* has the length of the segment.                                          *)
UdpLengths ==
  packet # <<>> /\ Len(Gathered(packet)) <= MaxSegs /\ IsTso(packet) /\ ~txctx.tcp =>
    \A k \in DOMAIN frames :
      LET f == Untagged(packet, frames[k])
      IN  Get(f, txctx.tucss + 4) = Len(f) - txctx.tucss
=============================================================================

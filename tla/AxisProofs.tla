----------------------------- MODULE AxisProofs -----------------------------
(***************************************************************************)
(* Proofs about AxisStream: for every number of channels, tags and         *)
(* interrupt ids, every width of a beat, every completion boundary and     *)
(* every legal combination of length and byte enables.                     *)
(*                                                                         *)
(* A read is in one place: a pipe (Flying), the response that is being cut *)
(* up (Splitting), the list of completions, or it is complete.  Its tag is *)
(* busy until its last word is sent, so the tag names the read everywhere: *)
(* ReadInv says what is known of the words and bytes of every place.       *)
(***************************************************************************)
EXTENDS AxisStream, TLAPS, SequenceTheorems

Cpls == [tag : Tags, start : Nat, len : Nat \ {0}, byte_count : Int,
         is_last : BOOLEAN]
PipeMsgs == [tag : Tags, n : Reads]

\* The bounded counters.
OpsInv ==
    /\ wrote \in Nat /\ irqs \in Nat /\ num_reset \in Nat
    /\ mmio \in Seq(MmioReqs) /\ reqs \in Seq(ReadReqs)
    /\ Len(reqs) <= MaxOps
    /\ SoftReset # "off" => num_reset > 0

IrqInv ==
    /\ raised \in Seq(Irqs)
    /\ irq_next \in [Irqs -> Irqs \cup {Null}]
    /\ IrqListSound

\* The requests that the emulator holds: on the list in the order in which they
\* came, or with the AFU.  The AFU completes only what it was asked.
MmioInv ==
    /\ Len(mmio) = Len(answers) /\ answers \in Seq(Nat)
    /\ mmio_req \in Seq(Nat)
    /\ \A k \in 1 .. Len(mmio_req) :
         /\ mmio_req[k] \in 1 .. Len(mmio)
         /\ ForThisAfu(mmio[mmio_req[k]])
         /\ mmio[mmio_req[k]].kind = "read" => mmio_req[k] \in mmio_read_state
         /\ mmio_req[k] \notin afu_mmio
    /\ \A j, k \in 1 .. Len(mmio_req) : j < k => mmio_req[j] < mmio_req[k]
    /\ \A id \in mmio_read_state :
         id \in 1 .. Len(mmio) /\ mmio[id].kind = "read"
    /\ afu_mmio \subseteq mmio_read_state
    /\ afu_to_host_state = "CPL" => tx.id \in afu_mmio
    /\ MmioAnsweredOnce

\* The stream to the AFU between two beats.
FrameInv ==
    /\ mmio_req_dw_rem \in Nat
    /\ num_reset = 0 =>
         /\ afu_err \notin {"interrupted", "headless"}
         /\ \/ /\ host_to_afu_state = "NONE"
               /\ mmio_req_dw_rem = 0 /\ dma_read_cpl_dw_rem = 0
               /\ rx = NoPacket
            \/ /\ host_to_afu_state = "MEM"
               /\ mmio_req_dw_rem > 0 /\ dma_read_cpl_dw_rem = 0
               /\ mmio_req # << >> /\ mmio[mmio_req[1]].kind = "write"
               /\ rx = [kind |-> "mmio", id |-> mmio_req[1], left |-> mmio_req_dw_rem]
            \/ /\ host_to_afu_state = "CPL"
               /\ mmio_req_dw_rem = 0 /\ dma_read_cpl_dw_rem > 0
               /\ rx = [kind |-> "cpl", id |-> dma_read_cpl[1].tag,
                        left |-> dma_read_cpl_dw_rem]

\* The reads in the two pipes; the response that is being cut up.
Flying == {rd_rsp[k] : k \in 1 .. Len(rd_rsp)}
            \cup {rd_req[k] : k \in 1 .. Len(rd_req)}
Splitting(t) == phase = "split" /\ split.tag = t

SameTag(i, j) == dma_read_cpl[i].tag = dma_read_cpl[j].tag
CplEnd(i) == dma_read_cpl[i].start + dma_read_cpl[i].len
Sent(i) == IF i = 1 /\ dma_read_cpl_dw_rem > 0
           THEN dma_read_cpl[i].len - dma_read_cpl_dw_rem ELSE 0

\* The bytes of a read that remain from DW `start' on.
LastMask(r) == IF r.last_be = 0 THEN r.first_be ELSE r.last_be
BytesFrom(r, start) ==
    IF r.first_be = 0 THEN 1
    ELSE 4 * (r.len - start) - (IF start = 0 THEN LowZeros(r.first_be) ELSE 0)
           - HighZeros(LastMask(r))

\* The buffer of a tag holds the words of its read; a fence has none.
DataStored(t) ==
    reqs[owner[t]].first_be # 0 => read_rsp_data[t] = owner[t]

ReadType ==
    /\ busy \in [Tags -> BOOLEAN]
    /\ owner \in [Tags -> {NoRead} \cup Reads]
    /\ read_rsp_data \in [Tags -> {NoRead} \cup Reads]
    /\ dma_read_cpl \in Seq(Cpls)
    /\ dma_read_cpl_dw_rem \in Nat
    /\ split \in [tag : Tags, start : Nat, rem : Nat, bytes : Int]
    /\ rd_req \in Seq(PipeMsgs)
    /\ rd_rsp \in Seq(PipeMsgs)
    /\ got \in [Reads -> Nat]

Owners ==
    /\ \A t \in Tags : busy[t] => owner[t] \in 1 .. Len(reqs)
    /\ \A t, u \in Tags : busy[t] /\ busy[u] /\ owner[t] = owner[u] => t = u

HalfSent ==
    dma_read_cpl_dw_rem > 0 =>
      dma_read_cpl # << >> /\ dma_read_cpl_dw_rem <= dma_read_cpl[1].len

\* No tag is in the pipes twice.
Fifo ==
    /\ \A i, j \in 1 .. Len(rd_req) : rd_req[i].tag = rd_req[j].tag => i = j
    /\ \A i, j \in 1 .. Len(rd_rsp) : rd_rsp[i].tag = rd_rsp[j].tag => i = j
    /\ \A i \in 1 .. Len(rd_rsp), j \in 1 .. Len(rd_req) :
         rd_rsp[i].tag # rd_req[j].tag

FlyingLive ==
    \A m \in Flying :
      /\ busy[m.tag] /\ owner[m.tag] = m.n /\ got[m.n] = 0
      /\ ~Splitting(m.tag)
      /\ \A i \in 1 .. Len(dma_read_cpl) : dma_read_cpl[i].tag # m.tag

SplitLive ==
    phase = "split" =>
      /\ busy[split.tag] /\ DataStored(split.tag)
      /\ split.rem > 0
      /\ split.start + split.rem = reqs[owner[split.tag]].len
      /\ split.bytes = BytesFrom(reqs[owner[split.tag]], split.start)
      /\ \A i \in 1 .. Len(dma_read_cpl) :
           dma_read_cpl[i].tag = split.tag => CplEnd(i) <= split.start
      /\ (\A i \in 1 .. Len(dma_read_cpl) : dma_read_cpl[i].tag # split.tag) =>
           got[owner[split.tag]] = split.start

ListLive ==
    \A i \in 1 .. Len(dma_read_cpl) :
      LET t == dma_read_cpl[i].tag
          r == reqs[owner[t]]
      IN  /\ busy[t] /\ DataStored(t)
          /\ CplEnd(i) <= r.len
          /\ dma_read_cpl[i].is_last <=> CplEnd(i) = r.len
          /\ dma_read_cpl[i].byte_count = BytesFrom(r, dma_read_cpl[i].start)

NoOverlap ==
    \A i, j \in 1 .. Len(dma_read_cpl) :
      i < j /\ SameTag(i, j) => CplEnd(i) <= dma_read_cpl[j].start

FromNext ==
    \A i \in 1 .. Len(dma_read_cpl) :
      (\A k \in 1 .. i - 1 : ~SameTag(k, i)) =>
        got[owner[dma_read_cpl[i].tag]] = dma_read_cpl[i].start + Sent(i)

NoGap ==
    \A i, j \in 1 .. Len(dma_read_cpl) :
      /\ i < j /\ SameTag(i, j)
      /\ \A k \in i + 1 .. j - 1 : ~SameTag(i, k)
      => CplEnd(i) = dma_read_cpl[j].start

ToEnd ==
    \A i \in 1 .. Len(dma_read_cpl) :
      (\A k \in i + 1 .. Len(dma_read_cpl) : ~SameTag(i, k)) =>
        CplEnd(i) = IF Splitting(dma_read_cpl[i].tag) THEN split.start
                    ELSE reqs[owner[dma_read_cpl[i].tag]].len

Unasked == \A n \in Reads : n > Len(reqs) => got[n] = 0

ReadInv ==
    /\ ReadType /\ Owners /\ HalfSent /\ Fifo /\ FlyingLive /\ SplitLive
    /\ ListLive /\ NoOverlap /\ FromNext /\ NoGap /\ ToEnd /\ Unasked
    /\ ReadDataCorrect

\* What a legal AFU may rely on before a reset.
LegalInv ==
    num_reset = 0 =>
      /\ err = "none"
      /\ irq_busy \subseteq afu_irq
      /\ \A t \in Tags : busy[t] => t \in afu_tags

-----------------------------------------------------------------------------
(* Byte enables. *)

\* Byte b of a DW is enabled by mask m.
Bit(m, b) == (m \div 2 ^ b) % 2 = 1

\* The powers of two that a mask of four bits needs.
LEMMA Powers == 2 ^ 0 = 1 /\ 2 ^ 1 = 2 /\ 2 ^ 2 = 4 /\ 2 ^ 3 = 8 /\ 2 ^ 4 = 16
  OBVIOUS

\* LowZeros is the number of the first byte that a mask enables
\* (pcie_cpl_byte_count, pcie_cpl_lower_addr_byte_offset).
LEMMA LowZerosProps ==
    ASSUME NEW m \in 1 .. 15
    PROVE  /\ LowZeros(m) \in 0 .. 3
           /\ Bit(m, LowZeros(m))
           /\ \A b \in 0 .. 3 : Bit(m, b) => b >= LowZeros(m)
  <1>1. PICK k \in 0 .. 3 : k = LowZeros(m) /\ m % 2 ^ (k + 1) = 2 ^ k
    <2>1. \E k \in 0 .. 3 : m % 2 ^ (k + 1) = 2 ^ k
      <3>1. m % 2 = 1 \/ m % 4 = 2 \/ m % 8 = 4 \/ m % 16 = 8
        OBVIOUS
      <3>2. /\ 2 ^ (0 + 1) = 2 /\ 2 ^ (1 + 1) = 4 /\ 2 ^ (2 + 1) = 8
            /\ 2 ^ (3 + 1) = 16
        OBVIOUS
      <3>3. m % 2 = 1 => m % 2 ^ (0 + 1) = 2 ^ 0
        BY <3>2, Powers
      <3>4. m % 4 = 2 => m % 2 ^ (1 + 1) = 2 ^ 1
        BY <3>2, Powers
      <3>5. m % 8 = 4 => m % 2 ^ (2 + 1) = 2 ^ 2
        BY <3>2, Powers
      <3>6. m % 16 = 8 => m % 2 ^ (3 + 1) = 2 ^ 3
        BY <3>2, Powers
      <3> QED
        BY <3>1, <3>3, <3>4, <3>5, <3>6
    <2> QED
      BY <2>1 DEF LowZeros
  <1>2. CASE k = 0
    <2>1. m % 2 = 1 /\ m \div 1 = m
      BY <1>1, <1>2
    <2>2. Bit(m, 0)
      BY <2>1, Powers DEF Bit
    <2> QED
      BY <2>2, <1>1, <1>2
  <1>3. CASE k = 1
    <2>1. m % 4 = 2
      BY <1>1, <1>3
    <2>2. (m \div 2) % 2 = 1 /\ (m \div 1) % 2 = 0
      BY <2>1
    <2>3. Bit(m, 1) /\ ~Bit(m, 0)
      BY <2>2, Powers DEF Bit
    <2> QED
      BY <2>3, <1>1, <1>3
  <1>4. CASE k = 2
    <2>1. m % 8 = 4
      BY <1>1, <1>4
    <2>2. (m \div 4) % 2 = 1 /\ (m \div 2) % 2 = 0 /\ (m \div 1) % 2 = 0
      BY <2>1
    <2>3. Bit(m, 2) /\ ~Bit(m, 1) /\ ~Bit(m, 0)
      BY <2>2, Powers DEF Bit
    <2> QED
      BY <2>3, <1>1, <1>4
  <1>5. CASE k = 3
    <2>1. m % 16 = 8
      BY <1>1, <1>5
    <2>2. /\ (m \div 8) % 2 = 1 /\ (m \div 4) % 2 = 0
          /\ (m \div 2) % 2 = 0 /\ (m \div 1) % 2 = 0
      BY <2>1
    <2>3. Bit(m, 3) /\ ~Bit(m, 2) /\ ~Bit(m, 1) /\ ~Bit(m, 0)
      BY <2>2, Powers DEF Bit
    <2> QED
      BY <2>3, <1>1, <1>5
  <1> QED
    BY <1>1, <1>2, <1>3, <1>4, <1>5

\* HighZeros counts the bytes behind the last one that a mask enables.
LEMMA HighZerosProps ==
    ASSUME NEW m \in 1 .. 15
    PROVE  /\ HighZeros(m) \in 0 .. 3
           /\ Bit(m, 3 - HighZeros(m))
           /\ \A b \in 0 .. 3 : Bit(m, b) => b <= 3 - HighZeros(m)
  <1>1. PICK k \in 0 .. 3 :
          k = HighZeros(m) /\ 2 ^ (3 - k) <= m /\ m < 2 ^ (4 - k)
    <2>1. \E k \in 0 .. 3 : 2 ^ (3 - k) <= m /\ m < 2 ^ (4 - k)
      <3>1. \/ 8 <= m /\ m < 16
            \/ 4 <= m /\ m < 8
            \/ 2 <= m /\ m < 4
            \/ 1 <= m /\ m < 2
        OBVIOUS
      <3>2. /\ 2 ^ (3 - 0) = 8 /\ 2 ^ (4 - 0) = 16
            /\ 2 ^ (3 - 1) = 4 /\ 2 ^ (4 - 1) = 8
            /\ 2 ^ (3 - 2) = 2 /\ 2 ^ (4 - 2) = 4
            /\ 2 ^ (3 - 3) = 1 /\ 2 ^ (4 - 3) = 2
        OBVIOUS
      <3> QED
        BY <3>1, <3>2
    <2> QED
      BY <2>1 DEF HighZeros
  <1>2. CASE k = 0
    <2>1. 8 <= m /\ m < 16
      BY <1>1, <1>2
    <2>2. (m \div 8) % 2 = 1
      BY <2>1
    <2>3. Bit(m, 3)
      BY <2>2, Powers DEF Bit
    <2> QED
      BY <2>3, <1>1, <1>2
  <1>3. CASE k = 1
    <2>1. 4 <= m /\ m < 8
      BY <1>1, <1>3
    <2>2. (m \div 4) % 2 = 1 /\ (m \div 8) % 2 = 0
      BY <2>1
    <2>3. Bit(m, 2) /\ ~Bit(m, 3)
      BY <2>2, Powers DEF Bit
    <2> QED
      BY <2>3, <1>1, <1>3
  <1>4. CASE k = 2
    <2>1. 2 <= m /\ m < 4
      BY <1>1, <1>4
    <2>2. (m \div 2) % 2 = 1 /\ (m \div 4) % 2 = 0 /\ (m \div 8) % 2 = 0
      BY <2>1
    <2>3. Bit(m, 1) /\ ~Bit(m, 2) /\ ~Bit(m, 3)
      BY <2>2, Powers DEF Bit
    <2> QED
      BY <2>3, <1>1, <1>4
  <1>5. CASE k = 3
    <2>1. m = 1
      BY <1>1, <1>5
    <2>2. /\ (m \div 1) % 2 = 1 /\ (m \div 2) % 2 = 0
          /\ (m \div 4) % 2 = 0 /\ (m \div 8) % 2 = 0
      BY <2>1
    <2>3. Bit(m, 0) /\ ~Bit(m, 1) /\ ~Bit(m, 2) /\ ~Bit(m, 3)
      BY <2>2, Powers DEF Bit
    <2> QED
      BY <2>3, <1>1, <1>5
  <1> QED
    BY <1>1, <1>2, <1>3, <1>4, <1>5

\* A full mask has no zeros.
LEMMA FullMask == LowZeros(15) = 0 /\ HighZeros(15) = 0
  <1>1. Bit(15, 0) /\ Bit(15, 3)
    <2>1. 15 % 2 = 1 /\ 15 \div 1 = 15 /\ (15 \div 8) % 2 = 1
      OBVIOUS
    <2> QED
      BY <2>1, Powers DEF Bit
  <1>2. 15 \in 1 .. 15
    OBVIOUS
  <1>3. LowZeros(15) \in 0 .. 3 /\ 0 >= LowZeros(15)
    BY <1>1, <1>2, LowZerosProps
  <1>4. HighZeros(15) \in 0 .. 3 /\ 3 <= 3 - HighZeros(15)
    BY <1>1, <1>2, HighZerosProps
  <1> QED
    BY <1>3, <1>4

\* A fence asks for one DW; any other read enables bytes at both ends (the
\* checks of pcie_tlp_a2h_mrd).
LEMMA ReqShape ==
    ASSUME NEW r \in ReadReqs
    PROVE  /\ r.len \in Nat /\ r.len > 0
           /\ r.first_be \in 0 .. 15 /\ r.last_be \in 0 .. 15
           /\ r.len = 1 => r.last_be = 0
           /\ r.len > 1 => r.first_be # 0 /\ r.last_be # 0
           /\ r.first_be # 0 => /\ LastMask(r) \in 1 .. 15
                                /\ LowZeros(r.first_be) \in 0 .. 3
                                /\ HighZeros(LastMask(r)) \in 0 .. 3
  <1>1. /\ r.len \in Nat /\ r.len > 0
        /\ r.first_be \in 0 .. 15 /\ r.last_be \in 0 .. 15
    BY ReqAssumption
  <1>2. /\ r.len = 1 => r.last_be = 0
        /\ r.len > 1 => r.first_be # 0 /\ r.last_be # 0
    BY <1>1, ReqAssumption DEF Legal
  <1>3. r.first_be # 0 => r.first_be \in 1 .. 15 /\ LastMask(r) \in 1 .. 15
    BY <1>1, <1>2 DEF LastMask
  <1> QED
    BY <1>1, <1>2, <1>3, LowZerosProps, HighZerosProps

\* What a read asks for, byte by byte.
LEMMA EnabledBytes ==
    ASSUME NEW r \in ReadReqs, NEW x
    PROVE  x \in Enabled(r) <=>
             /\ x \in 0 .. 4 * r.len - 1
             /\ Bit(ByteEnables(r, x \div 4), x % 4)
  BY DEF Enabled, Bit

\* The first and the last byte of a read, and none if it is a fence.
LEMMA EnabledEnds ==
    ASSUME NEW r \in ReadReqs
    PROVE  /\ r.first_be = 0 => Enabled(r) = {}
           /\ r.first_be # 0 =>
                /\ LowZeros(r.first_be) \in Enabled(r)
                /\ \A y \in Enabled(r) : LowZeros(r.first_be) <= y
                /\ 4 * r.len - 1 - HighZeros(LastMask(r)) \in Enabled(r)
                /\ \A y \in Enabled(r) : y <= 4 * r.len - 1 - HighZeros(LastMask(r))
  <1>0. PICK L \in Nat : L = r.len /\ L > 0
    BY ReqShape
  <1>a. \A y \in 0 .. 4 * L - 1 :
          /\ y \div 4 \in 0 .. L - 1 /\ y % 4 \in 0 .. 3
          /\ y = 4 * (y \div 4) + (y % 4)
    <2> SUFFICES ASSUME NEW y \in 0 .. 4 * L - 1
                 PROVE  /\ y \div 4 \in 0 .. L - 1 /\ y % 4 \in 0 .. 3
                        /\ y = 4 * (y \div 4) + (y % 4)
      OBVIOUS
    <2>1. y \in Nat /\ y < 4 * L
      BY <1>0
    <2>2. y \div 4 \in Nat
      BY <2>1
    <2>3. y % 4 \in 0 .. 3
      BY <2>1
    <2>4. y = 4 * (y \div 4) + (y % 4)
      BY <2>1
    <2> QED
      BY <2>1, <2>2, <2>3, <2>4, <1>0
  <1>1. ASSUME r.first_be = 0
        PROVE  Enabled(r) = {}
    <2>1. L = 1
      BY <1>0, <1>1, ReqShape
    <2>2. ASSUME NEW y \in 0 .. 3
          PROVE  ~Bit(ByteEnables(r, y \div 4), y % 4)
      <3>1. y \div 4 = 0 /\ y % 4 = y
        OBVIOUS
      <3>2. y = 0 \/ y = 1 \/ y = 2 \/ y = 3
        OBVIOUS
      <3>3. (0 \div 1) % 2 = 0 /\ (0 \div 2) % 2 = 0 /\ (0 \div 4) % 2 = 0
            /\ (0 \div 8) % 2 = 0
        OBVIOUS
      <3>4. ~Bit(0, 0) /\ ~Bit(0, 1) /\ ~Bit(0, 2) /\ ~Bit(0, 3)
        BY <3>3, Powers DEF Bit
      <3> QED
        BY <3>1, <3>2, <3>4, <1>1 DEF ByteEnables
    <2> QED
      BY <2>1, <2>2, <1>0, EnabledBytes
  <1>2. ASSUME r.first_be # 0
        PROVE  /\ LowZeros(r.first_be) \in Enabled(r)
               /\ \A y \in Enabled(r) : LowZeros(r.first_be) <= y
    <2>1. PICK z \in 0 .. 3 : z = LowZeros(r.first_be)
      BY <1>2, ReqShape
    <2>2. Bit(r.first_be, z) /\ \A b \in 0 .. 3 : Bit(r.first_be, b) => b >= z
      BY <1>2, <2>1, ReqShape, LowZerosProps
    <2>3. z \div 4 = 0 /\ z % 4 = z /\ z \in 0 .. 4 * L - 1
      BY <1>0
    <2>4. z \in Enabled(r)
      BY <2>2, <2>3, <1>0, EnabledBytes DEF ByteEnables
    <2>5. ASSUME NEW y \in Enabled(r)
          PROVE  z <= y
      <3>1. y \in 0 .. 4 * L - 1 /\ Bit(ByteEnables(r, y \div 4), y % 4)
        BY <1>0, EnabledBytes
      <3>2. CASE y \div 4 = 0
        <4>1. y = y % 4 /\ Bit(r.first_be, y % 4)
          BY <3>1, <3>2, <1>a DEF ByteEnables
        <4> QED
          BY <4>1, <2>2, <3>1, <1>a
      <3>3. CASE y \div 4 # 0
        BY <3>1, <3>3
      <3> QED
        BY <3>2, <3>3
    <2> QED
      BY <2>1, <2>4, <2>5
  <1>3. ASSUME r.first_be # 0
        PROVE  /\ 4 * r.len - 1 - HighZeros(LastMask(r)) \in Enabled(r)
               /\ \A y \in Enabled(r) : y <= 4 * r.len - 1 - HighZeros(LastMask(r))
    <2>1. PICK h \in 0 .. 3, m \in 1 .. 15 : m = LastMask(r) /\ h = HighZeros(m)
      BY <1>3, ReqShape
    <2>2. Bit(m, 3 - h) /\ \A b \in 0 .. 3 : Bit(m, b) => b <= 3 - h
      BY <2>1, HighZerosProps
    <2>3. ByteEnables(r, L - 1) = m
      BY <1>0, <2>1, ReqShape DEF ByteEnables, LastMask
    <2>4. PICK x : x = 4 * L - 1 - h
      OBVIOUS
    <2>5. x \in 0 .. 4 * L - 1 /\ x \div 4 = L - 1 /\ x % 4 = 3 - h
      BY <2>4, <1>0
    <2>6. x \in Enabled(r)
      BY <2>2, <2>3, <2>5, <1>0, EnabledBytes
    <2>7. ASSUME NEW y \in Enabled(r)
          PROVE  y <= x
      <3>1. y \in 0 .. 4 * L - 1 /\ Bit(ByteEnables(r, y \div 4), y % 4)
        BY <1>0, EnabledBytes
      <3>2. CASE y \div 4 = L - 1
        <4>1. y % 4 \in 0 .. 3 /\ Bit(m, y % 4)
          BY <3>1, <3>2, <2>3, <1>a
        <4>2. y % 4 <= 3 - h
          BY <4>1, <2>2
        <4> QED
          BY <4>2, <3>1, <3>2, <2>4, <1>0
      <3>3. CASE y \div 4 # L - 1
        <4>1. y < 4 * (L - 1)
          BY <3>1, <3>3, <1>0
        <4> QED
          BY <4>1, <3>1, <2>4, <1>0
      <3> QED
        BY <3>2, <3>3
    <2> QED
      BY <2>1, <2>4, <2>6, <2>7, <1>0
  <1> QED
    BY <1>1, <1>2, <1>3

\* Offset and count that the AFU expects, in terms of the masks: the tables
\* 2-38 and 2-39 of the PCIe standard that the code implements.
LEMMA ExpectedIs ==
    ASSUME NEW r \in ReadReqs, NEW start \in 0 .. r.len - 1
    PROVE  ExpectedBytes(r, start) =
             [lower |-> 4 * start + IF start = 0
                 THEN pcie_cpl_lower_addr_byte_offset(r.first_be) ELSE 0,
              count |-> BytesFrom(r, start)]
  <1>a. r.len \in Nat /\ r.len > 0 /\ start \in Nat
    BY ReqShape
  <1>1. CASE r.first_be = 0
    <2>1. Enabled(r) = {} /\ start = 0
      BY <1>1, <1>a, EnabledEnds, ReqShape
    <2> QED
      BY <2>1, <1>1
      DEF ExpectedBytes, BytesFrom, pcie_cpl_lower_addr_byte_offset
  <1>2. CASE r.first_be # 0
    <2>1. PICK z \in 0 .. 3, h \in 0 .. 3 :
            z = LowZeros(r.first_be) /\ h = HighZeros(LastMask(r))
      BY <1>2, ReqShape
    <2>2. PICK e : e = 4 * r.len - 1 - h
      OBVIOUS
    <2>3. /\ z \in Enabled(r) /\ \A y \in Enabled(r) : z <= y
          /\ e \in Enabled(r) /\ \A y \in Enabled(r) : y <= e
      BY <1>2, <2>1, <2>2, EnabledEnds
    <2>4. \A y \in Enabled(r) : y \in Int
      BY <1>a DEF Enabled
    <2>5. (CHOOSE x \in Enabled(r) : \A y \in Enabled(r) : x <= y) = z
      <3>1. PICK c : c = CHOOSE x \in Enabled(r) : \A y \in Enabled(r) : x <= y
        OBVIOUS
      <3>2. c \in Enabled(r) /\ \A w \in Enabled(r) : c <= w
        BY <3>1, <2>3
      <3>3. c <= z /\ z <= c /\ c \in Int
        BY <3>2, <2>3, <2>4
      <3> QED
        BY <3>1, <3>3
    <2>6. (CHOOSE x \in Enabled(r) : \A y \in Enabled(r) : x >= y) = e
      <3>1. PICK c : c = CHOOSE x \in Enabled(r) : \A y \in Enabled(r) : x >= y
        OBVIOUS
      <3>2. \A w \in Enabled(r) : e >= w
        BY <2>3, <2>4
      <3>3. c \in Enabled(r) /\ \A w \in Enabled(r) : c >= w
        BY <3>1, <3>2, <2>3
      <3>4. c >= e /\ e >= c /\ c \in Int /\ e \in Int
        BY <3>2, <3>3, <2>3, <2>4
      <3> QED
        BY <3>1, <3>4
    <2>7. Enabled(r) # {}
      BY <2>3
    <2>8. PICK first : first = IF start = 0 THEN z ELSE 4 * start
      OBVIOUS
    <2>9. ExpectedBytes(r, start) = [lower |-> first, count |-> e - first + 1]
      <3>1. CASE start = 0
        <4>1. first = z
          BY <3>1, <2>8
        <4>2. ExpectedBytes(r, start) = [lower |-> z, count |-> e - z + 1]
          BY <3>1, <2>5, <2>6, <2>7 DEF ExpectedBytes
        <4> QED
          BY <4>1, <4>2
      <3>2. CASE start # 0
        BY <3>2, <2>6, <2>7, <2>8, Zenon DEF ExpectedBytes
      <3> QED
        BY <3>1, <3>2
    <2>10. first = 4 * start + IF start = 0
                 THEN pcie_cpl_lower_addr_byte_offset(r.first_be) ELSE 0
      BY <2>1, <2>8, <1>2, <1>a DEF pcie_cpl_lower_addr_byte_offset
    <2>11. e - first + 1 = BytesFrom(r, start)
      BY <2>1, <2>2, <2>8, <1>2, <1>a DEF BytesFrom
    <2> QED
      BY <2>9, <2>10, <2>11
  <1> QED
    BY <1>1, <1>2

\* However a response is cut, the count of a completion is what the one before
\* left, and nothing is left behind the last: the two assertions of
\* pcie_receive_dma_reads.
LEMMA BytesAddUp ==
    ASSUME NEW r \in ReadReqs, NEW start \in Nat, NEW rem \in Nat \ {0},
           start + rem = r.len, NEW len \in 1 .. rem
    PROVE  BytesFrom(r, start)
             - pcie_cpl_byte_count(len, IF start = 0 THEN r.first_be ELSE 15,
                                        IF len = rem THEN r.last_be ELSE 15)
           = IF len = rem THEN 0 ELSE BytesFrom(r, start + len)
  <1>a. r.len \in Nat /\ len \in Nat /\ len > 0
    BY ReqShape
  <1>1. CASE r.first_be = 0
    <2>1. start = 0 /\ len = rem
      BY <1>1, <1>a, ReqShape
    <2> QED
      BY <2>1, <1>1 DEF BytesFrom, pcie_cpl_byte_count
  <1>2. CASE r.first_be # 0
    <2>1. PICK z \in 0 .. 3, h \in 0 .. 3 :
            z = LowZeros(r.first_be) /\ h = HighZeros(LastMask(r))
      BY <1>2, ReqShape
    <2>2. BytesFrom(r, start) = 4 * rem - (IF start = 0 THEN z ELSE 0) - h
      BY <1>2, <1>a, <2>1 DEF BytesFrom
    <2>3. CASE len = rem
      <3>1. start = 0 => pcie_cpl_byte_count(len, r.first_be, r.last_be)
                           = 4 * len - z - h
        BY <1>2, <2>1 DEF pcie_cpl_byte_count, LastMask
      <3>2. start # 0 => pcie_cpl_byte_count(len, 15, r.last_be) = 4 * len - 0 - h
        <4>1. start # 0 => r.last_be # 0
          BY <1>a, ReqShape
        <4> QED
          BY <4>1, <2>1, FullMask DEF pcie_cpl_byte_count, LastMask
      <3> QED
        BY <3>1, <3>2, <2>2, <2>3, <1>a
    <2>4. CASE len # rem
      <3>1. BytesFrom(r, start + len) = 4 * (rem - len) - h
        <4>1. start + len # 0 /\ r.len - (start + len) = rem - len
          BY <1>a
        <4> QED
          BY <4>1, <1>2, <1>a, <2>1 DEF BytesFrom
      <3>2. start = 0 => pcie_cpl_byte_count(len, r.first_be, 15) = 4 * len - z - 0
        BY <1>2, <2>1, FullMask DEF pcie_cpl_byte_count
      <3>3. start # 0 => pcie_cpl_byte_count(len, 15, 15) = 4 * len - 0 - 0
        BY FullMask DEF pcie_cpl_byte_count
      <3> QED
        BY <3>1, <3>2, <3>3, <2>2, <2>4, <1>a
    <2> QED
      BY <2>3, <2>4
  <1> QED
    BY <1>1, <1>2

\* The count of the whole read (pcie_receive_dma_reads).
LEMMA BytesOfAll ==
    ASSUME NEW r \in ReadReqs
    PROVE  /\ pcie_cpl_byte_count(r.len, r.first_be, r.last_be) = BytesFrom(r, 0)
           /\ \A start \in Nat : BytesFrom(r, start) \in Int
  <1>1. pcie_cpl_byte_count(r.len, r.first_be, r.last_be) = BytesFrom(r, 0)
    BY ReqShape DEF pcie_cpl_byte_count, BytesFrom, LastMask
  <1>2. \A start \in Nat : BytesFrom(r, start) \in Int
    BY ReqShape DEF BytesFrom
  <1> QED
    BY <1>1, <1>2

-----------------------------------------------------------------------------
(* The bounded counters. *)

\* A request of the AFU is one more, and below the bound.
LEMMA MoreReads ==
    ASSUME OpsInv, MoreOps
    PROVE  /\ Len(reqs) + 1 <= MaxOps /\ Len(reqs) + 1 \in Reads
           /\ Len(reqs) \in Nat
  <1>1. Len(reqs) \in Nat /\ Len(mmio) \in Nat
    BY LenProperties DEF OpsInv
  <1> QED
    BY <1>1, AxisBoundAssumption DEF OpsInv, MoreOps, Reads

\* Every step keeps the counters in their range.
LEMMA OpsStep ==
    ASSUME OpsInv, [Next]_vars
    PROVE  OpsInv'
  <1>1. ASSUME UNCHANGED <<wrote, irqs, num_reset, mmio, reqs, SoftReset>>
        PROVE  OpsInv'
    BY <1>1 DEF OpsInv
  <1> USE DEF mmios, afu_tx
  <1>2. CASE RdWatcher \/ WrWatcher \/ CompleteWrites \/ ReceiveRead \/ SplitCpl
    BY <1>2, <1>1 DEF RdWatcher, WrWatcher, CompleteWrites, ReceiveRead, SplitCpl
  <1>3. CASE NewMmio
    <2>1. PICK m \in MmioReqs : mmio' = Append(mmio, m)
      BY <1>3 DEF NewMmio
    <2>2. mmio' \in Seq(MmioReqs)
      BY <2>1 DEF OpsInv
    <2> QED
      BY <2>2, <1>3 DEF NewMmio, OpsInv
  <1>4. CASE AskReset
    BY <1>4 DEF AskReset, OpsInv
  <1>5. CASE ResetCycle \/ LowerReset
    BY <1>5 DEF ResetCycle, LowerReset, OpsInv
  <1>6. CASE StartChannels \/ H2aNothing \/ H2aMem \/ H2aCpld \/ H2aRefuse
    BY <1>6, <1>1 DEF StartChannels, H2aNothing, H2aMem, H2aCpld, H2aRefuse
  <1>7. CASE IrqRsp \/ IrqNothing \/ A2hNothing \/ Tready
    BY <1>7, <1>1 DEF IrqRsp, IrqNothing, A2hNothing, Tready
  <1>8. CASE A2hIrq
    BY <1>8 DEF A2hIrq, OpsInv
  <1>9. CASE A2hRead
    <2>1. PICK r \in ReadReqs : reqs' = Append(reqs, r)
      BY <1>9 DEF A2hRead
    <2>2. reqs' \in Seq(ReadReqs) /\ Len(reqs') = Len(reqs) + 1
      BY <2>1 DEF OpsInv
    <2>3. Len(reqs) + 1 <= MaxOps
      BY <1>9, MoreReads DEF A2hRead
    <2> QED
      BY <2>2, <2>3, <1>9 DEF A2hRead, OpsInv
  <1>10. CASE A2hWrite
    <2>1. PICK left : WriteBeat(left)
      BY <1>10 DEF A2hWrite
    <2> QED
      BY <2>1 DEF WriteBeat, OpsInv
  <1>11. CASE A2hCpld
    <2>1. PICK id, left : CpldBeat(id, left)
      BY <1>11 DEF A2hCpld
    <2> QED
      BY <2>1, <1>1 DEF CpldBeat
  <1>12. CASE PollReads \/ Killed \/ UNCHANGED vars
    BY <1>12, <1>1 DEF PollReads, Killed, vars
  <1> QED
    BY <1>2, <1>3, <1>4, <1>5, <1>6, <1>7, <1>8, <1>9, <1>10, <1>11, <1>12
    DEF Next, App, Clock, Receive, HostToAfu, AfuToHost

\* The counters in every reachable state.
LEMMA OpsInvariance == Spec => []OpsInv
  <1>1. Init => OpsInv
    BY AxisBoundAssumption DEF Init, OpsInv
  <1> QED
    BY <1>1, OpsStep, PTL DEF Spec

-----------------------------------------------------------------------------
(* The list of interrupts. *)

\* The oldest interrupt leaves the list (pcie_host_to_afu_irq_rsp).
LEMMA IrqRspKeeps ==
    ASSUME IrqInv, IrqRsp
    PROVE  IrqInv'
  <1>a. PICK L \in Nat : L = Len(raised)
    BY LenProperties DEF IrqInv
  <1>b. L > 0 /\ interrupt_rsp_head = raised[1] /\ raised # << >>
    BY <1>a DEF IrqRsp, IrqInv, IrqListSound
  <1>c. \A k \in 1 .. L : raised[k] \in Irqs /\ raised[k] # Null
    BY <1>a, SizeAssumption DEF IrqInv, Irqs, Null
  <1>d. /\ irq_busy' = irq_busy \ {raised[1]}
        /\ interrupt_rsp_head' = irq_next[raised[1]]
        /\ interrupt_rsp_tail' = NextTail(irq_next[raised[1]])
        /\ raised' = Tail(raised) /\ irq_next' = irq_next
    BY <1>b DEF IrqRsp
  <1>e. /\ raised' \in Seq(Irqs) /\ Len(raised') = L - 1
        /\ \A k \in 1 .. L - 1 : raised'[k] = raised[k + 1]
    BY <1>a, <1>b, <1>d DEF IrqInv
  <1>f. /\ \A k \in 1 .. L :
             irq_next[raised[k]] = IF k = L THEN Null ELSE raised[k + 1]
        /\ interrupt_rsp_tail = raised[L]
        /\ irq_busy = {raised[k] : k \in 1 .. L}
        /\ \A j, k \in 1 .. L : raised[j] = raised[k] => j = k
    BY <1>a, <1>b DEF IrqInv, IrqListSound
  <1>1. interrupt_rsp_head' = IF L - 1 = 0 THEN Null ELSE raised'[1]
    BY <1>b, <1>d, <1>e, <1>f
  <1>2. ASSUME NEW k \in 1 .. L - 1
        PROVE  irq_next'[raised'[k]] = IF k = L - 1 THEN Null ELSE raised'[k + 1]
    <2>1. k + 1 \in 1 .. L /\ raised'[k] = raised[k + 1]
      BY <1>e
    <2>2. k # L - 1 => raised'[k + 1] = raised[(k + 1) + 1]
      BY <1>e
    <2>3. PICK m \in 1 .. L : m = k + 1
      BY <2>1
    <2>4. irq_next[raised[m]] = IF m = L THEN Null ELSE raised[m + 1]
      BY <1>f
    <2>5. m = L <=> k = L - 1
      BY <2>3
    <2> QED
      BY <2>1, <2>2, <2>3, <2>4, <2>5, <1>d
  <1>3. interrupt_rsp_tail' = IF L - 1 = 0 THEN Null ELSE raised'[L - 1]
    <2>1. L = 1 => irq_next[raised[1]] = Null
      BY <1>f
    <2>2. L # 1 => /\ irq_next[raised[1]] # Null
                   /\ raised'[L - 1] = raised[(L - 1) + 1]
      BY <1>b, <1>c, <1>e, <1>f
    <2>3. (L - 1) + 1 = L
      OBVIOUS
    <2>4. CASE L = 1
      BY <2>1, <2>4, <1>d DEF NextTail
    <2>5. CASE L # 1
      <3>1. interrupt_rsp_tail' = raised[L]
        BY <2>2, <2>5, <1>d, <1>f DEF NextTail
      <3>2. raised'[L - 1] = raised[L] /\ L - 1 # 0
        BY <2>2, <2>3, <2>5
      <3> QED
        BY <3>1, <3>2
    <2> QED
      BY <2>4, <2>5
  <1>4. irq_busy' = {raised'[k] : k \in 1 .. L - 1}
    <2>1. ASSUME NEW x \in irq_busy'
          PROVE  \E k \in 1 .. L - 1 : x = raised'[k]
      <3>1. PICK j \in 1 .. L : x = raised[j]
        BY <2>1, <1>d, <1>f
      <3>2. j # 1 /\ j - 1 \in 1 .. L - 1 /\ (j - 1) + 1 = j
        BY <2>1, <3>1, <1>d
      <3> QED
        BY <3>1, <3>2, <1>e
    <2>2. ASSUME NEW k \in 1 .. L - 1
          PROVE  raised'[k] \in irq_busy'
      <3>1. k + 1 \in 1 .. L /\ k + 1 # 1 /\ raised'[k] = raised[k + 1]
            /\ 1 \in 1 .. L
        BY <1>b, <1>e
      <3> QED
        BY <3>1, <1>d, <1>f
    <2> QED
      BY <2>1, <2>2
  <1>5. ASSUME NEW j \in 1 .. L - 1, NEW k \in 1 .. L - 1, raised'[j] = raised'[k]
        PROVE  j = k
    <2>1. j + 1 \in 1 .. L /\ k + 1 \in 1 .. L
      OBVIOUS
    <2>2. j + 1 = k + 1
      BY <2>1, <1>5, <1>e, <1>f
    <2> QED
      BY <2>2
  <1>6. irq_next' \in [Irqs -> Irqs \cup {Null}]
    BY <1>d DEF IrqInv
  <1>7. IrqListSound'
    BY <1>1, <1>2, <1>3, <1>4, <1>5, <1>e DEF IrqListSound
  <1> QED
    BY <1>6, <1>7, <1>e DEF IrqInv

\* A new interrupt goes to the end of the list (pcie_tlp_a2h_interrupt).
LEMMA A2hIrqKeeps ==
    ASSUME IrqInv, A2hIrq
    PROVE  IrqInv'
  <1>a. PICK L \in Nat : L = Len(raised)
    BY LenProperties DEF IrqInv
  <1>b. PICK i \in Irqs :
          IF i \in irq_busy
            THEN UNCHANGED irq
            ELSE /\ irq_busy' = irq_busy \cup {i}
                 /\ irq_next' = [j \in Irqs |-> IF j = i THEN Null
                                   ELSE IF j = interrupt_rsp_tail THEN i
                                   ELSE irq_next[j]]
                 /\ interrupt_rsp_head' = IF interrupt_rsp_tail = Null THEN i
                                          ELSE interrupt_rsp_head
                 /\ interrupt_rsp_tail' = i
                 /\ raised' = Append(raised, i)
    BY DEF A2hIrq
  <1>1. CASE i \in irq_busy
    BY <1>1, <1>b DEF irq, IrqInv, IrqListSound
  <1>2. CASE i \notin irq_busy
    <2>a. /\ irq_busy' = irq_busy \cup {i}
          /\ irq_next' = [j \in Irqs |-> IF j = i THEN Null
                            ELSE IF j = interrupt_rsp_tail THEN i
                            ELSE irq_next[j]]
          /\ interrupt_rsp_head' = IF interrupt_rsp_tail = Null THEN i
                                   ELSE interrupt_rsp_head
          /\ interrupt_rsp_tail' = i
          /\ raised' = Append(raised, i)
      BY <1>2, <1>b
    <2>b. /\ raised' \in Seq(Irqs) /\ Len(raised') = L + 1
          /\ raised'[L + 1] = i
          /\ \A k \in 1 .. L : raised'[k] = raised[k]
      BY <2>a, <1>a DEF IrqInv
    <2>c. /\ interrupt_rsp_head = IF L = 0 THEN Null ELSE raised[1]
          /\ \A k \in 1 .. L :
               irq_next[raised[k]] = IF k = L THEN Null ELSE raised[k + 1]
          /\ interrupt_rsp_tail = IF L = 0 THEN Null ELSE raised[L]
          /\ irq_busy = {raised[k] : k \in 1 .. L}
          /\ \A j, k \in 1 .. L : raised[j] = raised[k] => j = k
      BY <1>a DEF IrqInv, IrqListSound
    <2>d. \A k \in 1 .. L : raised[k] \in Irqs /\ raised[k] # Null /\ raised[k] # i
      <3> TAKE k \in 1 .. L
      <3>1. raised[k] \in irq_busy
        BY <2>c
      <3>2. raised[k] \in Irqs
        BY <1>a DEF IrqInv
      <3>3. Null \notin Irqs
        BY SizeAssumption DEF Irqs, Null
      <3> QED
        BY <3>1, <3>2, <3>3, <1>2
    <2>1. interrupt_rsp_head' = raised'[1]
      <3>1. CASE L = 0
        BY <3>1, <2>a, <2>b, <2>c
      <3>2. CASE L # 0
        <4>1. 1 \in 1 .. L /\ L \in 1 .. L
          BY <3>2
        <4> QED
          BY <4>1, <3>2, <2>a, <2>b, <2>c, <2>d
      <3> QED
        BY <3>1, <3>2
    <2>2. ASSUME NEW k \in 1 .. L + 1
          PROVE  irq_next'[raised'[k]] = IF k = L + 1 THEN Null ELSE raised'[k + 1]
      <3>1. CASE k = L + 1
        BY <3>1, <2>a, <2>b
      <3>2. CASE k = L
        <4>1. k \in 1 .. L
          BY <3>2
        <4>2. raised'[k] = raised[L] /\ raised[L] \in Irqs /\ raised[L] # i
              /\ interrupt_rsp_tail = raised[L] /\ k # L + 1
          BY <4>1, <3>2, <2>b, <2>c, <2>d
        <4> QED
          BY <4>2, <3>2, <2>a, <2>b
      <3>3. CASE k < L
        <4>1. k \in 1 .. L /\ k + 1 \in 1 .. L /\ L \in 1 .. L /\ k # L
          BY <3>3
        <4>2. /\ raised'[k] = raised[k] /\ raised'[k + 1] = raised[k + 1]
              /\ raised[k] \in Irqs /\ raised[k] # i
              /\ raised[k] # interrupt_rsp_tail
              /\ irq_next[raised[k]] = raised[k + 1]
          BY <4>1, <2>b, <2>c, <2>d
        <4> QED
          BY <4>2, <3>3, <2>a
      <3> QED
        BY <3>1, <3>2, <3>3
    <2>3. irq_busy' = {raised'[k] : k \in 1 .. L + 1}
      <3>1. \A k \in 1 .. L + 1 : k \in 1 .. L \/ k = L + 1
        OBVIOUS
      <3>2. \A k \in 1 .. L : k \in 1 .. L + 1
        OBVIOUS
      <3>3. L + 1 \in 1 .. L + 1
        OBVIOUS
      <3> QED
        BY <3>1, <3>2, <3>3, <2>a, <2>b, <2>c
    <2>4. ASSUME NEW j \in 1 .. L + 1, NEW k \in 1 .. L + 1,
                 raised'[j] = raised'[k]
          PROVE  j = k
      BY <2>4, <2>b, <2>c, <2>d
    <2>5. irq_next' \in [Irqs -> Irqs \cup {Null}]
      BY <2>a DEF IrqInv
    <2>6. L + 1 # 0 /\ interrupt_rsp_tail' = raised'[L + 1]
      BY <2>a, <2>b
    <2>7. IrqListSound'
      BY <2>1, <2>2, <2>3, <2>4, <2>6, <2>b DEF IrqListSound
    <2> QED
      BY <2>5, <2>7, <2>b DEF IrqInv
  <1> QED
    BY <1>1, <1>2

\* Every step keeps the list of interrupts.
LEMMA IrqStep ==
    ASSUME IrqInv, [Next]_vars
    PROVE  IrqInv'
  <1>1. ASSUME UNCHANGED irq
        PROVE  IrqInv'
    BY <1>1 DEF irq, IrqInv, IrqListSound
  <1>2. CASE App \/ Receive \/ Killed \/ UNCHANGED vars
    BY <1>2, <1>1 DEF App, RdWatcher, WrWatcher, NewMmio, AskReset, Receive,
                      CompleteWrites, ReceiveRead, PollReads, SplitCpl, Killed,
                      vars
  <1>3. CASE ResetCycle \/ LowerReset
    BY <1>3, <1>1 DEF ResetCycle, LowerReset
  <1>4. CASE StartChannels \/ H2aNothing \/ H2aMem \/ H2aCpld \/ H2aRefuse
    BY <1>4, <1>1 DEF StartChannels, H2aNothing, H2aMem, H2aCpld, H2aRefuse
  <1>5. CASE IrqNothing \/ A2hNothing \/ A2hRead \/ Tready
    BY <1>5, <1>1 DEF IrqNothing, A2hNothing, A2hRead, Tready
  <1>6. CASE A2hWrite
    <2>1. PICK left : WriteBeat(left)
      BY <1>6 DEF A2hWrite
    <2> QED
      BY <2>1, <1>1 DEF WriteBeat
  <1>7. CASE A2hCpld
    <2>1. PICK id, left : CpldBeat(id, left)
      BY <1>7 DEF A2hCpld
    <2> QED
      BY <2>1, <1>1 DEF CpldBeat
  <1> QED
    BY <1>2, <1>3, <1>4, <1>5, <1>6, <1>7, IrqRspKeeps, A2hIrqKeeps
    DEF Next, Clock, HostToAfu, AfuToHost

\* The list of interrupts in every reachable state.
LEMMA IrqInvariance == Spec => []IrqInv
  <1>1. ASSUME Init
        PROVE  IrqInv
    <2>1. 0 \in Irqs
      BY SizeAssumption DEF Irqs
    <2> QED
      BY <1>1, <2>1 DEF Init, IrqInv, IrqListSound
  <1> QED
    BY <1>1, IrqStep, PTL DEF Spec

\* For any number of interrupt ids, the list linked through
\* interrupt_state[].next is the list of the unanswered interrupts in the order
\* in which they were raised, resets included (pcie_tlp_a2h_interrupt,
\* pcie_host_to_afu_irq_rsp).
THEOREM InterruptListSound == Spec => []IrqListSound
  <1>1. IrqInv => IrqListSound
    BY DEF IrqInv
  <1> QED
    BY <1>1, IrqInvariance, PTL

-----------------------------------------------------------------------------
(* MMIO requests. *)

Held(id) == \/ \E k \in 1 .. Len(mmio_req) : mmio_req[k] = id
            \/ id \in mmio_read_state

\* No read of the application meets a busy slot: a read that the emulator holds
\* has no answer yet, so its line is not free.
LEMMA NewMmioAccepted ==
    ASSUME MmioInv, NewMmio
    PROVE  err' = err
  <1>1. PICK m \in MmioReqs :
          LineFree(m.slot) /\ err' = IF SlotError(m) THEN "mmio_slot" ELSE err
    BY DEF NewMmio
  <1>2. m.slot \in 0 .. MaxMmioRd - 1 /\ MaxMmioRd \in Nat
    BY ReqAssumption, SizeAssumption
  <1>3. ~(m.slot >= MaxMmioRd)
    BY <1>2
  <1>4. ASSUME NEW id \in mmio_read_state
        PROVE  mmio[id].slot # m.slot
    <2>1. id \in 1 .. Len(mmio) /\ answers[id] = 0
      BY <1>4 DEF MmioInv, MmioAnsweredOnce
    <2> QED
      BY <2>1, <1>1 DEF LineFree
  <1> QED
    BY <1>1, <1>3, <1>4 DEF SlotError

\* A request of the host is entered, or answered at once (pcie_mmio_new_req).
LEMMA NewMmioKeeps ==
    ASSUME OpsInv, MmioInv, NewMmio
    PROVE  MmioInv'
  <1>a. PICK L \in Nat, Q \in Nat : L = Len(mmio) /\ Q = Len(mmio_req)
    BY LenProperties DEF OpsInv, MmioInv
  <1>b. PICK id \in Nat : id = L + 1
    BY <1>a
  <1>c. PICK m \in MmioReqs :
          /\ mmio' = Append(mmio, m)
          /\ answers' = Append(answers, IF m.kind = "foreign" THEN 1 ELSE 0)
          /\ mmio_req' = IF ForThisAfu(m) THEN Append(mmio_req, id)
                         ELSE mmio_req
          /\ mmio_read_state' = IF m.kind = "read" THEN mmio_read_state \cup {id}
                                ELSE mmio_read_state
    BY <1>a, <1>b DEF NewMmio
  <1>d. UNCHANGED <<afu_mmio, afu_to_host_state, tx>>
    BY DEF NewMmio, fsm, afu_todo, afu_tx
  <1>e. /\ Len(mmio') = id /\ mmio'[id] = m
        /\ \A i \in 1 .. L : mmio'[i] = mmio[i]
    BY <1>a, <1>b, <1>c DEF OpsInv
  <1>f. /\ answers' \in Seq(Nat) /\ Len(answers') = id
        /\ answers'[id] = IF m.kind = "foreign" THEN 1 ELSE 0
        /\ \A i \in 1 .. L : answers'[i] = answers[i]
    <2>1. PICK a \in Nat : a = IF m.kind = "foreign" THEN 1 ELSE 0
      OBVIOUS
    <2> QED
      BY <2>1, <1>a, <1>b, <1>c DEF MmioInv
  <1>g. /\ mmio_req' \in Seq(Nat)
        /\ ~ForThisAfu(m) => mmio_req' = mmio_req
        /\ ForThisAfu(m) => /\ Len(mmio_req') = Q + 1
                                 /\ mmio_req'[Q + 1] = id
                                 /\ \A k \in 1 .. Q : mmio_req'[k] = mmio_req[k]
    BY <1>a, <1>b, <1>c DEF MmioInv
  <1>h. \A k \in 1 .. Q : mmio_req[k] \in 1 .. L /\ mmio_req[k] # id
    BY <1>a, <1>b DEF MmioInv
  <1>i. \A i \in mmio_read_state : i \in 1 .. L /\ i # id
    BY <1>a, <1>b DEF MmioInv
  <1>j. \A k \in 1 .. Len(mmio_req') :
          \/ k \in 1 .. Q /\ mmio_req'[k] = mmio_req[k]
          \/ k = Q + 1 /\ mmio_req'[k] = id /\ ForThisAfu(m)
    BY <1>a, <1>g
  <1>1. ASSUME NEW k \in 1 .. Len(mmio_req')
        PROVE  /\ mmio_req'[k] \in 1 .. id
               /\ ForThisAfu(mmio'[mmio_req'[k]])
               /\ mmio'[mmio_req'[k]].kind = "read" => mmio_req'[k] \in mmio_read_state'
               /\ mmio_req'[k] \notin afu_mmio'
    <2>1. CASE k \in 1 .. Q /\ mmio_req'[k] = mmio_req[k]
      <3>1. /\ ForThisAfu(mmio[mmio_req[k]])
            /\ mmio[mmio_req[k]].kind = "read" => mmio_req[k] \in mmio_read_state
            /\ mmio_req[k] \notin afu_mmio
        BY <2>1, <1>a DEF MmioInv
      <3>2. mmio_req[k] \in 1 .. L /\ mmio_req[k] \in 1 .. id
        BY <2>1, <1>b, <1>h
      <3> QED
        BY <3>1, <3>2, <2>1, <1>c, <1>d, <1>e
    <2>2. CASE mmio_req'[k] = id /\ ForThisAfu(m)
      <3>1. id \in 1 .. id
        BY <1>b
      <3>2. id \notin afu_mmio
        BY <1>i DEF MmioInv
      <3>3. m.kind = "read" => id \in mmio_read_state'
        BY <1>c
      <3> QED
        BY <3>1, <3>2, <3>3, <2>2, <1>d, <1>e
    <2> QED
      BY <2>1, <2>2, <1>j
  <1>2. ASSUME NEW j \in 1 .. Len(mmio_req'), NEW k \in 1 .. Len(mmio_req'), j < k
        PROVE  mmio_req'[j] < mmio_req'[k]
    <2>1. CASE k \in 1 .. Q
      <3>1. j \in 1 .. Q /\ j # Q + 1 /\ k # Q + 1
        BY <1>2, <2>1
      <3>2. mmio_req[j] < mmio_req[k]
        BY <3>1, <2>1, <1>2, <1>a DEF MmioInv
      <3> QED
        BY <3>1, <3>2, <1>j
    <2>2. CASE k = Q + 1
      <3>1. j \in 1 .. Q /\ j # Q + 1 /\ k \notin 1 .. Q
        BY <1>2, <2>2
      <3>2. mmio_req'[j] = mmio_req[j] /\ mmio_req'[k] = id
        BY <3>1, <1>j
      <3> QED
        BY <3>1, <3>2, <1>b, <1>h
    <2> QED
      BY <2>1, <2>2, <1>j
  <1>3. ASSUME NEW i \in mmio_read_state'
        PROVE  i \in 1 .. id /\ mmio'[i].kind = "read"
    <2>1. CASE i \in mmio_read_state
      BY <2>1, <1>a, <1>b, <1>e, <1>i DEF MmioInv
    <2>2. CASE i = id /\ m.kind = "read"
      BY <2>2, <1>b, <1>e
    <2> QED
      BY <2>1, <2>2, <1>c
  <1>4. afu_mmio' \subseteq mmio_read_state' /\ (afu_to_host_state' = "CPL" => tx'.id \in afu_mmio')
    BY <1>c, <1>d DEF MmioInv
  <1>5. ASSUME NEW i \in 1 .. id
        PROVE  answers'[i] = IF Held(i)' \/ mmio'[i].kind = "dropped" THEN 0 ELSE 1
    <2>1. CASE i \in 1 .. L
      <3>1. i # id
        BY <2>1, <1>b
      <3>2. (\E k \in 1 .. Len(mmio_req') : mmio_req'[k] = i)
              <=> \E k \in 1 .. Q : mmio_req[k] = i
        <4>1. CASE ~ForThisAfu(m)
          BY <4>1, <1>a, <1>g
        <4>2. CASE ForThisAfu(m)
          <5>1. \A k \in 1 .. Q : k \in 1 .. Len(mmio_req')
            BY <4>2, <1>g
          <5> QED
            BY <5>1, <4>2, <3>1, <1>g, <1>j
        <4> QED
          BY <4>1, <4>2
      <3>3. i \in mmio_read_state' <=> i \in mmio_read_state
        BY <3>1, <1>c
      <3>4. answers[i] = IF Held(i) \/ mmio[i].kind = "dropped" THEN 0 ELSE 1
        BY <2>1, <1>a DEF MmioInv, MmioAnsweredOnce, Held
      <3> QED
        BY <3>2, <3>3, <3>4, <2>1, <1>a, <1>e, <1>f DEF Held
    <2>2. CASE i = id
      <3>1. CASE ~ForThisAfu(m)
        <4>1. ~Held(i)' /\ m.kind \in {"foreign", "dropped"}
          <5>1. m.kind \in {"read", "write", "foreign", "dropped"}
            BY ReqAssumption
          <5>2. m.kind # "read"
            BY <3>1 DEF ForThisAfu
          <5>3. ~Held(i)'
            BY <3>1, <5>2, <2>2, <1>a, <1>c, <1>g, <1>h, <1>i DEF Held
          <5> QED
            BY <5>1, <5>3, <3>1 DEF ForThisAfu
        <4> QED
          BY <4>1, <2>2, <1>e, <1>f
      <3>2. CASE ForThisAfu(m)
        <4>1. Q + 1 \in 1 .. Len(mmio_req') /\ mmio_req'[Q + 1] = i
          BY <3>2, <2>2, <1>g
        <4>2. Held(i)'
          BY <4>1 DEF Held
        <4> QED
          BY <4>2, <3>2, <2>2, <1>f DEF ForThisAfu
      <3> QED
        BY <3>1, <3>2
    <2> QED
      BY <2>1, <2>2, <1>b
  <1>6. MmioAnsweredOnce'
    BY <1>5, <1>e DEF MmioAnsweredOnce, Held
  <1> QED
    BY <1>1, <1>2, <1>3, <1>4, <1>6, <1>e, <1>f, <1>g DEF MmioInv

\* A beat of a request leaves it at the head of the list; with the last one it
\* is answered, or is with the AFU (pcie_tlp_h2a_mem).
LEMMA H2aMemKeeps ==
    ASSUME OpsInv, MmioInv, H2aMem
    PROVE  MmioInv'
  <1>a. PICK Q \in Nat : Q = Len(mmio_req)
    BY LenProperties DEF MmioInv
  <1>b. /\ mmio_req \in Seq(Nat) /\ mmio_req # << >> /\ Q > 0
        /\ Head(mmio_req) = mmio_req[1] /\ 1 \in 1 .. Q
    BY <1>a, EmptySeq DEF MmioInv, H2aMem
  <1>c. PICK id : id = mmio_req[1]
    OBVIOUS
  <1>d. /\ id \in 1 .. Len(mmio) /\ ForThisAfu(mmio[id])
        /\ mmio[id].kind = "read" => id \in mmio_read_state
        /\ id \notin afu_mmio
    BY <1>a, <1>b, <1>c DEF MmioInv
  <1>e. PICK last \in BOOLEAN :
          /\ mmio_req' = IF last THEN Tail(mmio_req) ELSE mmio_req
          /\ IF mmio[id].kind = "write" /\ last THEN Answer(id) ELSE UNCHANGED answers
          /\ afu_mmio' = IF mmio[id].kind = "read" THEN afu_mmio \cup {id}
                                                   ELSE afu_mmio
          /\ mmio[id].kind = "read" => last
    <2>1. 0 <= BeatDw
      BY SizeAssumption
    <2>2. PICK last \in BOOLEAN :
            last <=> (IF mmio[id].kind = "read" THEN 0
                      ELSE IF mmio_req_dw_rem = 0 THEN mmio[id].len
                      ELSE mmio_req_dw_rem) <= BeatDw
      OBVIOUS
    <2>3. mmio[id].kind = "read" => last
      BY <2>1, <2>2
    <2> QED
      BY <2>2, <2>3, <1>b, <1>c DEF H2aMem, Answers
  <1>f. UNCHANGED <<mmio, mmio_read_state, afu_to_host_state, tx>>
    BY DEF H2aMem, afu_tx
  <1>g. mmio[id] \in MmioReqs /\ mmio[id].kind \in {"read", "write"}
    <2>1. mmio[id] \in MmioReqs
      BY <1>d DEF OpsInv
    <2>2. mmio[id].kind \in {"read", "write", "foreign", "dropped"}
      BY <2>1, ReqAssumption
    <2> QED
      BY <2>1, <2>2, <1>d DEF ForThisAfu
  <1>h. /\ answers \in Seq(Nat) /\ Len(answers) = Len(mmio)
        /\ id \in 1 .. Len(answers) /\ answers[id] = 0
    <2>1. Held(id)
      BY <1>a, <1>b, <1>c DEF Held
    <2> QED
      BY <2>1, <1>d DEF MmioInv, MmioAnsweredOnce, Held
  <1>1. CASE ~last
    <2>1. UNCHANGED <<mmio_req, answers, afu_mmio>>
      BY <1>1, <1>e
    <2> QED
      BY <2>1, <1>f DEF MmioInv, MmioAnsweredOnce
  <1>2. CASE last
    <2>a. /\ mmio_req' \in Seq(Nat) /\ Len(mmio_req') = Q - 1
          /\ \A k \in 1 .. Q - 1 : mmio_req'[k] = mmio_req[k + 1]
      BY <1>2, <1>a, <1>b, <1>e
    <2>b. \A k \in 1 .. Q - 1 : k + 1 \in 1 .. Q /\ mmio_req[1] < mmio_req[k + 1]
      BY <1>a, <1>b DEF MmioInv
    <2>c. \A k \in 1 .. Q - 1 : mmio_req'[k] # id
      <3> SUFFICES ASSUME NEW k \in 1 .. Q - 1
                   PROVE  mmio_req'[k] # id
        OBVIOUS
      <3>1. mmio_req[1] \in Nat /\ mmio_req[k + 1] \in Nat
        BY <1>a, <1>b, <2>b
      <3>2. id < mmio_req'[k]
        BY <2>a, <2>b, <1>c
      <3> QED
        BY <3>1, <3>2, <2>a, <1>c
    <2>d. /\ answers' \in Seq(Nat) /\ Len(answers') = Len(answers)
          /\ answers'[id] = IF mmio[id].kind = "write" THEN 1 ELSE 0
          /\ \A i \in 1 .. Len(answers) : i # id => answers'[i] = answers[i]
      <3>1. CASE mmio[id].kind = "write"
        <4>1. answers' = [answers EXCEPT ![id] = 1]
          BY <3>1, <1>2, <1>e, <1>h DEF Answer
        <4> QED
          BY <4>1, <3>1, <1>h
      <3>2. CASE mmio[id].kind # "write"
        BY <3>2, <1>e, <1>h
      <3> QED
        BY <3>1, <3>2
    <2>1. ASSUME NEW k \in 1 .. Q - 1
          PROVE  /\ mmio_req'[k] \in 1 .. Len(mmio')
                 /\ ForThisAfu(mmio'[mmio_req'[k]])
                 /\ mmio'[mmio_req'[k]].kind = "read" =>
                      mmio_req'[k] \in mmio_read_state'
                 /\ mmio_req'[k] \notin afu_mmio'
      <3>1. PICK j \in 1 .. Len(mmio_req) : j = k + 1 /\ mmio_req'[k] = mmio_req[j]
        BY <2>a, <2>b, <1>a
      <3>2. /\ mmio_req[j] \in 1 .. Len(mmio)
            /\ ForThisAfu(mmio[mmio_req[j]])
            /\ mmio[mmio_req[j]].kind = "read" => mmio_req[j] \in mmio_read_state
            /\ mmio_req[j] \notin afu_mmio
        BY DEF MmioInv
      <3>3. mmio_req[j] # id
        BY <3>1, <2>c
      <3>4. mmio_req[j] \notin afu_mmio'
        BY <3>2, <3>3, <1>e
      <3> QED
        BY <3>1, <3>2, <3>4, <1>f
    <2>2. ASSUME NEW j \in 1 .. Q - 1, NEW k \in 1 .. Q - 1, j < k
          PROVE  mmio_req'[j] < mmio_req'[k]
      <3>1. j + 1 \in 1 .. Len(mmio_req) /\ k + 1 \in 1 .. Len(mmio_req) /\ j + 1 < k + 1
        BY <2>2, <1>a
      <3>2. mmio_req[j + 1] < mmio_req[k + 1]
        BY <3>1 DEF MmioInv
      <3> QED
        BY <3>2, <2>a
    <2>3. afu_mmio' \subseteq mmio_read_state'
          /\ (afu_to_host_state' = "CPL" => tx'.id \in afu_mmio')
      BY <1>d, <1>e, <1>f DEF MmioInv
    <2>4. ASSUME NEW i \in 1 .. Len(mmio)
          PROVE  answers'[i] = IF Held(i)' \/ mmio[i].kind = "dropped" THEN 0 ELSE 1
      <3>1. CASE i = id
        <4>1. Held(i)' <=> id \in mmio_read_state
          BY <3>1, <2>a, <2>c, <1>f DEF Held
        <4>2. id \in mmio_read_state <=> mmio[id].kind = "read"
          BY <1>d DEF MmioInv
        <4> QED
          BY <3>1, <4>1, <4>2, <2>d, <1>g
      <3>2. CASE i # id
        <4>1. Held(i)' <=> Held(i)
          <5>1. ASSUME NEW k \in 1 .. Q, mmio_req[k] = i
                PROVE  \E j \in 1 .. Q - 1 : mmio_req'[j] = i
            <6>1. k # 1
              BY <5>1, <3>2, <1>c
            <6>2. k - 1 \in 1 .. Q - 1 /\ (k - 1) + 1 = k
              BY <6>1
            <6>3. mmio_req'[k - 1] = i
              BY <6>2, <5>1, <2>a
            <6> QED
              BY <6>2, <6>3
          <5>2. ASSUME NEW j \in 1 .. Q - 1, mmio_req'[j] = i
                PROVE  \E k \in 1 .. Q : mmio_req[k] = i
            BY <5>2, <2>a, <2>b
          <5> QED
            BY <5>1, <5>2, <2>a, <1>a, <1>f DEF Held
        <4>2. answers[i] = IF Held(i) \/ mmio[i].kind = "dropped" THEN 0 ELSE 1
          BY DEF MmioInv, MmioAnsweredOnce, Held
        <4> QED
          BY <4>1, <4>2, <3>2, <2>d, <1>h
      <3> QED
        BY <3>1, <3>2
    <2>5. MmioAnsweredOnce'
      BY <2>4, <1>f DEF MmioAnsweredOnce, Held
    <2>6. /\ Len(mmio') = Len(answers') /\ answers' \in Seq(Nat)
          /\ \A i \in mmio_read_state' :
               i \in 1 .. Len(mmio') /\ mmio'[i].kind = "read"
      BY <2>d, <1>f, <1>h DEF MmioInv
    <2> QED
      BY <2>1, <2>2, <2>3, <2>5, <2>6, <2>a DEF MmioInv
  <1> QED
    BY <1>1, <1>2

\* The AFU completes a read that it has: the entry is active and the answer the
\* first (pcie_tlp_a2h_cpld).
LEMMA A2hCpldKeeps ==
    ASSUME OpsInv, MmioInv, A2hCpld
    PROVE  MmioInv' /\ err' = err
  <1>a. PICK id, left : id \in afu_mmio /\ CpldBeat(id, left)
    BY DEF A2hCpld, MmioInv
  <1>b. /\ id \in mmio_read_state /\ id \in 1 .. Len(mmio)
        /\ mmio[id].kind = "read" /\ err = "none"
    BY <1>a DEF MmioInv, A2hCpld, Running
  <1>c. UNCHANGED <<mmio, mmio_req>>
    BY <1>a DEF CpldBeat
  <1>d. \A k \in 1 .. Len(mmio_req) : mmio_req[k] # id
    BY <1>a DEF MmioInv
  <1>e. /\ answers \in Seq(Nat) /\ Len(answers) = Len(mmio)
        /\ id \in 1 .. Len(answers) /\ answers[id] = 0
    <2>1. Held(id)
      BY <1>b DEF Held
    <2> QED
      BY <2>1, <1>b DEF MmioInv, MmioAnsweredOnce, Held
  <1>1. CASE left <= BeatDw
    <2>1. /\ err' = "none" /\ mmio_read_state' = mmio_read_state \ {id}
          /\ Answer(id) /\ afu_mmio' = afu_mmio \ {id}
          /\ afu_to_host_state' = "NONE"
      BY <1>1, <1>a, <1>b DEF CpldBeat, TxBeat
    <2>2. /\ answers' \in Seq(Nat) /\ Len(answers') = Len(answers)
          /\ answers'[id] = 1
          /\ \A i \in 1 .. Len(answers) : i # id => answers'[i] = answers[i]
      <3>1. answers' = [answers EXCEPT ![id] = 1]
        BY <2>1, <1>e DEF Answer
      <3> QED
        BY <3>1, <1>e
    <2>3. ASSUME NEW i \in 1 .. Len(mmio)
          PROVE  answers'[i] = IF Held(i)' \/ mmio[i].kind = "dropped" THEN 0 ELSE 1
      <3>1. CASE i = id
        <4>1. ~Held(i)'
          BY <3>1, <2>1, <1>c, <1>d DEF Held
        <4> QED
          BY <4>1, <3>1, <2>2, <1>b, <1>c
      <3>2. CASE i # id
        <4>1. Held(i)' <=> Held(i)
          BY <3>2, <2>1, <1>c DEF Held
        <4>2. answers[i] = IF Held(i) \/ mmio[i].kind = "dropped" THEN 0 ELSE 1
          BY DEF MmioInv, MmioAnsweredOnce, Held
        <4> QED
          BY <4>1, <4>2, <3>2, <2>2, <1>e
      <3> QED
        BY <3>1, <3>2
    <2>4. MmioAnsweredOnce'
      BY <2>3, <1>c DEF MmioAnsweredOnce, Held
    <2>5. \A k \in 1 .. Len(mmio_req) :
            mmio[mmio_req[k]].kind = "read" => mmio_req[k] \in mmio_read_state'
      BY <2>1, <1>d DEF MmioInv
    <2>6. afu_mmio' \subseteq mmio_read_state'
      BY <2>1 DEF MmioInv
    <2> QED
      BY <2>1, <2>2, <2>4, <2>5, <2>6, <1>b, <1>c DEF MmioInv
  <1>2. CASE ~(left <= BeatDw)
    <2>1. UNCHANGED <<err, mmio_read_state, answers, afu_mmio>>
          /\ tx' = [kind |-> "cpld", id |-> id, left |-> left - BeatDw]
      BY <1>2, <1>a DEF CpldBeat, TxBeat
    <2>2. tx'.id = id
      BY <2>1
    <2> QED
      BY <2>1, <2>2, <1>a, <1>c DEF MmioInv, MmioAnsweredOnce
  <1> QED
    BY <1>1, <1>2

\* Every step keeps the MMIO requests in order.
LEMMA MmioStep ==
    ASSUME OpsInv, MmioInv, [Next]_vars
    PROVE  MmioInv'
  <1> USE DEF mmios, fsm, afu_tx, afu_todo
  <1>1. ASSUME UNCHANGED <<mmio, answers, mmio_req, mmio_read_state, afu_mmio>>,
               \/ UNCHANGED <<afu_to_host_state, tx>>
               \/ afu_to_host_state' # "CPL"
        PROVE  MmioInv'
    BY <1>1 DEF MmioInv, MmioAnsweredOnce
  <1>2. CASE RdWatcher \/ WrWatcher \/ AskReset
    BY <1>2, <1>1 DEF RdWatcher, WrWatcher, AskReset
  <1>3. CASE CompleteWrites \/ ReceiveRead \/ SplitCpl
    BY <1>3, <1>1 DEF CompleteWrites, ReceiveRead, SplitCpl
  <1>4. CASE ResetCycle
    <2>1. /\ UNCHANGED <<mmio, answers, mmio_req, mmio_read_state>>
          /\ afu_mmio' = {} /\ afu_to_host_state' = "NONE"
      BY <1>4 DEF ResetCycle
    <2> QED
      BY <2>1 DEF MmioInv, MmioAnsweredOnce
  <1>5. CASE LowerReset \/ StartChannels
    BY <1>5, <1>1 DEF LowerReset, StartChannels
  <1>6. CASE H2aNothing \/ H2aCpld \/ H2aRefuse
    BY <1>6, <1>1 DEF H2aNothing, H2aCpld, H2aRefuse
  <1>7. CASE IrqRsp \/ IrqNothing \/ A2hNothing \/ Tready
    BY <1>7, <1>1 DEF IrqRsp, IrqNothing, A2hNothing, Tready
  <1>8. CASE A2hIrq \/ A2hRead
    BY <1>8, <1>1 DEF A2hIrq, A2hRead
  <1>9. CASE A2hWrite
    <2>1. PICK left : WriteBeat(left)
      BY <1>9 DEF A2hWrite
    <2> QED
      BY <2>1, <1>1 DEF WriteBeat, TxBeat
  <1>10. CASE PollReads \/ Killed \/ UNCHANGED vars
    BY <1>10, <1>1 DEF PollReads, Killed, vars
  <1> QED
    BY <1>2, <1>3, <1>4, <1>5, <1>6, <1>7, <1>8, <1>9, <1>10,
       NewMmioKeeps, H2aMemKeeps, A2hCpldKeeps
    DEF Next, App, Clock, Receive, HostToAfu, AfuToHost

\* The MMIO requests in every reachable state.
LEMMA MmioInvariance == Spec => []MmioInv
  <1>1. Init => MmioInv
    BY DEF Init, MmioInv, MmioAnsweredOnce
  <1> QED
    BY <1>1, MmioStep, OpsInvariance, PTL DEF Spec

\* However reads, writes and requests of other AFUs are mixed, and whatever a
\* reset cuts off, the application gets one answer for each request that the
\* emulator has finished, and none before (pcie_mmio_new_req, pcie_tlp_h2a_mem,
\* pcie_tlp_a2h_cpld).
THEOREM MmioAnswers == Spec => []MmioAnsweredOnce
  <1>1. MmioInv => MmioAnsweredOnce
    BY DEF MmioInv
  <1> QED
    BY <1>1, MmioInvariance, PTL

-----------------------------------------------------------------------------
(* The places of a read. *)

\* The list after push_new_read_cpl has put e behind its first p.
InsertAfter(s, p, e) ==
    SubSeq(s, 1, p) \o <<e>> \o SubSeq(s, p + 1, Len(s))

\* InsertAfter puts its element behind the first p.
LEMMA InsertProps ==
    ASSUME NEW s \in Seq(Cpls), NEW e \in Cpls, NEW p \in 0 .. Len(s)
    PROVE  /\ InsertAfter(s, p, e) \in Seq(Cpls)
           /\ Len(InsertAfter(s, p, e)) = Len(s) + 1
           /\ \A i \in 1 .. p : InsertAfter(s, p, e)[i] = s[i]
           /\ InsertAfter(s, p, e)[p + 1] = e
           /\ \A i \in p + 2 .. Len(s) + 1 :
                InsertAfter(s, p, e)[i] = s[i - 1]
  <1> DEFINE r == InsertAfter(s, p, e)
  <1>a. Len(s) \in Nat /\ p \in Nat /\ p <= Len(s)
    BY LenProperties
  <1> DEFINE x == SubSeq(s, 1, p)
             y == SubSeq(s, p + 1, Len(s))
  <1>1. x \in Seq(Cpls) /\ Len(x) = p /\ \A i \in 1 .. p : x[i] = s[i]
    BY <1>a
  <1>2. /\ y \in Seq(Cpls) /\ Len(y) = Len(s) - p
        /\ \A i \in 1 .. Len(s) - p : y[i] = s[p + i]
    BY <1>a
  <1>3. /\ x \o <<e>> \in Seq(Cpls) /\ Len(x \o <<e>>) = p + 1
        /\ \A i \in 1 .. p : (x \o <<e>>)[i] = s[i]
        /\ (x \o <<e>>)[p + 1] = e
    <2> HIDE DEF x
    <2> QED
      BY <1>1, <1>a
  <1> DEFINE z == x \o <<e>>
  <1>4. r = z \o y
    BY DEF InsertAfter
  <1> HIDE DEF r
  <1>5. \A i \in p + 2 .. Len(s) + 1 : r[i] = y[i - (p + 1)]
    <2> HIDE DEF x, y
    <2> QED
      BY <1>1, <1>2, <1>3, <1>4, <1>a
  <1>6. ASSUME NEW i \in p + 2 .. Len(s) + 1
        PROVE  r[i] = s[i - 1]
    <2>1. i - (p + 1) \in 1 .. Len(s) - p /\ p + (i - (p + 1)) = i - 1
      BY <1>a
    <2> HIDE DEF y
    <2> QED
      BY <2>1, <1>5, <1>2
  <1>7. /\ r \in Seq(Cpls) /\ Len(r) = Len(s) + 1
        /\ \A i \in 1 .. p + 1 : r[i] = z[i]
    <2> HIDE DEF x, y
    <2>1. z \in Seq(Cpls) /\ Len(z) = p + 1
      BY <1>3
    <2>2. y \in Seq(Cpls) /\ Len(y) = Len(s) - p
      BY <1>2
    <2> HIDE DEF z
    <2>3. /\ r \in Seq(Cpls) /\ Len(r) = Len(z) + Len(y)
          /\ \A i \in 1 .. Len(z) + Len(y) :
               r[i] = IF i <= Len(z) THEN z[i] ELSE y[i - Len(z)]
      BY ONLY <1>4, <2>1, <2>2, ConcatProperties
    <2>4. Len(z) + Len(y) = Len(s) + 1 /\ p + 1 <= Len(s) + 1 /\ p + 1 \in Nat
      BY ONLY <2>1, <2>2, <1>a
    <2>5. \A i \in 1 .. p + 1 : i \in 1 .. Len(z) + Len(y) /\ i <= Len(z)
      BY ONLY <2>1, <2>4, <1>a
    <2> QED
      BY ONLY <2>3, <2>4, <2>5
  <1>8. /\ \A i \in 1 .. p : r[i] = s[i]
        /\ r[p + 1] = e
    <2> HIDE DEF x, y
    <2>1. (\A i \in 1 .. p : z[i] = s[i]) /\ z[p + 1] = e
      BY <1>3
    <2> HIDE DEF z
    <2>2. p + 1 \in 1 .. p + 1 /\ \A i \in 1 .. p : i \in 1 .. p + 1
      BY ONLY <1>a
    <2>3. \A i \in 1 .. p + 1 : r[i] = z[i]
      BY <1>7
    <2> QED
      BY ONLY <2>1, <2>2, <2>3
  <1>9. \A i \in p + 2 .. Len(s) + 1 : r[i] = s[i - 1]
    BY <1>6
  <1> HIDE DEF x, y, z
  <1> QED
    BY <1>7, <1>8, <1>9 DEF r

\* A completion brings at least one word and no more than remain.
LEMMA CplLengthRange ==
    ASSUME NEW rem \in Nat \ {0}, NEW len \in random_cpl_length(rem)
    PROVE  len \in 1 .. rem
  <1>1. CASE len = rem
    BY <1>1
  <1>2. CASE len # rem
    <2>1. PICK k \in 1 .. MaxChunks : len = Smaller(rem, k * RcbDw)
      BY <1>2 DEF random_cpl_length
    <2>2. k * RcbDw \in Nat /\ k * RcbDw >= 1
      BY SizeAssumption
    <2> QED
      BY <2>1, <2>2 DEF Smaller
  <1> QED
    BY <1>1, <1>2

\* A completion goes behind the head and behind those of its own request
\* (push_new_read_cpl).
LEMMA CplPositionsRange ==
    ASSUME dma_read_cpl \in Seq(Cpls), NEW t \in Tags, NEW p \in CplPositions(t)
    PROVE  /\ p \in 0 .. Len(dma_read_cpl)
           /\ Len(dma_read_cpl) > 0 => p >= 1
           /\ \A i \in 1 .. Len(dma_read_cpl) :
                dma_read_cpl[i].tag = t => i <= p
  BY LenProperties DEF CplPositions, Smaller

\* The fields of a completion on the list.
LEMMA CplTyped ==
    ASSUME ReadType, NEW i \in 1 .. Len(dma_read_cpl)
    PROVE  /\ dma_read_cpl[i] \in Cpls
           /\ dma_read_cpl[i].tag \in Tags
           /\ dma_read_cpl[i].start \in Nat /\ dma_read_cpl[i].len \in Nat
           /\ dma_read_cpl[i].len > 0 /\ dma_read_cpl[i].is_last \in BOOLEAN
           /\ CplEnd(i) \in Nat /\ CplEnd(i) > dma_read_cpl[i].start
  <1>1. dma_read_cpl[i] \in Cpls
    BY DEF ReadType
  <1> QED
    BY <1>1 DEF Cpls, CplEnd

\* The read of a tag that is in use.
LEMMA OwnerTyped ==
    ASSUME OpsInv, ReadType, Owners, NEW t \in Tags, busy[t]
    PROVE  /\ owner[t] \in 1 .. Len(reqs) /\ owner[t] \in Reads
           /\ reqs[owner[t]] \in ReadReqs
           /\ reqs[owner[t]].len \in Nat /\ reqs[owner[t]].len > 0
  <1>1. owner[t] \in 1 .. Len(reqs)
    BY DEF Owners
  <1>2. owner[t] \in Reads
    <2>1. Len(reqs) \in Nat
      BY LenProperties DEF OpsInv
    <2> QED
      BY <1>1, <2>1, AxisBoundAssumption DEF OpsInv, Reads
  <1>3. reqs[owner[t]] \in ReadReqs
    BY <1>1 DEF OpsInv
  <1> QED
    BY <1>1, <1>2, <1>3, ReqShape

\* A read in the pipes.
LEMMA FlyingTyped ==
    ASSUME ReadType, NEW x \in Flying
    PROVE  /\ x \in PipeMsgs /\ x.tag \in Tags /\ x.n \in Reads
  <1>1. x \in PipeMsgs
    <2>1. CASE \E k \in 1 .. Len(rd_rsp) : x = rd_rsp[k]
      BY <2>1 DEF ReadType
    <2>2. CASE \E k \in 1 .. Len(rd_req) : x = rd_req[k]
      BY <2>2 DEF ReadType
    <2> QED
      BY <2>1, <2>2 DEF Flying
  <1> QED
    BY <1>1 DEF PipeMsgs

\* The invariant holds when the emulator starts (pcie_param_init).
LEMMA ReadInit == Init => ReadInv
  <1> SUFFICES ASSUME Init
               PROVE  ReadInv
    OBVIOUS
  <1>1. 0 \in Tags
    BY SizeAssumption DEF Tags
  <1>2. ReadType
    <2>1. << >> \in Seq(Cpls) /\ << >> \in Seq(PipeMsgs)
      OBVIOUS
    <2>2. /\ busy \in [Tags -> BOOLEAN]
          /\ owner \in [Tags -> {NoRead} \cup Reads]
          /\ read_rsp_data \in [Tags -> {NoRead} \cup Reads]
          /\ got \in [Reads -> Nat]
      BY DEF Init
    <2> QED
      BY <1>1, <2>1, <2>2 DEF Init, ReadType, NoSplit
  <1>3. Flying = {}
    BY DEF Init, Flying
  <1> QED
    BY <1>2, <1>3
    DEF Init, ReadInv, Owners, HalfSent, Fifo, FlyingLive, SplitLive, ListLive,
        NoOverlap, FromNext, NoGap, ToEnd, Unasked, ReadDataCorrect, Splitting

\* A step that touches no read.
Quiet ==
    /\ UNCHANGED <<states, cpls, split, rd_req, rd_rsp, reqs, got>>
    /\ phase' = "split" <=> phase = "split"
    /\ ReadDataCorrect'

\* Such a step preserves the invariant.
LEMMA QuietStep == ReadInv /\ Quiet => ReadInv'
  <1> SUFFICES ASSUME ReadInv, Quiet
               PROVE  ReadInv'
    OBVIOUS
  <1> USE DEF Quiet, ReadInv, states, cpls
  <1>1. ReadType' /\ Owners' /\ HalfSent'
    BY DEF ReadType, Owners, HalfSent
  <1>2. Flying' = Flying
    BY DEF Flying
  <1>3. \A t : Splitting(t)' <=> Splitting(t)
    BY DEF Splitting
  <1>4. \A t : DataStored(t)' <=> DataStored(t)
    BY DEF DataStored
  <1>5. Fifo' /\ FlyingLive'
    BY <1>2, <1>3 DEF Fifo, FlyingLive
  <1>6. SplitLive' /\ ListLive'
    BY <1>4 DEF SplitLive, ListLive, CplEnd
  <1>7. NoOverlap' /\ FromNext' /\ NoGap' /\ ToEnd'
    BY <1>3 DEF NoOverlap, FromNext, NoGap, ToEnd, SameTag, CplEnd, Sent
  <1>8. Unasked'
    BY DEF Unasked
  <1> QED
    BY <1>1, <1>5, <1>6, <1>7, <1>8

\* The read watcher moves a read from one pipe to the other.
LEMMA RdWatcherStep == ReadInv /\ RdWatcher => ReadInv'
  <1> SUFFICES ASSUME ReadInv, RdWatcher
               PROVE  ReadInv'
    OBVIOUS
  <1> USE DEF ReadInv
  <1>a. /\ rd_req \in Seq(PipeMsgs) /\ rd_rsp \in Seq(PipeMsgs)
        /\ rd_req # << >> /\ Len(rd_req) \in Nat /\ Len(rd_rsp) \in Nat
    BY DEF ReadType, RdWatcher
  <1>b. rd_req' = Tail(rd_req) /\ rd_rsp' = Append(rd_rsp, Head(rd_req))
    BY DEF RdWatcher
  <1>c. UNCHANGED <<states, cpls, split, reqs, got, err, phase, afu_err>>
    BY DEF RdWatcher, fsm, afu_tx, afu_rx, clock
  <1>d. /\ Len(rd_req') = Len(rd_req) - 1
        /\ \A k \in 1 .. Len(rd_req) - 1 : rd_req'[k] = rd_req[k + 1]
        /\ Len(rd_rsp') = Len(rd_rsp) + 1
        /\ \A k \in 1 .. Len(rd_rsp) : rd_rsp'[k] = rd_rsp[k]
        /\ rd_rsp'[Len(rd_rsp) + 1] = rd_req[1]
        /\ rd_req' \in Seq(PipeMsgs) /\ rd_rsp' \in Seq(PipeMsgs)
        /\ Len(rd_req) >= 1
    BY <1>a, <1>b
  <1>1. ReadType' /\ Owners' /\ HalfSent'
    BY <1>c, <1>d DEF ReadType, Owners, HalfSent, states, cpls
  <1>2. Flying' = Flying
    <2>1. ASSUME NEW m \in Flying'
          PROVE  m \in Flying
      <3>1. CASE \E k \in 1 .. Len(rd_rsp') : m = rd_rsp'[k]
        <4>1. 1 \in 1 .. Len(rd_req)
          BY <1>a, <1>d
        <4> QED
          BY <3>1, <4>1, <1>a, <1>d DEF Flying
      <3>2. CASE \E k \in 1 .. Len(rd_req') : m = rd_req'[k]
        <4>1. PICK k \in 1 .. Len(rd_req') : m = rd_req'[k]
          BY <3>2
        <4>2. k + 1 \in 1 .. Len(rd_req) /\ m = rd_req[k + 1]
          BY <4>1, <1>a, <1>d
        <4> QED
          BY <4>2 DEF Flying
      <3> QED
        BY <3>1, <3>2 DEF Flying
    <2>2. ASSUME NEW m \in Flying
          PROVE  m \in Flying'
      <3>1. CASE \E k \in 1 .. Len(rd_rsp) : m = rd_rsp[k]
        BY <3>1, <1>a, <1>d DEF Flying
      <3>2. CASE m = rd_req[1]
        <4>1. Len(rd_rsp) + 1 \in 1 .. Len(rd_rsp')
          BY <1>a, <1>d
        <4> QED
          BY <4>1, <3>2, <1>d DEF Flying
      <3>3. CASE \E k \in 2 .. Len(rd_req) : m = rd_req[k]
        <4>1. PICK k \in 2 .. Len(rd_req) : m = rd_req[k]
          BY <3>3
        <4>2. k - 1 \in 1 .. Len(rd_req) - 1 /\ (k - 1) + 1 = k
          BY <1>a
        <4>3. m = rd_req'[k - 1] /\ k - 1 \in 1 .. Len(rd_req')
          BY <4>1, <4>2, <1>d
        <4> QED
          BY <4>3 DEF Flying
      <3> QED
        BY <3>1, <3>2, <3>3, <1>a DEF Flying
    <2> QED
      BY <2>1, <2>2
  <1>3. Fifo'
    <2>1. ASSUME NEW i \in 1 .. Len(rd_req'), NEW j \in 1 .. Len(rd_req'),
                 rd_req'[i].tag = rd_req'[j].tag
          PROVE  i = j
      <3>1. /\ i + 1 \in 1 .. Len(rd_req) /\ j + 1 \in 1 .. Len(rd_req)
            /\ rd_req'[i] = rd_req[i + 1] /\ rd_req'[j] = rd_req[j + 1]
        BY <1>a, <1>d
      <3>2. i + 1 = j + 1
        BY <2>1, <3>1 DEF Fifo
      <3> QED
        BY <3>2, <1>a, <1>d
    <2>2. ASSUME NEW i \in 1 .. Len(rd_rsp), NEW j \in 1 .. Len(rd_req)
          PROVE  rd_rsp[i].tag # rd_req[j].tag
      BY DEF Fifo
    <2>3. 1 \in 1 .. Len(rd_req)
      BY <1>a, <1>d
    <2>4. ASSUME NEW i \in 1 .. Len(rd_rsp'), NEW j \in 1 .. Len(rd_rsp'),
                 rd_rsp'[i].tag = rd_rsp'[j].tag
          PROVE  i = j
      <3>1. CASE i \in 1 .. Len(rd_rsp) /\ j \in 1 .. Len(rd_rsp)
        BY <3>1, <2>4, <1>d DEF Fifo
      <3>2. CASE i = Len(rd_rsp) + 1 /\ j \in 1 .. Len(rd_rsp)
        BY <3>2, <2>2, <2>3, <2>4, <1>d
      <3>3. CASE i \in 1 .. Len(rd_rsp) /\ j = Len(rd_rsp) + 1
        BY <3>3, <2>2, <2>3, <2>4, <1>d
      <3> QED
        BY <3>1, <3>2, <3>3, <1>a, <1>d
    <2>5. ASSUME NEW i \in 1 .. Len(rd_rsp'), NEW j \in 1 .. Len(rd_req')
          PROVE  rd_rsp'[i].tag # rd_req'[j].tag
      <3>0. /\ j \in 1 .. Len(rd_req) - 1 /\ Len(rd_req) \in Nat
            /\ \A k \in 1 .. Len(rd_req) - 1 : rd_req'[k] = rd_req[k + 1]
        BY <1>a, <1>d
      <3>1. j + 1 \in 1 .. Len(rd_req) /\ rd_req'[j] = rd_req[j + 1]
        BY ONLY <3>0
      <3>2. CASE i \in 1 .. Len(rd_rsp)
        BY <3>1, <3>2, <2>2, <1>d
      <3>3. CASE i = Len(rd_rsp) + 1
        <4>1. j \in Nat /\ 1 # j + 1
          BY <1>a, <1>d
        <4> QED
          BY <4>1, <2>3, <3>3, <3>1, <1>d DEF Fifo
      <3> QED
        BY <3>2, <3>3, <1>a, <1>d
    <2> QED
      BY <2>1, <2>4, <2>5 DEF Fifo
  <1>4. FlyingLive' /\ SplitLive' /\ ListLive'
    BY <1>2, <1>c
    DEF FlyingLive, SplitLive, ListLive, Splitting, DataStored, CplEnd, states, cpls
  <1>5. NoOverlap' /\ FromNext' /\ NoGap' /\ ToEnd'
    BY <1>c DEF NoOverlap, FromNext, NoGap, ToEnd, Splitting,
                SameTag, CplEnd, Sent, states, cpls
  <1>6. Unasked' /\ ReadDataCorrect'
    BY <1>c DEF Unasked, ReadDataCorrect
  <1> QED
    BY <1>1, <1>3, <1>4, <1>5, <1>6

\* A response is stored in the buffer of its tag and taken to be cut up
\* (pcie_receive_dma_reads).
LEMMA ReceiveReadStep == OpsInv /\ ReadInv /\ ReceiveRead => ReadInv'
  <1> SUFFICES ASSUME OpsInv, ReadInv, ReceiveRead
               PROVE  ReadInv'
    OBVIOUS
  <1> USE DEF ReadInv
  <1>a. /\ rd_rsp \in Seq(PipeMsgs) /\ rd_rsp # << >>
        /\ Len(rd_rsp) \in Nat /\ Len(rd_rsp) >= 1 /\ Head(rd_rsp) = rd_rsp[1]
    BY EmptySeq, LenProperties DEF ReadType, ReceiveRead
  <1>b. PICK t, n : t = rd_rsp[1].tag /\ n = rd_rsp[1].n
    OBVIOUS
  <1>c. rd_rsp[1] \in Flying /\ rd_rsp[1] \in PipeMsgs
    BY <1>a DEF Flying
  <1>d. /\ busy[t] /\ owner[t] = n /\ got[n] = 0
        /\ \A i \in 1 .. Len(dma_read_cpl) : dma_read_cpl[i].tag # t
    BY <1>b, <1>c DEF FlyingLive
  <1>e. t \in Tags /\ n \in Reads
    BY <1>b, <1>c DEF PipeMsgs
  <1>f. PICK r \in ReadReqs : r = reqs[n] /\ r.len \in Nat /\ r.len > 0
    BY <1>d, <1>e, OwnerTyped
  <1>g. /\ rd_rsp' = Tail(rd_rsp) /\ phase' = "split" /\ phase # "split"
        /\ split' = [tag |-> t, start |-> 0, rem |-> r.len, bytes |-> BytesFrom(r, 0)]
        /\ read_rsp_data' = IF r.first_be = 0 THEN read_rsp_data
                            ELSE [read_rsp_data EXCEPT ![t] = n]
    <2>1. pcie_cpl_byte_count(r.len, r.first_be, r.last_be) = BytesFrom(r, 0)
      BY BytesOfAll
    <2> QED
      BY <2>1, <1>a, <1>b, <1>d, <1>f DEF ReceiveRead, Running
  <1>h. UNCHANGED <<busy, owner, cpls, reqs, got, err, rd_req, afu_err>>
    BY DEF ReceiveRead, afu_tx, afu_rx
  <1>i. /\ Len(rd_rsp') = Len(rd_rsp) - 1 /\ rd_rsp' \in Seq(PipeMsgs)
        /\ \A k \in 1 .. Len(rd_rsp) - 1 : rd_rsp'[k] = rd_rsp[k + 1]
    BY <1>a, <1>g
  <1>j. /\ split'.tag = t /\ split'.start = 0 /\ split'.rem = r.len
        /\ split'.bytes = BytesFrom(r, 0)
        /\ split' \in [tag : Tags, start : Nat, rem : Nat, bytes : Int]
    BY <1>e, <1>f, <1>g, BytesOfAll
  <1>k. \A u : Splitting(u)' <=> u = t
    BY <1>g, <1>j DEF Splitting
  <1>l. \A u : ~Splitting(u)
    BY <1>g DEF Splitting
  <1>m. /\ read_rsp_data' \in [Tags -> {NoRead} \cup Reads]
        /\ \A u \in Tags : u # t => read_rsp_data'[u] = read_rsp_data[u]
        /\ r.first_be # 0 => read_rsp_data'[t] = n
    BY <1>e, <1>g DEF ReadType
  <1>1. ReadType' /\ Owners' /\ HalfSent'
    BY <1>h, <1>i, <1>j, <1>m DEF ReadType, Owners, HalfSent, cpls
  <1>2. ASSUME NEW x \in Flying'
        PROVE  x \in Flying /\ x.tag # t
    <2>1. CASE \E k \in 1 .. Len(rd_rsp') : x = rd_rsp'[k]
      <3>1. PICK k \in 1 .. Len(rd_rsp) - 1 : x = rd_rsp[k + 1]
        BY <2>1, <1>i
      <3>2. k + 1 \in 1 .. Len(rd_rsp) /\ 1 \in 1 .. Len(rd_rsp) /\ 1 # k + 1
        BY <1>a
      <3> QED
        BY <3>1, <3>2, <1>b DEF Fifo, Flying
    <2>2. CASE \E k \in 1 .. Len(rd_req) : x = rd_req[k]
      <3>1. 1 \in 1 .. Len(rd_rsp)
        BY <1>a
      <3> QED
        BY <2>2, <3>1, <1>b DEF Fifo, Flying
    <2> QED
      BY <2>1, <2>2, <1>h DEF Flying
  <1>3. Fifo'
    <2>1. ASSUME NEW i \in 1 .. Len(rd_rsp')
          PROVE  i + 1 \in 1 .. Len(rd_rsp) /\ rd_rsp'[i] = rd_rsp[i + 1]
      BY <1>a, <1>i
    <2>2. ASSUME NEW i \in 1 .. Len(rd_rsp'), NEW j \in 1 .. Len(rd_rsp'),
                 rd_rsp'[i].tag = rd_rsp'[j].tag
          PROVE  i = j
      <3>1. i + 1 = j + 1
        BY <2>1, <2>2 DEF Fifo
      <3> QED
        BY <3>1, <1>a, <1>i
    <2>3. ASSUME NEW i \in 1 .. Len(rd_rsp'), NEW j \in 1 .. Len(rd_req)
          PROVE  rd_rsp'[i].tag # rd_req[j].tag
      BY <2>1 DEF Fifo
    <2> QED
      BY <2>2, <2>3, <1>h DEF Fifo
  <1>4. FlyingLive'
    BY <1>2, <1>h, <1>k DEF FlyingLive, cpls
  <1>5. DataStored(t)'
    BY <1>d, <1>f, <1>h, <1>m DEF DataStored
  <1>6. SplitLive'
    <2>1. 0 + r.len = r.len
      BY <1>f
    <2> QED
      BY <2>1, <1>5, <1>d, <1>f, <1>h, <1>j DEF SplitLive, CplEnd, cpls
  <1>7. ListLive'
    <2>1. ASSUME NEW i \in 1 .. Len(dma_read_cpl)
          PROVE  DataStored(dma_read_cpl[i].tag)'
      <3>1. dma_read_cpl[i].tag \in Tags /\ dma_read_cpl[i].tag # t
        BY <1>d, CplTyped
      <3>2. DataStored(dma_read_cpl[i].tag)
        BY DEF ListLive
      <3> QED
        BY <3>1, <3>2, <1>h, <1>m DEF DataStored, cpls
    <2> QED
      BY <2>1, <1>h DEF ListLive, CplEnd, cpls
  <1>8. NoOverlap' /\ FromNext' /\ NoGap'
    BY <1>h DEF NoOverlap, FromNext, NoGap, SameTag, CplEnd, Sent, cpls
  <1>9. ToEnd'
    BY <1>d, <1>h, <1>k, <1>l DEF ToEnd, SameTag, CplEnd, cpls
  <1>10. Unasked' /\ ReadDataCorrect'
    BY <1>h DEF Unasked, ReadDataCorrect
  <1> QED
    BY <1>1, <1>3, <1>4, <1>6, <1>7, <1>8, <1>9, <1>10

\* Where the k-th completion is after one has been put behind the first p.
Shift(p, k) == IF k <= p THEN k ELSE k + 1

\* A completion of the response that is being cut up is put on the list behind
\* one that is half sent; the assertions on its count of bytes hold
\* (pcie_receive_dma_reads, push_new_read_cpl).
LEMMA SplitCplStep ==
    ASSUME OpsInv, ReadInv, SplitCpl
    PROVE  /\ ReadInv' /\ err' = err
           /\ dma_read_cpl_dw_rem > 0 => dma_read_cpl'[1] = dma_read_cpl[1]
  <1> USE DEF ReadInv
  <1>0. phase = "split" /\ err = "none"
    BY DEF SplitCpl, Running
  <1>a. PICK T \in Tags, S \in Nat, R \in Nat :
          T = split.tag /\ S = split.start /\ R = split.rem
    BY DEF ReadType
  <1>b. /\ busy[T] /\ DataStored(T) /\ R > 0
        /\ S + R = reqs[owner[T]].len
        /\ split.bytes = BytesFrom(reqs[owner[T]], S)
        /\ \A i \in 1 .. Len(dma_read_cpl) :
             dma_read_cpl[i].tag = T => CplEnd(i) <= S
        /\ (\A i \in 1 .. Len(dma_read_cpl) : dma_read_cpl[i].tag # T) =>
             got[owner[T]] = S
    BY <1>0, <1>a DEF SplitLive
  <1>c. PICK r \in ReadReqs : r = reqs[owner[T]] /\ r.len = S + R
    BY <1>b, OwnerTyped
  <1>d. PICK len \in random_cpl_length(R), p \in CplPositions(T) :
          /\ dma_read_cpl' = InsertAfter(dma_read_cpl, p,
               [tag |-> T, start |-> S, len |-> len, byte_count |-> split.bytes,
                is_last |-> (len = R)])
          /\ IF len = R
               THEN /\ split' = NoSplit /\ phase' = "recv"
                    /\ err' = IF split.bytes - pcie_cpl_byte_count(len,
                                   IF S = 0 THEN r.first_be ELSE 15,
                                   IF len = R THEN r.last_be ELSE 15) = 0
                              THEN "none" ELSE "byte_count_rem"
               ELSE /\ split' = [split EXCEPT !.start = @ + len, !.rem = @ - len,
                                   !.bytes = split.bytes - pcie_cpl_byte_count(len,
                                      IF S = 0 THEN r.first_be ELSE 15,
                                      IF len = R THEN r.last_be ELSE 15)]
                    /\ UNCHANGED <<phase, err>>
    BY <1>a, <1>c DEF SplitCpl, InsertAfter
  <1>e. /\ UNCHANGED <<states, dma_read_cpl_dw_rem, reqs, got, rd_req>>
        /\ UNCHANGED <<rd_rsp, afu_err>>
    BY DEF SplitCpl, afu_tx, afu_rx, pipes
  <1>f. len \in 1 .. R /\ len \in Nat
    BY <1>b, CplLengthRange
  <1>g. split.bytes - pcie_cpl_byte_count(len, IF S = 0 THEN r.first_be ELSE 15,
                                          IF len = R THEN r.last_be ELSE 15)
          = IF len = R THEN 0 ELSE BytesFrom(r, S + len)
    <2>1. R \in Nat \ {0} /\ S + R = r.len
      BY <1>b, <1>c
    <2>2. BytesFrom(r, S)
            - pcie_cpl_byte_count(len, IF S = 0 THEN r.first_be ELSE 15,
                                       IF len = R THEN r.last_be ELSE 15)
          = IF len = R THEN 0 ELSE BytesFrom(r, S + len)
      BY <2>1, <1>f, BytesAddUp
    <2> QED
      BY <2>2, <1>b, <1>c
  <1>h. err' = err
    BY <1>0, <1>d, <1>g
  <1>i. PICK L \in Nat : L = Len(dma_read_cpl) /\ dma_read_cpl \in Seq(Cpls)
    BY LenProperties DEF ReadType
  <1>j. /\ p \in 0 .. L /\ p \in Nat
        /\ L > 0 => p >= 1
        /\ \A i \in 1 .. L : dma_read_cpl[i].tag = T => i <= p
    BY <1>i, CplPositionsRange
  <1>k. PICK e \in Cpls :
          /\ e = [tag |-> T, start |-> S, len |-> len, byte_count |-> split.bytes,
                  is_last |-> (len = R)]
          /\ e.tag = T /\ e.start = S /\ e.len = len
          /\ e.byte_count = BytesFrom(r, S) /\ (e.is_last <=> len = R)
    <2> DEFINE f == [tag |-> T, start |-> S, len |-> len, byte_count |-> split.bytes,
                     is_last |-> (len = R)]
    <2>1. split.bytes \in Int /\ split.bytes = BytesFrom(r, S)
      BY <1>b, <1>c, BytesOfAll
    <2>2. f \in Cpls
      BY <1>f, <2>1 DEF Cpls
    <2>3. f.is_last <=> len = R
      OBVIOUS
    <2>4. /\ f.tag = T /\ f.start = S /\ f.len = len
          /\ f.byte_count = BytesFrom(r, S)
      BY <2>1
    <2> QED
      BY <2>2, <2>3, <2>4
  <1>u. /\ e.tag = T /\ e.start = S /\ e.len = len
        /\ e.byte_count = BytesFrom(r, S) /\ (e.is_last <=> len = R)
    BY <1>k
  <1>l. /\ dma_read_cpl' \in Seq(Cpls) /\ Len(dma_read_cpl') = L + 1
        /\ \A i \in 1 .. p : dma_read_cpl'[i] = dma_read_cpl[i]
        /\ dma_read_cpl'[p + 1] = e
        /\ \A i \in p + 2 .. L + 1 : dma_read_cpl'[i] = dma_read_cpl[i - 1]
    <2>1. dma_read_cpl' = InsertAfter(dma_read_cpl, p, e)
      BY <1>d, <1>k
    <2>2. PICK q : q = dma_read_cpl
      OBVIOUS
    <2>3. q \in Seq(Cpls) /\ p \in 0 .. Len(q)
      BY <2>2, <1>i, <1>j
    <2>4. /\ InsertAfter(q, p, e) \in Seq(Cpls)
          /\ Len(InsertAfter(q, p, e)) = Len(q) + 1
          /\ \A i \in 1 .. p : InsertAfter(q, p, e)[i] = q[i]
          /\ InsertAfter(q, p, e)[p + 1] = e
          /\ \A i \in p + 2 .. Len(q) + 1 : InsertAfter(q, p, e)[i] = q[i - 1]
      BY <2>3, InsertProps
    <2>5. dma_read_cpl' = InsertAfter(q, p, e)
      BY <2>1, <2>2
    <2> QED
      BY <2>2, <2>4, <2>5, <1>i
  <1>m. ASSUME NEW k \in 1 .. L
        PROVE  /\ Shift(p, k) \in 1 .. L + 1 /\ Shift(p, k) # p + 1
               /\ dma_read_cpl'[Shift(p, k)] = dma_read_cpl[k]
               /\ k <= p => Shift(p, k) = k
               /\ k > p => Shift(p, k) = k + 1
    <2>1. CASE k <= p
      BY <2>1, <1>j, <1>l DEF Shift
    <2>2. CASE k > p
      <3>1. k + 1 \in p + 2 .. L + 1 /\ (k + 1) - 1 = k
        BY <2>2, <1>j
      <3> QED
        BY <2>2, <3>1, <1>j, <1>l DEF Shift
    <2> QED
      BY <2>1, <2>2, <1>j
  <1>n. ASSUME NEW i \in 1 .. L + 1, i # p + 1
        PROVE  \E k \in 1 .. L : i = Shift(p, k)
    <2>1. CASE i <= p
      BY <2>1, <1>j DEF Shift
    <2>2. CASE i > p + 1
      <3>1. i - 1 \in 1 .. L /\ ~(i - 1 <= p) /\ (i - 1) + 1 = i
        BY <2>2, <1>j
      <3> QED
        BY <3>1 DEF Shift
    <2> QED
      BY <2>1, <2>2, <1>n, <1>j
  <1>o. \A k, m \in 1 .. L : k < m <=> Shift(p, k) < Shift(p, m)
    BY <1>j DEF Shift
  <1>p. \/ /\ len = R /\ phase' = "recv"
           /\ split' \in [tag : Tags, start : Nat, rem : Nat, bytes : Int]
        \/ /\ len < R /\ phase' = "split"
           /\ split' = [tag |-> T, start |-> S + len, rem |-> R - len,
                        bytes |-> BytesFrom(r, S + len)]
    <2>1. CASE len = R
      BY <2>1, <1>d, SizeAssumption DEF NoSplit, Tags
    <2>2. CASE len # R
      <3>1. split \in [tag : Tags, start : Nat, rem : Nat, bytes : Int]
        BY DEF ReadType
      <3>2. len < R
        BY <2>2, <1>f
      <3>3. PICK b : b = BytesFrom(r, S + len)
        OBVIOUS
      <3>4. split' = [split EXCEPT !.start = @ + len, !.rem = @ - len, !.bytes = b]
        BY <2>2, <3>3, <1>d, <1>g
      <3>5. split' = [tag |-> T, start |-> S + len, rem |-> R - len, bytes |-> b]
        BY <3>1, <3>4, <1>a
      <3> QED
        BY <2>2, <3>2, <3>3, <3>5, <1>0, <1>d
    <2> QED
      BY <2>1, <2>2
  <1>q. \A u : Splitting(u) <=> u = T
    BY <1>0, <1>a DEF Splitting
  <1>r. \A u : Splitting(u)' <=> len < R /\ u = T
    BY <1>p, <1>f DEF Splitting
  <1>s. L > 0 => p >= 1 /\ dma_read_cpl'[1] = dma_read_cpl[1]
    BY <1>j, <1>l
  <1>t. \A u : DataStored(u)' <=> DataStored(u)
    BY <1>e DEF DataStored, states
  <1>1. ReadType'
    <2>1. split' \in [tag : Tags, start : Nat, rem : Nat, bytes : Int]
      BY <1>p, <1>f, BytesOfAll
    <2> QED
      BY <2>1, <1>e, <1>l DEF ReadType, states
  <1>2. Owners' /\ HalfSent'
    <2>1. dma_read_cpl_dw_rem > 0 => L > 0
      BY EmptySeq, <1>i DEF HalfSent
    <2>2. dma_read_cpl' # << >>
      BY <1>l, EmptySeq
    <2> QED
      BY <2>1, <2>2, <1>e, <1>s DEF Owners, HalfSent, states
  <1>3. Flying' = Flying /\ Fifo'
    BY <1>e DEF Flying, Fifo
  <1>4. FlyingLive'
    <2>1. \A x \in Flying : \A i \in 1 .. L + 1 : dma_read_cpl'[i].tag # x.tag
      <3>1. \A x \in Flying : e.tag # x.tag
        BY <1>u, <1>q DEF FlyingLive
      <3>2. \A x \in Flying, k \in 1 .. L : dma_read_cpl[k].tag # x.tag
        BY <1>i DEF FlyingLive
      <3>3. ASSUME NEW x \in Flying, NEW i \in 1 .. L + 1
            PROVE  dma_read_cpl'[i].tag # x.tag
        <4>1. CASE i = p + 1
          BY <4>1, <3>1, <1>l
        <4>2. CASE i # p + 1
          <5>1. PICK k \in 1 .. L : i = Shift(p, k)
            BY <4>2, <1>n
          <5> QED
            BY <5>1, <3>2, <1>m
        <4> QED
          BY <4>1, <4>2
      <3> QED
        BY <3>3
    <2>2. \A x \in Flying : ~Splitting(x.tag)'
      BY <1>q, <1>r DEF FlyingLive
    <2> QED
      BY <1>3, <2>1, <2>2, <1>e, <1>l DEF FlyingLive, states
  <1>5. SplitLive'
    <2> SUFFICES ASSUME phase' = "split"
                 PROVE  SplitLive'
      BY DEF SplitLive
    <2>1. /\ len < R
          /\ split' = [tag |-> T, start |-> S + len, rem |-> R - len,
                       bytes |-> BytesFrom(r, S + len)]
      BY <1>p
    <2>2. /\ split'.tag = T /\ split'.start = S + len /\ split'.rem = R - len
          /\ split'.bytes = BytesFrom(r, S + len)
      BY <2>1
    <2>3. ASSUME NEW i \in 1 .. L + 1, dma_read_cpl'[i].tag = T
          PROVE  dma_read_cpl'[i].start + dma_read_cpl'[i].len <= S + len
      <3>1. CASE i = p + 1
        <4>1. dma_read_cpl'[i] = e
          BY <3>1, <1>l
        <4>2. S + len \in Nat
          BY <1>f
        <4> QED
          BY <4>1, <4>2, <1>u
      <3>2. CASE i # p + 1
        <4>1. PICK k \in 1 .. L : i = Shift(p, k)
          BY <3>2, <1>n
        <4>2. dma_read_cpl'[i] = dma_read_cpl[k]
          BY <4>1, <1>m
        <4> QED
          BY <4>2, <2>3, <1>b, <1>f, <1>i, CplTyped DEF CplEnd
      <3> QED
        BY <3>1, <3>2
    <2>4. p + 1 \in 1 .. L + 1 /\ dma_read_cpl'[p + 1].tag = T
      BY <1>j, <1>u, <1>l
    <2>5. R - len > 0 /\ (S + len) + (R - len) = r.len
      BY <2>1, <1>c, <1>f
    <2> QED
      BY <2>1, <2>2, <2>3, <2>4, <2>5, <1>b, <1>c, <1>e, <1>l, <1>t
      DEF SplitLive, CplEnd, states
  <1>6. ListLive'
    <2> SUFFICES ASSUME NEW i \in 1 .. L + 1
                 PROVE  LET c == dma_read_cpl'[i]
                            x == reqs[owner[c.tag]]
                        IN  /\ busy[c.tag] /\ DataStored(c.tag)
                            /\ c.start + c.len <= x.len
                            /\ c.is_last <=> c.start + c.len = x.len
                            /\ c.byte_count = BytesFrom(x, c.start)
      BY <1>e, <1>l, <1>t DEF ListLive, CplEnd, states
    <2>1. CASE i = p + 1
      <3>1. S + len <= r.len /\ (len = R <=> S + len = r.len)
        BY <1>c, <1>f
      <3>2. dma_read_cpl'[i] = e
        BY <2>1, <1>l
      <3> QED
        BY <3>1, <3>2, <1>b, <1>c, <1>u
    <2>2. CASE i # p + 1
      <3>1. PICK k \in 1 .. L : i = Shift(p, k)
        BY <2>2, <1>n
      <3> QED
        BY <3>1, <1>i, <1>m DEF ListLive, CplEnd
    <2> QED
      BY <2>1, <2>2
  <1>7. NoOverlap'
    <2> SUFFICES ASSUME NEW i \in 1 .. L + 1, NEW j \in 1 .. L + 1, i < j,
                        dma_read_cpl'[i].tag = dma_read_cpl'[j].tag
                 PROVE  dma_read_cpl'[i].start + dma_read_cpl'[i].len
                          <= dma_read_cpl'[j].start
      BY <1>l DEF NoOverlap, SameTag, CplEnd
    <2>1. CASE j = p + 1
      <3>1. i # p + 1
        BY <2>1, <1>j
      <3>2. PICK k \in 1 .. L : i = Shift(p, k)
        BY <3>1, <1>n
      <3>3. dma_read_cpl[k].tag = T
        BY <3>2, <2>1, <1>u, <1>l, <1>m
      <3> QED
        BY <3>2, <3>3, <2>1, <1>b, <1>i, <1>u, <1>l, <1>m DEF CplEnd
    <2>2. CASE i = p + 1
      <3>1. j # p + 1
        BY <2>2, <1>j
      <3>2. PICK k \in 1 .. L : j = Shift(p, k)
        BY <3>1, <1>n
      <3>3. k > p
        BY <3>2, <2>2, <1>j DEF Shift
      <3>4. dma_read_cpl[k].tag = T
        BY <3>2, <2>2, <1>u, <1>l, <1>m
      <3> QED
        BY <3>3, <3>4, <1>j
    <2>3. CASE i # p + 1 /\ j # p + 1
      <3>1. PICK k \in 1 .. L : i = Shift(p, k)
        BY <2>3, <1>n
      <3>2. PICK m \in 1 .. L : j = Shift(p, m)
        BY <2>3, <1>n
      <3>3. k < m
        BY <3>1, <3>2, <1>o
      <3> QED
        BY <3>1, <3>2, <3>3, <1>i, <1>m DEF NoOverlap, SameTag, CplEnd
    <2> QED
      BY <2>1, <2>2, <2>3
  <1>8. FromNext'
    <2> SUFFICES ASSUME NEW i \in 1 .. L + 1,
                        \A k \in 1 .. i - 1 :
                          dma_read_cpl'[k].tag # dma_read_cpl'[i].tag
                 PROVE  got[owner[dma_read_cpl'[i].tag]]
                          = dma_read_cpl'[i].start + Sent(i)'
      BY <1>e, <1>l DEF FromNext, SameTag, states
    <2>1. CASE i = p + 1
      <3>1. ASSUME NEW k \in 1 .. L, dma_read_cpl[k].tag = T
            PROVE  FALSE
        <4>1. k <= p /\ Shift(p, k) = k /\ k \in 1 .. i - 1
          BY <3>1, <2>1, <1>j, <1>m
        <4> QED
          BY <4>1, <3>1, <2>1, <1>u, <1>l, <1>m
      <3>2. got[owner[T]] = S
        BY <3>1, <1>b, <1>i
      <3>3. ~(i = 1 /\ dma_read_cpl_dw_rem > 0)
        <4>1. dma_read_cpl_dw_rem > 0 => L > 0
          BY EmptySeq, <1>i DEF HalfSent
        <4> QED
          BY <4>1, <2>1, <1>j, <1>s
      <3>4. Sent(i)' = 0
        BY <3>3, <1>e DEF Sent
      <3> QED
        BY <3>2, <3>4, <2>1, <1>u, <1>l
    <2>2. CASE i # p + 1
      <3>1. PICK k \in 1 .. L : i = Shift(p, k)
        BY <2>2, <1>n
      <3>2. ASSUME NEW m \in 1 .. k - 1
            PROVE  dma_read_cpl[m].tag # dma_read_cpl[k].tag
        <4>1. m \in 1 .. L /\ m < k
          OBVIOUS
        <4>2. Shift(p, m) \in 1 .. i - 1
          BY <4>1, <3>1, <1>m, <1>o
        <4> QED
          BY <4>1, <4>2, <3>1, <1>m
      <3>3. got[owner[dma_read_cpl[k].tag]] = dma_read_cpl[k].start + Sent(k)
        BY <3>2, <1>i DEF FromNext, SameTag
      <3>4. k = 1 <=> i = 1
        <4>1. L > 0 /\ p >= 1
          BY <1>j
        <4> QED
          BY <3>1, <4>1, <1>j DEF Shift
      <3>5. Sent(i)' = Sent(k)
        BY <3>1, <3>4, <1>e, <1>m DEF Sent
      <3> QED
        BY <3>1, <3>3, <3>5, <1>m
    <2> QED
      BY <2>1, <2>2
  <1>9. NoGap'
    <2> SUFFICES ASSUME NEW i \in 1 .. L + 1, NEW j \in 1 .. L + 1, i < j,
                        dma_read_cpl'[i].tag = dma_read_cpl'[j].tag,
                        \A k \in i + 1 .. j - 1 :
                          dma_read_cpl'[i].tag # dma_read_cpl'[k].tag
                 PROVE  dma_read_cpl'[i].start + dma_read_cpl'[i].len
                          = dma_read_cpl'[j].start
      BY <1>l DEF NoGap, SameTag, CplEnd
    <2>1. CASE j = p + 1
      <3>1. i # p + 1
        BY <2>1, <1>j
      <3>2. PICK k \in 1 .. L : i = Shift(p, k)
        BY <3>1, <1>n
      <3>3. dma_read_cpl[k].tag = T
        BY <3>2, <2>1, <1>u, <1>l, <1>m
      <3>4. k <= p /\ i = k
        BY <3>2, <3>3, <1>j, <1>m
      <3>5. ASSUME NEW m \in k + 1 .. L, dma_read_cpl[m].tag = dma_read_cpl[k].tag
            PROVE  FALSE
        <4>1. m \in 1 .. L /\ m <= p
          BY <3>3, <3>5, <1>j
        <4>2. Shift(p, m) = m /\ m \in i + 1 .. j - 1
          BY <4>1, <3>4, <2>1, <1>j, <1>m
        <4> QED
          BY <4>1, <4>2, <3>2, <3>5, <1>m
      <3>6. CplEnd(k) = S
        BY <3>3, <3>5, <1>a, <1>i, <1>q DEF ToEnd, SameTag
      <3> QED
        BY <3>2, <3>6, <2>1, <1>u, <1>l, <1>m DEF CplEnd
    <2>2. CASE i = p + 1
      <3>1. j # p + 1
        BY <2>2, <1>j
      <3>2. PICK k \in 1 .. L : j = Shift(p, k)
        BY <3>1, <1>n
      <3>3. k > p
        BY <3>2, <2>2, <1>j DEF Shift
      <3>4. dma_read_cpl[k].tag = T
        BY <3>2, <2>2, <1>u, <1>l, <1>m
      <3> QED
        BY <3>3, <3>4, <1>j
    <2>3. CASE i # p + 1 /\ j # p + 1
      <3>1. PICK k \in 1 .. L : i = Shift(p, k)
        BY <2>3, <1>n
      <3>2. PICK m \in 1 .. L : j = Shift(p, m)
        BY <2>3, <1>n
      <3>3. k < m
        BY <3>1, <3>2, <1>o
      <3>4. ASSUME NEW x \in k + 1 .. m - 1
            PROVE  dma_read_cpl[k].tag # dma_read_cpl[x].tag
        <4>1. x \in 1 .. L /\ k < x /\ x < m
          OBVIOUS
        <4>2. Shift(p, x) \in i + 1 .. j - 1
          BY <4>1, <3>1, <3>2, <1>m, <1>o
        <4> QED
          BY <4>1, <4>2, <3>1, <1>m
      <3> QED
        BY <3>1, <3>2, <3>3, <3>4, <1>i, <1>m DEF NoGap, SameTag, CplEnd
    <2> QED
      BY <2>1, <2>2, <2>3
  <1>10. ToEnd'
    <2> SUFFICES ASSUME NEW i \in 1 .. L + 1,
                        \A k \in i + 1 .. L + 1 :
                          dma_read_cpl'[i].tag # dma_read_cpl'[k].tag
                 PROVE  dma_read_cpl'[i].start + dma_read_cpl'[i].len
                          = IF len < R /\ dma_read_cpl'[i].tag = T THEN split'.start
                            ELSE reqs[owner[dma_read_cpl'[i].tag]].len
      <3>1. ASSUME NEW i \in 1 .. L + 1
            PROVE  Splitting(dma_read_cpl[i].tag)'
                     <=> len < R /\ dma_read_cpl'[i].tag = T
        BY <1>f, <1>p DEF Splitting
      <3> QED
        BY <3>1, <1>e, <1>l DEF ToEnd, SameTag, CplEnd, states
    <2>1. CASE i = p + 1
      <3>1. dma_read_cpl'[i].tag = T /\ dma_read_cpl'[i].start = S
            /\ dma_read_cpl'[i].len = len
        BY <2>1, <1>u, <1>l
      <3>2. CASE len = R
        BY <3>1, <3>2, <1>c
      <3>3. CASE len # R
        <4>1. len < R /\ split'.start = S + len
          BY <3>3, <1>p
        <4> QED
          BY <4>1, <3>1
      <3> QED
        BY <3>2, <3>3
    <2>2. CASE i # p + 1
      <3>1. PICK k \in 1 .. L : i = Shift(p, k)
        BY <2>2, <1>n
      <3>2. dma_read_cpl[k].tag # T
        <4>1. SUFFICES ASSUME dma_read_cpl[k].tag = T
                       PROVE  FALSE
          OBVIOUS
        <4>2. i = k /\ k <= p
          BY <4>1, <3>1, <1>j, <1>m
        <4>3. p + 1 \in i + 1 .. L + 1
          BY <4>2, <1>j
        <4> QED
          BY <4>1, <4>3, <3>1, <1>u, <1>l, <1>m
      <3>3. ASSUME NEW x \in k + 1 .. L
            PROVE  dma_read_cpl[k].tag # dma_read_cpl[x].tag
        <4>1. x \in 1 .. L /\ k < x
          OBVIOUS
        <4>2. Shift(p, x) \in i + 1 .. L + 1
          BY <4>1, <3>1, <1>m, <1>o
        <4> QED
          BY <4>1, <4>2, <3>1, <1>m
      <3>4. CplEnd(k) = reqs[owner[dma_read_cpl[k].tag]].len
        BY <3>2, <3>3, <1>i, <1>q DEF ToEnd, SameTag
      <3> QED
        BY <3>1, <3>2, <3>4, <1>m DEF CplEnd
    <2> QED
      BY <2>1, <2>2
  <1>11. Unasked' /\ ReadDataCorrect'
    BY <1>e, <1>h DEF Unasked, ReadDataCorrect
  <1>12. dma_read_cpl_dw_rem > 0 => dma_read_cpl'[1] = dma_read_cpl[1]
    BY EmptySeq, <1>i, <1>s DEF HalfSent
  <1> QED
    BY <1>1, <1>2, <1>3, <1>4, <1>5, <1>6, <1>7, <1>8, <1>9, <1>10, <1>11, <1>12,
       <1>h

\* A read is recorded under the AFU's tag and sent to the memory, or refused
\* (pcie_tlp_a2h_mrd).
LEMMA A2hReadStep == OpsInv /\ ReadInv /\ A2hRead => ReadInv'
  <1> SUFFICES ASSUME OpsInv, ReadInv, A2hRead
               PROVE  ReadInv'
    OBVIOUS
  <1> USE DEF ReadInv
  <1>a. PICK n \in Reads : n = Len(reqs) + 1
    BY MoreReads DEF A2hRead
  <1>b. PICK r \in ReadReqs, tag \in Tags :
          /\ reqs' = Append(reqs, r)
          /\ IF busy[tag]
               THEN err' = "tag_in_use" /\ UNCHANGED <<busy, owner, rd_req>>
               ELSE /\ busy' = [busy EXCEPT ![tag] = TRUE]
                    /\ owner' = [owner EXCEPT ![tag] = n]
                    /\ rd_req' = Append(rd_req, [tag |-> tag, n |-> n])
                    /\ UNCHANGED err
    BY <1>a DEF A2hRead
  <1>c. /\ UNCHANGED <<read_rsp_data, dma_read_cpl, dma_read_cpl_dw_rem, split>>
        /\ UNCHANGED <<rd_rsp, got, afu_err>>
        /\ phase # "split" /\ phase' # "split" /\ err = "none"
    BY DEF A2hRead, cpls, afu_rx, NextChannel, Running
  <1>d. /\ reqs \in Seq(ReadReqs) /\ Len(reqs) \in Nat /\ Len(reqs') = n
        /\ \A m \in 1 .. Len(reqs) : m # n /\ reqs'[m] = reqs[m]
        /\ rd_req \in Seq(PipeMsgs) /\ Len(rd_req) \in Nat
    BY <1>a, <1>b, LenProperties DEF OpsInv, ReadType
  <1>e. /\ \A u : ~Splitting(u)
        /\ \A u : ~Splitting(u)'
    BY <1>c DEF Splitting
  <1>f. ASSUME NEW u \in Tags, busy[u]
        PROVE  /\ busy'[u] /\ owner'[u] = owner[u]
               /\ reqs'[owner'[u]] = reqs[owner[u]]
               /\ DataStored(u)' <=> DataStored(u)
    <2>1. owner[u] \in 1 .. Len(reqs)
      BY <1>f DEF Owners
    <2>2. busy'[u] /\ owner'[u] = owner[u]
      BY <1>b, <1>f DEF ReadType
    <2>3. reqs'[owner'[u]] = reqs[owner[u]]
      BY <2>1, <2>2, <1>d
    <2> QED
      BY <2>2, <2>3, <1>c DEF DataStored
  <1>g. ASSUME NEW i \in 1 .. Len(dma_read_cpl)
        PROVE  /\ dma_read_cpl'[i] = dma_read_cpl[i]
               /\ dma_read_cpl[i].tag \in Tags /\ busy[dma_read_cpl[i].tag]
    BY <1>c, CplTyped DEF ListLive
  <1>1. HalfSent' /\ NoOverlap' /\ NoGap'
    BY <1>c DEF HalfSent, NoOverlap, NoGap, SameTag, CplEnd
  <1>2. SplitLive'
    BY <1>c DEF SplitLive
  <1>3. ListLive'
    <2> SUFFICES ASSUME NEW i \in 1 .. Len(dma_read_cpl)
                 PROVE  LET c == dma_read_cpl[i]
                            x == reqs'[owner'[c.tag]]
                        IN  /\ busy'[c.tag] /\ DataStored(c.tag)'
                            /\ c.start + c.len <= x.len
                            /\ c.is_last <=> c.start + c.len = x.len
                            /\ c.byte_count = BytesFrom(x, c.start)
      BY <1>c DEF ListLive, CplEnd, DataStored
    <2>1. PICK u \in Tags : u = dma_read_cpl[i].tag /\ busy[u]
      BY <1>g
    <2>2. /\ busy'[u] /\ reqs'[owner'[u]] = reqs[owner[u]]
          /\ DataStored(u)' <=> DataStored(u)
      BY <2>1, <1>f
    <2>3. DataStored(dma_read_cpl[i].tag)' <=> DataStored(u)'
      BY <2>1, <1>c DEF DataStored
    <2> QED
      BY <2>1, <2>2, <2>3 DEF ListLive, CplEnd
  <1>4. FromNext'
    <2> SUFFICES ASSUME NEW i \in 1 .. Len(dma_read_cpl),
                        \A k \in 1 .. i - 1 : ~SameTag(k, i)
                 PROVE  got[owner'[dma_read_cpl[i].tag]]
                          = dma_read_cpl[i].start + Sent(i)
      BY <1>c DEF FromNext, SameTag, Sent
    <2>1. owner'[dma_read_cpl[i].tag] = owner[dma_read_cpl[i].tag]
      BY <1>f, <1>g
    <2> QED
      BY <2>1 DEF FromNext
  <1>5. ToEnd'
    <2> SUFFICES ASSUME NEW i \in 1 .. Len(dma_read_cpl),
                        \A k \in i + 1 .. Len(dma_read_cpl) : ~SameTag(i, k)
                 PROVE  CplEnd(i) = reqs'[owner'[dma_read_cpl[i].tag]].len
      BY <1>c DEF ToEnd, SameTag, CplEnd, Splitting
    <2>1. reqs'[owner'[dma_read_cpl[i].tag]] = reqs[owner[dma_read_cpl[i].tag]]
      BY <1>f, <1>g
    <2>2. CplEnd(i) = reqs[owner[dma_read_cpl[i].tag]].len
      BY <1>e DEF ToEnd
    <2> QED
      BY <2>1, <2>2
  <1>6. Unasked' /\ ReadDataCorrect'
    BY <1>a, <1>b, <1>c, <1>d DEF Unasked, Reads, ReadDataCorrect
  <1>7. CASE busy[tag]
    <2>1. UNCHANGED <<busy, owner, rd_req>>
      BY <1>7, <1>b
    <2>2. ReadType'
      BY <2>1, <1>c DEF ReadType
    <2>3. Owners'
      BY <2>1, <1>a, <1>d DEF Owners
    <2>4. Flying' = Flying /\ Fifo'
      BY <2>1, <1>c DEF Flying, Fifo
    <2>5. FlyingLive'
      BY <2>1, <2>4, <1>c, <1>e DEF FlyingLive
    <2> QED
      BY <2>2, <2>3, <2>4, <2>5, <1>1, <1>2, <1>3, <1>4, <1>5, <1>6
  <1>8. CASE ~busy[tag]
    <2>1. /\ busy' = [busy EXCEPT ![tag] = TRUE]
          /\ owner' = [owner EXCEPT ![tag] = n]
      BY <1>8, <1>b
    <2>2. PICK new \in PipeMsgs :
            /\ new.tag = tag /\ new.n = n
            /\ rd_req' = Append(rd_req, new)
      BY <1>8, <1>b DEF PipeMsgs
    <2>3. /\ rd_req' \in Seq(PipeMsgs) /\ Len(rd_req') = Len(rd_req) + 1
          /\ \A k \in 1 .. Len(rd_req) : rd_req'[k] = rd_req[k]
          /\ rd_req'[Len(rd_req) + 1] = new
      BY <2>2, <1>d
    <2>4. ASSUME NEW x
          PROVE  x \in Flying' <=> x \in Flying \/ x = new
      <3>1. (\E k \in 1 .. Len(rd_req') : x = rd_req'[k])
              <=> (\E k \in 1 .. Len(rd_req) : x = rd_req[k]) \/ x = new
        <4>1. \A k \in 1 .. Len(rd_req') :
                k \in 1 .. Len(rd_req) \/ k = Len(rd_req) + 1
          BY <2>3, <1>d
        <4>2. /\ \A k \in 1 .. Len(rd_req) : k \in 1 .. Len(rd_req')
              /\ Len(rd_req) + 1 \in 1 .. Len(rd_req')
          BY <2>3, <1>d
        <4> QED
          BY <4>1, <4>2, <2>3
      <3> QED
        BY <3>1, <1>c DEF Flying
    <2>5. ReadType'
      BY <2>1, <2>3, <1>c DEF ReadType
    <2>6. Owners'
      <3>1. ASSUME NEW t \in Tags, busy'[t]
            PROVE  owner'[t] \in 1 .. Len(reqs')
        <4>1. CASE t = tag
          BY <4>1, <2>1, <1>a, <1>d DEF ReadType
        <4>2. CASE t # tag
          <5>1. owner[t] \in 1 .. Len(reqs)
            BY <4>2, <3>1, <2>1 DEF Owners, ReadType
          <5> QED
            BY <5>1, <4>2, <2>1, <1>a, <1>d DEF ReadType
        <4> QED
          BY <4>1, <4>2
      <3>2. ASSUME NEW t \in Tags, NEW u \in Tags, busy'[t], busy'[u],
                   owner'[t] = owner'[u], t # u
            PROVE  FALSE
        <4>1. ASSUME NEW x \in Tags, busy'[x], x # tag
              PROVE  busy[x] /\ owner'[x] = owner[x] /\ owner[x] # n
          BY <4>1, <2>1, <1>d DEF Owners, ReadType
        <4>2. owner'[tag] = n
          BY <2>1 DEF ReadType
        <4>3. CASE t = tag \/ u = tag
          BY <4>1, <4>2, <4>3, <3>2
        <4>4. CASE t # tag /\ u # tag
          BY <4>1, <4>4, <3>2 DEF Owners
        <4> QED
          BY <4>3, <4>4
      <3> QED
        BY <3>1, <3>2 DEF Owners
    <2>7. ASSUME NEW x \in Flying
          PROVE  x.tag \in Tags /\ busy[x.tag] /\ x.tag # tag
      BY <1>8, FlyingTyped DEF FlyingLive
    <2>8. Fifo'
      <3>1. ASSUME NEW i \in 1 .. Len(rd_req'), NEW j \in 1 .. Len(rd_req'), i < j
            PROVE  rd_req'[i].tag # rd_req'[j].tag
        <4>1. i \in 1 .. Len(rd_req) /\ rd_req'[i] = rd_req[i] /\ i # j
          BY <3>1, <2>3, <1>d
        <4>2. CASE j \in 1 .. Len(rd_req)
          BY <4>1, <4>2, <2>3 DEF Fifo
        <4>3. CASE j = Len(rd_req) + 1
          BY <4>1, <4>3, <2>2, <2>3, <2>7 DEF Flying
        <4> QED
          BY <4>2, <4>3, <2>3, <1>d
      <3>2. ASSUME NEW i \in 1 .. Len(rd_rsp), NEW j \in 1 .. Len(rd_req')
            PROVE  rd_rsp[i].tag # rd_req'[j].tag
        <4>1. CASE j \in 1 .. Len(rd_req)
          BY <4>1, <2>3 DEF Fifo
        <4>2. CASE j = Len(rd_req) + 1
          BY <4>2, <2>2, <2>3, <2>7 DEF Flying
        <4> QED
          BY <4>1, <4>2, <2>3, <1>d
      <3>3. \A i, j \in 1 .. Len(rd_req') : i < j \/ j < i \/ i = j
        BY <2>3, <1>d
      <3> QED
        BY <3>1, <3>2, <3>3, <1>c DEF Fifo
    <2>9. FlyingLive'
      <3> SUFFICES ASSUME NEW m \in Flying'
                   PROVE  /\ busy'[m.tag] /\ owner'[m.tag] = m.n /\ got[m.n] = 0
                          /\ \A i \in 1 .. Len(dma_read_cpl) :
                               dma_read_cpl[i].tag # m.tag
        BY <1>c DEF FlyingLive, Splitting
      <3>1. CASE m \in Flying
        <4>1. busy'[m.tag] /\ owner'[m.tag] = owner[m.tag]
          BY <3>1, <2>7, <1>f
        <4> QED
          BY <4>1, <3>1 DEF FlyingLive
      <3>2. CASE m = new
        <4>1. got[n] = 0
          BY <1>a, <1>d DEF Unasked
        <4>2. busy'[tag] /\ owner'[tag] = n
          BY <2>1 DEF ReadType
        <4>3. \A i \in 1 .. Len(dma_read_cpl) : dma_read_cpl[i].tag # tag
          BY <1>8, <1>g
        <4> QED
          BY <4>1, <4>2, <4>3, <3>2, <2>2
      <3> QED
        BY <3>1, <3>2, <2>4
    <2> QED
      BY <2>5, <2>6, <2>8, <2>9, <1>1, <1>2, <1>3, <1>4, <1>5, <1>6
  <1> QED
    BY <1>7, <1>8

\* A beat of the completion c at the head of the list carries cnt of the rem
\* words that c has still to bring, behind the words that the AFU has, and the
\* AFU finds nothing wrong with them (pcie_tlp_h2a_cpld).
HeadBeat(c, n, rem, cnt) ==
    /\ dma_read_cpl # << >> /\ c = dma_read_cpl[1]
    /\ busy[c.tag] /\ n = owner[c.tag]
    /\ rem = IF dma_read_cpl_dw_rem = 0 THEN c.len ELSE dma_read_cpl_dw_rem
    /\ 0 < cnt /\ cnt <= rem /\ rem <= c.len
    /\ IF rem <= BeatDw THEN cnt = rem ELSE cnt < rem
    /\ got[n] = c.start + c.len - rem
    /\ c.start + c.len <= reqs[n].len
    /\ c.is_last <=> c.start + c.len = reqs[n].len
    /\ dma_read_cpl_dw_rem' = rem - cnt
    /\ dma_read_cpl' = IF rem <= BeatDw THEN Tail(dma_read_cpl) ELSE dma_read_cpl
    /\ host_to_afu_state' = IF rem <= BeatDw THEN "NONE" ELSE "CPL"
    /\ got' = [got EXCEPT ![n] = got[n] + cnt]
    /\ IF c.is_last /\ rem <= BeatDw
         THEN /\ busy' = [busy EXCEPT ![c.tag] = FALSE]
              /\ afu_tags' = afu_tags \ {c.tag}
         ELSE UNCHANGED <<busy, afu_tags>>
    /\ AfuReceives(dma_read_cpl_dw_rem = 0, "cpl", c.tag, c.len, cnt, "none")

\* What pcie_tlp_h2a_cpld does with the head of the list.
LEMMA BeatFacts ==
    ASSUME OpsInv, ReadInv, H2aCpld
    PROVE  \E c \in Cpls, n \in Reads, rem \in Nat, cnt \in Nat :
             HeadBeat(c, n, rem, cnt)
  <1> USE DEF ReadInv
  <1>a. /\ dma_read_cpl \in Seq(Cpls) /\ dma_read_cpl # << >>
        /\ 1 \in 1 .. Len(dma_read_cpl) /\ Head(dma_read_cpl) = dma_read_cpl[1]
    <2>1. dma_read_cpl \in Seq(Cpls) /\ dma_read_cpl # << >>
      BY DEF ReadType, H2aCpld
    <2> QED
      BY <2>1, EmptySeq, LenProperties
  <1>b. PICK c \in Cpls : c = dma_read_cpl[1]
    BY <1>a, CplTyped
  <1>c. /\ c.tag \in Tags /\ c.start \in Nat /\ c.len \in Nat /\ c.len > 0
        /\ c.start + c.len = CplEnd(1)
    BY <1>a, <1>b, CplTyped DEF CplEnd
  <1>d. PICK n \in Reads : n = owner[c.tag] /\ busy[c.tag]
    <2>1. busy[c.tag]
      BY <1>a, <1>b DEF ListLive
    <2> QED
      BY <2>1, <1>c, OwnerTyped
  <1>e. PICK r \in ReadReqs : r = reqs[n] /\ r.len \in Nat
    BY <1>c, <1>d, OwnerTyped
  <1>f. /\ DataStored(c.tag) /\ c.start + c.len <= r.len
        /\ c.is_last <=> c.start + c.len = r.len
        /\ c.byte_count = BytesFrom(r, c.start)
    BY <1>a, <1>b, <1>c, <1>d, <1>e DEF ListLive
  <1>g. PICK sop \in BOOLEAN : sop <=> dma_read_cpl_dw_rem = 0
    OBVIOUS
  <1>h. PICK rem \in Nat : /\ rem = (IF sop THEN c.len ELSE dma_read_cpl_dw_rem)
                           /\ rem > 0 /\ rem <= c.len
    BY <1>b, <1>c, <1>g DEF ReadType, HalfSent
  <1>i. PICK cnt \in Nat : /\ cnt = Smaller(rem, BeatDw) /\ 0 < cnt /\ cnt <= rem
                           /\ IF rem <= BeatDw THEN cnt = rem ELSE cnt < rem
    BY <1>h, SizeAssumption DEF Smaller
  <1>j. got[n] = c.start + c.len - rem
    <2>1. got[n] = c.start + Sent(1)
      BY <1>a, <1>b, <1>d DEF FromNext
    <2> QED
      BY <2>1, <1>b, <1>c, <1>g, <1>h DEF Sent, ReadType
  <1>k. /\ ~(r.first_be # 0 /\ read_rsp_data[c.tag] # n)
        /\ ~(c.start + c.len - rem # got[n])
        /\ ~([lower |-> 4 * c.start + IF c.start = 0
                 THEN pcie_cpl_lower_addr_byte_offset(r.first_be) ELSE 0,
              count |-> c.byte_count] # ExpectedBytes(r, c.start))
    <2>1. c.start \in 0 .. r.len - 1
      BY <1>c, <1>e, <1>f
    <2> QED
      BY <2>1, <1>d, <1>e, <1>f, <1>j, ExpectedIs DEF DataStored
  <1>l. (CASE /\ r.first_be # 0
              /\ read_rsp_data[c.tag] # n            -> "wrong_data"
           [] c.start + c.len - rem # got[n]         -> "out_of_order"
           [] sop /\ [lower |-> 4 * c.start + IF c.start = 0
                         THEN pcie_cpl_lower_addr_byte_offset(r.first_be) ELSE 0,
                      count |-> c.byte_count] # ExpectedBytes(r, c.start)
                                                     -> "wrong_bytes"
           [] OTHER                                  -> "none") = "none"
    BY <1>k
  <1>m. /\ dma_read_cpl_dw_rem' = rem - cnt
        /\ dma_read_cpl' = IF rem <= BeatDw THEN Tail(dma_read_cpl) ELSE dma_read_cpl
        /\ host_to_afu_state' = IF rem <= BeatDw THEN "NONE" ELSE "CPL"
        /\ got' = [got EXCEPT ![n] = got[n] + cnt]
        /\ IF c.is_last /\ rem <= BeatDw
             THEN /\ busy' = [busy EXCEPT ![c.tag] = FALSE]
                  /\ afu_tags' = afu_tags \ {c.tag}
             ELSE UNCHANGED <<busy, afu_tags>>
    BY <1>a, <1>b, <1>d, <1>g, <1>h, <1>i DEF H2aCpld, FreesTag
  <1>n. AfuReceives(sop, "cpl", c.tag, c.len, cnt,
           CASE /\ r.first_be # 0
                /\ read_rsp_data[c.tag] # n            -> "wrong_data"
             [] c.start + c.len - rem # got[n]         -> "out_of_order"
             [] sop /\ [lower |-> 4 * c.start + IF c.start = 0
                           THEN pcie_cpl_lower_addr_byte_offset(r.first_be) ELSE 0,
                        count |-> c.byte_count] # ExpectedBytes(r, c.start)
                                                       -> "wrong_bytes"
             [] OTHER                                  -> "none")
    BY <1>a, <1>b, <1>d, <1>e, <1>g, <1>h, <1>i DEF H2aCpld
  <1>o. AfuReceives(dma_read_cpl_dw_rem = 0, "cpl", c.tag, c.len, cnt, "none")
    <2>1. AfuReceives(sop, "cpl", c.tag, c.len, cnt, "none")
      BY <1>l, <1>n
    <2> QED
      BY <2>1, <1>g DEF AfuReceives
  <1>p. HeadBeat(c, n, rem, cnt)
    BY <1>a, <1>b, <1>d, <1>e, <1>f, <1>g, <1>h, <1>i, <1>j, <1>m, <1>o DEF HeadBeat
  <1> QED
    BY <1>p

\* A beat of the completion at the head of the list preserves the invariant.
LEMMA H2aCpldStep == OpsInv /\ ReadInv /\ H2aCpld => ReadInv'
  <1> SUFFICES ASSUME OpsInv, ReadInv, H2aCpld
               PROVE  ReadInv'
    OBVIOUS
  <1> USE DEF ReadInv
  <1>a. PICK c \in Cpls, n \in Reads, rem \in Nat, cnt \in Nat :
          HeadBeat(c, n, rem, cnt)
    BY BeatFacts
  <1>b. PICK L \in Nat : /\ L = Len(dma_read_cpl) /\ L >= 1 /\ 1 \in 1 .. L
                         /\ dma_read_cpl \in Seq(Cpls) /\ c = dma_read_cpl[1]
    BY <1>a, EmptySeq, LenProperties DEF ReadType, HeadBeat
  <1>c. /\ c.tag \in Tags /\ c.start \in Nat /\ c.len \in Nat /\ c.len > 0
        /\ c.start + c.len = CplEnd(1) /\ CplEnd(1) \in Nat
        /\ busy[c.tag] /\ n = owner[c.tag] /\ n \in 1 .. Len(reqs)
    BY <1>a, <1>b, CplTyped, OwnerTyped DEF CplEnd, HeadBeat
  <1>d. /\ 0 < cnt /\ cnt <= rem /\ rem <= c.len
        /\ rem <= BeatDw => cnt = rem
        /\ ~(rem <= BeatDw) => cnt < rem
        /\ got[n] = c.start + c.len - rem
        /\ dma_read_cpl_dw_rem' = rem - cnt /\ dma_read_cpl_dw_rem' \in Nat
        /\ got' = [got EXCEPT ![n] = got[n] + cnt]
    BY <1>a DEF HeadBeat
  <1>e. /\ UNCHANGED <<owner, read_rsp_data, split, rd_req, rd_rsp, reqs, err>>
        /\ phase # "split" /\ phase' # "split"
    BY DEF H2aCpld, Running, NextChannel, pipes
  <1>f. /\ \A u : ~Splitting(u)
        /\ \A u : ~Splitting(u)'
    BY <1>e DEF Splitting
  <1>g. /\ busy' \in [Tags -> BOOLEAN]
        /\ \A t \in Tags : busy'[t] => busy[t]
        /\ \A t \in Tags : busy[t] /\ t # c.tag => busy'[t]
        /\ ~c.is_last => busy' = busy
        /\ ~(rem <= BeatDw) => busy' = busy
    BY <1>a, <1>c DEF ReadType, HeadBeat
  <1>h. ASSUME NEW t \in Tags, busy[t], t # c.tag
        PROVE  owner[t] \in Reads /\ owner[t] # n /\ got'[owner[t]] = got[owner[t]]
    <2>1. owner[t] \in Reads
      BY <1>h, OwnerTyped
    <2>2. owner[t] # n
      BY <1>c, <1>h DEF Owners
    <2> QED
      BY <2>1, <2>2, <1>d DEF ReadType
  <1>i. /\ got' \in [Reads -> Nat]
        /\ got'[n] = c.start + c.len - (rem - cnt)
        /\ \A m \in Reads : m # n => got'[m] = got[m]
    <2>1. got \in [Reads -> Nat]
      BY DEF ReadType
    <2>a. PICK s \in Nat, l \in Nat : s = c.start /\ l = c.len
      BY <1>c
    <2>b. got[n] = s + l - rem /\ rem \in Nat /\ cnt \in Nat /\ rem <= l
      BY <2>a, <1>d
    <2>2. got[n] + cnt = c.start + c.len - (rem - cnt) /\ got[n] + cnt \in Nat
      BY ONLY <2>a, <2>b
    <2> QED
      BY <2>1, <2>2, <1>d
  <1>j. \/ /\ rem <= BeatDw /\ dma_read_cpl_dw_rem' = 0
           /\ dma_read_cpl' \in Seq(Cpls) /\ Len(dma_read_cpl') = L - 1
           /\ \A i \in 1 .. L - 1 : dma_read_cpl'[i] = dma_read_cpl[i + 1]
           /\ got'[n] = CplEnd(1)
        \/ /\ ~(rem <= BeatDw) /\ dma_read_cpl' = dma_read_cpl
           /\ dma_read_cpl_dw_rem' > 0 /\ dma_read_cpl_dw_rem' <= c.len
    <2>1. CASE rem <= BeatDw
      <3>1. dma_read_cpl' = Tail(dma_read_cpl) /\ dma_read_cpl # << >>
        BY <2>1, <1>a DEF HeadBeat
      <3>2. /\ dma_read_cpl' \in Seq(Cpls) /\ Len(dma_read_cpl') = L - 1
            /\ \A i \in 1 .. L - 1 : dma_read_cpl'[i] = dma_read_cpl[i + 1]
        BY <3>1, <1>b
      <3>3. dma_read_cpl_dw_rem' = 0 /\ got'[n] = CplEnd(1)
        BY <2>1, <1>c, <1>d, <1>i
      <3> QED
        BY <2>1, <3>2, <3>3
    <2>2. CASE ~(rem <= BeatDw)
      <3>1. dma_read_cpl' = dma_read_cpl
        BY <2>2, <1>a DEF HeadBeat
      <3> QED
        BY <2>2, <3>1, <1>c, <1>d
    <2> QED
      BY <2>1, <2>2
  <1>k. ASSUME NEW i \in 2 .. L
        PROVE  /\ i \in 1 .. Len(dma_read_cpl) /\ dma_read_cpl[i].tag \in Tags
               /\ busy[dma_read_cpl[i].tag] /\ busy'[dma_read_cpl[i].tag]
    <2>1. i \in 1 .. Len(dma_read_cpl) /\ 1 < i
      BY <1>b
    <2>2. dma_read_cpl[i].tag \in Tags /\ busy[dma_read_cpl[i].tag]
      BY <2>1, CplTyped DEF ListLive
    <2>3. CASE dma_read_cpl[i].tag # c.tag
      BY <2>1, <2>2, <2>3, <1>g
    <2>4. CASE dma_read_cpl[i].tag = c.tag
      <3>1. CplEnd(1) <= dma_read_cpl[i].start
        BY <2>1, <2>4, <1>b DEF NoOverlap, SameTag
      <3>2. CplEnd(i) <= reqs[n].len /\ CplEnd(i) > dma_read_cpl[i].start
            /\ CplEnd(i) \in Nat /\ dma_read_cpl[i].start \in Nat
        BY <2>1, <2>4, <1>c, CplTyped DEF ListLive
      <3>3. reqs[n].len \in Nat
        BY <1>c, OwnerTyped
      <3>4. ~c.is_last
        <4>1. c.is_last <=> c.start + c.len = reqs[n].len
          BY <1>a DEF HeadBeat
        <4>a. PICK e \in Nat, f \in Nat, s \in Nat, w \in Nat :
                /\ e = CplEnd(1) /\ f = CplEnd(i) /\ s = dma_read_cpl[i].start
                /\ w = reqs[n].len
          BY <3>2, <3>3, <1>c
        <4>b. e <= s /\ f <= w /\ f > s
          BY <4>a, <3>1, <3>2
        <4>c. e # w
          BY ONLY <4>a, <4>b
        <4>2. c.start + c.len # reqs[n].len
          BY <4>a, <4>c, <1>c
        <4> QED
          BY <4>1, <4>2
      <3> QED
        BY <3>4, <2>1, <2>2, <1>g
    <2> QED
      BY <2>3, <2>4
  <1>l. ASSUME NEW i \in 1 .. Len(dma_read_cpl')
        PROVE  \E k \in 1 .. Len(dma_read_cpl) :
                 /\ dma_read_cpl'[i] = dma_read_cpl[k]
                 /\ busy'[dma_read_cpl[k].tag]
    <2>1. CASE rem <= BeatDw
      <3>1. i + 1 \in 2 .. L /\ dma_read_cpl'[i] = dma_read_cpl[i + 1]
        BY <2>1, <1>b, <1>j
      <3> QED
        BY <3>1, <1>k
    <2>2. CASE ~(rem <= BeatDw)
      <3>1. dma_read_cpl' = dma_read_cpl /\ busy' = busy
        BY <2>2, <1>g, <1>j
      <3> QED
        BY <3>1 DEF ListLive
    <2> QED
      BY <2>1, <2>2
  <1>1. ReadType'
    <2>1. dma_read_cpl' \in Seq(Cpls)
      BY <1>b, <1>j
    <2> QED
      BY <2>1, <1>d, <1>e, <1>g, <1>i DEF ReadType
  <1>2. Owners'
    BY <1>e, <1>g DEF Owners
  <1>3. HalfSent'
    <2>1. CASE rem <= BeatDw
      BY <2>1, <1>j DEF HalfSent
    <2>2. CASE ~(rem <= BeatDw)
      <3>1. dma_read_cpl # << >>
        BY <1>b, EmptySeq
      <3> QED
        BY <2>2, <3>1, <1>b, <1>j DEF HalfSent
    <2> QED
      BY <2>1, <2>2
  <1>4. Flying' = Flying /\ Fifo'
    BY <1>e DEF Flying, Fifo
  <1>5. FlyingLive'
    <2> SUFFICES ASSUME NEW m \in Flying
                 PROVE  /\ busy'[m.tag] /\ owner[m.tag] = m.n /\ got'[m.n] = 0
                        /\ \A i \in 1 .. Len(dma_read_cpl') :
                             dma_read_cpl'[i].tag # m.tag
      BY <1>4, <1>e DEF FlyingLive, Splitting
    <2>1. /\ busy[m.tag] /\ owner[m.tag] = m.n /\ got[m.n] = 0 /\ m.tag \in Tags
          /\ \A i \in 1 .. Len(dma_read_cpl) : dma_read_cpl[i].tag # m.tag
      BY FlyingTyped DEF FlyingLive
    <2>2. m.tag # c.tag
      BY <2>1, <1>b
    <2>3. \A i \in 1 .. Len(dma_read_cpl') : dma_read_cpl'[i].tag # m.tag
      BY <2>1, <1>l
    <2> QED
      BY <2>1, <2>2, <2>3, <1>g, <1>h
  <1>6. SplitLive'
    BY <1>e DEF SplitLive
  <1>7. ListLive'
    <2> SUFFICES ASSUME NEW i \in 1 .. Len(dma_read_cpl')
                 PROVE  LET x == dma_read_cpl'[i]
                            r == reqs[owner[x.tag]]
                        IN  /\ busy'[x.tag] /\ DataStored(x.tag)
                            /\ x.start + x.len <= r.len
                            /\ x.is_last <=> x.start + x.len = r.len
                            /\ x.byte_count = BytesFrom(r, x.start)
      BY <1>e DEF ListLive, CplEnd, DataStored
    <2>1. PICK k \in 1 .. Len(dma_read_cpl) :
            dma_read_cpl'[i] = dma_read_cpl[k] /\ busy'[dma_read_cpl[k].tag]
      BY <1>l
    <2> QED
      BY <2>1 DEF ListLive, CplEnd
  <1>8. ASSUME ~(rem <= BeatDw)
        PROVE  NoOverlap' /\ NoGap' /\ ToEnd' /\ FromNext'
    <2>1. UNCHANGED dma_read_cpl
      BY <1>8, <1>j
    <2>2. NoOverlap' /\ NoGap'
      BY <2>1 DEF NoOverlap, NoGap, SameTag, CplEnd
    <2>3. ToEnd'
      BY <2>1, <1>e DEF ToEnd, SameTag, CplEnd, Splitting
    <2>4. FromNext'
      <3> SUFFICES ASSUME NEW i \in 1 .. L,
                          \A k \in 1 .. i - 1 :
                            dma_read_cpl[k].tag # dma_read_cpl[i].tag
                   PROVE  got'[owner[dma_read_cpl[i].tag]]
                            = dma_read_cpl[i].start + Sent(i)'
        BY <2>1, <1>b, <1>e DEF FromNext, SameTag
      <3>1. CASE i = 1
        <4>1. Sent(i)' = c.len - (rem - cnt)
          BY <3>1, <2>1, <1>8, <1>b, <1>d, <1>j DEF Sent
        <4> QED
          BY <4>1, <3>1, <1>b, <1>c, <1>d, <1>i
      <3>2. CASE i # 1
        <4>1. 1 \in 1 .. i - 1 /\ i \in 2 .. L /\ i \in 1 .. Len(dma_read_cpl)
          BY <3>2, <1>b
        <4>2. dma_read_cpl[i].tag # c.tag
          BY <4>1, <1>b
        <4>3. got[owner[dma_read_cpl[i].tag]] = dma_read_cpl[i].start + Sent(i)
          BY <4>1 DEF FromNext, SameTag
        <4>4. Sent(i)' = Sent(i)
          BY <3>2 DEF Sent
        <4> QED
          BY <4>1, <4>2, <4>3, <4>4, <1>h, <1>k
      <3> QED
        BY <3>1, <3>2
    <2> QED
      BY <2>2, <2>3, <2>4
  <1>9. ASSUME rem <= BeatDw
        PROVE  NoOverlap' /\ NoGap' /\ ToEnd' /\ FromNext'
    <2>1. /\ dma_read_cpl_dw_rem' = 0
          /\ Len(dma_read_cpl') = L - 1 /\ L >= 1
          /\ got'[n] = CplEnd(1)
      BY <1>9, <1>b, <1>j
    <2>2. ASSUME NEW i \in 1 .. L - 1
          PROVE  /\ i + 1 \in 1 .. Len(dma_read_cpl) /\ i + 1 \in 2 .. L
                 /\ dma_read_cpl'[i] = dma_read_cpl[i + 1]
      BY <1>9, <1>b, <1>j
    <2>3. NoOverlap'
      <3> SUFFICES ASSUME NEW i \in 1 .. L - 1, NEW j \in 1 .. L - 1, i < j,
                          dma_read_cpl'[i].tag = dma_read_cpl'[j].tag
                   PROVE  dma_read_cpl'[i].start + dma_read_cpl'[i].len
                            <= dma_read_cpl'[j].start
        BY <2>1 DEF NoOverlap, SameTag, CplEnd
      <3>1. i + 1 < j + 1
        OBVIOUS
      <3> QED
        BY <3>1, <2>2 DEF NoOverlap, SameTag, CplEnd
    <2>4. NoGap'
      <3> SUFFICES ASSUME NEW i \in 1 .. L - 1, NEW j \in 1 .. L - 1, i < j,
                          dma_read_cpl'[i].tag = dma_read_cpl'[j].tag,
                          \A k \in i + 1 .. j - 1 :
                            dma_read_cpl'[i].tag # dma_read_cpl'[k].tag
                   PROVE  dma_read_cpl'[i].start + dma_read_cpl'[i].len
                            = dma_read_cpl'[j].start
        BY <2>1 DEF NoGap, SameTag, CplEnd
      <3>1. i + 1 < j + 1
        OBVIOUS
      <3>2. ASSUME NEW k \in (i + 1) + 1 .. (j + 1) - 1
            PROVE  dma_read_cpl[i + 1].tag # dma_read_cpl[k].tag
        <4>1. k - 1 \in i + 1 .. j - 1 /\ k - 1 \in 1 .. L - 1 /\ (k - 1) + 1 = k
          OBVIOUS
        <4> QED
          BY <4>1, <2>2
      <3> QED
        BY <3>1, <3>2, <2>2 DEF NoGap, SameTag, CplEnd
    <2>5. ToEnd'
      <3> SUFFICES ASSUME NEW i \in 1 .. L - 1,
                          \A k \in i + 1 .. L - 1 :
                            dma_read_cpl'[i].tag # dma_read_cpl'[k].tag
                   PROVE  dma_read_cpl'[i].start + dma_read_cpl'[i].len
                            = reqs[owner[dma_read_cpl'[i].tag]].len
        BY <2>1, <1>e DEF ToEnd, SameTag, CplEnd, Splitting
      <3>1. ASSUME NEW k \in (i + 1) + 1 .. Len(dma_read_cpl)
            PROVE  dma_read_cpl[i + 1].tag # dma_read_cpl[k].tag
        <4>1. k - 1 \in i + 1 .. L - 1 /\ k - 1 \in 1 .. L - 1 /\ (k - 1) + 1 = k
          BY <1>b
        <4> QED
          BY <4>1, <2>2
      <3>2. CplEnd(i + 1) = reqs[owner[dma_read_cpl[i + 1].tag]].len
        BY <3>1, <2>2, <1>f DEF ToEnd, SameTag
      <3> QED
        BY <3>2, <2>2 DEF CplEnd
    <2>6. FromNext'
      <3> SUFFICES ASSUME NEW i \in 1 .. L - 1,
                          \A k \in 1 .. i - 1 :
                            dma_read_cpl'[k].tag # dma_read_cpl'[i].tag
                   PROVE  got'[owner[dma_read_cpl'[i].tag]]
                            = dma_read_cpl'[i].start + Sent(i)'
        BY <2>1, <1>e DEF FromNext, SameTag
      <3>1. Sent(i)' = 0 /\ Sent(i + 1) = 0
        BY <2>1 DEF Sent
      <3>2. ASSUME NEW k \in 2 .. i
            PROVE  dma_read_cpl[k].tag # dma_read_cpl[i + 1].tag
        <4>1. k - 1 \in 1 .. i - 1 /\ k - 1 \in 1 .. L - 1 /\ (k - 1) + 1 = k
          OBVIOUS
        <4> QED
          BY <4>1, <2>2
      <3>3. dma_read_cpl[i + 1].start \in Nat
        BY <2>2, CplTyped
      <3>4. CASE dma_read_cpl[i + 1].tag = c.tag
        <4>1. 1 < i + 1
          OBVIOUS
        <4>2. \A k \in 1 + 1 .. (i + 1) - 1 :
                dma_read_cpl[1].tag # dma_read_cpl[k].tag
          BY <3>2, <3>4, <1>b
        <4>3. CplEnd(1) = dma_read_cpl[i + 1].start
          BY <4>1, <4>2, <3>4, <2>2, <1>b DEF NoGap, SameTag
        <4> QED
          BY <4>3, <3>1, <3>3, <3>4, <2>1, <2>2, <1>c, SMTT(30)
      <3>5. CASE dma_read_cpl[i + 1].tag # c.tag
        <4>1. \A k \in 1 .. (i + 1) - 1 :
                dma_read_cpl[k].tag # dma_read_cpl[i + 1].tag
          BY <3>2, <3>5, <1>b
        <4>2. got[owner[dma_read_cpl[i + 1].tag]]
                = dma_read_cpl[i + 1].start + Sent(i + 1)
          BY <4>1, <2>2 DEF FromNext, SameTag
        <4>3. got'[owner[dma_read_cpl[i + 1].tag]] = got[owner[dma_read_cpl[i + 1].tag]]
          BY <2>2, <3>5, <1>h, <1>k
        <4> QED
          BY <4>2, <4>3, <3>1, <2>2
      <3> QED
        BY <3>4, <3>5
    <2> QED
      BY <2>3, <2>4, <2>5, <2>6
  <1>10. NoOverlap' /\ NoGap' /\ ToEnd' /\ FromNext'
    BY <1>8, <1>9
  <1>11. Unasked'
    <2>1. \A m \in Reads : m > Len(reqs) => m # n
      BY <1>c, LenProperties, AxisBoundAssumption DEF OpsInv, Reads
    <2> QED
      BY <2>1, <1>e, <1>i DEF Unasked
  <1>12. ReadDataCorrect'
    BY <1>a, <1>e DEF HeadBeat, AfuReceives, ReadDataCorrect
  <1> QED
    BY <1>1, <1>2, <1>3, <1>4, <1>5, <1>6, <1>7, <1>10, <1>11, <1>12

\* Every step of the emulator, the application and the AFU is one of these, as
\* far as reads are concerned.
LEMMA StepKinds ==
    ASSUME OpsInv, MmioInv, ReadInv, [Next]_vars
    PROVE  Quiet \/ RdWatcher \/ ReceiveRead \/ SplitCpl \/ H2aCpld \/ A2hRead
  <1>a. ReadDataCorrect
    BY DEF ReadInv
  <1> USE DEF Quiet, states, cpls, pipes, afu_tx, afu_rx, clock, Running,
              ReadDataCorrect
  <1>1. ASSUME UNCHANGED vars
        PROVE  Quiet
    BY <1>1, <1>a DEF vars
  <1>2. ASSUME WrWatcher \/ NewMmio \/ AskReset
        PROVE  Quiet
    <2>1. NewMmio => err' = err
      BY NewMmioAccepted
    <2>2. CASE NewMmio
      BY <2>1, <2>2, <1>a DEF NewMmio
    <2>3. CASE WrWatcher \/ AskReset
      BY <2>3, <1>a DEF WrWatcher, AskReset
    <2> QED
      BY <1>2, <2>2, <2>3
  <1>3. ASSUME ResetCycle \/ LowerReset
        PROVE  Quiet
    BY <1>3, <1>a DEF ResetCycle, LowerReset
  <1>4. ASSUME CompleteWrites \/ StartChannels
        PROVE  Quiet
    BY <1>4, <1>a DEF CompleteWrites, StartChannels
  <1>5. ASSUME H2aNothing \/ H2aRefuse
        PROVE  Quiet
    BY <1>5, <1>a DEF H2aNothing, H2aRefuse, NextChannel
  <1>6. ASSUME H2aMem
        PROVE  Quiet
    BY <1>6, <1>a DEF H2aMem, NextChannel, AfuReceives
  <1>7. ASSUME IrqRsp \/ IrqNothing
        PROVE  Quiet
    BY <1>7, <1>a DEF IrqRsp, IrqNothing, AfterIrq
  <1>8. ASSUME A2hNothing \/ Tready
        PROVE  Quiet
    BY <1>8, <1>a DEF A2hNothing, Tready, NextChannel
  <1>9. ASSUME A2hIrq
        PROVE  Quiet
    BY <1>9, <1>a DEF A2hIrq, NextChannel
  <1>10. ASSUME A2hWrite
         PROVE  Quiet
    <2>1. PICK left : WriteBeat(left)
      BY <1>10 DEF A2hWrite
    <2>2. phase = "a2h"
      BY <1>10 DEF A2hWrite
    <2> QED
      BY <2>1, <2>2, <1>a DEF WriteBeat, NextChannel
  <1>11. ASSUME A2hCpld
         PROVE  Quiet
    <2>1. PICK id, left : CpldBeat(id, left)
      BY <1>11 DEF A2hCpld
    <2>2. phase = "a2h" /\ err' = err
      BY <1>11, A2hCpldKeeps DEF A2hCpld
    <2> QED
      BY <2>1, <2>2, <1>a DEF CpldBeat, NextChannel
  <1>12. ASSUME PollReads \/ Killed
         PROVE  Quiet
    BY <1>12, <1>1 DEF PollReads, Killed
  <1> QED
    BY <1>1, <1>2, <1>3, <1>4, <1>5, <1>6, <1>7, <1>8, <1>9, <1>10, <1>11, <1>12
    DEF Next, App, Clock, Receive, HostToAfu, AfuToHost

\* Every step preserves the invariant.
LEMMA ReadStep ==
    ASSUME OpsInv, MmioInv, ReadInv, [Next]_vars
    PROVE  ReadInv'
  BY StepKinds, QuietStep, RdWatcherStep, ReceiveReadStep, SplitCplStep,
     H2aCpldStep, A2hReadStep

\* The reads in every reachable state.
LEMMA ReadInvariance == Spec => []ReadInv
  BY ReadInit, ReadStep, OpsInvariance, MmioInvariance, PTL DEF Spec

\* Every completion brings the words of the read that its tag names, in order,
\* from a buffer that no other read has overwritten, and announces the offset
\* and the bytes that the masks of the request define, however the response is
\* cut and the completions are reordered; the two assertions of
\* pcie_receive_dma_reads on the count of bytes cannot fail.
THEOREM ReadDataIsCorrect == Spec => []ReadDataCorrect
  <1>1. ReadInv => ReadDataCorrect
    BY DEF ReadInv
  <1> QED
    BY <1>1, ReadInvariance, PTL

\* The lengths the abstract service knows.
Want == [n \in 1 .. Len(reqs) |-> reqs[n].len]

\* The emulator, its pipes and the watchers implement the read service of
\* DmaReads: every read gets words it lacks and never more than it asked for; a
\* soft reset of the AFU in the middle changes nothing.
THEOREM EmulatorImplementsReads == Spec => ImplementsDmaReads
  <1>1. Init => Service!Init
    BY DEF Init, Service!Init, Reads
  <1>2. OpsInv /\ MmioInv /\ ReadInv /\ [Next]_vars => [Service!Next]_<<Want, got>>
    <2> SUFFICES ASSUME OpsInv, MmioInv, ReadInv, [Next]_vars
                 PROVE  [Service!Next]_<<Want, got>>
      OBVIOUS
    <2>a. /\ reqs \in Seq(ReadReqs) /\ Len(reqs) \in Nat /\ Len(reqs) <= MaxOps
          /\ got \in [Reads -> Nat] /\ DOMAIN Want = 1 .. Len(reqs)
          /\ \A n \in 1 .. Len(reqs) : Want[n] = reqs[n].len /\ Want[n] \in Nat
      <3>1. reqs \in Seq(ReadReqs) /\ Len(reqs) \in Nat
        BY LenProperties DEF OpsInv
      <3>2. \A n \in 1 .. Len(reqs) : reqs[n] \in ReadReqs
        BY <3>1
      <3> QED
        BY <3>1, <3>2, ReqShape DEF OpsInv, ReadInv, ReadType, Want
    <2>b. Want \in Seq(Nat) /\ Len(Want) = Len(reqs)
      BY <2>a DEF Want
    <2>1. CASE Quiet \/ RdWatcher \/ ReceiveRead \/ SplitCpl
      BY <2>1 DEF Quiet, RdWatcher, ReceiveRead, SplitCpl, Want, afu_tx, afu_rx
    <2>2. CASE A2hRead
      <3>1. PICK r \in ReadReqs : reqs' = Append(reqs, r)
        BY <2>2 DEF A2hRead
      <3>2. /\ Len(reqs') = Len(reqs) + 1 /\ reqs'[Len(reqs) + 1] = r
            /\ \A n \in 1 .. Len(reqs) : reqs'[n] = reqs[n]
        BY <3>1, <2>a
      <3>3. PICK len \in {x.len : x \in ReadReqs} : len = r.len /\ len \in Nat
        BY ReqShape
      <3>4. Want' = Append(Want, len)
        <4>2. /\ Append(Want, len) \in Seq(Nat)
              /\ Len(Append(Want, len)) = Len(reqs) + 1
              /\ \A n \in 1 .. Len(reqs) : Append(Want, len)[n] = Want[n]
              /\ Append(Want, len)[Len(reqs) + 1] = len
          BY <3>3, <2>b
        <4>3. \A n \in 1 .. Len(reqs) + 1 : Append(Want, len)[n] = reqs'[n].len
          <5> TAKE n \in 1 .. Len(reqs) + 1
          <5>1. n \in 1 .. Len(reqs) \/ n = Len(reqs) + 1
            BY <2>a
          <5> QED
            BY <5>1, <4>2, <3>2, <3>3, <2>a
        <4>4. \A n \in 1 .. Len(reqs) + 1 : reqs'[n].len \in Nat
          BY <4>2, <4>3
        <4>5. /\ Want' = [n \in 1 .. Len(reqs) + 1 |-> reqs'[n].len]
              /\ Want' \in Seq(Nat) /\ Len(Want') = Len(reqs) + 1
          BY <4>4, <3>2, <2>a DEF Want
        <4>6. \A n \in 1 .. Len(Want') : Want'[n] = Append(Want, len)[n]
          BY <4>3, <4>5
        <4>7. PICK s \in Seq(Nat), t \in Seq(Nat) : s = Want' /\ t = Append(Want, len)
          BY <4>2, <4>5
        <4>8. s = t
          BY <4>2, <4>5, <4>6, <4>7, SeqEqual
        <4> QED
          BY <4>7, <4>8
      <3>5. Len(Want) < MaxOps /\ UNCHANGED got
        <4>1. Len(reqs) + 1 <= MaxOps
          BY <2>2, MoreReads DEF A2hRead
        <4> QED
          BY <4>1, <2>2, <2>a, <2>b, AxisBoundAssumption DEF A2hRead, afu_rx
      <3> QED
        BY <3>3, <3>4, <3>5 DEF Service!Next, Service!Ask, Want
    <2>3. CASE H2aCpld
      <3>1. PICK c \in Cpls, n \in Reads, rem \in Nat, cnt \in Nat :
              HeadBeat(c, n, rem, cnt)
        BY <2>3, BeatFacts
      <3>2. Want' = Want
        BY <2>3 DEF Want, H2aCpld
      <3>3. c.tag \in Tags /\ c.start \in Nat /\ c.len \in Nat
        BY DEF Cpls
      <3>4. n \in 1 .. Len(reqs) /\ n \in 1 .. MaxOps /\ got[n] \in Nat
        <4>1. busy[c.tag] /\ n = owner[c.tag]
          BY <3>1 DEF HeadBeat
        <4> QED
          BY <4>1, <3>3, <2>a DEF ReadInv, Owners, Reads
      <3>5. PICK k : k = got[n] + cnt
        OBVIOUS
      <3>6. /\ got' = [got EXCEPT ![n] = k]
            /\ k \in got[n] + 1 .. Want[n] /\ n <= Len(Want)
        <4>1. /\ got' = [got EXCEPT ![n] = k] /\ 0 < cnt /\ cnt <= rem
              /\ got[n] = c.start + c.len - rem /\ c.start + c.len <= reqs[n].len
          BY <3>1, <3>5 DEF HeadBeat
        <4>2. reqs[n].len = Want[n] /\ Want[n] \in Nat
          BY <3>4, <2>a
        <4>3. k <= Want[n] /\ k >= got[n] + 1 /\ k \in Nat
          <5>1. PICK g \in Nat, w \in Nat, b \in Nat, l \in Nat :
                  g = got[n] /\ w = Want[n] /\ b = c.start /\ l = c.len
            BY <4>2, <3>3, <3>4
          <5>2. g = b + l - rem /\ b + l <= w /\ k = g + cnt
            BY <5>1, <4>1, <4>2, <3>5
          <5>3. k <= w /\ k >= g + 1 /\ k \in Nat
            BY <5>2, <4>1
          <5> QED
            BY <5>1, <5>3
        <4> QED
          BY <4>1, <4>2, <4>3, <3>4, <2>a, <2>b
      <3> QED
        BY <3>2, <3>4, <3>6 DEF Service!Next, Service!Give, Want
    <2> QED
      BY <2>1, <2>2, <2>3, StepKinds
  <1> QED
    BY <1>1, <1>2, OpsInvariance, MmioInvariance, ReadInvariance, PTL
    DEF Spec, ImplementsDmaReads, Service!Spec, Want

-----------------------------------------------------------------------------
(* The packets the AFU sees. *)

\* A beat of an MMIO request (pcie_tlp_h2a_mem).
LEMMA FrameMem ==
    ASSUME OpsInv, MmioInv, FrameInv, H2aMem
    PROVE  FrameInv'
  <1>a. /\ mmio_req \in Seq(Nat) /\ mmio_req # << >> /\ mmio_req_dw_rem \in Nat
        /\ 1 \in 1 .. Len(mmio_req) /\ Head(mmio_req) = mmio_req[1]
    BY EmptySeq, LenProperties DEF MmioInv, FrameInv, H2aMem
  <1>b. PICK id, m : id = mmio_req[1] /\ m = mmio[id]
    OBVIOUS
  <1>c. m.kind \in {"read", "write"} /\ m.len \in Nat /\ m.len > 0
    <2>1. id \in 1 .. Len(mmio) /\ ForThisAfu(m)
      BY <1>a, <1>b DEF MmioInv
    <2>2. m \in MmioReqs
      BY <2>1, <1>b DEF OpsInv
    <2>3. m.kind \in {"read", "write", "foreign", "dropped"} /\ m.len \in Nat \ {0}
      BY <2>2, ReqAssumption
    <2> QED
      BY <2>1, <2>3 DEF ForThisAfu
  <1>d. PICK sop \in BOOLEAN : sop <=> mmio_req_dw_rem = 0
    OBVIOUS
  <1>e. PICK rem \in Nat : rem = IF m.kind = "read" THEN 0
                                 ELSE IF sop THEN m.len ELSE mmio_req_dw_rem
    BY <1>a, <1>c
  <1>f. PICK cnt \in Nat : /\ cnt = Smaller(rem, BeatDw) /\ cnt <= rem
                           /\ rem <= BeatDw => cnt = rem
                           /\ ~(rem <= BeatDw) => cnt < rem
    BY <1>e, SizeAssumption DEF Smaller
  <1>g. PICK len \in Nat : len = IF m.kind = "read" THEN 0 ELSE m.len
    BY <1>c
  <1>h. /\ mmio_req_dw_rem' = rem - cnt
        /\ mmio_req' = IF rem <= BeatDw THEN Tail(mmio_req) ELSE mmio_req
        /\ host_to_afu_state' = IF rem <= BeatDw THEN "NONE" ELSE "MEM"
        /\ AfuReceives(sop, "mmio", id, len, cnt, "none")
        /\ UNCHANGED <<dma_read_cpl, dma_read_cpl_dw_rem, mmio, num_reset>>
    BY <1>a, <1>b, <1>d, <1>e, <1>f, <1>g DEF H2aMem, cpls
  <1>1. mmio_req_dw_rem' \in Nat
    BY <1>f, <1>h
  <1>2. ASSUME num_reset = 0
        PROVE  /\ afu_err' \notin {"interrupted", "headless"}
               /\ dma_read_cpl_dw_rem = 0
               /\ rx' = IF rem <= BeatDw THEN NoPacket
                        ELSE [kind |-> "mmio", id |-> id, left |-> rem - cnt]
    <2>1. afu_err \notin {"interrupted", "headless"}
      BY <1>2 DEF FrameInv
    <2>2. CASE sop
      <3>1. host_to_afu_state = "NONE" /\ rx = NoPacket /\ dma_read_cpl_dw_rem = 0
        BY <1>2, <2>2, <1>d DEF FrameInv, H2aMem
      <3>2. rem = len /\ (len - cnt > 0 <=> ~(rem <= BeatDw))
        <4>1. rem = len
          BY <2>2, <1>e, <1>g
        <4>2. rem - cnt > 0 <=> ~(rem <= BeatDw)
          BY <1>f
        <4> QED
          BY <4>1, <4>2
      <3>3. rx' = IF rem <= BeatDw THEN NoPacket
                  ELSE [kind |-> "mmio", id |-> id, left |-> rem - cnt]
        BY <3>2, <2>2, <1>h DEF AfuReceives
      <3>4. afu_err' \in {afu_err, "none"}
        BY <3>1, <2>2, <1>h DEF AfuReceives
      <3> QED
        BY <3>1, <3>3, <3>4, <2>1
    <2>3. CASE ~sop
      <3>1. /\ rx = [kind |-> "mmio", id |-> id, left |-> mmio_req_dw_rem]
            /\ dma_read_cpl_dw_rem = 0 /\ m.kind = "write"
        BY <1>2, <2>3, <1>a, <1>b, <1>d DEF FrameInv, H2aMem
      <3>2. rx.id = id /\ rx.kind = "mmio" /\ rx.left = rem
        BY <3>1, <2>3, <1>e
      <3>3. rx.left - cnt > 0 <=> ~(rem <= BeatDw)
        <4>1. rem - cnt > 0 <=> ~(rem <= BeatDw)
          BY <1>f
        <4> QED
          BY <4>1, <3>2
      <3> QED
        BY <3>1, <3>2, <3>3, <2>1, <2>3, <1>f, <1>h DEF AfuReceives
    <2> QED
      BY <2>2, <2>3
  <1>3. ASSUME num_reset = 0, ~(rem <= BeatDw)
        PROVE  /\ rem - cnt > 0 /\ mmio_req' = mmio_req
               /\ mmio[mmio_req[1]].kind = "write"
    <2>1. rem # 0 /\ rem - cnt > 0
      BY <1>3, <1>f, SizeAssumption
    <2> QED
      BY <2>1, <1>3, <1>b, <1>c, <1>e, <1>h
  <1>4. rem <= BeatDw => rem - cnt = 0
    BY <1>f
  <1> QED
    BY <1>1, <1>2, <1>3, <1>4, <1>a, <1>b, <1>h DEF FrameInv

\* A beat of a completion (pcie_tlp_h2a_cpld).
LEMMA FrameCpld ==
    ASSUME OpsInv, ReadInv, FrameInv, H2aCpld
    PROVE  FrameInv'
  <1>a. PICK c \in Cpls, n \in Reads, rem \in Nat, cnt \in Nat :
          HeadBeat(c, n, rem, cnt)
    BY BeatFacts
  <1>b. dma_read_cpl_dw_rem \in Nat /\ c.len \in Nat
    BY DEF ReadInv, ReadType, Cpls
  <1>c. PICK sop \in BOOLEAN : sop <=> dma_read_cpl_dw_rem = 0
    OBVIOUS
  <1>d. /\ rem = (IF sop THEN c.len ELSE dma_read_cpl_dw_rem)
        /\ c = dma_read_cpl[1] /\ 0 < cnt /\ cnt <= rem
        /\ (rem - cnt > 0 <=> ~(rem <= BeatDw)) /\ (rem <= BeatDw => rem - cnt = 0)
        /\ dma_read_cpl_dw_rem' = rem - cnt
        /\ ~(rem <= BeatDw) => dma_read_cpl' = dma_read_cpl
        /\ host_to_afu_state' = IF rem <= BeatDw THEN "NONE" ELSE "CPL"
    BY <1>a, <1>c DEF HeadBeat
  <1>e. AfuReceives(sop, "cpl", c.tag, c.len, cnt, "none")
    BY <1>a, <1>c DEF HeadBeat, AfuReceives
  <1>f. UNCHANGED <<mmio_req, mmio_req_dw_rem, mmio, num_reset>>
    BY DEF H2aCpld, mmios
  <1>1. ASSUME num_reset = 0
        PROVE  /\ afu_err' \notin {"interrupted", "headless"}
               /\ mmio_req_dw_rem = 0
               /\ rx' = IF rem <= BeatDw THEN NoPacket
                        ELSE [kind |-> "cpl", id |-> c.tag, left |-> rem - cnt]
    <2>1. afu_err \notin {"interrupted", "headless"}
      BY <1>1 DEF FrameInv
    <2>2. CASE sop
      <3>1. host_to_afu_state = "NONE" /\ rx = NoPacket /\ mmio_req_dw_rem = 0
        <4>1. host_to_afu_state \in {"NONE", "CPL"} /\ dma_read_cpl_dw_rem = 0
          BY <2>2, <1>c DEF H2aCpld
        <4> QED
          BY <4>1, <1>1 DEF FrameInv
      <3>2. rem = c.len /\ (c.len - cnt > 0 <=> ~(rem <= BeatDw))
        BY <2>2, <1>d
      <3>3. rx' = IF rem <= BeatDw THEN NoPacket
                  ELSE [kind |-> "cpl", id |-> c.tag, left |-> rem - cnt]
        BY <3>2, <2>2, <1>e DEF AfuReceives
      <3>4. afu_err' \in {afu_err, "none"}
        BY <3>1, <2>2, <1>e DEF AfuReceives
      <3> QED
        BY <3>1, <3>3, <3>4, <2>1
    <2>3. CASE ~sop
      <3>1. /\ rx = [kind |-> "cpl", id |-> c.tag, left |-> dma_read_cpl_dw_rem]
            /\ mmio_req_dw_rem = 0
        BY <1>1, <2>3, <1>b, <1>c, <1>d DEF FrameInv, H2aCpld
      <3>2. rx.id = c.tag /\ rx.kind = "cpl" /\ rx.left = rem
        BY <3>1, <2>3, <1>d
      <3>3. rx.left - cnt > 0 <=> ~(rem <= BeatDw)
        BY <3>2, <1>d
      <3> QED
        BY <3>1, <3>2, <3>3, <2>1, <2>3, <1>d, <1>e DEF AfuReceives
    <2> QED
      BY <2>2, <2>3
  <1> QED
    BY <1>1, <1>d, <1>f DEF FrameInv

\* Every step keeps the stream and what the AFU waits for in agreement.
LEMMA FrameStep ==
    ASSUME OpsInv, MmioInv, ReadInv, FrameInv, [Next]_vars
    PROVE  FrameInv'
  <1> USE DEF cpls, mmios, afu_rx, afu_tx, fsm
  <1>1. ASSUME UNCHANGED <<dma_read_cpl, dma_read_cpl_dw_rem, mmio_req,
                           mmio_req_dw_rem, mmio, host_to_afu_state, rx, afu_err,
                           num_reset>>
        PROVE  FrameInv'
    BY <1>1 DEF FrameInv
  <1>2. CASE RdWatcher \/ WrWatcher \/ CompleteWrites \/ ReceiveRead
    BY <1>2, <1>1 DEF RdWatcher, WrWatcher, CompleteWrites, ReceiveRead
  <1>3. CASE NewMmio
    <2>1. PICK r \in MmioReqs : /\ mmio' = Append(mmio, r)
                                /\ \/ mmio_req' = mmio_req
                                   \/ mmio_req' = Append(mmio_req, Len(mmio) + 1)
      BY <1>3 DEF NewMmio
    <2>2. mmio_req # << >> =>
            /\ mmio_req' # << >> /\ mmio_req'[1] = mmio_req[1]
            /\ mmio_req[1] \in 1 .. Len(mmio)
      <3>1. mmio_req \in Seq(Nat) /\ mmio \in Seq(MmioReqs)
        BY DEF MmioInv, OpsInv
      <3>2. mmio_req # << >> => 1 \in 1 .. Len(mmio_req)
        BY <3>1, EmptySeq, LenProperties
      <3>3. PICK x \in Nat : x = Len(mmio) + 1
        BY <3>1, LenProperties
      <3>4. mmio_req # << >> => mmio_req[1] \in 1 .. Len(mmio)
        BY <3>2 DEF MmioInv
      <3>5. CASE mmio_req' = Append(mmio_req, x)
        <4>1. Len(mmio_req') = Len(mmio_req) + 1 /\ mmio_req' \in Seq(Nat)
          BY <3>1, <3>3, <3>5
        <4>2. Len(mmio_req') # 0
          BY <4>1, <3>1, LenProperties
        <4>3. mmio_req' # << >>
          BY <4>2, EmptySeq
        <4>4. mmio_req # << >> => mmio_req'[1] = mmio_req[1]
          BY <3>1, <3>2, <3>5
        <4> QED
          BY <3>4, <4>3, <4>4
      <3>6. CASE mmio_req' = mmio_req
        BY <3>4, <3>6
      <3> QED
        BY <2>1, <3>3, <3>5, <3>6
    <2>3. \A i \in 1 .. Len(mmio) : mmio'[i] = mmio[i]
      BY <2>1 DEF OpsInv
    <2>4. UNCHANGED <<dma_read_cpl, dma_read_cpl_dw_rem, mmio_req_dw_rem,
                      host_to_afu_state, rx, afu_err, num_reset>>
      BY <1>3 DEF NewMmio
    <2> QED
      BY <2>2, <2>3, <2>4 DEF FrameInv
  <1>4. CASE AskReset
    BY <1>4 DEF AskReset, FrameInv, OpsInv
  <1>5. CASE ResetCycle
    BY <1>5 DEF ResetCycle, FrameInv, OpsInv
  <1>6. CASE SplitCpl
    <2>1. UNCHANGED <<dma_read_cpl_dw_rem, mmio_req, mmio_req_dw_rem, mmio,
                      host_to_afu_state, rx, afu_err, num_reset>>
      BY <1>6 DEF SplitCpl
    <2>2. dma_read_cpl_dw_rem > 0 => dma_read_cpl'[1] = dma_read_cpl[1]
      BY <1>6, SplitCplStep
    <2> QED
      BY <2>1, <2>2 DEF FrameInv
  <1>7. CASE LowerReset \/ StartChannels \/ H2aNothing
    BY <1>7, <1>1 DEF LowerReset, StartChannels, H2aNothing
  <1>8. CASE H2aRefuse
    BY <1>8 DEF H2aRefuse, FrameInv
  <1>9. CASE IrqRsp \/ IrqNothing \/ A2hNothing \/ Tready
    BY <1>9, <1>1 DEF IrqRsp, IrqNothing, A2hNothing, Tready
  <1>10. CASE A2hIrq \/ A2hRead
    BY <1>10, <1>1 DEF A2hIrq, A2hRead
  <1>11. CASE A2hWrite
    <2>1. PICK left : WriteBeat(left)
      BY <1>11 DEF A2hWrite
    <2> QED
      BY <2>1, <1>1 DEF WriteBeat
  <1>12. CASE A2hCpld
    <2>1. PICK id, left : CpldBeat(id, left)
      BY <1>12 DEF A2hCpld
    <2> QED
      BY <2>1, <1>1 DEF CpldBeat
  <1>13. CASE PollReads \/ Killed \/ UNCHANGED vars
    BY <1>13, <1>1 DEF PollReads, Killed, vars
  <1> QED
    BY <1>2, <1>3, <1>4, <1>5, <1>6, <1>7, <1>8, <1>9, <1>10, <1>11, <1>12,
       <1>13, FrameMem, FrameCpld
    DEF Next, App, Clock, Receive, HostToAfu, AfuToHost

\* The AFU sees whole packets with their headers as long as it is not reset,
\* for every number of channels, every width of a beat and every length of
\* completions and MMIO writes (pcie_tlp_stream_host_to_afu_ch).
THEOREM PacketsWellFramed == Spec => []WellFramed
  <1>1. Init => FrameInv
    BY DEF Init, FrameInv
  <1>2. FrameInv => WellFramed
    BY DEF FrameInv, WellFramed
  <1> QED
    BY <1>1, <1>2, FrameStep, OpsInvariance, MmioInvariance, ReadInvariance, PTL
    DEF Spec

-----------------------------------------------------------------------------
(* What a legal AFU may send. *)

\* Before a reset the AFU knows more tags and ids to be in use than the
\* emulator does, so nothing it sends is refused.
LEMMA LegalStep ==
    ASSUME OpsInv, MmioInv, IrqInv, ReadInv, LegalInv, [Next]_vars
    PROVE  LegalInv'
  <1> USE DEF states, irq, afu_tx, afu_todo
  <1>1. ASSUME UNCHANGED <<err, irq_busy, busy, afu_irq, afu_tags, num_reset>>
        PROVE  LegalInv'
    BY <1>1 DEF LegalInv
  <1>2. CASE RdWatcher \/ WrWatcher \/ CompleteWrites \/ ReceiveRead
    BY <1>2, <1>1 DEF RdWatcher, WrWatcher, CompleteWrites, ReceiveRead
  <1>2a. CASE NewMmio
    <2>1. err' = err
      BY <1>2a, NewMmioAccepted
    <2> QED
      BY <2>1, <1>2a, <1>1 DEF NewMmio
  <1>3. CASE AskReset
    BY <1>3 DEF AskReset, LegalInv, OpsInv
  <1>4. CASE ResetCycle
    BY <1>4 DEF ResetCycle, LegalInv, OpsInv
  <1>5. CASE SplitCpl
    <2>1. err' = err
      BY <1>5, SplitCplStep
    <2> QED
      BY <2>1, <1>1, <1>5 DEF SplitCpl
  <1>6. CASE LowerReset \/ StartChannels \/ H2aNothing \/ H2aMem \/ H2aRefuse
    BY <1>6, <1>1 DEF LowerReset, StartChannels, H2aNothing, H2aMem, H2aRefuse
  <1>7. CASE H2aCpld
    <2>1. PICK c \in Cpls, n \in Reads, rem \in Nat, cnt \in Nat :
            HeadBeat(c, n, rem, cnt)
      BY <1>7, BeatFacts
    <2>2. c.tag \in Tags /\ busy \in [Tags -> BOOLEAN]
      BY DEF Cpls, ReadInv, ReadType
    <2>3. UNCHANGED <<err, irq_busy, afu_irq, num_reset>>
      BY <1>7 DEF H2aCpld
    <2>4. CASE c.is_last /\ rem <= BeatDw
      <3>1. /\ busy' = [busy EXCEPT ![c.tag] = FALSE]
            /\ afu_tags' = afu_tags \ {c.tag}
        BY <2>1, <2>4 DEF HeadBeat
      <3> QED
        BY <3>1, <2>2, <2>3 DEF LegalInv
    <2>5. CASE ~(c.is_last /\ rem <= BeatDw)
      <3>1. UNCHANGED <<busy, afu_tags>>
        BY <2>1, <2>5 DEF HeadBeat
      <3> QED
        BY <3>1, <2>3, <1>1
    <2> QED
      BY <2>4, <2>5
  <1>8. CASE IrqRsp
    <2>1. PICK i : irq_busy' = irq_busy \ {i} /\ afu_irq' = afu_irq \ {i}
      BY <1>8 DEF IrqRsp
    <2>2. UNCHANGED <<err, busy, afu_tags, num_reset>>
      BY <1>8 DEF IrqRsp
    <2> QED
      BY <2>1, <2>2 DEF LegalInv
  <1>9. CASE IrqNothing \/ A2hNothing \/ Tready
    BY <1>9, <1>1 DEF IrqNothing, A2hNothing, Tready
  <1>10. CASE A2hIrq
    <2>1. PICK i \in Irqs \ afu_irq :
            /\ afu_irq' = afu_irq \cup {i}
            /\ IF i \in irq_busy
                 THEN err' = "irq_busy" /\ UNCHANGED irq_busy
                 ELSE irq_busy' = irq_busy \cup {i} /\ UNCHANGED err
      BY <1>10 DEF A2hIrq
    <2>2. UNCHANGED <<busy, afu_tags, num_reset>>
      BY <1>10 DEF A2hIrq
    <2> QED
      BY <2>1, <2>2 DEF LegalInv
  <1>11. CASE A2hRead
    <2>1. PICK tag \in Tags \ afu_tags :
            /\ afu_tags' = afu_tags \cup {tag}
            /\ IF busy[tag]
                 THEN err' = "tag_in_use" /\ UNCHANGED busy
                 ELSE busy' = [busy EXCEPT ![tag] = TRUE] /\ UNCHANGED err
      BY <1>11 DEF A2hRead
    <2>2. UNCHANGED <<irq_busy, afu_irq, num_reset>>
      BY <1>11 DEF A2hRead
    <2> QED
      BY <2>1, <2>2 DEF LegalInv, ReadInv, ReadType
  <1>12. CASE A2hWrite
    <2>1. PICK left : WriteBeat(left)
      BY <1>12 DEF A2hWrite
    <2> QED
      BY <2>1, <1>1 DEF WriteBeat
  <1>13. CASE A2hCpld
    <2>1. PICK id, left : CpldBeat(id, left)
      BY <1>13 DEF A2hCpld
    <2>2. err' = err
      BY <1>13, A2hCpldKeeps
    <2> QED
      BY <2>1, <2>2, <1>1 DEF CpldBeat
  <1>14. CASE PollReads \/ Killed \/ UNCHANGED vars
    BY <1>14, <1>1 DEF PollReads, Killed, vars
  <1> QED
    BY <1>2, <1>2a, <1>3, <1>4, <1>5, <1>6, <1>7, <1>8, <1>9, <1>10, <1>11, <1>12,
       <1>13, <1>14
    DEF Next, App, Clock, Receive, HostToAfu, AfuToHost

\* No tag, interrupt id or MMIO completion of an AFU that obeys the protocol is
\* refused, and no count of bytes is wrong, until a reset makes the AFU forget
\* its requests (the checks of the a2h functions).
THEOREM LegalRequestsAccepted == Spec => []LegalAfuAccepted
  <1>1. Init => LegalInv
    BY DEF Init, LegalInv
  <1>2. LegalInv => LegalAfuAccepted
    BY DEF LegalInv, LegalAfuAccepted
  <1> QED
    BY <1>1, <1>2, LegalStep, OpsInvariance, MmioInvariance, IrqInvariance,
       ReadInvariance, PTL DEF Spec

=============================================================================

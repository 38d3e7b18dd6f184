----------------------------- MODULE AxisStream -----------------------------
(***************************************************************************)
(* The AXI-S PCIe TLP emulator of the EA release: TLPs on several channels *)
(* per clock (sw/axis_pcie_tlp/pcie_tlp_stream.c), driven by the clock of  *)
(* rtl/axis_pcie_tlp/axis_pcie_tlp_emulator.sv.  It is the elder sibling   *)
(* of the emulator in PcieSsStream and differs where this module is        *)
(* detailed: the channels of a clock share one packet state; the AFU's     *)
(* tags index the read states and the response buffers and are freed with  *)
(* the last beat of the last completion; completions count bytes under the *)
(* byte enables of the request; interrupts form a list linked by their     *)
(* ids and are answered; an MMIO write is answered with its last beat.     *)
(*                                                                         *)
(* One clock calls, in this order: pcie_complete_dma_writes and            *)
(* pcie_receive_dma_reads (in the call for channel 0), a beat per channel  *)
(* to the AFU, an interrupt response, a beat per channel from the AFU, the *)
(* next tready.  `phase' and `ch' are the place in that sequence.  Delays  *)
(* counted in cycles (63 between MMIO requests, 250 before a completion,   *)
(* 200 before an interrupt response) are of any length, but no two MMIO    *)
(* requests start in one clock.                                            *)
(*                                                                         *)
(* Every read has a number n, which no code looks at; a response buffer    *)
(* holds the number of the read whose data was stored in it last.  The     *)
(* AFU obeys the protocol: it sends whole packets and reuses a tag or an   *)
(* interrupt id only after it was answered; a reset makes it forget both.  *)
(***************************************************************************)
EXTENDS Integers, Sequences, FiniteSets

CONSTANTS
    NumCh,       \* num_tlp_channels
    NumTags,     \* max_outstanding_dma_rd_reqs
    NumIrqs,     \* num_afu_interrupts
    BeatDw,      \* channel_payload_bytes / 4
    RcbDw,       \* request_completion_boundary / 4
    MaxChunks,   \* max_payload_bytes / request_completion_boundary
    ReadReqs,    \* the AFU's reads: length and byte enables
    WriteLens,   \* lengths of the AFU's writes
    MmioReqs,    \* the host's MMIO requests: kind, length and slot_idx
    MaxMmioRd,   \* max_outstanding_mmio_rd_reqs
    MaxOps       \* bound: requests of the AFU and the host, and resets

\* A read is a fence (one DW, no byte enabled) or enables bytes of its first
\* DW and, if there are several, of its last (the checks of pcie_tlp_a2h_mrd).
Legal(r) == \/ r.len = 1 /\ r.last_be = 0
            \/ r.len > 1 /\ r.first_be # 0 /\ r.last_be # 0

ASSUME SizeAssumption ==
    {NumCh, NumTags, NumIrqs, BeatDw, RcbDw, MaxChunks, MaxMmioRd} \subseteq Nat \ {0}
ASSUME ReqAssumption ==
    /\ \A r \in ReadReqs : /\ r.len \in Nat \ {0} /\ Legal(r)
                           /\ r.first_be \in 0 .. 15 /\ r.last_be \in 0 .. 15
    /\ WriteLens \subseteq Nat \ {0}
    /\ MmioReqs \subseteq [kind : {"read", "write", "foreign", "dropped"},
                            len : Nat \ {0}, slot : 0 .. MaxMmioRd - 1]
ASSUME AxisBoundAssumption == MaxOps \in Nat

VARIABLES
    busy, owner,                \* dma_read_state: busy, and whose req_hdr it is
    read_rsp_data,              \* whose words are in the buffer of a tag
    num_dma_reads_pending, num_dma_writes_pending,
    dma_read_cpl,               \* dma_read_cpl_head .. dma_read_cpl_tail
    dma_read_cpl_dw_rem,
    split,                      \* the response pcie_receive_dma_reads cuts up
    mmio_req,                   \* mmio_req_head .. mmio_req_tail, indices of mmio
    mmio_req_dw_rem,
    mmio_now,                   \* last_mmio_req_cycle is the current cycle
    mmio_read_state,            \* the busy MMIO reads
    irq_busy, irq_next,         \* interrupt_state: busy and next
    interrupt_rsp_head, interrupt_rsp_tail,
    host_to_afu_state, afu_to_host_state,
    phase, ch,                  \* place in the emulator's clock cycle
    tx_tready,                  \* afu_tx_st.tready
    SoftReset,                  \* the AFU's reset: off, asked for, held
    rd_req, rd_rsp,             \* sim2app_membus_rd_req, app2sim_membus_rd_rsp
    wr_req, wr_rsp,             \* messages in the pipes of the writes
    reqs, afu_tags,             \* the AFU's reads; the tags it has in use
    wrote, tx,                  \* its writes; the packet it is sending
    rx, got,                    \* the packet it is receiving; DWs per read
    afu_mmio, afu_irq,          \* MMIO reads it owes; interrupts it waits for
    irqs,                       \* how many interrupts it has raised
    afu_err,                    \* what it found wrong with a beat
    mmio, answers,              \* the host's MMIO requests; answers to each
    raised,                     \* interrupts not yet answered, oldest first
    num_reset,
    err                         \* the fatal error of an a2h function

states == <<busy, owner, read_rsp_data>>
counts == <<num_dma_reads_pending, num_dma_writes_pending>>
cpls   == <<dma_read_cpl, dma_read_cpl_dw_rem>>
mmios  == <<mmio_req, mmio_req_dw_rem, mmio_now, mmio_read_state, mmio, answers>>
irq    == <<irq_busy, irq_next, interrupt_rsp_head, interrupt_rsp_tail, raised>>
fsm    == <<host_to_afu_state, afu_to_host_state>>
pipes  == <<rd_req, rd_rsp, wr_req, wr_rsp>>
afu_tx == <<reqs, afu_tags, wrote, tx, irqs>>
afu_rx == <<rx, got, afu_err>>
afu_todo == <<afu_mmio, afu_irq>>
clock  == <<phase, ch, tx_tready>>
vars   == <<states, counts, cpls, split, mmios, irq, fsm, clock, SoftReset,
            pipes, afu_tx, afu_rx, afu_todo, num_reset, err>>

-----------------------------------------------------------------------------
Tags   == 0 .. NumTags - 1
Irqs   == 0 .. NumIrqs - 1
Reads  == 1 .. MaxOps
Null   == -1
NoRead == 0
Smaller(a, b) == IF a <= b THEN a ELSE b

NoSplit  == [tag |-> 0, start |-> 0, rem |-> 0, bytes |-> 0]
NoPacket == [kind |-> "none", id |-> 0, left |-> 0]

\* pcie_param_init
Init ==
    /\ busy = [t \in Tags |-> FALSE]
    /\ owner = [t \in Tags |-> NoRead]
    /\ read_rsp_data = [t \in Tags |-> NoRead]
    /\ num_dma_reads_pending = 0 /\ num_dma_writes_pending = 0
    /\ dma_read_cpl = << >> /\ dma_read_cpl_dw_rem = 0
    /\ split = NoSplit
    /\ mmio_req = << >> /\ mmio_req_dw_rem = 0 /\ mmio_now = FALSE
    /\ mmio_read_state = {}
    /\ irq_busy = {} /\ irq_next = [i \in Irqs |-> 0]
    /\ interrupt_rsp_head = Null /\ interrupt_rsp_tail = Null
    /\ host_to_afu_state = "NONE" /\ afu_to_host_state = "NONE"
    /\ phase = "edge" /\ ch = 0 /\ tx_tready = FALSE
    /\ SoftReset = "off"
    /\ rd_req = << >> /\ rd_rsp = << >> /\ wr_req = 0 /\ wr_rsp = 0
    /\ reqs = << >> /\ afu_tags = {} /\ wrote = 0 /\ tx = NoPacket /\ irqs = 0
    /\ rx = NoPacket /\ got = [n \in Reads |-> 0] /\ afu_err = "none"
    /\ afu_mmio = {} /\ afu_irq = {}
    /\ mmio = << >> /\ answers = << >>
    /\ raised = << >>
    /\ num_reset = 0
    /\ err = "none"

\* The bound on a behaviour.  A write counts when it is complete.
MoreOps == Len(reqs) + wrote + irqs + Len(mmio) + num_reset < MaxOps

Running(p) == err = "none" /\ phase = p

-----------------------------------------------------------------------------
(* The application. *)

\* membus_rd_watcher and membus_wr_watcher serve one request each.
RdWatcher ==
    /\ err = "none"
    /\ rd_req # << >>
    /\ rd_rsp' = Append(rd_rsp, Head(rd_req))
    /\ rd_req' = Tail(rd_req)
    /\ UNCHANGED <<states, counts, cpls, split, mmios, irq, fsm, clock,
                   SoftReset, wr_req, wr_rsp, afu_tx, afu_rx, afu_todo,
                   num_reset, err>>

WrWatcher ==
    /\ err = "none"
    /\ wr_req > 0
    /\ wr_req' = wr_req - 1
    /\ wr_rsp' = wr_rsp + 1
    /\ UNCHANGED <<states, counts, cpls, split, mmios, irq, fsm, clock,
                   SoftReset, rd_req, rd_rsp, afu_tx, afu_rx, afu_todo,
                   num_reset, err>>

\* mmio_response: one more answer to the request with this index.
Answer(id) == answers' = [answers EXCEPT ![id] = @ + 1]

\* The application gives a request a line of its scoreboard, its slot_idx, that
\* no request without an answer has (SlotOwnedOnce of module MmioScoreboard).
LineFree(s) == \A id \in 1 .. Len(mmio) : answers[id] = 0 => mmio[id].slot # s

\* The requests that are for this AFU.
ForThisAfu(m) == m.kind \in {"read", "write"}

\* The errors of pcie_mmio_new_req: a read whose slot has no entry in
\* mmio_read_state, or one that is busy.
SlotError(m) ==
    /\ m.kind = "read"
    /\ \/ m.slot >= MaxMmioRd
       \/ \E id \in mmio_read_state : mmio[id].slot = m.slot

\* pcie_mmio_new_req, called by ase_listener at a clock edge.  A read of
\* another AFU is answered at once, a write to it is dropped without an answer;
\* a read of this one is entered in mmio_read_state.
NewMmio ==
    /\ Running("edge")
    /\ MoreOps
    /\ \E m \in MmioReqs :
         LET id == Len(mmio) + 1
         IN  /\ LineFree(m.slot)
             /\ mmio' = Append(mmio, m)
             /\ answers' = Append(answers, IF m.kind = "foreign" THEN 1 ELSE 0)
             /\ mmio_req' = IF ForThisAfu(m) THEN Append(mmio_req, id)
                            ELSE mmio_req
             /\ mmio_read_state' = IF m.kind = "read"
                                     THEN mmio_read_state \cup {id}
                                     ELSE mmio_read_state
             /\ err' = IF SlotError(m) THEN "mmio_slot" ELSE err
    /\ UNCHANGED <<states, counts, cpls, split, mmio_req_dw_rem, mmio_now, irq,
                   fsm, clock, SoftReset, pipes, afu_tx, afu_rx, afu_todo,
                   num_reset>>

\* send_swreset asks for a reset when its MMIO requests have been answered.
AskReset ==
    /\ err = "none"
    /\ SoftReset = "off"
    /\ MoreOps
    /\ \A id \in 1 .. Len(mmio) : answers[id] > 0
    /\ SoftReset' = "asked"
    /\ num_reset' = num_reset + 1
    /\ UNCHANGED <<states, counts, cpls, split, mmios, irq, fsm, clock, pipes,
                   afu_tx, afu_rx, afu_todo, err>>

\* Clock edges in reset: pcie_tlp_reset, and the AFU starts afresh.
ResetCycle ==
    /\ Running("edge")
    /\ SoftReset = "asked"
    /\ SoftReset' = "held"
    /\ host_to_afu_state' = "NONE" /\ afu_to_host_state' = "NONE"
    /\ tx_tready' = FALSE
    /\ afu_tags' = {} /\ tx' = NoPacket /\ rx' = NoPacket
    /\ afu_mmio' = {} /\ afu_irq' = {}
    /\ UNCHANGED <<states, counts, cpls, split, mmios, irq, phase, ch,
                   pipes, reqs, wrote, irqs, got, afu_err,
                   num_reset, err>>

LowerReset ==
    /\ Running("edge")
    /\ SoftReset = "held"
    /\ SoftReset' = "off"
    /\ UNCHANGED <<states, counts, cpls, split, mmios, irq, fsm, clock, pipes,
                   afu_tx, afu_rx, afu_todo, num_reset, err>>

-----------------------------------------------------------------------------
(* Byte enables.  A mask is a number below 16, bit 0 the first byte.       *)

LowZeros(m)  == CHOOSE k \in 0 .. 3 : m % 2 ^ (k + 1) = 2 ^ k
HighZeros(m) == CHOOSE k \in 0 .. 3 : 2 ^ (3 - k) <= m /\ m < 2 ^ (4 - k)

\* Faulty: the mask of the last DW is ignored when there is only one.
pcie_cpl_byte_count_nolast(len, first_be, last_be) ==
    IF first_be = 0 THEN 1
    ELSE 4 * len - LowZeros(first_be)
           - (IF last_be = 0 THEN 0 ELSE HighZeros(last_be))

\* pcie_cpl_byte_count, table 2-38 of the PCIe standard.
pcie_cpl_byte_count(len, first_be, last_be) ==
    IF first_be = 0 THEN 1
    ELSE 4 * len - LowZeros(first_be)
           - HighZeros(IF last_be = 0 THEN first_be ELSE last_be)

\* pcie_cpl_lower_addr_byte_offset, table 2-39.
pcie_cpl_lower_addr_byte_offset(first_be) ==
    IF first_be = 0 THEN 0 ELSE LowZeros(first_be)

-----------------------------------------------------------------------------
(* Receiving from the memory model, in the call for channel 0. *)

\* pcie_complete_dma_writes takes every response that is there.
CompleteWrites ==
    /\ Running("edge")
    /\ SoftReset # "held"
    /\ num_dma_writes_pending' = num_dma_writes_pending - wr_rsp
    /\ wr_rsp' = 0
    /\ phase' = "recv"
    /\ UNCHANGED <<states, num_dma_reads_pending, cpls, split, mmios, irq, fsm,
                   ch, tx_tready, SoftReset, rd_req, rd_rsp, wr_req, afu_tx,
                   afu_rx, afu_todo, num_reset, err>>

\* pcie_receive_dma_reads stores one response and starts to cut it up.  A fence
\* brings no data, and its completion sends what is in the buffer.
ReceiveRead ==
    /\ Running("recv")
    /\ num_dma_reads_pending > 0
    /\ rd_rsp # << >>
    /\ LET r   == Head(rd_rsp)
           hdr == reqs[owner[r.tag]]
       IN  /\ read_rsp_data' = IF hdr.first_be = 0 THEN read_rsp_data
                               ELSE [read_rsp_data EXCEPT ![r.tag] = r.n]
           /\ split' = [tag |-> r.tag, start |-> 0, rem |-> hdr.len,
                        bytes |-> pcie_cpl_byte_count(hdr.len, hdr.first_be,
                                                      hdr.last_be)]
    /\ rd_rsp' = Tail(rd_rsp)
    /\ num_dma_reads_pending' = num_dma_reads_pending - 1
    /\ phase' = "split"
    /\ UNCHANGED <<busy, owner, num_dma_writes_pending, cpls, mmios, irq, fsm,
                   ch, tx_tready, SoftReset, rd_req, wr_req, wr_rsp, afu_tx,
                   afu_rx, afu_todo, num_reset, err>>

\* The loop polls until the application has answered every read.
PollReads ==
    /\ Running("recv")
    /\ num_dma_reads_pending > 0
    /\ rd_rsp = << >>
    /\ UNCHANGED vars

\* random_cpl_length: any number of chunks, or all that remains.
random_cpl_length(rem) ==
    IF rem <= RcbDw THEN {rem}
    ELSE {Smaller(rem, k * RcbDw) : k \in 1 .. MaxChunks}

\* Faulty: the walk passes the head, which may be half sent.
CplPositions_head(tag) ==
    LET len  == Len(dma_read_cpl)
        stop == {i \in 1 .. len : dma_read_cpl[i].tag = tag} \cup {0}
    IN  {p \in 0 .. len : \E later \in {0, 1, 2, 5} :
           /\ p \in stop \cup {len - later}
           /\ p >= len - later
           /\ \A i \in stop : i <= p}

\* push_new_read_cpl puts a completion behind the first p of the list: the
\* walk back over n_later_rsp of them stops at one of the same request and at
\* the head.
CplPositions(tag) ==
    LET len  == Len(dma_read_cpl)
        stop == {i \in 1 .. len : dma_read_cpl[i].tag = tag}
                    \cup {Smaller(1, len)}
    IN  {p \in 0 .. len : \E later \in {0, 1, 2, 5} :
           /\ p \in stop \cup {len - later}
           /\ p >= len - later
           /\ \A i \in stop : i <= p}

\* One turn of the loop that cuts a response into completions.  Its two
\* assertions end the simulator.
SplitCpl ==
    /\ Running("split")
    /\ \E len \in random_cpl_length(split.rem), p \in CplPositions(split.tag) :
         LET hdr      == reqs[owner[split.tag]]
             is_first == split.start = 0
             is_last  == len = split.rem
             bytes    == split.bytes - pcie_cpl_byte_count(len,
                            IF is_first THEN hdr.first_be ELSE 15,
                            IF is_last THEN hdr.last_be ELSE 15)
         IN  /\ dma_read_cpl' =
                  SubSeq(dma_read_cpl, 1, p)
                    \o <<[tag |-> split.tag, start |-> split.start, len |-> len,
                          byte_count |-> split.bytes, is_last |-> is_last]>>
                    \o SubSeq(dma_read_cpl, p + 1, Len(dma_read_cpl))
             /\ IF is_last
                  THEN /\ split' = NoSplit /\ phase' = "recv"
                       /\ err' = IF bytes = 0 THEN "none" ELSE "byte_count_rem"
                  ELSE /\ split' = [split EXCEPT !.start = @ + len,
                                                 !.rem = @ - len,
                                                 !.bytes = bytes]
                       /\ UNCHANGED <<phase, err>>
    /\ UNCHANGED <<states, counts, dma_read_cpl_dw_rem, mmios, irq, fsm, ch,
                   tx_tready, SoftReset, pipes, afu_tx, afu_rx, afu_todo,
                   num_reset>>

-----------------------------------------------------------------------------
(* pcie_tlp_stream_host_to_afu_ch: at most one beat per channel. *)

\* The reads have been received.  The channels get beats if the AFU is ready.
StartChannels ==
    /\ Running("recv")
    /\ num_dma_reads_pending = 0
    /\ phase' \in {"h2a", "irq"}
    /\ UNCHANGED <<states, counts, cpls, split, mmios, irq, fsm, ch, tx_tready,
                   SoftReset, pipes, afu_tx, afu_rx, afu_todo, num_reset, err>>

\* On to the next channel or, after the last one, to phase p.
NextChannel(p) ==
    IF ch = NumCh - 1 THEN ch' = 0 /\ phase' = p
                      ELSE ch' = ch + 1 /\ UNCHANGED phase

\* What the AFU makes of a beat that carries cnt of the DWs of a packet: a
\* packet starts with a header, is not interrupted, and ends with its length.
AfuReceives(sop, kind, id, len, cnt, problem) ==
    LET cont == rx.kind = kind /\ rx.id = id /\ cnt <= rx.left
        left == IF sop THEN len - cnt ELSE rx.left - cnt
    IN  /\ afu_err' = CASE afu_err # "none"       -> afu_err
                        [] sop /\ rx # NoPacket   -> "interrupted"
                        [] ~sop /\ ~cont          -> "headless"
                        [] OTHER                  -> problem
        /\ rx' = IF (sop \/ cont) /\ left > 0
                   THEN [kind |-> kind, id |-> id, left |-> left]
                   ELSE NoPacket

\* Nothing is there or it is refused.  An MMIO write that has begun is not
\* refused.
H2aNothing ==
    /\ Running("h2a")
    /\ mmio_req_dw_rem = 0
    /\ host_to_afu_state = "NONE" => dma_read_cpl_dw_rem = 0
    /\ NextChannel("irq")
    /\ UNCHANGED <<states, counts, cpls, split, mmios, irq, fsm, tx_tready,
                   SoftReset, pipes, afu_tx, afu_rx, afu_todo, num_reset, err>>

\* Faulty: a write is answered with every beat.
Answers_every(m, last) == m.kind = "write"

\* The application expects a response to a write, sent with its last beat.
Answers(m, last) == m.kind = "write" /\ last

\* pcie_tlp_h2a_mem: one beat of the request at the head of the list.
H2aMem ==
    /\ Running("h2a")
    /\ host_to_afu_state \in {"NONE", "MEM"}
    /\ mmio_req # << >>
    /\ mmio_req_dw_rem = 0 => ~mmio_now
    /\ LET id   == Head(mmio_req)
           m    == mmio[id]
           sop  == mmio_req_dw_rem = 0
           rem  == IF m.kind = "read" THEN 0
                   ELSE IF sop THEN m.len ELSE mmio_req_dw_rem
           cnt  == Smaller(rem, BeatDw)
           last == rem <= BeatDw
       IN  /\ mmio_req_dw_rem' = rem - cnt
           /\ mmio_req' = IF last THEN Tail(mmio_req) ELSE mmio_req
           /\ IF Answers(m, last) THEN Answer(id) ELSE UNCHANGED answers
           /\ afu_mmio' = IF m.kind = "read" THEN afu_mmio \cup {id}
                                             ELSE afu_mmio
           /\ host_to_afu_state' = IF last THEN "NONE" ELSE "MEM"
           /\ AfuReceives(sop, "mmio", id, IF m.kind = "read" THEN 0 ELSE m.len,
                          cnt, "none")
    /\ mmio_now' = TRUE
    /\ NextChannel("irq")
    /\ UNCHANGED <<states, counts, cpls, split, mmio_read_state, mmio, irq,
                   afu_to_host_state, tx_tready, SoftReset, pipes, afu_tx, got,
                   afu_irq, num_reset, err>>

\* The bytes a read asks for, counted from the start of its first DW.
ByteEnables(r, d) == IF d = 0 THEN r.first_be
                     ELSE IF d = r.len - 1 THEN r.last_be ELSE 15
Enabled(r) == {x \in 0 .. 4 * r.len - 1 :
                 (ByteEnables(r, x \div 4) \div 2 ^ (x % 4)) % 2 = 1}

\* What the AFU expects of the header of the completion that starts at DW
\* `start': the offset of the first byte asked for, or of the DW if the request
\* began earlier, and how far it is from there to behind the last byte asked
\* for.  A fence counts as one byte.
ExpectedBytes(r, start) ==
    LET first == IF start = 0
                   THEN CHOOSE x \in Enabled(r) : \A y \in Enabled(r) : x <= y
                   ELSE 4 * start
        final == CHOOSE x \in Enabled(r) : \A y \in Enabled(r) : x >= y
    IN  IF Enabled(r) = {} THEN [lower |-> 0, count |-> 1]
        ELSE [lower |-> first, count |-> final - first + 1]

\* Faulty: a completion of a single beat does not free its tag.
FreesTag_later(c, sop, last) == c.is_last /\ last /\ ~sop

\* The last beat of the last completion frees the tag.
FreesTag(c, sop, last) == c.is_last /\ last

\* pcie_tlp_h2a_cpld: one beat of the completion at the head of the list.
H2aCpld ==
    /\ Running("h2a")
    /\ \/ host_to_afu_state = "NONE" /\ mmio_req_dw_rem = 0
       \/ host_to_afu_state = "CPL"
    /\ dma_read_cpl # << >>
    /\ LET c    == Head(dma_read_cpl)
           n    == owner[c.tag]
           hdr  == reqs[n]
           sop  == dma_read_cpl_dw_rem = 0
           rem  == IF sop THEN c.len ELSE dma_read_cpl_dw_rem
           cnt  == Smaller(rem, BeatDw)
           last == rem <= BeatDw
           sent == [lower |-> 4 * c.start + IF c.start = 0
                       THEN pcie_cpl_lower_addr_byte_offset(hdr.first_be) ELSE 0,
                    count |-> c.byte_count]
       IN  /\ dma_read_cpl_dw_rem' = rem - cnt
           /\ dma_read_cpl' = IF last THEN Tail(dma_read_cpl) ELSE dma_read_cpl
           /\ host_to_afu_state' = IF last THEN "NONE" ELSE "CPL"
           /\ AfuReceives(sop, "cpl", c.tag, c.len, cnt,
                CASE /\ hdr.first_be # 0
                     /\ read_rsp_data[c.tag] # n            -> "wrong_data"
                  [] c.start + c.len - rem # got[n]         -> "out_of_order"
                  [] sop /\ sent # ExpectedBytes(hdr, c.start) -> "wrong_bytes"
                  [] OTHER                                  -> "none")
           /\ got' = [got EXCEPT ![n] = @ + cnt]
           /\ busy' = IF FreesTag(c, sop, last) THEN [busy EXCEPT ![c.tag] = FALSE]
                                           ELSE busy
           /\ afu_tags' = IF c.is_last /\ last THEN afu_tags \ {c.tag} ELSE afu_tags
    /\ NextChannel("irq")
    /\ UNCHANGED <<owner, read_rsp_data, counts, split, mmios, irq,
                   afu_to_host_state, tx_tready, SoftReset, pipes, reqs, wrote,
                   tx, irqs, afu_todo, num_reset, err>>

\* A refusal in the middle of a completion leaves the stream in that state.
H2aRefuse ==
    /\ Running("h2a")
    /\ host_to_afu_state = "NONE" /\ mmio_req_dw_rem = 0
    /\ dma_read_cpl_dw_rem > 0
    /\ host_to_afu_state' = "CPL"
    /\ NextChannel("irq")
    /\ UNCHANGED <<states, counts, cpls, split, mmios, irq, afu_to_host_state,
                   tx_tready, SoftReset, pipes, afu_tx, afu_rx, afu_todo,
                   num_reset, err>>

-----------------------------------------------------------------------------
(* Interrupts: the pending ones are linked by interrupt_state[].next. *)

\* Faulty: the tail is not reset when the list becomes empty.
NextTail_kept(next) == IF next = Null THEN interrupt_rsp_tail
                       ELSE interrupt_rsp_tail

NextTail(next) == IF next = Null THEN Null ELSE interrupt_rsp_tail

AfterIrq == phase' = IF tx_tready THEN "a2h" ELSE "tready"

\* pcie_host_to_afu_irq_rsp: the oldest interrupt is signalled
\* (ase_interrupt_generator) and answered.
IrqRsp ==
    /\ Running("irq")
    /\ interrupt_rsp_head # Null
    /\ LET i == interrupt_rsp_head
       IN  /\ irq_busy' = irq_busy \ {i}
           /\ interrupt_rsp_head' = irq_next[i]
           /\ interrupt_rsp_tail' = NextTail(irq_next[i])
           /\ afu_irq' = afu_irq \ {i}
    /\ raised' = Tail(raised)
    /\ AfterIrq
    /\ UNCHANGED <<states, counts, cpls, split, mmios, irq_next, fsm, ch,
                   tx_tready, SoftReset, pipes, afu_tx, afu_rx, afu_mmio,
                   num_reset, err>>

\* None is pending, it is too early, or a random delay.
IrqNothing ==
    /\ Running("irq")
    /\ AfterIrq
    /\ UNCHANGED <<states, counts, cpls, split, mmios, irq, fsm, ch, tx_tready,
                   SoftReset, pipes, afu_tx, afu_rx, afu_todo, num_reset, err>>

\* pcie_tlp_a2h_interrupt: append the id to the list.
A2hIrq ==
    /\ Running("a2h")
    /\ afu_to_host_state = "NONE"
    /\ MoreOps
    /\ \E i \in Irqs \ afu_irq :
         /\ afu_irq' = afu_irq \cup {i}
         /\ IF i \in irq_busy
              THEN err' = "irq_busy" /\ UNCHANGED irq
              ELSE /\ irq_busy' = irq_busy \cup {i}
                   /\ irq_next' = [j \in Irqs |-> IF j = i THEN Null
                                     ELSE IF j = interrupt_rsp_tail THEN i
                                     ELSE irq_next[j]]
                   /\ interrupt_rsp_head' = IF interrupt_rsp_tail = Null THEN i
                                            ELSE interrupt_rsp_head
                   /\ interrupt_rsp_tail' = i
                   /\ raised' = Append(raised, i)
                   /\ UNCHANGED err
    /\ irqs' = irqs + 1
    /\ NextChannel("tready")
    /\ UNCHANGED <<states, counts, cpls, split, mmios, fsm, tx_tready,
                   SoftReset, pipes, reqs, afu_tags, wrote, tx, afu_rx,
                   afu_mmio, num_reset>>

-----------------------------------------------------------------------------
(* pcie_tlp_stream_afu_to_host_ch: the channels with a beat of the AFU. *)

A2hNothing ==
    /\ Running("a2h")
    /\ NextChannel("tready")
    /\ UNCHANGED <<states, counts, cpls, split, mmios, irq, fsm, tx_tready,
                   SoftReset, pipes, afu_tx, afu_rx, afu_todo, num_reset, err>>

\* pcie_tlp_a2h_mrd: record the request under the AFU's tag and send it on.
A2hRead ==
    /\ Running("a2h")
    /\ afu_to_host_state = "NONE"
    /\ MoreOps
    /\ \E r \in ReadReqs, tag \in Tags \ afu_tags :
         LET n == Len(reqs) + 1
         IN  /\ reqs' = Append(reqs, r)
             /\ afu_tags' = afu_tags \cup {tag}
             /\ IF busy[tag]
                  THEN err' = "tag_in_use"
                       /\ UNCHANGED <<busy, owner, rd_req, num_dma_reads_pending>>
                  ELSE /\ busy' = [busy EXCEPT ![tag] = TRUE]
                       /\ owner' = [owner EXCEPT ![tag] = n]
                       /\ rd_req' = Append(rd_req, [tag |-> tag, n |-> n])
                       /\ num_dma_reads_pending' = num_dma_reads_pending + 1
                       /\ UNCHANGED err
    /\ NextChannel("tready")
    /\ UNCHANGED <<read_rsp_data, num_dma_writes_pending, cpls, split, mmios,
                   irq, fsm, tx_tready, SoftReset, rd_rsp, wr_req, wr_rsp,
                   wrote, tx, irqs, afu_rx, afu_todo, num_reset>>

\* A beat of a packet of the AFU with `left' DWs to come.
TxBeat(kind, id, left, state) ==
    IF left <= BeatDw
      THEN tx' = NoPacket /\ afu_to_host_state' = "NONE"
      ELSE /\ tx' = [kind |-> kind, id |-> id, left |-> left - BeatDw]
           /\ afu_to_host_state' = state

\* pcie_tlp_a2h_mwr: a complete write is sent to the memory.
WriteBeat(left) ==
    /\ TxBeat("mwr", 0, left, "MEM")
    /\ IF left <= BeatDw
         THEN /\ wrote' = wrote + 1
              /\ wr_req' = wr_req + 1
              /\ num_dma_writes_pending' = num_dma_writes_pending + 1
         ELSE UNCHANGED <<wrote, wr_req, num_dma_writes_pending>>
    /\ NextChannel("tready")
    /\ UNCHANGED <<states, num_dma_reads_pending, cpls, split, mmios, irq,
                   host_to_afu_state, tx_tready, SoftReset, rd_req, rd_rsp,
                   wr_rsp, reqs, afu_tags, irqs, afu_rx, afu_todo, num_reset,
                   err>>

A2hWrite ==
    /\ Running("a2h")
    /\ \/ /\ afu_to_host_state = "NONE" /\ MoreOps
          /\ \E len \in WriteLens : WriteBeat(len)
       \/ afu_to_host_state = "MEM" /\ WriteBeat(tx.left)

\* pcie_tlp_a2h_cpld: a complete MMIO completion frees the entry of
\* mmio_read_state and answers the application.
CpldBeat(id, left) ==
    /\ TxBeat("cpld", id, left, "CPL")
    /\ IF left <= BeatDw
         THEN /\ err' = IF id \in mmio_read_state THEN "none" ELSE "not_active"
              /\ mmio_read_state' = mmio_read_state \ {id}
              /\ Answer(id)
              /\ afu_mmio' = afu_mmio \ {id}
         ELSE UNCHANGED <<err, mmio_read_state, answers, afu_mmio>>
    /\ NextChannel("tready")
    /\ UNCHANGED <<states, counts, cpls, split, mmio_req, mmio_req_dw_rem,
                   mmio_now, mmio, irq, host_to_afu_state, tx_tready, SoftReset,
                   pipes, reqs, afu_tags, wrote, irqs, afu_rx, afu_irq,
                   num_reset>>

A2hCpld ==
    /\ Running("a2h")
    /\ \/ /\ afu_to_host_state = "NONE"
          /\ \E id \in afu_mmio : CpldBeat(id, mmio[id].len)
       \/ afu_to_host_state = "CPL" /\ CpldBeat(tx.id, tx.left)

\* pcie_tlp_stream_afu_to_host_tready: random back-pressure.
Tready ==
    /\ Running("tready")
    /\ tx_tready' \in BOOLEAN
    /\ phase' = "edge"
    /\ mmio_now' = FALSE
    /\ UNCHANGED <<states, counts, cpls, split, mmio_req, mmio_req_dw_rem,
                   mmio_read_state, mmio, answers, irq, fsm, ch, SoftReset,
                   pipes, afu_tx, afu_rx, afu_todo, num_reset, err>>

-----------------------------------------------------------------------------
App       == RdWatcher \/ WrWatcher \/ NewMmio \/ AskReset
Receive   == CompleteWrites \/ ReceiveRead \/ PollReads \/ SplitCpl
HostToAfu == \/ StartChannels \/ H2aNothing \/ H2aMem \/ H2aCpld \/ H2aRefuse
             \/ IrqRsp \/ IrqNothing
AfuToHost == A2hNothing \/ A2hIrq \/ A2hRead \/ A2hWrite \/ A2hCpld \/ Tready
Clock     == ResetCycle \/ LowerReset \/ Receive \/ HostToAfu \/ AfuToHost

\* A fatal error starts the countdown to the end of the simulation.
Killed == err # "none" /\ UNCHANGED vars

Next == App \/ Clock \/ Killed

Spec == Init /\ [][Next]_vars

-----------------------------------------------------------------------------
(* Properties *)

\* The AFU sees every packet as its header announces, although a packet runs
\* over channels and clocks, MMIO requests and completions share the channels
\* and are refused at random.  Only a reset may cut a packet
\* (pcie_tlp_stream_host_to_afu_ch, pcie_tlp_reset).
WellFramed == num_reset = 0 => afu_err \notin {"interrupted", "headless"}

\* A completion carries the words of the read its tag names, in increasing
\* order: the buffer of a tag is not overwritten while it is being sent.
\* However a response is cut, every completion names the first byte it brings
\* and the bytes that remain of the request as the byte enables define them,
\* and the counts add up (pcie_receive_dma_reads and its assertions,
\* pcie_tlp_h2a_cpld).
ReadDataCorrect == /\ afu_err \notin {"wrong_data", "out_of_order", "wrong_bytes"}
                   /\ err # "byte_count_rem"

\* The list linked by id holds the interrupts that have not been answered, in
\* the order in which the AFU raised them; the tail is the last one
\* (pcie_tlp_a2h_interrupt, pcie_host_to_afu_irq_rsp).
IrqListSound ==
    LET len == Len(raised)
    IN  /\ interrupt_rsp_head = IF len = 0 THEN Null ELSE raised[1]
        /\ \A k \in 1 .. len :
             irq_next[raised[k]] = IF k = len THEN Null ELSE raised[k + 1]
        /\ interrupt_rsp_tail = IF len = 0 THEN Null ELSE raised[len]
        /\ irq_busy = {raised[k] : k \in 1 .. len}
        /\ \A j, k \in 1 .. len : raised[j] = raised[k] => j = k

\* An MMIO request that the emulator no longer holds has been answered exactly
\* once, one it still holds has not: the application gets each credit back
\* once (mmio_response in pcie_mmio_new_req, h2a_mem and a2h_cpld).  Only a
\* write to an AFU the emulator does not have is never answered.
MmioAnsweredOnce ==
    \A id \in 1 .. Len(mmio) :
      LET held == \/ \E k \in 1 .. Len(mmio_req) : mmio_req[k] = id
                  \/ id \in mmio_read_state
      IN  answers[id] = IF held \/ mmio[id].kind = "dropped" THEN 0 ELSE 1

\* The emulator accepts what a legal AFU sends unless a reset made the AFU
\* forget its requests: no tag, interrupt id or MMIO completion is refused, and
\* no read of the application is for a slot that is still busy.
LegalAfuAccepted == num_reset = 0 => err = "none"

\* The emulator implements the read service of module DmaReads.
Service == INSTANCE DmaReads
    WITH InOrder <- FALSE, Lens <- {r.len : r \in ReadReqs},
         NumReads <- MaxOps,
         want <- [n \in 1 .. Len(reqs) |-> reqs[n].len], got <- got
ImplementsDmaReads == Service!Spec
=============================================================================

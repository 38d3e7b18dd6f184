---------------------------- MODULE PcieSsStream ----------------------------
(***************************************************************************)
(* DMA through the PCIe subsystem emulator: the two TLP streams between    *)
(* the emulator and the AFU (sw/pcie_ss_tlp/pcie_ss_tlp_stream.c), the     *)
(* clock that drives them (rtl/pcie_ss_tlp/ase_pcie_ss_emulator.sv), and   *)
(* the two threads of the application that serve host memory               *)
(* (membus_rd_watcher and membus_wr_watcher in sw/app_backend.c).          *)
(*                                                                         *)
(* One clock cycle of the emulator calls, in this order,                   *)
(*   pcie_complete_dma_writes, pcie_receive_dma_reads, at most one beat    *)
(*   towards the AFU, at most one beat from the AFU, the next tready.      *)
(* `phase' is the place in that sequence.  The application runs at its own *)
(* pace: the two processes share nothing but the four membus pipes.        *)
(*                                                                         *)
(* Lengths are in double words (DW) of any size.  An address is left out;  *)
(* a DMA write stands for "one more write has been performed", so a read   *)
(* is characterised by how many writes had been performed when it was      *)
(* served.  Every read has a number n, which no code looks at: it tells    *)
(* whose data a completion carries.  The AFU obeys the protocol: it ends   *)
(* its packets where their length says and, when tags are not mapped, does *)
(* not reuse the tag of a read before the header of its last completion.   *)
(***************************************************************************)
EXTENDS Integers, Sequences, FiniteSets

CONSTANTS
    NumTags,     \* max_outstanding_dma_rd_reqs
    TagMapper,   \* emulate_tag_mapper
    Ordered,     \* ordered_completions
    BeatDw,      \* tlp_tdata_dwords, the DWs of one beat
    SopDw,       \* payload DWs of a beat with a header: BeatDw - tlp_hdr_dwords
    RcbDw,       \* request_completion_boundary / 4
    MaxChunks,   \* max_rd_req_bytes / request_completion_boundary
    ReadLens,    \* lengths of the AFU's reads
    WriteLens,   \* lengths of the AFU's writes
    MmioLens,    \* lengths of the host's MMIO requests, 0 for a read
    DmModes,     \* encodings of the AFU's reads: data mover or not
    MaxReads, MaxWrites, MaxMmio, MaxMsgs, MaxResets \* bounds on a behaviour

ASSUME TagsAssumption == NumTags \in Nat \ {0}
ASSUME ModeAssumption ==
    /\ TagMapper \in BOOLEAN /\ Ordered \in BOOLEAN
    /\ DmModes \subseteq BOOLEAN
ASSUME WidthAssumption ==
    /\ BeatDw \in Nat \ {0} /\ SopDw \in Nat /\ SopDw <= BeatDw
    /\ RcbDw \in Nat \ {0} /\ MaxChunks \in Nat \ {0}
ASSUME LenAssumption ==
    /\ ReadLens \subseteq Nat \ {0} /\ WriteLens \subseteq Nat \ {0}
    /\ MmioLens \subseteq Nat
ASSUME BoundAssumption ==
    /\ MaxReads \in Nat /\ MaxWrites \in Nat /\ MaxMmio \in Nat
    /\ MaxMsgs \in Nat /\ MaxResets \in Nat

VARIABLES
    busy, owner, start_cycle,   \* dma_read_state, one function per field
    dma_read_state_free_head,
    num_dma_reads_pending, num_dma_writes_pending,
    dma_read_cpl,               \* dma_read_cpl_head .. dma_read_cpl_tail
    dma_read_cpl_dw_rem,
    split,                      \* the response pcie_receive_dma_reads cuts up
    mmio_req,                   \* mmio_req_head .. mmio_req_tail, the lengths
    mmio_req_dw_rem,
    host_to_afu_state, afu_to_host_state,
    tready,                     \* pcie_tx_if.tready
    phase,                      \* place in the emulator's clock cycle
    SoftReset,                  \* the AFU's reset, from request to release
    rd_req, rd_rsp,             \* sim2app_membus_rd_req, app2sim_membus_rd_rsp
    wr_req, wr_rsp,             \* messages in the pipes of the writes
    mem,                        \* DMA writes performed in host memory
    pcie_msg,                   \* messages in app2sim_pcie_msg
    reqs,                       \* the AFU's reads so far
    wrote,                      \* the AFU's writes so far
    tx_left,                    \* DWs left of the packet the AFU is sending
    afu_tags,                   \* tags of the AFU's reads in flight
    afu_mmio,                   \* MMIO reads the AFU has to complete
    rx,                         \* the packet the AFU is receiving
    got, seen,                  \* per read: DWs received; writes it saw
    afu_err,                    \* what the AFU found wrong with a beat
    num_mmio, num_msg, num_reset,
    err                         \* the fatal error of pcie_tlp_a2h_mrd

states == <<busy, owner, start_cycle, dma_read_state_free_head>>
counts == <<num_dma_reads_pending, num_dma_writes_pending>>
cpls   == <<dma_read_cpl, dma_read_cpl_dw_rem>>
mmio   == <<mmio_req, mmio_req_dw_rem>>
fsm    == <<host_to_afu_state, afu_to_host_state>>
pipes  == <<rd_req, rd_rsp, wr_req, wr_rsp, mem>>
afu_tx == <<reqs, wrote, tx_left>>
afu_rx == <<rx, got, afu_err>>
bounds == <<num_mmio, num_msg, num_reset>>
vars   == <<states, counts, cpls, split, mmio, fsm, tready, phase, SoftReset,
            pipes, pcie_msg, afu_tx, afu_tags, afu_mmio, afu_rx, seen, bounds,
            err>>

-----------------------------------------------------------------------------
Tags   == 0 .. NumTags - 1
Reads  == 1 .. MaxReads
Null   == -1    \* READ_STATE_NULL
Cycle  == -2    \* a cycle number, in start_cycle of a busy state
NoRead == 0
Smaller(a, b) == IF a <= b THEN a ELSE b

NoSplit  == [n |-> NoRead, tag |-> 0, start |-> 0, rem |-> 0]
NoPacket == [n |-> NoRead, kind |-> "none", left |-> 0]

\* The last dma_read_cpl of a request carries is_last and frees its tag.
Cpls == [tag : Tags, n : Reads, start : Nat, len : Nat \ {0}, is_last : BOOLEAN]

\* pcie_ss_param_init: the states form a free list through start_cycle.
Init ==
    /\ busy = [t \in Tags |-> FALSE]
    /\ owner = [t \in Tags |-> NoRead]
    /\ start_cycle = [t \in Tags |-> IF t = NumTags - 1 THEN Null ELSE t + 1]
    /\ dma_read_state_free_head = 0
    /\ num_dma_reads_pending = 0 /\ num_dma_writes_pending = 0
    /\ dma_read_cpl = << >> /\ dma_read_cpl_dw_rem = 0
    /\ split = NoSplit
    /\ mmio_req = << >> /\ mmio_req_dw_rem = 0
    /\ host_to_afu_state = "SOP" /\ afu_to_host_state = "SOP"
    /\ tready = FALSE
    /\ phase = "edge"
    /\ SoftReset = "off"
    /\ rd_req = << >> /\ rd_rsp = << >>
    /\ wr_req = 0 /\ wr_rsp = 0 /\ mem = 0
    /\ pcie_msg = 0
    /\ reqs = << >> /\ wrote = 0 /\ tx_left = 0
    /\ afu_tags = {} /\ afu_mmio = 0
    /\ rx = NoPacket
    /\ got = [n \in Reads |-> 0]
    /\ seen = [n \in Reads |-> 0]
    /\ afu_err = "none"
    /\ num_mmio = 0 /\ num_msg = 0 /\ num_reset = 0
    /\ err = "none"

Running(p) == err = "none" /\ phase = p

-----------------------------------------------------------------------------
(* The application. *)

\* Faulty: a fence asks for no data and gets no reply.
RdWatcher_drop ==
    /\ err = "none"
    /\ rd_req # << >>
    /\ rd_rsp' = IF reqs[Head(rd_req).n].kind = "fence" THEN rd_rsp
                 ELSE Append(rd_rsp, Head(rd_req))
    /\ rd_req' = Tail(rd_req)
    /\ UNCHANGED <<states, counts, cpls, split, mmio, fsm, tready, phase,
                   SoftReset, wr_req, wr_rsp, mem, pcie_msg, afu_tx, afu_tags,
                   afu_mmio, afu_rx, seen, bounds, err>>

\* membus_rd_watcher serves one read: translation, reading memory and the
\* reply happen under ase_pt_lock.
RdWatcher ==
    /\ err = "none"
    /\ rd_req # << >>
    /\ rd_rsp' = Append(rd_rsp, Head(rd_req))
    /\ seen' = [seen EXCEPT ![Head(rd_req).n] = mem]
    /\ rd_req' = Tail(rd_req)
    /\ UNCHANGED <<states, counts, cpls, split, mmio, fsm, tready, phase,
                   SoftReset, wr_req, wr_rsp, mem, pcie_msg, afu_tx, afu_tags,
                   afu_mmio, afu_rx, bounds, err>>

\* membus_wr_watcher performs one write, under the same lock, and answers.
WrWatcher ==
    /\ err = "none"
    /\ wr_req > 0
    /\ wr_req' = wr_req - 1
    /\ mem' = mem + 1
    /\ wr_rsp' = wr_rsp + 1
    /\ UNCHANGED <<states, counts, cpls, split, mmio, fsm, tready, phase,
                   SoftReset, rd_req, rd_rsp, pcie_msg, afu_tx, afu_tags,
                   afu_mmio, afu_rx, seen, bounds, err>>

\* An MMIO request of the application, which ase_listener, called at a clock
\* edge, puts on the list (pcie_ss_mmio_new_req).
NewMmio ==
    /\ Running("edge")
    /\ num_mmio < MaxMmio
    /\ \E len \in MmioLens : mmio_req' = Append(mmio_req, len)
    /\ num_mmio' = num_mmio + 1
    /\ UNCHANGED <<states, counts, cpls, split, mmio_req_dw_rem, fsm, tready,
                   phase, SoftReset, pipes, pcie_msg, afu_tx, afu_tags,
                   afu_mmio, afu_rx, seen, num_msg, num_reset, err>>

\* pcie_send_ats_inval: the application has a PCIe message for the AFU.
NewMsg ==
    /\ err = "none"
    /\ num_msg < MaxMsgs
    /\ pcie_msg' = pcie_msg + 1
    /\ num_msg' = num_msg + 1
    /\ UNCHANGED <<states, counts, cpls, split, mmio, fsm, tready, phase,
                   SoftReset, pipes, afu_tx, afu_tags, afu_mmio, afu_rx, seen,
                   num_mmio, num_reset, err>>

-----------------------------------------------------------------------------
(* Reset.  send_swreset waits for its MMIO requests, then asks; the reset  *)
(* FSM raises SoftReset without waiting, as system_is_idle is always 1.    *)

SoftResetTo(s) ==
    /\ SoftReset' = s
    /\ UNCHANGED <<states, counts, cpls, split, mmio, fsm, tready, phase,
                   pipes, pcie_msg, afu_tx, afu_tags, afu_mmio, afu_rx, seen,
                   num_mmio, num_msg, err>>

\* send_swreset, up to AFU_RESET 1.
AskReset ==
    /\ err = "none"
    /\ SoftReset = "off"
    /\ num_reset < MaxResets
    /\ mmio_req = << >> /\ afu_mmio = 0
    /\ num_reset' = num_reset + 1
    /\ SoftResetTo("asked")

\* ResetHoldHigh of ase_reset_fsm.
RaiseReset ==
    /\ Running("edge")
    /\ SoftReset = "asked"
    /\ SoftResetTo("on")
    /\ UNCHANGED num_reset

\* Faulty: the counts of pending requests are reset, the pipes are not.
ResetCycle_counts ==
    /\ Running("edge")
    /\ SoftReset = "on"
    /\ SoftReset' = "held"
    /\ host_to_afu_state' = "SOP" /\ afu_to_host_state' = "SOP"
    /\ num_dma_reads_pending' = 0 /\ num_dma_writes_pending' = 0
    /\ tready' = FALSE
    /\ tx_left' = 0 /\ afu_tags' = {} /\ afu_mmio' = 0
    /\ rx' = NoPacket
    /\ UNCHANGED <<states, cpls, split, mmio, phase, pipes, pcie_msg,
                   reqs, wrote, got, afu_err, seen, bounds, err>>

\* A clock edge in reset: pcie_ss_reset, and the AFU starts afresh.
ResetCycle ==
    /\ Running("edge")
    /\ SoftReset = "on"
    /\ SoftReset' = "held"
    /\ host_to_afu_state' = "SOP" /\ afu_to_host_state' = "SOP"
    /\ tready' = FALSE
    /\ tx_left' = 0 /\ afu_tags' = {} /\ afu_mmio' = 0
    /\ rx' = NoPacket
    /\ UNCHANGED <<states, counts, cpls, split, mmio, phase, pipes, pcie_msg,
                   reqs, wrote, got, afu_err, seen, bounds, err>>

\* AFU_RESET 0 of send_swreset and ResetHoldLow.
LowerReset ==
    /\ Running("edge")
    /\ SoftReset = "held"
    /\ SoftResetTo("off")
    /\ UNCHANGED num_reset

-----------------------------------------------------------------------------
(* Receiving from the memory model, at the start of a cycle. *)

\* pcie_complete_dma_writes takes every response that is there.
CompleteWrites ==
    /\ Running("edge")
    /\ SoftReset \in {"off", "asked"}
    /\ num_dma_writes_pending' = num_dma_writes_pending - wr_rsp
    /\ wr_rsp' = 0
    /\ phase' = "recv"
    /\ UNCHANGED <<states, num_dma_reads_pending, cpls, split, mmio, fsm,
                   tready, SoftReset, rd_req, rd_rsp, wr_req, mem, pcie_msg,
                   afu_tx, afu_tags, afu_mmio, afu_rx, seen, bounds, err>>

\* pcie_receive_dma_reads takes one response and starts to cut it up.
ReceiveRead ==
    /\ Running("recv")
    /\ num_dma_reads_pending > 0
    /\ rd_rsp # << >>
    /\ LET r == Head(rd_rsp) IN
         split' = [n |-> r.n, tag |-> r.tag, start |-> 0,
                   rem |-> reqs[owner[r.tag]].len]
    /\ rd_rsp' = Tail(rd_rsp)
    /\ num_dma_reads_pending' = num_dma_reads_pending - 1
    /\ phase' = "split"
    /\ UNCHANGED <<states, num_dma_writes_pending, cpls, mmio, fsm, tready,
                   SoftReset, rd_req, wr_req, wr_rsp, mem, pcie_msg, afu_tx,
                   afu_tags, afu_mmio, afu_rx, seen, bounds, err>>

\* The loop of pcie_receive_dma_reads polls: the emulator does nothing else
\* until the application has answered every read.
PollReads ==
    /\ Running("recv")
    /\ num_dma_reads_pending > 0
    /\ rd_rsp = << >>
    /\ UNCHANGED vars

\* random_cpl_length: any number of chunks, or all that remains.
CplLengths(rem, dm) ==
    IF (Ordered /\ dm) \/ rem <= RcbDw
      THEN {rem}
      ELSE {Smaller(rem, k * RcbDw) : k \in 1 .. MaxChunks}

\* Faulty: push_new_read_cpl passes the responses of the same request, or passes
\* the head.
CplPositions_mix(tag) ==
    {p \in 0 .. Len(dma_read_cpl) :
        \/ p = Len(dma_read_cpl)
        \/ tag \in Tags /\ ~Ordered /\ p >= 1
             /\ Len(dma_read_cpl) - p \in {1, 2, 5}}
CplPositions_head(tag) ==
    {p \in 0 .. Len(dma_read_cpl) :
        \/ p = Len(dma_read_cpl)
        \/ /\ ~Ordered
           /\ \A i \in p + 1 .. Len(dma_read_cpl) : dma_read_cpl[i].tag # tag}

\* push_new_read_cpl puts a completion behind the first p of the list.  The
\* walk over n_later_rsp completions stops at one of the same request and at
\* the head, which may be half sent.
CplPositions(tag) ==
    LET len  == Len(dma_read_cpl)
        stop == {i \in 1 .. len : dma_read_cpl[i].tag = tag}
                    \cup {Smaller(1, len)}
    IN  {p \in 0 .. len :
           \E later \in IF Ordered THEN {0} ELSE {0, 1, 2, 5} :
             /\ p \in stop \cup {len - later}
             /\ p >= len - later
             /\ \A i \in stop : i <= p}

InsertAfter(s, p, e) == SubSeq(s, 1, p) \o <<e>> \o SubSeq(s, p + 1, Len(s))

\* Faulty: the loop marks every completion as the last of its request.
IsLast_always(len) == len <= split.rem

IsLast(len) == len = split.rem

\* One turn of the loop that cuts a response into completions.
SplitCpl ==
    /\ Running("split")
    /\ \E len \in CplLengths(split.rem, reqs[owner[split.tag]].dm) :
         /\ \E p \in CplPositions(split.tag) :
              dma_read_cpl' = InsertAfter(dma_read_cpl, p,
                 [tag |-> split.tag, n |-> split.n, start |-> split.start,
                  len |-> len, is_last |-> IsLast(len)])
         /\ IF len = split.rem
              THEN split' = NoSplit /\ phase' = "recv"
              ELSE /\ split' = [split EXCEPT !.start = @ + len, !.rem = @ - len]
                   /\ UNCHANGED phase
    /\ UNCHANGED <<states, counts, dma_read_cpl_dw_rem, mmio, fsm, tready,
                   SoftReset, pipes, pcie_msg, afu_tx, afu_tags, afu_mmio,
                   afu_rx, seen, bounds, err>>

-----------------------------------------------------------------------------
(* pcie_ss_stream_host_to_afu: at most one beat to the AFU.  It is reached *)
(* once no read is pending: pcie_receive_dma_reads polls until then.       *)

InHostToAfu == Running("recv") /\ num_dma_reads_pending = 0

Room(sop) == IF sop THEN SopDw ELSE BeatDw

\* What the AFU makes of a beat that carries cnt of the DWs of packet n:
\* a packet starts with a header, is not interrupted, and ends with its length.
AfuReceives(sop, kind, n, len, cnt, problem) ==
    LET cont == rx.kind = kind /\ rx.n = n /\ cnt <= rx.left
        left == IF sop THEN len - cnt ELSE rx.left - cnt
    IN  /\ afu_err' = CASE afu_err # "none"            -> afu_err
                        [] sop /\ rx # NoPacket        -> "interrupted"
                        [] ~sop /\ ~cont               -> "headless"
                        [] OTHER                       -> problem
        /\ rx' = IF (sop \/ cont) /\ left > 0
                   THEN [n |-> n, kind |-> kind, left |-> left]
                   ELSE NoPacket

\* No beat: the AFU is not ready, nothing is there, or a random refusal.
H2aNothing ==
    /\ InHostToAfu
    /\ phase' = "a2h"
    /\ UNCHANGED <<states, counts, cpls, split, mmio, fsm, tready, SoftReset,
                   pipes, pcie_msg, afu_tx, afu_tags, afu_mmio, afu_rx, seen,
                   bounds, err>>

\* Faulty: a message is sent without a look at the packet on the stream.
H2aMsg_any ==
    /\ InHostToAfu
    /\ pcie_msg > 0
    /\ pcie_msg' = pcie_msg - 1
    /\ AfuReceives(TRUE, "msg", NoRead, 0, 0, "none")
    /\ phase' = "a2h"
    /\ UNCHANGED <<states, counts, cpls, split, mmio, fsm, tready, SoftReset,
                   pipes, afu_tx, afu_tags, afu_mmio, got, seen, bounds, err>>

\* pcie_tlp_h2a_msg: messages go first and are a single beat.
H2aMsg ==
    /\ InHostToAfu
    /\ host_to_afu_state = "SOP"
    /\ pcie_msg > 0
    /\ pcie_msg' = pcie_msg - 1
    /\ AfuReceives(TRUE, "msg", NoRead, 0, 0, "none")
    /\ phase' = "a2h"
    /\ UNCHANGED <<states, counts, cpls, split, mmio, fsm, tready, SoftReset,
                   pipes, afu_tx, afu_tags, afu_mmio, got, seen, bounds, err>>

\* pcie_tlp_h2a_mem: one beat of the request at the head of the list.
H2aMem ==
    /\ InHostToAfu
    /\ \/ host_to_afu_state = "SOP" /\ pcie_msg = 0
       \/ host_to_afu_state = "MWR"
    /\ mmio_req # << >>
    /\ LET len  == Head(mmio_req)
           sop  == mmio_req_dw_rem = 0
           rem  == IF sop THEN len ELSE mmio_req_dw_rem
           cnt  == Smaller(rem, Room(sop))
           last == rem <= Room(sop)
       IN  /\ mmio_req_dw_rem' = rem - cnt
           /\ mmio_req' = IF last THEN Tail(mmio_req) ELSE mmio_req
           /\ afu_mmio' = IF len = 0 THEN afu_mmio + 1 ELSE afu_mmio
           /\ host_to_afu_state' = IF last THEN "SOP" ELSE "MWR"
           /\ AfuReceives(sop, "mmio", NoRead, len, cnt, "none")
    /\ phase' = "a2h"
    /\ UNCHANGED <<states, counts, cpls, split, afu_to_host_state, tready,
                   SoftReset, pipes, pcie_msg, afu_tx, afu_tags, got, seen,
                   bounds, err>>

\* Faulty: the tag is freed with the first completion of a request.
FreesTag_first(c) == c.start = 0

\* The last completion of a request frees its tag, with its first beat.
FreesTag(c) == c.is_last

\* Faulty: the freed state is not linked to the rest of the free list.
LinkFreed_cut(tag) ==
    /\ start_cycle' = [start_cycle EXCEPT ![tag] = Null]
    /\ dma_read_state_free_head' = tag

LinkFreed(tag) ==
    /\ start_cycle' = [start_cycle EXCEPT ![tag] = dma_read_state_free_head]
    /\ dma_read_state_free_head' = tag

\* pcie_tlp_h2a_cpld: one beat of the completion at the head of the list.
H2aCpld ==
    /\ InHostToAfu
    /\ \/ /\ host_to_afu_state = "SOP" /\ pcie_msg = 0
          /\ mmio_req_dw_rem = 0    \* an MMIO request, if any, was refused
       \/ host_to_afu_state = "CPL"
    /\ dma_read_cpl # << >>
    /\ LET c    == Head(dma_read_cpl)
           sop  == dma_read_cpl_dw_rem = 0
           rem  == IF sop THEN c.len ELSE dma_read_cpl_dw_rem
           cnt  == Smaller(rem, Room(sop))
           last == rem <= Room(sop)
           from == c.start + c.len - rem
       IN  /\ dma_read_cpl_dw_rem' = rem - cnt
           /\ dma_read_cpl' = IF last THEN Tail(dma_read_cpl) ELSE dma_read_cpl
           /\ host_to_afu_state' = IF last THEN "SOP" ELSE "CPL"
           /\ AfuReceives(sop, "cpl", c.n, c.len, cnt,
                CASE sop /\ owner[c.tag] # c.n -> "wrong_header"
                  [] from # got[c.n]           -> "out_of_order"
                  [] OTHER                     -> "none")
           /\ got' = [got EXCEPT ![c.n] = @ + cnt]
           /\ IF sop /\ FreesTag(c)
                THEN /\ busy' = [busy EXCEPT ![c.tag] = FALSE]
                     /\ IF TagMapper
                          THEN LinkFreed(c.tag)
                          ELSE UNCHANGED <<start_cycle,
                                           dma_read_state_free_head>>
                ELSE UNCHANGED <<busy, start_cycle, dma_read_state_free_head>>
           /\ afu_tags' = IF sop /\ c.is_last THEN afu_tags \ {c.tag} ELSE afu_tags
    /\ phase' = "a2h"
    /\ UNCHANGED <<owner, counts, split, mmio, afu_to_host_state, tready,
                   SoftReset, pipes, pcie_msg, afu_tx, afu_mmio, seen, bounds,
                   err>>

\* A refusal in the middle of a completion leaves the stream in that state.
H2aRefuse ==
    /\ InHostToAfu
    /\ host_to_afu_state = "SOP" /\ pcie_msg = 0 /\ mmio_req_dw_rem = 0
    /\ dma_read_cpl_dw_rem > 0
    /\ host_to_afu_state' = "CPL"
    /\ phase' = "a2h"
    /\ UNCHANGED <<states, counts, cpls, split, mmio, afu_to_host_state,
                   tready, SoftReset, pipes, pcie_msg, afu_tx, afu_tags,
                   afu_mmio, afu_rx, seen, bounds, err>>

-----------------------------------------------------------------------------
(* pcie_ss_stream_afu_to_host: at most one beat from the AFU, and then the *)
(* tready of the next cycle.                                               *)

\* Faulty: tready ignores the free list.
NextTready_always == tready' \in BOOLEAN

\* pcie_ss_stream_afu_to_host_tready: random, and a state must be free.
NextTready == tready' \in {FALSE, dma_read_state_free_head' # Null}

EndOfCycle == NextTready /\ phase' = "edge"

A2hNothing ==
    /\ Running("a2h")
    /\ UNCHANGED <<states, counts, cpls, split, mmio, fsm, SoftReset, pipes,
                   pcie_msg, afu_tx, afu_tags, afu_mmio, afu_rx, seen, bounds,
                   err>>
    /\ EndOfCycle

A2hBeat(state) == Running("a2h") /\ tready /\ afu_to_host_state = state

\* The tags a legal AFU may give a read: any with a mapper, which ignores it.
AfuTags == IF TagMapper THEN {0} ELSE Tags \ afu_tags

TakeFree == dma_read_state_free_head' = start_cycle[dma_read_state_free_head]

\* pcie_tlp_a2h_mrd for a read, a fence (a read of no bytes) or an atomic
\* request: take a state, record the request in it, send it to the memory.
RecordRead(kind, len, dm) ==
    \E afu_tag \in AfuTags :
      LET n   == Len(reqs) + 1
          tag == IF TagMapper THEN dma_read_state_free_head ELSE afu_tag
      IN  /\ reqs' = Append(reqs, [kind |-> kind, len |-> len, dm |-> dm,
                                   after |-> wrote])
          /\ err' = CASE tag = Null -> "no_tag"
                      [] tag # Null /\ busy[tag] -> "tag_in_use"
                      [] OTHER -> "none"
          /\ IF err' = "none"
               THEN /\ IF TagMapper THEN TakeFree
                                    ELSE UNCHANGED dma_read_state_free_head
                    /\ busy' = [busy EXCEPT ![tag] = TRUE]
                    /\ start_cycle' = [start_cycle EXCEPT ![tag] = Cycle]
                    /\ owner' = [owner EXCEPT ![tag] = n]
                    /\ afu_tags' = afu_tags \cup {tag}
                    /\ rd_req' = Append(rd_req, [tag |-> tag, n |-> n])
                    /\ num_dma_reads_pending' = num_dma_reads_pending + 1
               ELSE UNCHANGED <<states, afu_tags, rd_req,
                                num_dma_reads_pending>>

A2hRead ==
    /\ A2hBeat("SOP")
    /\ Len(reqs) < MaxReads
    /\ \/ \E len \in ReadLens, dm \in DmModes : RecordRead("read", len, dm)
       \/ RecordRead("fence", 1, FALSE)
       \/ SopDw > 0 /\ RecordRead("atomic", 1, FALSE)
    /\ UNCHANGED <<num_dma_writes_pending, cpls, split, mmio, fsm, SoftReset,
                   rd_rsp, wr_req, wr_rsp, mem, pcie_msg, wrote, tx_left,
                   afu_mmio, afu_rx, seen, bounds>>
    /\ EndOfCycle

\* An atomic request whose operands do not fit behind the header.
A2hAtomicSop ==
    /\ A2hBeat("SOP")
    /\ Len(reqs) < MaxReads
    /\ SopDw = 0
    /\ afu_to_host_state' = "MRD"
    /\ UNCHANGED <<states, counts, cpls, split, mmio, host_to_afu_state,
                   SoftReset, pipes, pcie_msg, afu_tx, afu_tags, afu_mmio,
                   afu_rx, seen, bounds, err>>
    /\ EndOfCycle

A2hAtomic ==
    /\ A2hBeat("MRD")
    /\ RecordRead("atomic", 1, FALSE)
    /\ afu_to_host_state' = "SOP"
    /\ UNCHANGED <<num_dma_writes_pending, cpls, split, mmio,
                   host_to_afu_state, SoftReset, rd_rsp, wr_req, wr_rsp, mem,
                   pcie_msg, wrote, tx_left, afu_mmio, afu_rx, seen, bounds>>
    /\ EndOfCycle

\* pcie_tlp_a2h_mwr, a beat of a write with `rem' DWs to come: the write goes
\* to the memory when the packet is complete.
WriteBeat(rem, room) ==
    /\ tx_left' = rem - Smaller(rem, room)
    /\ IF rem <= room
         THEN /\ wrote' = wrote + 1
              /\ wr_req' = wr_req + 1
              /\ num_dma_writes_pending' = num_dma_writes_pending + 1
              /\ afu_to_host_state' = "SOP"
         ELSE /\ afu_to_host_state' = "MWR"
              /\ UNCHANGED <<wrote, wr_req, num_dma_writes_pending>>
    /\ UNCHANGED <<states, num_dma_reads_pending, cpls, split, mmio,
                   host_to_afu_state, SoftReset, rd_req, rd_rsp, wr_rsp, mem,
                   pcie_msg, reqs, afu_tags, afu_mmio, afu_rx, seen, bounds,
                   err>>
    /\ EndOfCycle

A2hWriteSop ==
    /\ A2hBeat("SOP")
    /\ wrote < MaxWrites
    /\ \E len \in WriteLens : WriteBeat(len, SopDw)

A2hWrite == A2hBeat("MWR") /\ WriteBeat(tx_left, BeatDw)

\* pcie_tlp_a2h_cpld: the AFU completes an MMIO read.  The data of a single
\* DW follows the header in the same beat if there is room.
A2hCpldSop ==
    /\ A2hBeat("SOP")
    /\ afu_mmio > 0
    /\ IF SopDw > 0
         THEN afu_mmio' = afu_mmio - 1 /\ UNCHANGED afu_to_host_state
         ELSE afu_to_host_state' = "CPL" /\ UNCHANGED afu_mmio
    /\ UNCHANGED <<states, counts, cpls, split, mmio, host_to_afu_state,
                   SoftReset, pipes, pcie_msg, afu_tx, afu_tags, afu_rx, seen,
                   bounds, err>>
    /\ EndOfCycle

A2hCpld ==
    /\ A2hBeat("CPL")
    /\ afu_mmio' = afu_mmio - 1
    /\ afu_to_host_state' = "SOP"
    /\ UNCHANGED <<states, counts, cpls, split, mmio, host_to_afu_state,
                   SoftReset, pipes, pcie_msg, afu_tx, afu_tags, afu_rx, seen,
                   bounds, err>>
    /\ EndOfCycle

-----------------------------------------------------------------------------
App    == RdWatcher \/ WrWatcher \/ NewMmio \/ NewMsg \/ AskReset
Reset  == RaiseReset \/ ResetCycle \/ LowerReset
HostToAfu == \/ CompleteWrites \/ PollReads \/ ReceiveRead \/ SplitCpl
             \/ H2aNothing \/ H2aMsg \/ H2aMem \/ H2aCpld \/ H2aRefuse
AfuToHost == \/ A2hNothing \/ A2hRead \/ A2hAtomicSop \/ A2hAtomic
             \/ A2hWriteSop \/ A2hWrite \/ A2hCpldSop \/ A2hCpld

\* A fatal error starts the countdown to the end of the simulation.
Killed == err # "none" /\ UNCHANGED vars

Next == App \/ Reset \/ HostToAfu \/ AfuToHost \/ Killed

Spec == Init /\ [][Next]_vars

\* Fairness: the simulator's clock and the two watchers run; the AFU is ready
\* to receive again and again, and the random refusals of the emulator, which
\* have a probability below 1, end.
FairSpec ==
    /\ Spec
    /\ WF_vars(RdWatcher) /\ WF_vars(WrWatcher)
    /\ WF_vars(Reset \/ HostToAfu \/ AfuToHost)
    /\ SF_vars(H2aMsg) /\ SF_vars(H2aMem) /\ SF_vars(H2aCpld)

-----------------------------------------------------------------------------
(* Properties *)

\* The variables have their types.
TypeOK ==
    /\ busy \in [Tags -> BOOLEAN]
    /\ owner \in [Tags -> {NoRead} \cup Reads]
    /\ start_cycle \in [Tags -> Tags \cup {Null, Cycle}]
    /\ dma_read_state_free_head \in Tags \cup {Null}
    /\ num_dma_reads_pending \in Nat /\ num_dma_writes_pending \in Nat
    /\ dma_read_cpl \in Seq(Cpls) /\ dma_read_cpl_dw_rem \in Nat
    /\ split \in [n : {NoRead} \cup Reads, tag : Tags, start : Nat, rem : Nat]
    /\ mmio_req \in Seq(MmioLens) /\ mmio_req_dw_rem \in Nat
    /\ host_to_afu_state \in {"SOP", "CPL", "MWR"}
    /\ afu_to_host_state \in {"SOP", "CPL", "MWR", "MRD"}
    /\ tready \in BOOLEAN
    /\ phase \in {"edge", "recv", "split", "a2h"}
    /\ SoftReset \in {"off", "asked", "on", "held"}
    /\ rd_req \in Seq([tag : Tags, n : Reads])
    /\ rd_rsp \in Seq([tag : Tags, n : Reads])
    /\ wr_req \in Nat /\ wr_rsp \in Nat /\ mem \in Nat
    /\ pcie_msg \in 0 .. MaxMsgs
    /\ reqs \in Seq([kind : {"read", "fence", "atomic"},
                     len : ReadLens \cup {1}, dm : BOOLEAN, after : Nat])
    /\ Len(reqs) <= MaxReads /\ wrote \in 0 .. MaxWrites /\ tx_left \in Nat
    /\ afu_tags \subseteq Tags /\ afu_mmio \in Nat
    /\ rx \in [n : {NoRead} \cup Reads, left : Nat,
               kind : {"none", "msg", "mmio", "cpl"}]
    /\ got \in [Reads -> Nat] /\ seen \in [Reads -> Nat]
    /\ afu_err \in {"none", "interrupted", "headless", "wrong_header",
                    "out_of_order"}
    /\ num_mmio \in 0 .. MaxMmio /\ num_msg \in 0 .. MaxMsgs
    /\ num_reset \in 0 .. MaxResets
    /\ err \in {"none", "no_tag", "tag_in_use"}

\* The free list threaded through start_cycle holds exactly the states that
\* are not busy, each once, although the field of a busy state is overwritten
\* with a cycle number and states return in any order (h2a_cpld, a2h_mrd):
\* from the head the ranks count down to 1, one by one, over idle states.
FreeListSound ==
    TagMapper =>
      LET idle == {t \in Tags : ~busy[t]}
      IN  \E rank \in [Tags -> 0 .. NumTags] :
            /\ IF idle = {} THEN dma_read_state_free_head = Null
               ELSE /\ dma_read_state_free_head \in idle
                    /\ rank[dma_read_state_free_head] = Cardinality(idle)
            /\ \A t \in idle :
                 /\ rank[t] \in 1 .. Cardinality(idle)
                 /\ IF rank[t] = 1 THEN start_cycle[t] = Null
                    ELSE /\ start_cycle[t] \in idle
                         /\ rank[start_cycle[t]] = rank[t] - 1

\* A read accepted by tready finds a state: the emulator never reports "No
\* available emulated mapped read tags" or "tag already in use" to a legal
\* AFU.  Without the mapper a reset makes the AFU forget the tags it uses.
ReadAlwaysAccepted == TagMapper \/ num_reset = 0 => err = "none"

\* A completion whose header has still to be sent finds its request in its
\* state: the state is busy, is owned by the request the data was read for,
\* and start_cycle, from which the latency is computed, is a cycle.
CplStateLive ==
    \A i \in 1 .. Len(dma_read_cpl) :
      LET c == dma_read_cpl[i]
      IN  i > 1 \/ dma_read_cpl_dw_rem = 0 =>
            /\ busy[c.tag] /\ owner[c.tag] = c.n
            /\ start_cycle[c.tag] = Cycle

\* Two completions on the list of one read; the word behind a completion; the
\* words of a completion that have been sent.
SameRead(i, j) == dma_read_cpl[i].n = dma_read_cpl[j].n
CplEnd(i) == dma_read_cpl[i].start + dma_read_cpl[i].len
Sent(i) == IF i = 1 /\ dma_read_cpl_dw_rem > 0
           THEN dma_read_cpl[i].len - dma_read_cpl_dw_rem ELSE 0

\* The completions of a read on the list follow one another without gap or
\* overlap from the word the AFU gets next to the end of the request, and only
\* the last frees the response data: none is used after it is freed.
EveryWordOnce ==
    \A i \in 1 .. Len(dma_read_cpl) :
      LET n == dma_read_cpl[i].n
      IN  /\ (\A k \in 1 .. i - 1 : ~SameRead(k, i)) =>
               got[n] = dma_read_cpl[i].start + Sent(i)
          /\ \A j \in i + 1 .. Len(dma_read_cpl) :
               /\ SameRead(i, j)
               /\ \A k \in i + 1 .. j - 1 : ~SameRead(i, k)
               => CplEnd(i) = dma_read_cpl[j].start
          /\ dma_read_cpl[i].is_last <=> CplEnd(i) = reqs[n].len
          /\ (\A k \in i + 1 .. Len(dma_read_cpl) : ~SameRead(i, k)) =>
               CplEnd(i) = IF split.n = n THEN split.start ELSE reqs[n].len

\* The AFU sees every packet as its header announces: no beat without a
\* header, no packet inside another, although messages, MMIO requests and
\* completions share the stream (pcie_ss_stream_host_to_afu).  Only a reset
\* may cut a packet (pcie_ss_reset).
WellFramed == num_reset = 0 => afu_err \notin {"interrupted", "headless"}

\* A completion carries the tag of the read its data was fetched for, and
\* the words of a read arrive in increasing order.
ReadDataCorrect == afu_err \notin {"wrong_header", "out_of_order"}

\* The counters that pcie_receive_dma_reads and pcie_complete_dma_writes
\* poll on agree with what the application still has to answer.
PendingMatchesPipes ==
    /\ num_dma_reads_pending = Len(rd_req) + Len(rd_rsp)
    /\ num_dma_writes_pending = wr_req + wr_rsp

\* A zero-length read, the fence of pcie_tlp_a2h_mrd, completes only after the
\* writes the AFU sent before it have been performed.
FenceOrdersWrites ==
    \A n \in 1 .. Len(reqs) :
      reqs[n].kind = "fence" /\ got[n] = reqs[n].len => seen[n] >= reqs[n].after

\* The AFU's reset starts when no transaction is in flight.
ResetWaits ==
    SoftReset = "on" =>
      /\ num_dma_reads_pending = 0 /\ num_dma_writes_pending = 0
      /\ dma_read_cpl = << >> /\ tx_left = 0

\* The emulator implements the read service of module DmaReads.
Service == INSTANCE DmaReads
    WITH InOrder <- Ordered, Lens <- ReadLens \cup {1}, NumReads <- MaxReads,
         want <- [n \in 1 .. Len(reqs) |-> reqs[n].len], got <- got
ImplementsDmaReads == Service!Spec

\* Every read of the AFU is answered in full.
ReadCompletes ==
    \A n \in Reads :
      n <= Len(reqs) ~> n <= Len(reqs) /\ got[n] = reqs[n].len

=============================================================================

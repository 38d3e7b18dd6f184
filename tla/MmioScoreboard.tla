--------------------------- MODULE MmioScoreboard ---------------------------
(***************************************************************************)
(* The MMIO port between the application library and the PCIe SS emulator. *)
(*                                                                         *)
(* Application side (sw/app_backend.c): any thread may call mmio_read* or  *)
(* mmio_write*.  Under mmio_port_lock the call takes a transaction id,     *)
(* claims a line of the scoreboard mmio_table and posts the request on the *)
(* app2sim_mmioreq pipe.  A write returns at once; a read spins on the     *)
(* rx_flag of its line and then gives the line back, without the lock.     *)
(* mmio_response_watcher, a thread of its own, applies the responses.      *)
(*                                                                         *)
(* Simulator side (sw/protocol_backend.c, sw/pcie_ss_tlp): ase_listener    *)
(* moves a request to the list of pending requests, pcie_tlp_h2a_mem hands *)
(* them to the AFU one by one, and a read completion of the AFU is turned  *)
(* into a response by pcie_tlp_a2h_cpld.                                   *)
(*                                                                         *)
(* The two pipes are FIFO queues of whole packets (sw/mqueue_ops.c).  The  *)
(* address and the payload of a packet are abstracted to the number of the *)
(* request, `id', which no code reads: the AFU answers request n with n.   *)
(***************************************************************************)
EXTENDS Integers, Sequences, FiniteSets

CONSTANTS
    Threads,    \* application threads that use the port
    NumSlots,   \* MMIO_MAX_OUTSTANDING, lines of mmio_table (64)
    TidSpace,   \* 2^MMIO_TID_BITWIDTH, number of transaction ids (512)
    MaxReqs,    \* bound: requests made in a behaviour
    NoThread    \* nobody holds mmio_port_lock

ASSUME SlotsAssumption == NumSlots \in Nat \ {0}
ASSUME TidAssumption == TidSpace \in Nat \ {0}
ASSUME ReqsAssumption == MaxReqs \in Nat \ {0}
ASSUME NoThreadAssumption == NoThread \notin Threads

VARIABLES
    tx_flag, rx_flag, tid, data,  \* mmio_table, one function per field
    opened,                       \* ase_fpgaEnumerate is over, an AFU is open
    glbl_mmio_tid,                \* io_s.glbl_mmio_tid
    mmio_port_lock,               \* io_s.mmio_port_lock, its holder
    pc, op, port, id, slot, val,  \* the call each thread is making
    mmioreq,                      \* app2sim_mmioreq pipe
    mmiorsp,                      \* sim2app_mmiorsp pipe
    mmio_req_list,                \* mmio_req_head .. mmio_req_tail
    busy, rs_tid,                 \* mmio_read_state, one function per field
    afu_reads,                    \* reads the AFU has to complete
    wpc, wpkt, wslot,             \* mmio_response_watcher
    fatal                         \* which fatal error stopped the program

table   == <<tx_flag, rx_flag, tid, data>>
io      == <<opened, glbl_mmio_tid, mmio_port_lock>>
args    == <<op, port, id, slot, val>>
pipes   == <<mmioreq, mmiorsp>>
sim     == <<mmio_req_list, busy, rs_tid, afu_reads>>
watcher == <<wpc, wpkt, wslot>>
vars    == <<table, io, pc, args, pipes, sim, watcher, fatal>>

-----------------------------------------------------------------------------
Slots == 0 .. NumSlots - 1
Tids  == 0 .. TidSpace - 1
Ids   == 0 .. MaxReqs - 1

\* afu_idx of a request: a port the emulator has, or one past the last, which
\* only the enumeration of ase_fpgaEnumerate reads.
Ports   == {"present", "absent"}
AllOnes == -1   \* what an absent port returns
Blank   == -2   \* qword[0] of a request that carries no data

Packets == [write_en : BOOLEAN, port : Ports, tid : Tids, slot_idx : Slots,
            id : Ids]
\* A response: the request's fields and the data, qword[0].  The watcher looks
\* at the transaction id only, not at the slot index.
Responses == [write_en : BOOLEAN, tid : Tids, slot_idx : Slots, id : Ids,
              data : Ids \cup {AllOnes}]

NoPacket == [write_en |-> FALSE, tid |-> 0, slot_idx |-> 0, id |-> -1,
             data |-> AllOnes]

\* What the AFU, or the emulator for an absent port, answers to a read.
Answer(prt, n) == IF prt = "absent" THEN AllOnes ELSE n

\* The id sent with request n: glbl_mmio_tid & MMIO_TID_BITMASK.
TidOf(n) == n % TidSpace

count_mmio_tid_used == Cardinality({s \in Slots : tx_flag[s]})

\* Faulty: the lookup of an empty line tests one flag only.
IsEmpty_tx_only(s) == ~tx_flag[s]
IsEmpty_rx_only(s) == ~rx_flag[s]

IsEmpty(s) == ~tx_flag[s] /\ ~rx_flag[s]

\* find_empty_mmio_scoreboard_slot: the first line with both flags clear.
FirstEmpty(s) == IsEmpty(s) /\ \A r \in Slots : IsEmpty(r) => s <= r

\* Faulty: the lookup takes the first line in use.
HasTid_any(s, t) == tx_flag[s] /\ t \in Tids

HasTid(s, t) == tx_flag[s] /\ tid[s] = t

\* get_scoreboard_slot_by_tid: the first line in use with this id.
FirstWithTid(s, t) == HasTid(s, t) /\ \A r \in Slots : HasTid(r, t) => s <= r

-----------------------------------------------------------------------------
Init ==
    /\ tx_flag = [s \in Slots |-> FALSE]
    /\ rx_flag = [s \in Slots |-> FALSE]
    /\ tid = [s \in Slots |-> 0]
    /\ data = [s \in Slots |-> Blank]
    /\ opened = FALSE
    /\ glbl_mmio_tid = 0
    /\ mmio_port_lock = NoThread
    /\ pc = [t \in Threads |-> "idle"]
    /\ op = [t \in Threads |-> "none"]
    /\ port = [t \in Threads |-> "present"]
    /\ id = [t \in Threads |-> 0]
    /\ slot = [t \in Threads |-> 0]
    /\ val = [t \in Threads |-> Blank]
    /\ mmioreq = << >>
    /\ mmiorsp = << >>
    /\ mmio_req_list = << >>
    /\ busy = [s \in Slots |-> FALSE]
    /\ rs_tid = [s \in Slots |-> 0]
    /\ afu_reads = {}
    /\ wpc = "recv"
    /\ wpkt = NoPacket
    /\ wslot = 0
    /\ fatal = "none"

-----------------------------------------------------------------------------
(* Application threads: mmio_read32/64 and mmio_write32/64/512. *)

At(t, p) == fatal = "none" /\ pc[t] = p
GoTo(t, p) == pc' = [pc EXCEPT ![t] = p]

\* ase_fpgaEnumerate, which one thread runs, returns and an AFU is opened.
OpenAfu ==
    /\ fatal = "none"
    /\ ~opened
    /\ \A t \in Threads : pc[t] = "idle"
    /\ opened' = TRUE
    /\ UNCHANGED <<table, glbl_mmio_tid, mmio_port_lock, pc, args, pipes,
                   sim, watcher, fatal>>

\* Faulty: the call does not take the lock another thread holds.
LockPort_nolock(t, o, prt) ==
    /\ At(t, "idle")
    /\ glbl_mmio_tid < MaxReqs
    /\ IF opened THEN prt = "present"
                 ELSE o = "read" /\ \A u \in Threads : pc[u] = "idle"
    /\ mmio_port_lock' = t
    /\ op' = [op EXCEPT ![t] = o]
    /\ port' = [port EXCEPT ![t] = prt]
    /\ GoTo(t, "gen")
    /\ UNCHANGED <<table, opened, glbl_mmio_tid, id, slot, val, pipes, sim,
                   watcher, fatal>>

\* Enter the call and take mmio_port_lock.  The enumeration reads the ports one
\* after the other, up to an absent one; later calls are for open AFUs.
LockPort(t, o, prt) ==
    /\ At(t, "idle")
    /\ glbl_mmio_tid < MaxReqs
    /\ mmio_port_lock = NoThread
    /\ IF opened THEN prt = "present"
                 ELSE o = "read" /\ \A u \in Threads : pc[u] = "idle"
    /\ mmio_port_lock' = t
    /\ op' = [op EXCEPT ![t] = o]
    /\ port' = [port EXCEPT ![t] = prt]
    /\ GoTo(t, "gen")
    /\ UNCHANGED <<table, opened, glbl_mmio_tid, id, slot, val, pipes, sim,
                   watcher, fatal>>

\* generate_mmio_tid: spins, with the lock held, while every line is in use.
GenerateTid(t) ==
    /\ At(t, "gen")
    /\ count_mmio_tid_used # NumSlots
    /\ id' = [id EXCEPT ![t] = glbl_mmio_tid]
    /\ glbl_mmio_tid' = glbl_mmio_tid + 1
    /\ GoTo(t, "find")
    /\ UNCHANGED <<table, opened, mmio_port_lock, op, port, slot, val, pipes,
                   sim, watcher, fatal>>

\* mmio_request_put, first half: claim the first empty line.
FindSlot(t) ==
    /\ At(t, "find")
    /\ \E s \in Slots :
         /\ FirstEmpty(s)
         /\ slot' = [slot EXCEPT ![t] = s]
         /\ tx_flag' = [tx_flag EXCEPT ![s] = TRUE]
         /\ rx_flag' = [rx_flag EXCEPT ![s] = FALSE]
    /\ GoTo(t, "put")
    /\ UNCHANGED <<tid, data, io, op, port, id, val, pipes, sim, watcher,
                   fatal>>

\* mmio_request_put when no line is empty: raise(SIGABRT).
NoSlotLeft(t) ==
    /\ At(t, "find")
    /\ \A s \in Slots : ~IsEmpty(s)
    /\ fatal' = "no_slot"
    /\ UNCHANGED <<table, io, pc, args, pipes, sim, watcher>>

\* mmio_request_put, second half: fill the line and post the request.
PutRequest(t) ==
    /\ At(t, "put")
    /\ tid' = [tid EXCEPT ![slot[t]] = TidOf(id[t])]
    /\ data' = [data EXCEPT ![slot[t]] = IF op[t] = "write" THEN id[t] ELSE Blank]
    /\ mmioreq' = Append(mmioreq, [write_en |-> (op[t] = "write"),
                                   port |-> port[t], tid |-> TidOf(id[t]),
                                   slot_idx |-> slot[t], id |-> id[t]])
    /\ GoTo(t, "unlock")
    /\ UNCHANGED <<tx_flag, rx_flag, io, args, mmiorsp, sim, watcher, fatal>>

\* Release the lock; a write returns, a read waits for its response.
UnlockPort(t) ==
    /\ At(t, "unlock")
    /\ mmio_port_lock' = NoThread
    /\ GoTo(t, IF op[t] = "write" THEN "idle" ELSE "wait")
    /\ UNCHANGED <<table, opened, glbl_mmio_tid, args, pipes, sim, watcher,
                   fatal>>

\* mmio_read*: the loop on rx_flag ends, the data is taken from the line.
TakeResponse(t) ==
    /\ At(t, "wait")
    /\ rx_flag[slot[t]]
    /\ val' = [val EXCEPT ![t] = data[slot[t]]]
    /\ GoTo(t, "clear_tx")
    /\ UNCHANGED <<table, io, op, port, id, slot, pipes, sim, watcher, fatal>>

\* mmio_read*: "Reset scoreboard flags", tx_flag first, without the lock.
ClearTx(t) ==
    /\ At(t, "clear_tx")
    /\ tx_flag' = [tx_flag EXCEPT ![slot[t]] = FALSE]
    /\ GoTo(t, "clear_rx")
    /\ UNCHANGED <<rx_flag, tid, data, io, args, pipes, sim, watcher, fatal>>

\* mmio_read*: then rx_flag; the read returns.
ClearRx(t) ==
    /\ At(t, "clear_rx")
    /\ rx_flag' = [rx_flag EXCEPT ![slot[t]] = FALSE]
    /\ GoTo(t, "idle")
    /\ UNCHANGED <<tx_flag, tid, data, io, args, pipes, sim, watcher, fatal>>

-----------------------------------------------------------------------------
(* Simulator: ase_listener and the host-to-AFU and AFU-to-host streams. *)

\* mmio_response: the packet that answers request p, with the id given.
Response(p, t) == [write_en |-> p.write_en, tid |-> t, slot_idx |-> p.slot_idx,
                   id |-> p.id,
                   data |-> IF p.write_en THEN p.id ELSE Answer(p.port, p.id)]

\* ase_listener takes a request; pcie_ss_mmio_new_req answers a read of an
\* absent port itself and puts every other request on the list.
NewRequest ==
    /\ fatal = "none"
    /\ mmioreq # << >>
    /\ mmioreq' = Tail(mmioreq)
    /\ LET p == Head(mmioreq)
       IN \/ /\ p.port = "absent"
             /\ mmiorsp' = IF p.write_en THEN mmiorsp
                           ELSE Append(mmiorsp, Response(p, p.tid))
             /\ UNCHANGED <<sim, fatal>>
          \/ /\ p.port = "present"
             /\ mmio_req_list' = Append(mmio_req_list, p)
             /\ busy' = [busy EXCEPT ![p.slot_idx] = @ \/ ~p.write_en]
             /\ rs_tid' = IF p.write_en THEN rs_tid
                          ELSE [rs_tid EXCEPT ![p.slot_idx] = p.tid]
             /\ fatal' = IF ~p.write_en /\ busy[p.slot_idx] THEN "slot_busy"
                         ELSE fatal
             /\ UNCHANGED <<afu_reads, mmiorsp>>
    /\ UNCHANGED <<table, io, pc, args, watcher>>

\* pcie_tlp_h2a_mem sends the request at the head of the list to the AFU; for a
\* write it also answers, "in order to track credits".
SendToAfu ==
    /\ fatal = "none"
    /\ mmio_req_list # << >>
    /\ mmio_req_list' = Tail(mmio_req_list)
    /\ LET p == Head(mmio_req_list)
       IN \/ /\ p.write_en
             /\ mmiorsp' = Append(mmiorsp, Response(p, p.tid))
             /\ UNCHANGED afu_reads
          \/ /\ ~p.write_en
             /\ afu_reads' = afu_reads \cup {p}
             /\ UNCHANGED mmiorsp
    /\ UNCHANGED <<table, io, pc, args, mmioreq, busy, rs_tid, watcher, fatal>>

\* The AFU completes a read, in any order; pcie_tlp_a2h_cpld recovers the id
\* from mmio_read_state by the tag, which is the slot index.
CompleteRead(p) ==
    /\ fatal = "none"
    /\ p \in afu_reads
    /\ afu_reads' = afu_reads \ {p}
    /\ mmiorsp' = Append(mmiorsp, Response(p, rs_tid[p.slot_idx]))
    /\ busy' = [busy EXCEPT ![p.slot_idx] = FALSE]
    /\ fatal' = IF busy[p.slot_idx] THEN fatal ELSE "tag_not_active"
    /\ UNCHANGED <<table, io, pc, args, mmioreq, mmio_req_list, rs_tid,
                   watcher>>

-----------------------------------------------------------------------------
(* The thread mmio_response_watcher. *)

\* Receive a response and look its line up by transaction id.
WatcherRecv ==
    /\ fatal = "none"
    /\ wpc = "recv"
    /\ mmiorsp # << >>
    /\ mmiorsp' = Tail(mmiorsp)
    /\ wpkt' = Head(mmiorsp)
    /\ IF \E s \in Slots : HasTid(s, Head(mmiorsp).tid)
         THEN /\ \E s \in Slots : FirstWithTid(s, Head(mmiorsp).tid) /\ wslot' = s
              /\ wpc' = "apply"
              /\ UNCHANGED fatal
         ELSE /\ fatal' = "bad_slot"
              /\ UNCHANGED <<wpc, wslot>>
    /\ UNCHANGED <<table, io, pc, args, mmioreq, sim>>

\* Faulty: rx_flag is stored before the data.
WatcherReadData_late ==
    /\ fatal = "none"
    /\ wpc = "apply"
    /\ ~wpkt.write_en
    /\ rx_flag' = [rx_flag EXCEPT ![wslot] = TRUE]
    /\ data' = IF rx_flag[wslot] THEN [data EXCEPT ![wslot] = wpkt.data] ELSE data
    /\ wpc' = IF rx_flag[wslot] THEN "read_tx" ELSE "apply"
    /\ UNCHANGED <<tx_flag, tid, io, pc, args, pipes, sim, wpkt, wslot, fatal>>

\* A read response, store by store: the id and the data ...
WatcherReadData ==
    /\ fatal = "none"
    /\ wpc = "apply"
    /\ ~wpkt.write_en
    /\ tid' = [tid EXCEPT ![wslot] = wpkt.tid]
    /\ data' = [data EXCEPT ![wslot] = wpkt.data]
    /\ wpc' = "read_tx"
    /\ UNCHANGED <<tx_flag, rx_flag, io, pc, args, pipes, sim, wpkt, wslot,
                   fatal>>

\* ... tx_flag, which must still be set ...
WatcherReadTx ==
    /\ fatal = "none"
    /\ wpc = "read_tx"
    /\ tx_flag' = [tx_flag EXCEPT ![wslot] = TRUE]
    /\ wpc' = "read_rx"
    /\ UNCHANGED <<rx_flag, tid, data, io, pc, args, pipes, sim, wpkt, wslot,
                   fatal>>

\* ... and last rx_flag, on which the read spins.
WatcherReadRx ==
    /\ fatal = "none"
    /\ wpc = "read_rx"
    /\ rx_flag' = [rx_flag EXCEPT ![wslot] = TRUE]
    /\ wpc' = "recv"
    /\ UNCHANGED <<tx_flag, tid, data, io, pc, args, pipes, sim, wpkt, wslot,
                   fatal>>

\* Faulty: the response of a write does not give the line back.
WatcherWriteTx_leak ==
    /\ fatal = "none"
    /\ wpc = "apply"
    /\ wpkt.write_en
    /\ wpc' = "write_rx"
    /\ UNCHANGED <<table, io, pc, args, pipes, sim, wpkt, wslot, fatal>>

\* A write response: tx_flag, which gives the line back ...
WatcherWriteTx ==
    /\ fatal = "none"
    /\ wpc = "apply"
    /\ wpkt.write_en
    /\ tx_flag' = [tx_flag EXCEPT ![wslot] = FALSE]
    /\ wpc' = "write_rx"
    /\ UNCHANGED <<rx_flag, tid, data, io, pc, args, pipes, sim, wpkt, wslot,
                   fatal>>

\* ... then rx_flag, of a line another thread may have claimed meanwhile.
WatcherWriteRx ==
    /\ fatal = "none"
    /\ wpc = "write_rx"
    /\ rx_flag' = [rx_flag EXCEPT ![wslot] = FALSE]
    /\ wpc' = "recv"
    /\ UNCHANGED <<tx_flag, tid, data, io, pc, args, pipes, sim, wpkt, wslot,
                   fatal>>

-----------------------------------------------------------------------------
\* Nothing is left to do: the requests of the bound are made and answered, or
\* a fatal error ended the program.
Finished ==
    /\ \/ fatal # "none"
       \/ /\ opened /\ glbl_mmio_tid = MaxReqs
          /\ \A t \in Threads : pc[t] = "idle"
          /\ count_mmio_tid_used = 0
    /\ UNCHANGED vars

ThreadStep(t) ==
    \/ GenerateTid(t)
    \/ FindSlot(t)
    \/ NoSlotLeft(t)
    \/ PutRequest(t)
    \/ UnlockPort(t)
    \/ TakeResponse(t)
    \/ ClearTx(t)
    \/ ClearRx(t)

WatcherStep ==
    \/ WatcherRecv
    \/ WatcherReadData
    \/ WatcherReadTx
    \/ WatcherReadRx
    \/ WatcherWriteTx
    \/ WatcherWriteRx

\* The watcher has a response in hand that it has not finished to apply.
Applying == wpc \in {"apply", "read_tx", "read_rx"}

Next ==
    \/ OpenAfu
    \/ \E t \in Threads :
         \/ \E o \in {"read", "write"}, prt \in Ports : LockPort(t, o, prt)
         \/ ThreadStep(t)
    \/ NewRequest
    \/ SendToAfu
    \/ \E p \in afu_reads : CompleteRead(p)
    \/ WatcherStep
    \/ Finished

\* Every thread the operating system runs makes progress, the simulator runs
\* its listener and its streams every clock, and the AFU completes its reads.
Fairness ==
    /\ \A t \in Threads : WF_vars(ThreadStep(t))
    /\ WF_vars(NewRequest)
    /\ WF_vars(SendToAfu)
    /\ \A n \in Ids : WF_vars(\E p \in afu_reads : p.id = n /\ CompleteRead(p))
    /\ WF_vars(WatcherStep)

Spec == Init /\ [][Next]_vars
FairSpec == Spec /\ Fairness

-----------------------------------------------------------------------------
(* Properties. *)

\* The variables have the types of the code's variables: in particular every
\* id is an MMIO_TID and every line index is inside mmio_table.
TypeOK ==
    /\ tx_flag \in [Slots -> BOOLEAN]
    /\ rx_flag \in [Slots -> BOOLEAN]
    /\ tid \in [Slots -> Tids]
    /\ data \in [Slots -> Ids \cup {AllOnes, Blank}]
    /\ opened \in BOOLEAN
    /\ glbl_mmio_tid \in 0 .. MaxReqs
    /\ mmio_port_lock \in Threads \cup {NoThread}
    /\ pc \in [Threads -> {"idle", "gen", "find", "put", "unlock", "wait",
                           "clear_tx", "clear_rx"}]
    /\ op \in [Threads -> {"none", "read", "write"}]
    /\ port \in [Threads -> Ports]
    /\ id \in [Threads -> Ids]
    /\ slot \in [Threads -> Slots]
    /\ val \in [Threads -> Ids \cup {AllOnes, Blank}]
    /\ mmioreq \in Seq(Packets)
    /\ mmiorsp \in Seq(Responses)
    /\ mmio_req_list \in Seq(Packets)
    /\ busy \in [Slots -> BOOLEAN]
    /\ rs_tid \in [Slots -> Tids]
    /\ afu_reads \in SUBSET Packets
    /\ wpc \in {"recv", "apply", "read_tx", "read_rx", "write_rx"}
    /\ wpkt \in Responses \cup {NoPacket}
    /\ wslot \in Slots
    /\ fatal \in {"none", "no_slot", "slot_busy", "tag_not_active", "bad_slot"}

\* A read returns the AFU's answer to that read, never the data of another
\* request that used the same line, id or tag (mmio_read32, mmio_read64).
ReadReturnsOwnData ==
    \A t \in Threads : pc[t] \in {"clear_tx", "clear_rx"} =>
        val[t] = Answer(port[t], id[t])

\* Neither side ever loses track of a request: the watcher finds the line of
\* every response, the emulator never gets a read for a slot that is busy nor a
\* completion for one that is not.  The three errors are ASE_ERR branches of
\* mmio_response_watcher, pcie_ss_mmio_new_req and pcie_tlp_a2h_cpld.
NeverLosesTrack == fatal \notin {"slot_busy", "tag_not_active", "bad_slot"}

\* The threads that own a line: from its claim to the end of the call (a write
\* gives up its line when it unlocks; the watcher frees it).
OwnsSlot(t) == pc[t] \in {"put", "unlock", "wait", "clear_tx", "clear_rx"}

\* The requests that are on their way to the AFU or back.
InFlight(s) ==
    \/ \E i \in 1 .. Len(mmioreq) : mmioreq[i].slot_idx = s
    \/ \E i \in 1 .. Len(mmio_req_list) : mmio_req_list[i].slot_idx = s
    \/ \E p \in afu_reads : p.slot_idx = s
    \/ \E i \in 1 .. Len(mmiorsp) : mmiorsp[i].slot_idx = s
    \/ Applying /\ wpkt.slot_idx = s

\* A call whose line is in use whether or not its request is in flight.
HoldsLine(t) ==
    \/ pc[t] = "put"
    \/ pc[t] \in {"unlock", "wait", "clear_tx"} /\ op[t] = "read"

\* No credit leaks: a line in use belongs to a request that is in flight, that
\* is being posted, or whose read has not yet returned; and a line that is
\* free belongs to none.  send_swreset and session_deinit wait for the lines
\* to be free before they reset or leave the simulator.
NoCreditLeak ==
    \A s \in Slots :
        tx_flag[s] <=> \/ InFlight(s)
                       \/ \E t \in Threads : slot[t] = s /\ HoldsLine(t)

\* Two calls never own the same line.
SlotOwnedOnce ==
    \A t, u \in Threads :
        (OwnsSlot(t) /\ OwnsSlot(u) /\ slot[t] = slot[u]) => t = u

\* "Tid is also unique" (ase_common.h, mmio_t): two requests the simulator
\* has not answered never carry the same transaction id.
Unanswered ==
    {mmioreq[i] : i \in 1 .. Len(mmioreq)} \cup
    {mmio_req_list[i] : i \in 1 .. Len(mmio_req_list)} \cup afu_reads
TidUnique == \A p, q \in Unanswered : p.tid = q.tid => p = q

\* generate_mmio_tid waits while "MMIO TIDs have run out", so the error branch
\* of mmio_request_put, "simulation cannot proceed", is never taken.
AlwaysFindsSlot == fatal # "no_slot"

\* The AFU gets the requests in the order in which their ids were given out:
\* no request still queued is older than the one handed over in this step.
DeliveredInOrder ==
    [][ mmio_req_list # << >> /\ mmio_req_list' = Tail(mmio_req_list) =>
        /\ \A i \in 2 .. Len(mmio_req_list) :
               Head(mmio_req_list).id < mmio_req_list[i].id
        /\ \A i \in 1 .. Len(mmioreq) : Head(mmio_req_list).id < mmioreq[i].id
        /\ \A t \in Threads : pc[t] \in {"find", "put"} =>
               Head(mmio_req_list).id < id[t] ]_vars

\* A read that was posted returns, unless a fatal error ends the program.
ReadReturns ==
    \A t \in Threads : pc[t] = "wait" ~> (pc[t] = "idle" \/ fatal # "none")

\* The lock is never held for ever, although generate_mmio_tid spins with it:
\* lines are freed without the lock.
LockReleased ==
    \A t \in Threads :
        mmio_port_lock = t ~> (mmio_port_lock # t \/ fatal # "none")
=============================================================================

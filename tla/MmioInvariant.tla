--------------------------- MODULE MmioInvariant ----------------------------
(***************************************************************************)
(* The inductive invariant behind the safety properties of MmioScoreboard. *)
(* Transaction ids are used again: an invariant that finds a line by its   *)
(* id needs IdsRecent, see there.                                          *)
(***************************************************************************)
EXTENDS MmioScoreboard

-----------------------------------------------------------------------------
\* The packets in a pipe, and the pipes whose packets are all different.
Elems(q) == {q[i] : i \in 1 .. Len(q)}
Distinct(q) == \A i, j \in 1 .. Len(q) : q[i].id = q[j].id => i = j

\* Where a request can be between mmio_request_put and the watcher.
Posted  == Elems(mmioreq)
Listed  == Elems(mmio_req_list)
AtAfu   == afu_reads
Replied == Elems(mmiorsp)
Applied == IF Applying THEN {wpkt} ELSE {}
Flying  == Posted \cup Listed \cup AtAfu \cup Replied \cup Applied

Apart(P, Q) == \A p \in P, q \in Q : p.id # q.id

\* A call that waits for its answer or still has a flag to clear.
InCall(t) == pc[t] \in {"unlock", "wait", "clear_tx", "clear_rx"}
ReadCall(t) == op[t] = "read" /\ InCall(t)

\* A request that is not over is one of the last 2^MMIO_TID_BITWIDTH requests.
\* The code does not see to this: without it TidUnique is violated.  A session
\* may make any number of requests.
IdsRecent ==
    /\ \A p \in Flying : glbl_mmio_tid - p.id <= TidSpace
    /\ \A t \in Threads : InCall(t) => glbl_mmio_tid - id[t] <= TidSpace

-----------------------------------------------------------------------------
\* A thread is in the critical section exactly when it holds mmio_port_lock.
LockInv ==
    \A t \in Threads :
        mmio_port_lock = t <=> pc[t] \in {"gen", "find", "put", "unlock"}

\* A thread takes the lock only when it may make a request, and nobody else
\* makes one until it has its id.
RoomToGenerate ==
    \A t \in Threads : pc[t] = "gen" => glbl_mmio_tid < MaxReqs

\* What type correctness needs.
TInv == TypeOK /\ LockInv /\ RoomToGenerate

\* A request is in one place at a time.
OnePlace ==
    /\ Distinct(mmioreq) /\ Distinct(mmio_req_list) /\ Distinct(mmiorsp)
    /\ \A p, q \in AtAfu : p.id = q.id => p = q
    /\ Apart(Posted, Listed) /\ Apart(Posted, AtAfu) /\ Apart(Posted, Replied)
    /\ Apart(Posted, Applied) /\ Apart(Listed, AtAfu) /\ Apart(Listed, Replied)
    /\ Apart(Listed, Applied) /\ Apart(AtAfu, Replied) /\ Apart(AtAfu, Applied)
    /\ Apart(Replied, Applied)

\* The line of a request in flight waits for exactly this request.
LineWaits ==
    \A p \in Flying :
        /\ p.id \in Ids /\ p.id < glbl_mmio_tid
        /\ p.tid = TidOf(p.id)
        /\ tx_flag[p.slot_idx] /\ ~rx_flag[p.slot_idx]
        /\ tid[p.slot_idx] = p.tid

\* No line before s, in use or not, carries the id t: get_scoreboard_slot_by_tid
\* does not stop too early.
FirstFor(s, t) == \A r \in Slots : r < s => tid[r] # t
FoundFirst == \A p \in Flying : FirstFor(p.slot_idx, p.tid)

\* A read that waits for its answer.
Reading(t) == op[t] = "read" /\ pc[t] \in {"unlock", "wait"}

\* A line serves one request at a time.
OneRequest ==
    /\ \A p, q \in Flying : p.slot_idx = q.slot_idx => p.id = q.id
    /\ \A t \in Threads, p \in Flying :
         Reading(t) /\ p.slot_idx = slot[t] => p.id = id[t]

\* The request the lock holder is about to post is the newest one.
NewestOf(t) ==
    pc[t] \in {"find", "put"} =>
        /\ id[t] = glbl_mmio_tid - 1
        /\ \A p \in Flying : p.id < id[t]
        /\ \A u \in Threads : ReadCall(u) => id[u] < id[t]
        /\ pc[t] = "put" =>
             /\ tx_flag[slot[t]] /\ ~rx_flag[slot[t]]
             /\ FirstFor(slot[t], TidOf(id[t]))
             /\ \A p \in Flying : p.slot_idx # slot[t]
Newest == \A t \in Threads : NewestOf(t)

\* A read and its line, from mmio_request_put to the return of the call.
ReadLineOf(t) ==
    /\ op[t] = "none" => pc[t] = "idle"
    /\ op[t] = "write" => port[t] = "present"
    /\ pc[t] \in {"wait", "clear_tx", "clear_rx"} => op[t] = "read"
    /\ Reading(t) =>
         /\ tx_flag[slot[t]]
         /\ id[t] < glbl_mmio_tid
         /\ tid[slot[t]] = TidOf(id[t])
         /\ rx_flag[slot[t]] => data[slot[t]] = Answer(port[t], id[t])
    /\ pc[t] \in {"clear_tx", "clear_rx"} =>
         /\ rx_flag[slot[t]]
         /\ tx_flag[slot[t]] <=> pc[t] = "clear_tx"
         /\ id[t] < glbl_mmio_tid
         /\ tid[slot[t]] = TidOf(id[t])
         /\ val[t] = Answer(port[t], id[t])
ReadLine == \A t \in Threads : ReadLineOf(t)

\* A packet in flight on the line of a read is that read, or its answer.
RightAnswerOf(t) ==
    Reading(t) =>
        /\ \A p \in Posted \cup Listed \cup AtAfu : p.slot_idx = slot[t] =>
             ~p.write_en /\ p.port = port[t]
        /\ \A p \in Replied \cup Applied : p.slot_idx = slot[t] =>
             ~p.write_en /\ p.data = Answer(port[t], id[t])
RightAnswer == \A t \in Threads : RightAnswerOf(t)

\* mmio_read_state knows the reads the emulator has, and only those.
SimKnows ==
    /\ \A p \in Listed \cup AtAfu : ~p.write_en =>
         busy[p.slot_idx] /\ rs_tid[p.slot_idx] = p.tid
    /\ \A s \in Slots : busy[s] =>
         \E p \in Listed \cup AtAfu : ~p.write_en /\ p.slot_idx = s
    /\ \A p \in AtAfu : ~p.write_en
    /\ \A p \in Posted : p.write_en => p.port = "present"

\* The watcher found the right line, and clears a flag that is clear already.
WatcherInv ==
    /\ Applying => wslot = wpkt.slot_idx
    /\ wpc \in {"read_tx", "read_rx"} =>
         ~wpkt.write_en /\ data[wslot] = wpkt.data
    /\ wpc = "write_rx" => ~rx_flag[wslot]

IInv ==
    /\ TInv /\ OnePlace /\ LineWaits /\ FoundFirst /\ OneRequest /\ Newest
    /\ ReadLine /\ RightAnswer /\ SimKnows /\ WatcherInv
    /\ SlotOwnedOnce /\ NeverLosesTrack

-----------------------------------------------------------------------------
\* A line in use belongs to a request in flight or to a call that will free it;
\* a read in flight has a call that waits for it.
LineClaimed ==
    \A s \in Slots : tx_flag[s] =>
        \/ \E p \in Flying : p.slot_idx = s
        \/ \E t \in Threads : slot[t] = s /\ HoldsLine(t)
ReaderWaits ==
    \A p \in Flying : ~p.write_en =>
        \E t \in Threads : Reading(t) /\ slot[t] = p.slot_idx
RxClaimed ==
    \A s \in Slots : rx_flag[s] =>
        \E t \in Threads : slot[t] = s /\ ReadCall(t)
CreditInv == LineClaimed /\ ReaderWaits /\ RxClaimed

\* Requests wait for the AFU in the order of their ids.  This does not need
\* IdsRecent.
Ascending(q) == \A i, j \in 1 .. Len(q) : i < j => q[i].id < q[j].id
OrderInv ==
    /\ Ascending(mmioreq) /\ Ascending(mmio_req_list)
    /\ \A p \in Listed, q \in Posted : p.id < q.id
    /\ \A p \in Listed \cup Posted :
         /\ p.id < glbl_mmio_tid
         /\ \A t \in Threads : pc[t] \in {"find", "put"} => p.id < id[t]
    /\ \A t \in Threads : pc[t] \in {"find", "put"} => id[t] < glbl_mmio_tid

=============================================================================

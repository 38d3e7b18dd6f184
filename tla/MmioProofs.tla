----------------------------- MODULE MmioProofs -----------------------------
(***************************************************************************)
(* Theorems about MmioScoreboard, for every number of threads, lines and   *)
(* transaction ids.                                                        *)
(***************************************************************************)
EXTENDS MmioInvariant, TLAPS

-----------------------------------------------------------------------------
(* Sequences of packets as sets of packets. *)

\* A packet that may be posted on a pipe leaves a pipe.
LEMMA AppendType ==
    ASSUME NEW S, NEW q \in Seq(S), NEW e \in S
    PROVE  Append(q, e) \in Seq(S)
  OBVIOUS

\* Appending a packet to a pipe adds it to the packets in the pipe.
LEMMA ElemsAppend ==
    ASSUME NEW S, NEW q \in Seq(S), NEW e \in S
    PROVE  Elems(Append(q, e)) = Elems(q) \cup {e}
  BY DEF Elems

\* Receiving from a pipe of different packets removes that packet only.
LEMMA ElemsTail ==
    ASSUME NEW S, NEW q \in Seq(S), q # << >>, Distinct(q)
    PROVE  /\ Head(q) \in Elems(q)
           /\ Elems(Tail(q)) \subseteq Elems(q)
           /\ \A e \in Elems(Tail(q)) : e.id # Head(q).id
           /\ \A e \in Elems(q) : e # Head(q) => e \in Elems(Tail(q))
           /\ Distinct(Tail(q))
  <1>1. Len(q) \in Nat /\ Len(q) > 0 /\ Len(Tail(q)) = Len(q) - 1
    OBVIOUS
  <1>2. Head(q) = q[1] /\ \A i \in 1 .. Len(Tail(q)) : Tail(q)[i] = q[i + 1]
    BY <1>1
  <1>3. Head(q) \in Elems(q)
    BY <1>1, <1>2 DEF Elems
  <1>4. Elems(Tail(q)) \subseteq Elems(q)
    BY <1>1, <1>2 DEF Elems
  <1>5. \A e \in Elems(Tail(q)) : e.id # Head(q).id
    BY <1>1, <1>2 DEF Elems, Distinct
  <1>6. ASSUME NEW e \in Elems(q), e # Head(q)
        PROVE  e \in Elems(Tail(q))
    <2>1. PICK i \in 1 .. Len(q) : e = q[i]
      BY DEF Elems
    <2>2. i # 1 /\ i - 1 \in 1 .. Len(Tail(q)) /\ Tail(q)[i - 1] = e
      BY <1>1, <1>2, <1>6, <2>1
    <2>3. QED  BY <2>2 DEF Elems
  <1>7. Distinct(Tail(q))
    BY <1>1, <1>2 DEF Distinct
  <1>8. QED  BY <1>3, <1>4, <1>5, <1>6, <1>7

\* A pipe stays free of duplicates when a new packet is appended.
LEMMA DistinctAppend ==
    ASSUME NEW S, NEW q \in Seq(S), NEW e \in S, Distinct(q),
           \A f \in Elems(q) : f.id # e.id
    PROVE  Distinct(Append(q, e))
  <1>1. Len(Append(q, e)) = Len(q) + 1 /\ Len(q) \in Nat
    OBVIOUS
  <1>2. \A i \in 1 .. Len(q) : Append(q, e)[i] = q[i] /\ q[i] \in Elems(q)
    BY DEF Elems
  <1>3. Append(q, e)[Len(q) + 1] = e
    OBVIOUS
  <1>4. QED  BY <1>1, <1>2, <1>3 DEF Distinct

-----------------------------------------------------------------------------
(* Type correctness. *)

\* A packet that is put on a pipe has the type of the packets of the pipe.
LEMMA ResponseType ==
    ASSUME NEW p \in Packets, NEW t \in Tids
    PROVE  Response(p, t) \in Responses
  BY ReqsAssumption DEF Response, Responses, Packets, Answer, AllOnes

\* The id that is sent is an id (glbl_mmio_tid & MMIO_TID_BITMASK).
LEMMA TidOfType ==
    ASSUME NEW n \in Ids
    PROVE  TidOf(n) \in Tids
  BY TidAssumption, ReqsAssumption DEF TidOf, Tids, Ids

\* The division the mask stands for.
LEMMA TidDivision ==
    \A n \in Nat : /\ n \div TidSpace \in Int
                   /\ TidOf(n) \in 0 .. TidSpace - 1
                   /\ n = (TidSpace * (n \div TidSpace)) + TidOf(n)
  BY TidAssumption DEF TidOf

\* Two requests fewer than 2^MMIO_TID_BITWIDTH apart have different ids.
LEMMA TidsDiffer ==
    ASSUME NEW a \in Nat, NEW b \in Nat, a < b, b - a < TidSpace
    PROVE  TidOf(a) # TidOf(b)
  <1> SUFFICES ASSUME TidOf(a) = TidOf(b)
               PROVE  FALSE
    OBVIOUS
  <1>1. PICK qa \in Int, qb \in Int, r \in Int :
            a = (TidSpace * qa) + r /\ b = (TidSpace * qb) + r
    BY TidDivision
  <1>2. b - a = TidSpace * (qb - qa)
    BY <1>1, TidAssumption
  <1>3. PICK d \in Int : d = qb - qa
    BY <1>1
  <1>4. b - a = TidSpace * d
    BY <1>2, <1>3
  <1>5. \A e \in Int : /\ e >= 1 => TidSpace * e >= TidSpace
                       /\ e <= 0 => TidSpace * e <= 0
    BY TidAssumption
  <1>6. d >= 1 \/ d <= 0
    BY <1>3
  <1>7. QED  BY <1>4, <1>5, <1>6, TidAssumption

\* Every step keeps the types, and the lock with the thread that took it.
LEMMA TypeStep ==
    ASSUME TInv, [Next]_vars
    PROVE  TInv'
  <1> USE SlotsAssumption, TidAssumption, ReqsAssumption, NoThreadAssumption
          DEF TInv
  <1>1. CASE OpenAfu
    BY <1>1 DEF TypeOK, LockInv, RoomToGenerate, OpenAfu, table, args, pipes,
                sim, watcher
  <1>2. ASSUME NEW t \in Threads, NEW o \in {"read", "write"},
               NEW prt \in Ports, LockPort(t, o, prt)
        PROVE  TInv'
    BY <1>2 DEF TypeOK, LockInv, RoomToGenerate, LockPort, At, GoTo, table,
                pipes, sim, watcher
  <1>3. ASSUME NEW t \in Threads, GenerateTid(t)
        PROVE  TInv'
    BY <1>3 DEF TypeOK, LockInv, RoomToGenerate, GenerateTid, At, GoTo, table,
                pipes, sim, watcher, Ids
  <1>4. ASSUME NEW t \in Threads, FindSlot(t)
        PROVE  TInv'
    BY <1>4 DEF TypeOK, LockInv, RoomToGenerate, FindSlot, At, GoTo, io,
                pipes, sim, watcher
  <1>5. ASSUME NEW t \in Threads, NoSlotLeft(t)
        PROVE  TInv'
    BY <1>5 DEF TypeOK, LockInv, RoomToGenerate, NoSlotLeft, At, table, io,
                args, pipes, sim, watcher
  <1>6. ASSUME NEW t \in Threads, PutRequest(t)
        PROVE  TInv'
    <2>1. TidOf(id[t]) \in Tids
      BY TidOfType DEF TypeOK
    <2>2. [write_en |-> (op[t] = "write"), port |-> port[t],
           tid |-> TidOf(id[t]), slot_idx |-> slot[t], id |-> id[t]] \in Packets
      BY <2>1 DEF TypeOK, Packets
    <2>3. mmioreq' \in Seq(Packets)
      BY <1>6, <2>2 DEF TypeOK, PutRequest
    <2>4. tid' \in [Slots -> Tids] /\ data' \in [Slots -> Ids \cup {AllOnes, Blank}]
      BY <1>6, <2>1 DEF TypeOK, PutRequest
    <2>5. QED
      BY <1>6, <2>3, <2>4 DEF TypeOK, LockInv, RoomToGenerate, PutRequest, At,
                              GoTo, io, args, sim, watcher
  <1>7. ASSUME NEW t \in Threads, UnlockPort(t)
        PROVE  TInv'
    BY <1>7 DEF TypeOK, LockInv, RoomToGenerate, UnlockPort, At, GoTo, table,
                args, pipes, sim, watcher
  <1>8. ASSUME NEW t \in Threads, TakeResponse(t) \/ ClearTx(t) \/ ClearRx(t)
        PROVE  TInv'
    <2>1. CASE TakeResponse(t)
      BY <2>1 DEF TypeOK, LockInv, RoomToGenerate, TakeResponse, At, GoTo,
                  table, io, pipes, sim, watcher
    <2>2. CASE ClearTx(t)
      BY <2>2 DEF TypeOK, LockInv, RoomToGenerate, ClearTx, At, GoTo, io, args,
                  pipes, sim, watcher
    <2>3. CASE ClearRx(t)
      BY <2>3 DEF TypeOK, LockInv, RoomToGenerate, ClearRx, At, GoTo, io, args,
                  pipes, sim, watcher
    <2>4. QED  BY <1>8, <2>1, <2>2, <2>3
  <1>9. CASE NewRequest
    <2> DEFINE p == Head(mmioreq)
    <2>1. p \in Packets /\ Tail(mmioreq) \in Seq(Packets)
      BY <1>9 DEF TypeOK, NewRequest
    <2>2. p.tid \in Tids /\ p.slot_idx \in Slots /\ p.write_en \in BOOLEAN
      BY <2>1 DEF Packets
    <2>3. Response(p, p.tid) \in Responses
      BY <2>1, <2>2, ResponseType
    <2>a. mmiorsp \in Seq(Responses) /\ mmio_req_list \in Seq(Packets)
      BY DEF TypeOK
    <2>b. /\ mmiorsp' \in {mmiorsp, Append(mmiorsp, Response(p, p.tid))}
          /\ mmio_req_list' \in {mmio_req_list, Append(mmio_req_list, p)}
      BY <1>9 DEF NewRequest, sim
    <2> HIDE DEF p
    <2>4. mmiorsp' \in Seq(Responses) /\ mmio_req_list' \in Seq(Packets)
      <3>1. Append(mmiorsp, Response(p, p.tid)) \in Seq(Responses)
        BY <2>3, <2>a, AppendType
      <3>2. Append(mmio_req_list, p) \in Seq(Packets)
        BY <2>1, <2>a, AppendType
      <3>3. QED  BY <2>a, <2>b, <3>1, <3>2
    <2>5. busy' \in [Slots -> BOOLEAN] /\ rs_tid' \in [Slots -> Tids]
      BY <1>9, <2>2 DEF TypeOK, NewRequest, sim, p
    <2>6. mmioreq' \in Seq(Packets) /\ UNCHANGED afu_reads
          /\ fatal' \in {fatal, "slot_busy"}
      BY <1>9, <2>1 DEF NewRequest, sim
    <2>7. UNCHANGED <<table, io, pc, args, watcher>>
      BY <1>9 DEF NewRequest
    <2>8. QED
      BY <2>4, <2>5, <2>6, <2>7
         DEF TypeOK, LockInv, RoomToGenerate, table, io, args, watcher
  <1>10. CASE SendToAfu
    <2> DEFINE p == Head(mmio_req_list)
    <2>1. p \in Packets /\ Tail(mmio_req_list) \in Seq(Packets)
      BY <1>10 DEF TypeOK, SendToAfu
    <2>2. Response(p, p.tid) \in Responses
      BY <2>1, ResponseType DEF Packets
    <2>a. /\ mmiorsp \in Seq(Responses) /\ afu_reads \in SUBSET Packets
      BY DEF TypeOK
    <2>b. /\ mmiorsp' \in {mmiorsp, Append(mmiorsp, Response(p, p.tid))}
          /\ mmio_req_list' = Tail(mmio_req_list)
          /\ afu_reads' \in {afu_reads, afu_reads \cup {p}}
      BY <1>10 DEF SendToAfu
    <2> HIDE DEF p
    <2>3. /\ mmiorsp' \in Seq(Responses) /\ mmio_req_list' \in Seq(Packets)
          /\ afu_reads' \in SUBSET Packets
      <3>1. Append(mmiorsp, Response(p, p.tid)) \in Seq(Responses)
        BY <2>2, <2>a, AppendType
      <3>2. QED  BY <2>1, <2>a, <2>b, <3>1
    <2>4. QED
      BY <1>10, <2>3 DEF SendToAfu, TypeOK, LockInv, RoomToGenerate, table, io,
                         args, watcher
  <1>11. ASSUME NEW p \in afu_reads, CompleteRead(p)
         PROVE  TInv'
    <2>1. p \in Packets /\ p.slot_idx \in Slots
      BY DEF TypeOK, Packets
    <2>2. Response(p, rs_tid[p.slot_idx]) \in Responses
      BY <2>1, ResponseType DEF TypeOK
    <2>3. mmiorsp' \in Seq(Responses)
      BY <1>11, <2>2 DEF TypeOK, CompleteRead
    <2>4. QED
      BY <1>11, <2>1, <2>3 DEF CompleteRead, TypeOK, LockInv, RoomToGenerate,
                               table, io, args, watcher
  <1>12. CASE WatcherRecv
    <2>1. /\ Head(mmiorsp) \in Responses /\ mmiorsp' \in Seq(Responses)
      BY <1>12 DEF TypeOK, WatcherRecv
    <2>2. QED
      BY <1>12, <2>1 DEF WatcherRecv, TypeOK, LockInv, RoomToGenerate,
                         table, io, args, sim
  <1>13. CASE WatcherReadData
    <2>1. wpkt.tid \in Tids /\ wpkt.data \in Ids \cup {AllOnes, Blank}
      BY DEF TypeOK, Responses, NoPacket, Tids
    <2>2. QED
      BY <1>13, <2>1 DEF WatcherReadData, TypeOK, LockInv, RoomToGenerate, io,
                         args, pipes, sim
  <1>14. CASE WatcherReadTx \/ WatcherReadRx \/ WatcherWriteTx \/ WatcherWriteRx
    BY <1>14 DEF WatcherReadTx, WatcherReadRx, WatcherWriteTx, WatcherWriteRx,
                 TypeOK, LockInv, RoomToGenerate, io, args, pipes, sim
  <1>15. CASE UNCHANGED vars
    BY <1>15 DEF vars, TypeOK, LockInv, RoomToGenerate, table, io, args, pipes,
                 sim, watcher
  <1>16. QED
    BY <1>1, <1>2, <1>3, <1>4, <1>5, <1>6, <1>7, <1>8, <1>9, <1>10, <1>11,
       <1>12, <1>13, <1>14, <1>15 DEF Next, ThreadStep, WatcherStep, Finished

\* The initial state has the types.
LEMMA TypeInit ==
    ASSUME Init
    PROVE  TInv
  <1>1. 0 \in Slots /\ 0 \in Tids /\ 0 \in Ids /\ "present" \in Ports
    BY SlotsAssumption, TidAssumption, ReqsAssumption
       DEF Slots, Tids, Ids, Ports
  <1>2. TypeOK
    <2>1. /\ tx_flag \in [Slots -> BOOLEAN] /\ rx_flag \in [Slots -> BOOLEAN]
          /\ tid \in [Slots -> Tids] /\ busy \in [Slots -> BOOLEAN]
          /\ data \in [Slots -> Ids \cup {AllOnes, Blank}]
          /\ rs_tid \in [Slots -> Tids]
      BY <1>1 DEF Init
    <2>2. /\ op \in [Threads -> {"none", "read", "write"}]
          /\ port \in [Threads -> Ports] /\ id \in [Threads -> Ids]
          /\ slot \in [Threads -> Slots]
          /\ val \in [Threads -> Ids \cup {AllOnes, Blank}]
      BY <1>1 DEF Init
    <2>3. glbl_mmio_tid \in 0 .. MaxReqs
      BY ReqsAssumption DEF Init
    <2>4. /\ mmioreq \in Seq(Packets) /\ mmiorsp \in Seq(Responses)
          /\ mmio_req_list \in Seq(Packets) /\ afu_reads \in SUBSET Packets
      BY DEF Init
    <2>5. /\ wpc \in {"recv", "apply", "read_tx", "read_rx", "write_rx"} /\ wslot \in Slots
          /\ wpkt \in Responses \cup {NoPacket}
      BY <1>1 DEF Init
    <2>6. /\ pc \in [Threads -> {"idle", "gen", "find", "put", "unlock",
                                 "wait", "clear_tx", "clear_rx"}]
          /\ opened \in BOOLEAN /\ mmio_port_lock \in Threads \cup {NoThread}
          /\ fatal \in {"none", "no_slot", "slot_busy", "tag_not_active",
                        "bad_slot"}
      BY DEF Init
    <2>7. QED  BY <2>1, <2>2, <2>3, <2>4, <2>5, <2>6 DEF TypeOK
  <1>3. LockInv /\ RoomToGenerate
    BY NoThreadAssumption DEF Init, LockInv, RoomToGenerate
  <1>4. QED  BY <1>2, <1>3 DEF TInv

\* Type correctness of the port: whatever the threads, the simulator and the
\* watcher do, in any order, each id that is sent fits MMIO_TID_BITWIDTH and
\* each line index stays inside mmio_table.  The ids may wrap.
THEOREM TypeCorrect == Spec => []TypeOK
  <1>1. Init => TInv
    BY TypeInit
  <1>2. TInv /\ [Next]_vars => TInv'
    BY TypeStep
  <1>3. TInv => TypeOK
    BY DEF TInv
  <1>4. QED  BY <1>1, <1>2, <1>3, PTL DEF Spec

-----------------------------------------------------------------------------
(* The places of a request. *)

\* A step that touches neither the pipes nor the simulator nor the watcher
\* leaves every request where it is.
LEMMA NothingMoves ==
    ASSUME UNCHANGED <<pipes, sim, watcher>>
    PROVE  /\ Posted' = Posted /\ Listed' = Listed /\ AtAfu' = AtAfu
           /\ Replied' = Replied /\ Applied' = Applied /\ Flying' = Flying
           /\ OnePlace => OnePlace'
           /\ SimKnows => SimKnows'
  <1>1. /\ Posted' = Posted /\ Listed' = Listed /\ AtAfu' = AtAfu
        /\ Replied' = Replied /\ Applied' = Applied
    BY DEF pipes, sim, watcher, Posted, Listed, AtAfu, Replied, Applied, Applying,
           Elems
  <1>2. Flying' = Flying
    BY <1>1 DEF Flying
  <1>3. OnePlace => OnePlace'
    BY <1>1 DEF OnePlace, Distinct, Apart, pipes, sim
  <1>4. SimKnows => SimKnows'
    BY <1>1 DEF SimKnows, sim
  <1>5. QED  BY <1>1, <1>2, <1>3, <1>4

\* The types of the fields of a request in flight.
LEMMA PacketFields ==
    ASSUME TypeOK, LineWaits
    PROVE  /\ Posted \cup Listed \cup AtAfu \subseteq Packets
           /\ Replied \cup Applied \subseteq Responses
           /\ \A p \in Flying : /\ p.id \in Ids /\ p.slot_idx \in Slots
                                 /\ p.tid \in Tids /\ p.write_en \in BOOLEAN
  <1>1. Posted \cup Listed \cup AtAfu \subseteq Packets
    BY DEF TypeOK, Posted, Listed, AtAfu, Elems
  <1>2. Replied \subseteq Responses
    BY DEF TypeOK, Replied, Elems
  <1>3. Applied \subseteq Responses
    <2>1. NoPacket \notin Applied
      <3>1. NoPacket.id = -1 /\ -1 \notin Ids
        BY ReqsAssumption DEF NoPacket, Ids
      <3>2. QED  BY <3>1 DEF LineWaits, Flying
    <2>2. QED  BY <2>1 DEF TypeOK, Applied, Applying
  <1>4. QED
    BY <1>1, <1>2, <1>3 DEF Flying, Packets, Responses

\* A read is not disturbed by a step of another thread that leaves its line
\* and the requests in flight alone.
LEMMA Bystander ==
    ASSUME NEW u \in Threads, TypeOK, TypeOK',
           pc'[u] = pc[u], op'[u] = op[u], port'[u] = port[u], id'[u] = id[u],
           slot'[u] = slot[u], val'[u] = val[u],
           OwnsSlot(u) =>
             /\ tx_flag'[slot[u]] = tx_flag[slot[u]]
             /\ rx_flag'[slot[u]] = rx_flag[slot[u]]
             /\ tid'[slot[u]] = tid[slot[u]]
             /\ data'[slot[u]] = data[slot[u]],
           glbl_mmio_tid' >= glbl_mmio_tid
    PROVE  /\ ReadLineOf(u) => ReadLineOf(u)'
           /\ Reading(u)' <=> Reading(u)
           /\ OwnsSlot(u)' <=> OwnsSlot(u)
  <1>1. Reading(u)' <=> Reading(u)
    BY DEF Reading
  <1>2. OwnsSlot(u)' <=> OwnsSlot(u)
    BY DEF OwnsSlot
  <1>3. Reading(u) => OwnsSlot(u)
    BY DEF Reading, OwnsSlot
  <1>4. pc[u] \in {"clear_tx", "clear_rx"} => OwnsSlot(u)
    BY DEF OwnsSlot
  <1>5. /\ id[u] \in Int /\ glbl_mmio_tid \in Int /\ glbl_mmio_tid' \in Int
    BY ReqsAssumption DEF TypeOK, Ids
  <1>6. ReadLineOf(u) => ReadLineOf(u)'
    BY <1>1, <1>3, <1>4, <1>5 DEF ReadLineOf
  <1>7. QED  BY <1>1, <1>2, <1>6

-----------------------------------------------------------------------------
(* One lemma per action: the step keeps the inductive invariant. *)

\* A step that makes no read wait keeps one request per line.
LEMMA OneRequestKept ==
    ASSUME OneRequest, Flying' = Flying,
           \A u \in Threads : Reading(u)' =>
               Reading(u) /\ id'[u] = id[u] /\ slot'[u] = slot[u]
    PROVE  OneRequest'
  BY DEF OneRequest

\* Taking the lock touches no line.
LEMMA LockPortStep ==
    ASSUME IInv, TInv', NEW t \in Threads, NEW o \in {"read", "write"},
           NEW prt \in Ports, LockPort(t, o, prt)
    PROVE  IInv'
  <1>0. /\ TypeOK /\ LockInv /\ LineWaits /\ FoundFirst /\ OneRequest /\ Newest
        /\ ReadLine /\ RightAnswer /\ WatcherInv /\ SlotOwnedOnce
        /\ NeverLosesTrack /\ TypeOK' /\ LockInv'
    BY DEF IInv, TInv
  <1>1. UNCHANGED <<pipes, sim, watcher>>
    BY DEF LockPort
  <1>2. /\ Posted' = Posted /\ Listed' = Listed /\ AtAfu' = AtAfu
        /\ Replied' = Replied /\ Applied' = Applied /\ Flying' = Flying
        /\ OnePlace' /\ SimKnows'
    BY <1>1, NothingMoves DEF IInv
  <1>3. /\ pc[t] = "idle" /\ pc'[t] = "gen" /\ op'[t] = o
        /\ o = "write" => port'[t] = "present"
        /\ UNCHANGED <<tx_flag, rx_flag, tid, data, glbl_mmio_tid, id, slot, val>>
        /\ fatal' = fatal
    BY <1>0 DEF LockPort, At, GoTo, TypeOK, table
  <1>4. ASSUME NEW u \in Threads, u # t
        PROVE  pc'[u] = pc[u] /\ op'[u] = op[u] /\ port'[u] = port[u]
    BY <1>0, <1>4 DEF LockPort, GoTo, TypeOK
  <1>5. LineWaits' /\ FoundFirst'
    BY <1>0, <1>2, <1>3 DEF LineWaits, FoundFirst, FirstFor
  <1>6. ASSUME NEW u \in Threads
        PROVE  ReadLineOf(u)' /\ RightAnswerOf(u)' /\ NewestOf(u)'
    <2>1. CASE u = t
      BY <1>3, <2>1 DEF ReadLineOf, RightAnswerOf, NewestOf, Reading
    <2>2. CASE u # t
      <3>1. ReadLineOf(u)' /\ (Reading(u)' <=> Reading(u))
        <4>1. glbl_mmio_tid' >= glbl_mmio_tid
          BY <1>0, <1>3, ReqsAssumption DEF TypeOK
        <4>2. QED  BY <1>0, <1>3, <1>4, <2>2, <4>1, Bystander DEF ReadLine
      <3>2. RightAnswerOf(u)'
        BY <1>0, <1>2, <1>3, <1>4, <2>2, <3>1 DEF RightAnswer, RightAnswerOf
      <3>3. NewestOf(u)'
        BY <1>0, <1>2, <1>3, <1>4, <2>2 DEF Newest, NewestOf, FirstFor, ReadCall, InCall
      <3>4. QED  BY <3>1, <3>2, <3>3
    <2>3. QED  BY <2>1, <2>2
  <1>7. WatcherInv'
    BY <1>0, <1>1, <1>3 DEF WatcherInv, Applying, watcher
  <1>8. SlotOwnedOnce'
    BY <1>0, <1>3, <1>4 DEF SlotOwnedOnce, OwnsSlot
  <1>9. NeverLosesTrack'
    BY <1>0, <1>3 DEF NeverLosesTrack
  <1>10. OneRequest'
    BY <1>0, <1>2, <1>3, <1>4, OneRequestKept DEF Reading
  <1>11. QED
    BY <1>2, <1>5, <1>6, <1>7, <1>8, <1>9, <1>10
       DEF IInv, ReadLine, RightAnswer, Newest

\* A new request is newer than every request in flight.
LEMMA GenerateTidStep ==
    ASSUME IInv, TInv', NEW t \in Threads, GenerateTid(t)
    PROVE  IInv'
  <1>0. /\ TypeOK /\ LockInv /\ LineWaits /\ FoundFirst /\ OneRequest /\ Newest
        /\ ReadLine /\ RightAnswer /\ WatcherInv /\ SlotOwnedOnce
        /\ NeverLosesTrack /\ TypeOK' /\ LockInv'
    BY DEF IInv, TInv
  <1>1. UNCHANGED <<pipes, sim, watcher>>
    BY DEF GenerateTid
  <1>2. /\ Posted' = Posted /\ Listed' = Listed /\ AtAfu' = AtAfu
        /\ Replied' = Replied /\ Applied' = Applied /\ Flying' = Flying
        /\ OnePlace' /\ SimKnows'
    BY <1>1, NothingMoves DEF IInv
  <1>3. /\ pc[t] = "gen" /\ pc'[t] = "find" /\ id'[t] = glbl_mmio_tid
        /\ glbl_mmio_tid' = glbl_mmio_tid + 1
        /\ UNCHANGED <<tx_flag, rx_flag, tid, data, op, port, slot, val>>
        /\ fatal' = fatal /\ glbl_mmio_tid \in Nat
    BY <1>0, ReqsAssumption DEF GenerateTid, At, GoTo, TypeOK, table
  <1>4. ASSUME NEW u \in Threads, u # t
        PROVE  pc'[u] = pc[u] /\ id'[u] = id[u]
    BY <1>0, <1>4 DEF GenerateTid, GoTo, TypeOK
  <1>b. \A p \in Flying : p.id \in Nat
    BY <1>0, PacketFields, ReqsAssumption DEF Ids
  <1>5. LineWaits' /\ FoundFirst'
    BY <1>0, <1>2, <1>3, <1>b DEF LineWaits, FoundFirst, FirstFor
  <1>6. ASSUME NEW u \in Threads
        PROVE  ReadLineOf(u)' /\ RightAnswerOf(u)' /\ NewestOf(u)'
    <2>1. CASE u = t
      <3>1. ReadLineOf(u)' /\ RightAnswerOf(u)'
        BY <1>0, <1>3, <2>1 DEF ReadLine, ReadLineOf, RightAnswerOf, Reading
      <3>2. NewestOf(u)'
        <4>1. ASSUME NEW x \in Threads, ReadCall(x)'
              PROVE  id'[x] < id'[t]
          <5>1. x # t /\ ReadCall(x)
            BY <1>3, <1>4, <4>1 DEF ReadCall, InCall
          <5>2. pc[x] # "unlock"
            BY <1>0, <1>3, <5>1 DEF LockInv
          <5>3. id[x] < glbl_mmio_tid
            BY <1>0, <5>1, <5>2
               DEF ReadLine, ReadLineOf, Reading, ReadCall, InCall
          <5>4. QED  BY <1>3, <1>4, <5>1, <5>3
        <4>2. QED
          BY <1>0, <1>2, <1>3, <1>b, <2>1, <4>1 DEF NewestOf, LineWaits
      <3>3. QED  BY <3>1, <3>2
    <2>2. CASE u # t
      <3>1. ReadLineOf(u)' /\ (Reading(u)' <=> Reading(u))
        <4>1. glbl_mmio_tid' >= glbl_mmio_tid
          BY <1>3
        <4>2. QED  BY <1>0, <1>3, <1>4, <2>2, <4>1, Bystander DEF ReadLine
      <3>2. RightAnswerOf(u)'
        BY <1>0, <1>2, <1>3, <1>4, <2>2, <3>1 DEF RightAnswer, RightAnswerOf
      <3>3. pc[u] \notin {"find", "put"}
        BY <1>0, <1>3, <2>2 DEF LockInv
      <3>4. QED  BY <1>4, <2>2, <3>1, <3>2, <3>3 DEF NewestOf
    <2>3. QED  BY <2>1, <2>2
  <1>7. WatcherInv'
    BY <1>0, <1>1, <1>3 DEF WatcherInv, Applying, watcher
  <1>8. SlotOwnedOnce'
    BY <1>0, <1>3, <1>4 DEF SlotOwnedOnce, OwnsSlot
  <1>9. NeverLosesTrack'
    BY <1>0, <1>3 DEF NeverLosesTrack
  <1>10. OneRequest'
    BY <1>0, <1>2, <1>3, <1>4, OneRequestKept DEF Reading
  <1>11. QED
    BY <1>2, <1>5, <1>6, <1>7, <1>8, <1>9, <1>10
       DEF IInv, ReadLine, RightAnswer, Newest

\* Claiming a line disturbs nobody: a line with both flags clear belongs to no
\* request in flight and to no thread.  The lines before it are in use, so
\* their ids are recent and different from the id of the new request.
LEMMA FindSlotStep ==
    ASSUME IdsRecent, CreditInv, IInv, TInv', NEW t \in Threads, FindSlot(t)
    PROVE  IInv'
  <1>0. /\ TypeOK /\ LockInv /\ LineWaits /\ FoundFirst /\ OneRequest /\ Newest
        /\ ReadLine /\ RightAnswer /\ WatcherInv /\ SlotOwnedOnce
        /\ NeverLosesTrack /\ TypeOK' /\ LockInv'
    BY DEF IInv, TInv
  <1>1. UNCHANGED <<pipes, sim, watcher>>
    BY DEF FindSlot
  <1>2. /\ Posted' = Posted /\ Listed' = Listed /\ AtAfu' = AtAfu
        /\ Replied' = Replied /\ Applied' = Applied /\ Flying' = Flying
        /\ OnePlace' /\ SimKnows'
    BY <1>1, NothingMoves DEF IInv
  <1>3. PICK s \in Slots :
          /\ FirstEmpty(s)
          /\ slot' = [slot EXCEPT ![t] = s]
          /\ tx_flag' = [tx_flag EXCEPT ![s] = TRUE]
          /\ rx_flag' = [rx_flag EXCEPT ![s] = FALSE]
    BY DEF FindSlot
  <1>4. /\ pc[t] = "find" /\ pc'[t] = "put" /\ slot'[t] = s
        /\ UNCHANGED <<tid, data, glbl_mmio_tid, op, port, id, val>>
        /\ fatal' = fatal /\ ~tx_flag[s] /\ ~rx_flag[s]
        /\ tx_flag'[s] /\ ~rx_flag'[s]
    BY <1>0, <1>3 DEF FindSlot, At, GoTo, TypeOK, io, FirstEmpty, IsEmpty
  <1>5. ASSUME NEW u \in Threads, u # t
        PROVE  pc'[u] = pc[u] /\ slot'[u] = slot[u]
    BY <1>0, <1>3, <1>5 DEF FindSlot, GoTo, TypeOK
  <1>6. ASSUME NEW r \in Slots, r # s
        PROVE  tx_flag'[r] = tx_flag[r] /\ rx_flag'[r] = rx_flag[r]
    BY <1>0, <1>3, <1>6 DEF TypeOK
  <1>7. \A p \in Flying : p.slot_idx # s
    BY <1>0, <1>4 DEF LineWaits
  <1>8. \A p \in Flying : p.slot_idx \in Slots
    BY <1>0, PacketFields
  <1>9. ASSUME NEW u \in Threads, u # t, OwnsSlot(u)
        PROVE  slot[u] # s
    <2>1. pc[u] \notin {"put", "unlock"}
      BY <1>0, <1>4, <1>9 DEF LockInv
    <2>2. QED
      BY <1>0, <1>4, <1>9, <2>1 DEF OwnsSlot, ReadLine, ReadLineOf, Reading
  <1>10. LineWaits' /\ FoundFirst'
    BY <1>0, <1>2, <1>4, <1>6, <1>7, <1>8 DEF LineWaits, FoundFirst, FirstFor
  <1>11. ASSUME NEW u \in Threads, u # t
         PROVE  ReadLineOf(u)' /\ RightAnswerOf(u)' /\ NewestOf(u)'
    <2>1. OwnsSlot(u) => slot[u] \in Slots /\ slot[u] # s
      BY <1>0, <1>9, <1>11 DEF TypeOK
    <2>2. glbl_mmio_tid' >= glbl_mmio_tid
      BY <1>0, <1>4, ReqsAssumption DEF TypeOK
    <2>3. ReadLineOf(u)' /\ (Reading(u)' <=> Reading(u))
      BY <1>0, <1>4, <1>5, <1>6, <1>11, <2>1, <2>2, Bystander DEF ReadLine
    <2>4. RightAnswerOf(u)'
      BY <1>0, <1>2, <1>4, <1>5, <1>11, <2>3 DEF RightAnswer, RightAnswerOf
    <2>5. pc[u] \notin {"find", "put"}
      BY <1>0, <1>4, <1>11 DEF LockInv
    <2>6. QED  BY <1>5, <1>11, <2>3, <2>4, <2>5 DEF NewestOf
  <1>a. OneRequest'
    BY <1>0, <1>2, <1>4, <1>5, OneRequestKept DEF Reading
  <1>12. ReadLineOf(t)' /\ RightAnswerOf(t)'
    BY <1>0, <1>4 DEF ReadLine, ReadLineOf, RightAnswerOf, Reading
  <1>13. NewestOf(t)'
    <2>1. id[t] = glbl_mmio_tid - 1 /\ glbl_mmio_tid \in Nat /\ id[t] \in Nat
      BY <1>0, <1>4, ReqsAssumption DEF Newest, NewestOf, TypeOK, Ids
    <2>2. ASSUME NEW r \in Slots, r < s
          PROVE  tid[r] # TidOf(id[t])
      <3>1. tx_flag[r] \/ rx_flag[r]
        BY <1>3, <2>2, SlotsAssumption DEF FirstEmpty, IsEmpty, Slots
      <3>2. SUFFICES \E n \in Nat : /\ n < id[t] /\ glbl_mmio_tid - n <= TidSpace
                                    /\ tid[r] = TidOf(n)
        <4>1. PICK n \in Nat : /\ n < id[t] /\ glbl_mmio_tid - n <= TidSpace
                              /\ tid[r] = TidOf(n)
          BY <3>2
        <4>2. id[t] - n < TidSpace
          BY <2>1, <4>1, TidAssumption
        <4>3. QED  BY <2>1, <4>1, <4>2, TidsDiffer
      <3>3. CASE \E p \in Flying : p.slot_idx = r
        <4>1. PICK p \in Flying : p.slot_idx = r
          BY <3>3
        <4>2. p.id \in Nat
          BY <1>0, PacketFields, ReqsAssumption DEF Ids
        <4>3. p.id < id[t] /\ tid[r] = TidOf(p.id)
          BY <1>0, <1>4, <4>1 DEF Newest, NewestOf, LineWaits
        <4>4. QED  BY <4>2, <4>3 DEF IdsRecent
      <3>4. CASE \E u \in Threads : slot[u] = r /\ ReadCall(u)
        <4>1. PICK u \in Threads : slot[u] = r /\ ReadCall(u)
          BY <3>4
        <4>2. u # t /\ id[u] \in Nat
          BY <1>0, <1>4, <4>1, ReqsAssumption DEF ReadCall, InCall, TypeOK, Ids
        <4>3. pc[u] \in {"wait", "clear_tx", "clear_rx"}
          BY <1>0, <1>4, <4>1, <4>2 DEF ReadCall, InCall, LockInv
        <4>4. id[u] < glbl_mmio_tid /\ tid[r] = TidOf(id[u])
          BY <1>0, <4>1, <4>3 DEF ReadLine, ReadLineOf, Reading
        <4>5. id[u] < id[t]
          BY <1>0, <1>4, <4>1 DEF Newest, NewestOf
        <4>6. QED  BY <4>1, <4>2, <4>4, <4>5 DEF IdsRecent, ReadCall
      <3>5. CASE tx_flag[r]
        <4> SUFFICES ASSUME NEW u \in Threads, slot[u] = r, HoldsLine(u)
                     PROVE  ReadCall(u)
          BY <3>3, <3>4, <3>5 DEF CreditInv, LineClaimed
        <4>1. pc[u] # "put"
          BY <1>0, <1>4 DEF LockInv
        <4>2. QED  BY <4>1 DEF HoldsLine, ReadCall, InCall
      <3>6. QED  BY <3>1, <3>4, <3>5 DEF CreditInv, RxClaimed
    <2>3. FirstFor(slot[t], TidOf(id[t]))'
      BY <1>4, <2>2 DEF FirstFor, TidOf
    <2>4. QED
      <3>1. \A x \in Threads : ReadCall(x)' => ReadCall(x)
        BY <1>4, <1>5 DEF ReadCall, InCall
      <3>2. QED
        BY <1>0, <1>2, <1>4, <1>7, <2>3, <3>1 DEF Newest, NewestOf
  <1>15. WatcherInv'
    BY <1>0, <1>1, <1>4, <1>6 DEF WatcherInv, Applying, watcher, TypeOK
  <1>16. SlotOwnedOnce'
    BY <1>0, <1>4, <1>5, <1>9 DEF SlotOwnedOnce, OwnsSlot
  <1>17. NeverLosesTrack'
    BY <1>0, <1>4 DEF NeverLosesTrack
  <1>18. QED
    BY <1>2, <1>10, <1>a, <1>11, <1>12, <1>13, <1>15, <1>16, <1>17
       DEF IInv, ReadLine, RightAnswer, Newest

\* The two steps that change neither a line nor a call.
LEMMA QuietStep ==
    ASSUME IInv, TInv', OpenAfu \/ \E t \in Threads : NoSlotLeft(t)
    PROVE  IInv'
  <1>1. UNCHANGED <<table, glbl_mmio_tid, pc, args, pipes, sim, watcher>>
    BY DEF OpenAfu, NoSlotLeft, io
  <1>2. /\ Posted' = Posted /\ Listed' = Listed /\ AtAfu' = AtAfu
        /\ Replied' = Replied /\ Applied' = Applied /\ Flying' = Flying
        /\ OnePlace' /\ SimKnows'
    BY <1>1, NothingMoves DEF IInv
  <1>3. LineWaits' /\ FoundFirst' /\ OneRequest'
    BY <1>1, <1>2 DEF IInv, LineWaits, FoundFirst, FirstFor, OneRequest, Reading,
                      table, args
  <1>4. Newest'
    BY <1>1, <1>2 DEF IInv, Newest, NewestOf, FirstFor, ReadCall, InCall, table,
                      args
  <1>5. ReadLine' /\ RightAnswer'
    BY <1>1, <1>2 DEF IInv, ReadLine, ReadLineOf, RightAnswer, RightAnswerOf,
                      Reading, table, args
  <1>6. WatcherInv' /\ SlotOwnedOnce'
    BY <1>1 DEF IInv, WatcherInv, Applying, SlotOwnedOnce, OwnsSlot, table, args,
                watcher
  <1>7. NeverLosesTrack'
    BY DEF IInv, NeverLosesTrack, OpenAfu, NoSlotLeft
  <1>8. QED  BY <1>2, <1>3, <1>4, <1>5, <1>6, <1>7 DEF IInv

\* Releasing the lock: a write leaves its line to the watcher.
LEMMA UnlockPortStep ==
    ASSUME IInv, TInv', NEW t \in Threads, UnlockPort(t)
    PROVE  IInv'
  <1>0. /\ TypeOK /\ LockInv /\ LineWaits /\ FoundFirst /\ OneRequest /\ Newest
        /\ ReadLine /\ RightAnswer /\ WatcherInv /\ SlotOwnedOnce
        /\ NeverLosesTrack /\ TypeOK' /\ LockInv'
    BY DEF IInv, TInv
  <1>1. UNCHANGED <<pipes, sim, watcher>>
    BY DEF UnlockPort
  <1>2. /\ Posted' = Posted /\ Listed' = Listed /\ AtAfu' = AtAfu
        /\ Replied' = Replied /\ Applied' = Applied /\ Flying' = Flying
        /\ OnePlace' /\ SimKnows'
    BY <1>1, NothingMoves DEF IInv
  <1>3. /\ pc[t] = "unlock" /\ pc'[t] = IF op[t] = "write" THEN "idle" ELSE "wait"
        /\ UNCHANGED <<tx_flag, rx_flag, tid, data, glbl_mmio_tid, op, port, id,
                       slot, val>>
        /\ fatal' = fatal
    BY <1>0 DEF UnlockPort, At, GoTo, TypeOK, table, args
  <1>4. ASSUME NEW u \in Threads, u # t
        PROVE  pc'[u] = pc[u]
    BY <1>0, <1>4 DEF UnlockPort, GoTo, TypeOK
  <1>5. LineWaits' /\ FoundFirst'
    BY <1>0, <1>2, <1>3 DEF LineWaits, FoundFirst, FirstFor
  <1>6. ASSUME NEW u \in Threads, u # t
        PROVE  ReadLineOf(u)' /\ RightAnswerOf(u)' /\ NewestOf(u)'
    <2>1. glbl_mmio_tid' >= glbl_mmio_tid
      BY <1>0, <1>3, ReqsAssumption DEF TypeOK
    <2>2. ReadLineOf(u)' /\ (Reading(u)' <=> Reading(u))
      BY <1>0, <1>3, <1>4, <1>6, <2>1, Bystander DEF ReadLine
    <2>3. RightAnswerOf(u)'
      BY <1>0, <1>2, <1>3, <2>2 DEF RightAnswer, RightAnswerOf
    <2>4. NewestOf(u)'
      BY <1>0, <1>2, <1>3, <1>4, <1>6 DEF Newest, NewestOf, FirstFor, ReadCall, InCall
    <2>5. QED  BY <2>2, <2>3, <2>4
  <1>7. ReadLineOf(t)' /\ (Reading(t)' => Reading(t))
    BY <1>0, <1>3 DEF ReadLine, ReadLineOf, Reading, TypeOK
  <1>8. RightAnswerOf(t)' /\ NewestOf(t)'
    BY <1>0, <1>2, <1>3, <1>7 DEF RightAnswer, RightAnswerOf, NewestOf
  <1>9. WatcherInv'
    BY <1>0, <1>1, <1>3 DEF WatcherInv, Applying, watcher
  <1>10. SlotOwnedOnce'
    BY <1>0, <1>3, <1>4 DEF SlotOwnedOnce, OwnsSlot
  <1>11. NeverLosesTrack'
    BY <1>0, <1>3 DEF NeverLosesTrack
  <1>12. OneRequest'
    BY <1>0, <1>2, <1>3, <1>4, <1>7, OneRequestKept DEF Reading
  <1>13. QED
    BY <1>2, <1>5, <1>6, <1>7, <1>8, <1>9, <1>10, <1>11, <1>12
       DEF IInv, ReadLine, RightAnswer, Newest

\* A read takes the data of its own line, which is its own answer.
LEMMA TakeResponseStep ==
    ASSUME IInv, TInv', NEW t \in Threads, TakeResponse(t)
    PROVE  IInv'
  <1>0. /\ TypeOK /\ LockInv /\ LineWaits /\ FoundFirst /\ OneRequest /\ Newest
        /\ ReadLine /\ RightAnswer /\ WatcherInv /\ SlotOwnedOnce
        /\ NeverLosesTrack /\ TypeOK' /\ LockInv'
    BY DEF IInv, TInv
  <1>1. UNCHANGED <<pipes, sim, watcher>>
    BY DEF TakeResponse
  <1>2. /\ Posted' = Posted /\ Listed' = Listed /\ AtAfu' = AtAfu
        /\ Replied' = Replied /\ Applied' = Applied /\ Flying' = Flying
        /\ OnePlace' /\ SimKnows'
    BY <1>1, NothingMoves DEF IInv
  <1>3. /\ pc[t] = "wait" /\ pc'[t] = "clear_tx" /\ val'[t] = data[slot[t]]
        /\ rx_flag[slot[t]]
        /\ UNCHANGED <<tx_flag, rx_flag, tid, data, glbl_mmio_tid, op, port, id,
                       slot>>
        /\ fatal' = fatal
    BY <1>0 DEF TakeResponse, At, GoTo, TypeOK, table, io
  <1>4. ASSUME NEW u \in Threads, u # t
        PROVE  pc'[u] = pc[u] /\ val'[u] = val[u]
    BY <1>0, <1>4 DEF TakeResponse, GoTo, TypeOK
  <1>5. LineWaits' /\ FoundFirst'
    BY <1>0, <1>2, <1>3 DEF LineWaits, FoundFirst, FirstFor
  <1>6. ASSUME NEW u \in Threads, u # t
        PROVE  ReadLineOf(u)' /\ RightAnswerOf(u)' /\ NewestOf(u)'
    <2>1. glbl_mmio_tid' >= glbl_mmio_tid
      BY <1>0, <1>3, ReqsAssumption DEF TypeOK
    <2>2. ReadLineOf(u)' /\ (Reading(u)' <=> Reading(u))
      BY <1>0, <1>3, <1>4, <1>6, <2>1, Bystander DEF ReadLine
    <2>3. RightAnswerOf(u)'
      BY <1>0, <1>2, <1>3, <2>2 DEF RightAnswer, RightAnswerOf
    <2>4. NewestOf(u)'
      BY <1>0, <1>2, <1>3, <1>4, <1>6 DEF Newest, NewestOf, FirstFor, ReadCall, InCall
    <2>5. QED  BY <2>2, <2>3, <2>4
  <1>7. ReadLineOf(t)' /\ RightAnswerOf(t)' /\ NewestOf(t)'
    BY <1>0, <1>3 DEF ReadLine, ReadLineOf, RightAnswerOf, NewestOf, Reading
  <1>8. WatcherInv'
    BY <1>0, <1>1, <1>3 DEF WatcherInv, Applying, watcher
  <1>9. SlotOwnedOnce'
    BY <1>0, <1>3, <1>4 DEF SlotOwnedOnce, OwnsSlot
  <1>10. NeverLosesTrack'
    BY <1>0, <1>3 DEF NeverLosesTrack
  <1>11. OneRequest'
    BY <1>0, <1>2, <1>3, <1>4, OneRequestKept DEF Reading
  <1>12. QED
    BY <1>2, <1>5, <1>6, <1>7, <1>8, <1>9, <1>10, <1>11
       DEF IInv, ReadLine, RightAnswer, Newest

\* A read that has its data gives its line back: no request is in flight on
\* the line and no other thread owns it.
LEMMA ClearTxStep ==
    ASSUME IInv, TInv', NEW t \in Threads, ClearTx(t)
    PROVE  IInv'
  <1>0. /\ TypeOK /\ LockInv /\ LineWaits /\ FoundFirst /\ OneRequest /\ Newest
        /\ ReadLine /\ RightAnswer /\ WatcherInv /\ SlotOwnedOnce
        /\ NeverLosesTrack /\ TypeOK' /\ LockInv'
    BY DEF IInv, TInv
  <1>1. UNCHANGED <<pipes, sim, watcher>>
    BY DEF ClearTx
  <1>2. /\ Posted' = Posted /\ Listed' = Listed /\ AtAfu' = AtAfu
        /\ Replied' = Replied /\ Applied' = Applied /\ Flying' = Flying
        /\ OnePlace' /\ SimKnows'
    BY <1>1, NothingMoves DEF IInv
  <1>3. /\ pc[t] = "clear_tx" /\ pc'[t] = "clear_rx" /\ slot[t] \in Slots
        /\ UNCHANGED <<rx_flag, tid, data, glbl_mmio_tid, op, port, id, slot, val>>
        /\ fatal' = fatal /\ ~tx_flag'[slot[t]]
        /\ \A s \in Slots \ {slot[t]} : tx_flag'[s] = tx_flag[s]
    BY <1>0 DEF ClearTx, At, GoTo, TypeOK, io, args
  <1>4. ASSUME NEW u \in Threads, u # t
        PROVE  pc'[u] = pc[u]
    BY <1>0, <1>4 DEF ClearTx, GoTo, TypeOK
  <1>5. ASSUME NEW u \in Threads, u # t, OwnsSlot(u)
        PROVE  slot[u] \in Slots \ {slot[t]}
    BY <1>0, <1>3, <1>5 DEF SlotOwnedOnce, OwnsSlot, TypeOK
  <1>6. \A p \in Flying : p.slot_idx \in Slots \ {slot[t]}
    BY <1>0, <1>3, PacketFields DEF LineWaits, ReadLine, ReadLineOf
  <1>7. LineWaits' /\ FoundFirst'
    BY <1>0, <1>2, <1>3, <1>6 DEF LineWaits, FoundFirst, FirstFor
  <1>9. ASSUME NEW u \in Threads, u # t
        PROVE  ReadLineOf(u)' /\ RightAnswerOf(u)' /\ NewestOf(u)'
    <2>1. glbl_mmio_tid' >= glbl_mmio_tid
      BY <1>0, <1>3, ReqsAssumption DEF TypeOK
    <2>2. ReadLineOf(u)' /\ (Reading(u)' <=> Reading(u))
      BY <1>0, <1>3, <1>4, <1>5, <1>9, <2>1, Bystander DEF ReadLine
    <2>3. RightAnswerOf(u)'
      BY <1>0, <1>2, <1>3, <2>2 DEF RightAnswer, RightAnswerOf
    <2>4. NewestOf(u)'
      <3>1. pc[u] = "put" => slot[u] \in Slots \ {slot[t]}
        BY <1>5, <1>9 DEF OwnsSlot
      <3>2. \A x \in Threads : ReadCall(x)' => ReadCall(x)
        BY <1>3, <1>4 DEF ReadCall, InCall
      <3>3. QED
        BY <1>0, <1>2, <1>3, <1>4, <1>9, <3>1, <3>2
           DEF Newest, NewestOf, FirstFor
    <2>5. QED  BY <2>2, <2>3, <2>4
  <1>10. ReadLineOf(t)' /\ RightAnswerOf(t)' /\ NewestOf(t)'
    BY <1>0, <1>3 DEF ReadLine, ReadLineOf, RightAnswerOf, NewestOf, Reading
  <1>11. WatcherInv'
    BY <1>0, <1>1, <1>3 DEF WatcherInv, Applying, watcher, TypeOK
  <1>12. SlotOwnedOnce'
    BY <1>0, <1>3, <1>4 DEF SlotOwnedOnce, OwnsSlot
  <1>13. NeverLosesTrack'
    BY <1>0, <1>3 DEF NeverLosesTrack
  <1>a. OneRequest'
    BY <1>0, <1>2, <1>3, <1>4, OneRequestKept DEF Reading
  <1>14. QED
    BY <1>2, <1>7, <1>a, <1>9, <1>10, <1>11, <1>12, <1>13
       DEF IInv, ReadLine, RightAnswer, Newest

\* The second flag, after which the line is free.
LEMMA ClearRxStep ==
    ASSUME IInv, TInv', NEW t \in Threads, ClearRx(t)
    PROVE  IInv'
  <1>0. /\ TypeOK /\ LockInv /\ LineWaits /\ FoundFirst /\ OneRequest /\ Newest
        /\ ReadLine /\ RightAnswer /\ WatcherInv /\ SlotOwnedOnce
        /\ NeverLosesTrack /\ TypeOK' /\ LockInv'
    BY DEF IInv, TInv
  <1>1. UNCHANGED <<pipes, sim, watcher>>
    BY DEF ClearRx
  <1>2. /\ Posted' = Posted /\ Listed' = Listed /\ AtAfu' = AtAfu
        /\ Replied' = Replied /\ Applied' = Applied /\ Flying' = Flying
        /\ OnePlace' /\ SimKnows'
    BY <1>1, NothingMoves DEF IInv
  <1>3. /\ pc[t] = "clear_rx" /\ pc'[t] = "idle" /\ slot[t] \in Slots
        /\ UNCHANGED <<tx_flag, tid, data, glbl_mmio_tid, op, port, id, slot, val>>
        /\ fatal' = fatal /\ ~rx_flag'[slot[t]]
        /\ \A s \in Slots \ {slot[t]} : rx_flag'[s] = rx_flag[s]
    BY <1>0 DEF ClearRx, At, GoTo, TypeOK, io, args
  <1>4. ASSUME NEW u \in Threads, u # t
        PROVE  pc'[u] = pc[u]
    BY <1>0, <1>4 DEF ClearRx, GoTo, TypeOK
  <1>5. ASSUME NEW u \in Threads, u # t, OwnsSlot(u)
        PROVE  slot[u] \in Slots \ {slot[t]}
    BY <1>0, <1>3, <1>5 DEF SlotOwnedOnce, OwnsSlot, TypeOK
  <1>6. \A p \in Flying : p.slot_idx \in Slots \ {slot[t]}
    BY <1>0, <1>3, PacketFields DEF LineWaits, ReadLine, ReadLineOf
  <1>7. LineWaits' /\ FoundFirst'
    BY <1>0, <1>2, <1>3, <1>6 DEF LineWaits, FoundFirst, FirstFor
  <1>9. ASSUME NEW u \in Threads, u # t
        PROVE  ReadLineOf(u)' /\ RightAnswerOf(u)' /\ NewestOf(u)'
    <2>1. glbl_mmio_tid' >= glbl_mmio_tid
      BY <1>0, <1>3, ReqsAssumption DEF TypeOK
    <2>2. ReadLineOf(u)' /\ (Reading(u)' <=> Reading(u))
      BY <1>0, <1>3, <1>4, <1>5, <1>9, <2>1, Bystander DEF ReadLine
    <2>3. RightAnswerOf(u)'
      BY <1>0, <1>2, <1>3, <2>2 DEF RightAnswer, RightAnswerOf
    <2>4. NewestOf(u)'
      <3>1. pc[u] = "put" => slot[u] \in Slots \ {slot[t]}
        BY <1>5, <1>9 DEF OwnsSlot
      <3>2. \A x \in Threads : ReadCall(x)' => ReadCall(x)
        BY <1>3, <1>4 DEF ReadCall, InCall
      <3>3. QED
        BY <1>0, <1>2, <1>3, <1>4, <1>9, <3>1, <3>2
           DEF Newest, NewestOf, FirstFor
    <2>5. QED  BY <2>2, <2>3, <2>4
  <1>10. ReadLineOf(t)' /\ RightAnswerOf(t)' /\ NewestOf(t)'
    BY <1>0, <1>3 DEF ReadLine, ReadLineOf, RightAnswerOf, NewestOf, Reading
  <1>11. WatcherInv'
    BY <1>0, <1>1, <1>3 DEF WatcherInv, Applying, watcher, TypeOK
  <1>12. SlotOwnedOnce'
    BY <1>0, <1>3, <1>4 DEF SlotOwnedOnce, OwnsSlot
  <1>13. NeverLosesTrack'
    BY <1>0, <1>3 DEF NeverLosesTrack
  <1>a. OneRequest'
    BY <1>0, <1>2, <1>3, <1>4, OneRequestKept DEF Reading
  <1>14. QED
    BY <1>2, <1>7, <1>a, <1>9, <1>10, <1>11, <1>12, <1>13
       DEF IInv, ReadLine, RightAnswer, Newest


\* Posting a request: its line waits for it, and it is in flight only once,
\* because it is new.  Its id differs from the ids of the requests in flight,
\* which are recent.
LEMMA PutRequestStep ==
    ASSUME IdsRecent, IInv, TInv', NEW t \in Threads, PutRequest(t)
    PROVE  IInv'
  <1> DEFINE k == [write_en |-> (op[t] = "write"), port |-> port[t],
                   tid |-> TidOf(id[t]), slot_idx |-> slot[t], id |-> id[t]]
  <1>0. /\ TypeOK /\ LockInv /\ LineWaits /\ FoundFirst /\ OneRequest /\ Newest
        /\ ReadLine /\ RightAnswer /\ WatcherInv /\ SlotOwnedOnce /\ OnePlace
        /\ SimKnows /\ NeverLosesTrack /\ TypeOK' /\ LockInv'
    BY DEF IInv, TInv
  <1>1. id[t] \in Ids /\ slot[t] \in Slots
    BY <1>0 DEF TypeOK
  <1>2. k \in Packets
    BY <1>0, <1>1, TidOfType DEF TypeOK, Packets
  <1>3. /\ k.id = id[t] /\ k.tid = TidOf(id[t]) /\ k.slot_idx = slot[t]
        /\ k.port = port[t] /\ (k.write_en <=> op[t] = "write")
    BY <1>1
  <1>4. /\ pc[t] = "put" /\ pc'[t] = "unlock" /\ mmioreq' = Append(mmioreq, k)
        /\ tid'[slot[t]] = TidOf(id[t])
        /\ \A s \in Slots \ {slot[t]} : tid'[s] = tid[s] /\ data'[s] = data[s]
        /\ UNCHANGED <<tx_flag, rx_flag, glbl_mmio_tid, op, port, id, slot, val,
                       mmiorsp, mmio_req_list, busy, rs_tid, afu_reads, wpc,
                       wpkt, wslot, fatal>>
    BY <1>0, <1>1 DEF PutRequest, At, GoTo, TypeOK, io, args, sim, watcher
  <1>5. ASSUME NEW u \in Threads, u # t
        PROVE  pc'[u] = pc[u]
    BY <1>0, <1>5 DEF PutRequest, GoTo, TypeOK
  <1> HIDE DEF k
  <1>6. /\ Posted' = Posted \cup {k} /\ Listed' = Listed /\ AtAfu' = AtAfu
        /\ Replied' = Replied /\ Applied' = Applied
        /\ Flying' = Flying \cup {k}
    <2>1. Elems(mmioreq') = Elems(mmioreq) \cup {k}
      BY <1>0, <1>2, <1>4, ElemsAppend DEF TypeOK
    <2>2. QED
      BY <1>4, <2>1 DEF Posted, Listed, AtAfu, Replied, Applied, Applying, Flying, Elems
  <1>7. /\ id[t] = glbl_mmio_tid - 1 /\ glbl_mmio_tid \in Nat /\ id[t] \in Nat
        /\ \A p \in Flying : p.id < id[t] /\ p.slot_idx # slot[t]
        /\ tx_flag[slot[t]] /\ ~rx_flag[slot[t]]
        /\ FirstFor(slot[t], TidOf(id[t]))
    BY <1>0, <1>1, <1>4, ReqsAssumption DEF Newest, NewestOf, TypeOK, Ids
  <1>8. /\ \A p \in Flying : p.id \in Nat /\ p.slot_idx \in Slots
        /\ \A s \in Slots : tid[s] \in Nat
    <2>1. \A p \in Flying : p.id \in Ids /\ p.slot_idx \in Slots
      BY <1>0, PacketFields
    <2>2. Ids \subseteq Nat /\ Tids \subseteq Nat
      BY ReqsAssumption, TidAssumption DEF Ids, Tids
    <2>3. QED  BY <1>0, <2>1, <2>2 DEF TypeOK
  <1>9. OnePlace'
    <2>1. \A p \in Flying : p.id # k.id
      BY <1>3, <1>7, <1>8
    <2>2. Distinct(mmioreq')
      <3>1. \A p \in Elems(mmioreq) : p.id # k.id
        BY <2>1 DEF Flying, Posted
      <3>2. QED
        BY <1>0, <1>2, <1>4, <3>1, DistinctAppend DEF TypeOK, OnePlace
    <2>3. /\ Apart({k}, Listed) /\ Apart({k}, AtAfu) /\ Apart({k}, Replied)
          /\ Apart({k}, Applied)
      BY <2>1 DEF Apart, Flying
    <2>4. QED
      BY <1>0, <1>4, <1>6, <2>2, <2>3 DEF OnePlace, Apart
  <1>10. LineWaits'
    BY <1>0, <1>1, <1>3, <1>4, <1>6, <1>7, <1>8 DEF LineWaits
  <1>a. ASSUME NEW p \in Flying
        PROVE  p.tid # TidOf(id[t])
    <2>1. glbl_mmio_tid - p.id <= TidSpace
      BY DEF IdsRecent
    <2>2. id[t] - p.id < TidSpace
      BY <1>7, <1>8, <2>1, TidAssumption
    <2>3. p.tid = TidOf(p.id)
      BY <1>0 DEF LineWaits
    <2>4. QED  BY <1>7, <1>8, <2>2, <2>3, TidsDiffer
  <1>11. FoundFirst' /\ OneRequest'
    <2>1. \A p \in Flying : FirstFor(p.slot_idx, p.tid)'
      BY <1>0, <1>1, <1>4, <1>a DEF FoundFirst, FirstFor
    <2>2. \A r \in Slots : r < k.slot_idx => tid'[r] # k.tid
      BY <1>1, <1>3, <1>4, <1>7, SlotsAssumption DEF FirstFor, Slots
    <2>3. \A u \in Threads : u # t /\ Reading(u)' => Reading(u) /\ slot[u] # slot[t]
      BY <1>0, <1>4, <1>5 DEF Reading, SlotOwnedOnce, OwnsSlot
    <2>4. OneRequest'
      BY <1>0, <1>3, <1>4, <1>6, <1>7, <2>3 DEF OneRequest
    <2>5. QED  BY <1>6, <2>1, <2>2, <2>4 DEF FoundFirst, FirstFor
  <1>12. ASSUME NEW u \in Threads, u # t
         PROVE  ReadLineOf(u)' /\ RightAnswerOf(u)' /\ NewestOf(u)'
    <2>1. OwnsSlot(u) => slot[u] \in Slots \ {slot[t]}
      BY <1>0, <1>4, <1>12 DEF SlotOwnedOnce, OwnsSlot, TypeOK
    <2>2. glbl_mmio_tid' >= glbl_mmio_tid
      BY <1>4, <1>7
    <2>3. ReadLineOf(u)' /\ (Reading(u)' <=> Reading(u))
      BY <1>0, <1>4, <1>5, <1>12, <2>1, <2>2, Bystander DEF ReadLine
    <2>4. Reading(u) => k.slot_idx # slot[u]
      BY <1>3, <2>1 DEF Reading, OwnsSlot
    <2>5. RightAnswerOf(u)'
      BY <1>0, <1>4, <1>6, <2>3, <2>4 DEF RightAnswer, RightAnswerOf
    <2>6. pc[u] \notin {"find", "put"}
      BY <1>0, <1>4, <1>12 DEF LockInv
    <2>7. QED  BY <1>5, <1>12, <2>3, <2>5, <2>6 DEF NewestOf
  <1>13. ReadLineOf(t)'
    BY <1>0, <1>4, <1>7 DEF ReadLine, ReadLineOf, Reading
  <1>14. RightAnswerOf(t)' /\ NewestOf(t)'
    <2>1. \A p \in Flying' : p.slot_idx = slot[t] => p = k
      BY <1>6, <1>7
    <2>2. Reading(t)' => op[t] = "read"
      BY <1>4 DEF Reading
    <2>3. Apart(Posted', Replied') /\ Apart(Posted', Applied') /\ k \in Posted'
      BY <1>6, <1>9 DEF OnePlace
    <2>4. RightAnswerOf(t)'
      BY <1>3, <1>4, <2>1, <2>2, <2>3 DEF RightAnswerOf, Flying, Apart
    <2>5. QED  BY <1>4, <2>4 DEF NewestOf
  <1>15. SimKnows'
    BY <1>0, <1>3, <1>4, <1>6 DEF SimKnows, ReadLine, ReadLineOf
  <1>16. WatcherInv'
    <2>1. Applying => wpkt \in Flying /\ wslot = wpkt.slot_idx
      BY <1>0 DEF Flying, Applied, WatcherInv
    <2>2. Applying => wslot \in Slots \ {slot[t]}
      BY <1>7, <1>8, <2>1
    <2>3. QED  BY <1>0, <1>4, <2>2 DEF WatcherInv, Applying
  <1>17. SlotOwnedOnce' /\ NeverLosesTrack'
    BY <1>0, <1>4, <1>5 DEF SlotOwnedOnce, OwnsSlot, NeverLosesTrack
  <1>18. QED
    BY <1>9, <1>10, <1>11, <1>12, <1>13, <1>14, <1>15, <1>16, <1>17
       DEF IInv, ReadLine, RightAnswer, Newest

-----------------------------------------------------------------------------
(* Steps that move a request from one place to the next. *)

\* A step that moves requests, but leaves the table and the calls alone, keeps
\* what is said of the table and of the calls.
LEMMA MoveKeeps ==
    ASSUME IInv, UNCHANGED <<table, io, pc, args>>,
           \A q \in Flying' : \E p \in Flying :
               q.id = p.id /\ q.tid = p.tid /\ q.slot_idx = p.slot_idx
    PROVE  /\ LineWaits' /\ FoundFirst' /\ OneRequest' /\ Newest' /\ ReadLine'
           /\ SlotOwnedOnce'
  <1>1. LineWaits'
    BY DEF IInv, LineWaits, table, io
  <1>2. FoundFirst' /\ OneRequest'
    <2>1. UNCHANGED <<tid, pc, op, id, slot>> /\ FoundFirst /\ OneRequest
      BY DEF IInv, table, args
    <2>2. FoundFirst'
      BY <2>1 DEF FoundFirst, FirstFor
    <2>3. \A t \in Threads : Reading(t)' <=> Reading(t)
      BY <2>1 DEF Reading
    <2>4. OneRequest'
      BY <2>1, <2>3 DEF OneRequest
    <2>5. QED  BY <2>2, <2>4
  <1>3. ASSUME NEW t \in Threads
        PROVE  NewestOf(t)'
    <2>1. /\ NewestOf(t)
          /\ UNCHANGED <<pc, op, id, slot, glbl_mmio_tid, tx_flag, rx_flag, tid>>
      BY DEF IInv, Newest, table, io, args
    <2>2. pc[t] \in {"find", "put"} => \A q \in Flying' : q.id < id[t]
      BY <2>1 DEF NewestOf
    <2>3. pc[t] = "put" => \A q \in Flying' : q.slot_idx # slot[t]
      BY <2>1 DEF NewestOf
    <2>4. QED  BY <2>1, <2>2, <2>3 DEF NewestOf, FirstFor, ReadCall, InCall
  <1>4. ReadLine' /\ SlotOwnedOnce'
    BY DEF IInv, ReadLine, ReadLineOf, Reading, SlotOwnedOnce, OwnsSlot, table,
           io, args
  <1>5. QED  BY <1>1, <1>2, <1>3, <1>4 DEF Newest

\* Two requests in flight on the same line are the same request, and the read
\* that waits on a line waits for the request in flight on it.
LEMMA SameLine ==
    ASSUME OneRequest
    PROVE  /\ \A p, q \in Flying : p.slot_idx = q.slot_idx => p.id = q.id
           /\ \A t \in Threads, p \in Flying :
                Reading(t) /\ p.slot_idx = slot[t] => p.id = id[t]
  BY DEF OneRequest

\* ase_listener: a request leaves the pipe for the list, or, a read of an absent
\* port, for the response pipe.  The slot of a read is not busy.
LEMMA NewRequestStep ==
    ASSUME IInv, TInv', NewRequest
    PROVE  IInv'
  <1> DEFINE p == Head(mmioreq)
             r == Response(p, p.tid)
  <1>0. /\ TypeOK /\ LineWaits /\ OneRequest /\ ReadLine /\ RightAnswer /\ WatcherInv
        /\ OnePlace /\ SimKnows /\ NeverLosesTrack
    BY DEF IInv, TInv
  <1>1. /\ p \in Posted /\ Posted' \subseteq Posted
        /\ \A e \in Posted' : e.id # p.id
        /\ Distinct(mmioreq')
    <2>1. mmioreq \in Seq(Packets) /\ mmioreq # << >> /\ Distinct(mmioreq)
          /\ mmioreq' = Tail(mmioreq)
      BY <1>0 DEF TypeOK, NewRequest, OnePlace
    <2>2. /\ p \in Elems(mmioreq) /\ Elems(Tail(mmioreq)) \subseteq Elems(mmioreq)
          /\ \A e \in Elems(Tail(mmioreq)) : e.id # p.id
          /\ Distinct(Tail(mmioreq))
      BY <2>1, ElemsTail, ZenonT(60)
    <2>3. Elems(mmioreq)' = Elems(Tail(mmioreq))
      BY <2>1 DEF Elems
    <2>4. Distinct(mmioreq') = Distinct(Tail(mmioreq))
      BY <2>1
    <2>5. QED  BY <2>2, <2>3, <2>4, ZenonT(60) DEF Posted
  <1>2. p \in Flying /\ p \in Packets /\ p.slot_idx \in Slots
        /\ p.write_en \in BOOLEAN /\ p.tid \in Tids
    BY <1>0, <1>1, PacketFields DEF Flying, Packets
  <1>3. /\ r \in Responses /\ r.id = p.id /\ r.tid = p.tid
        /\ r.slot_idx = p.slot_idx /\ r.write_en = p.write_en
        /\ ~p.write_en => r.data = Answer(p.port, p.id)
    <2>1. r \in Responses
      BY <1>2, ResponseType
    <2>2. QED  BY <2>1 DEF Response
  <1>4. UNCHANGED <<table, io, pc, args, wpc, wpkt, wslot, afu_reads>>
    BY DEF NewRequest, watcher, sim
  <1>5. AtAfu' = AtAfu /\ Applied' = Applied
    BY <1>4 DEF AtAfu, Applied, Applying
  <1>6. mmiorsp \in Seq(Responses) /\ mmio_req_list \in Seq(Packets)
    BY <1>0 DEF TypeOK
  <1>7. \A q \in Flying : q.slot_idx = p.slot_idx => q.id = p.id
    BY <1>0, <1>2, SameLine
  <1>8. CASE p.port = "absent"
    <2>1. /\ ~p.write_en /\ mmiorsp' = Append(mmiorsp, r)
          /\ UNCHANGED <<mmio_req_list, busy, rs_tid, fatal>>
      BY <1>0, <1>1, <1>8 DEF NewRequest, SimKnows, sim
    <2> HIDE DEF p, r
    <2>2. Replied' = Replied \cup {r} /\ Listed' = Listed
      BY <1>3, <1>6, <2>1, ElemsAppend DEF Replied, Listed, Elems
    <2>3. \A q \in Flying' : \E e \in Flying :
              q.id = e.id /\ q.tid = e.tid /\ q.slot_idx = e.slot_idx
      BY <1>1, <1>2, <1>3, <1>5, <2>2 DEF Flying
    <2>4. OnePlace'
      <3>1. \A q \in Listed \cup AtAfu \cup Replied \cup Applied : q.id # r.id
        BY <1>0, <1>1, <1>3 DEF OnePlace, Apart
      <3>2. Distinct(mmiorsp')
        BY <1>0, <1>3, <1>6, <2>1, <3>1, DistinctAppend DEF OnePlace, Replied
      <3>3. /\ Distinct(mmio_req_list')
            /\ Apart(Posted', {r})
        BY <1>0, <1>1, <1>3, <2>1 DEF OnePlace, Apart, Distinct
      <3>4. QED
        BY <1>0, <1>1, <1>5, <2>2, <3>1, <3>2, <3>3 DEF OnePlace, Apart
    <2>5. RightAnswer'
      <3> SUFFICES ASSUME NEW t \in Threads, Reading(t)
                   PROVE  RightAnswerOf(t)'
        BY <1>4 DEF RightAnswer, RightAnswerOf, Reading, args
      <3>1. p.slot_idx = slot[t] => p.port = port[t] /\ p.id = id[t]
        BY <1>0, <1>1, <1>2, SameLine DEF RightAnswer, RightAnswerOf
      <3>2. UNCHANGED <<slot, port, id>>
        BY <1>4 DEF args
      <3>3. QED
        BY <1>0, <1>1, <1>3, <1>5, <2>1, <2>2, <3>1, <3>2
           DEF RightAnswer, RightAnswerOf
    <2>6. SimKnows' /\ WatcherInv' /\ NeverLosesTrack'
      BY <1>0, <1>1, <1>4, <1>5, <2>1, <2>2
         DEF SimKnows, WatcherInv, Applying, NeverLosesTrack, table
    <2>7. QED  BY <1>4, <2>3, <2>4, <2>5, <2>6, MoveKeeps DEF IInv
  <1>9. CASE p.port = "present"
    <2>1. /\ mmio_req_list' = Append(mmio_req_list, p) /\ UNCHANGED mmiorsp
          /\ busy' = [busy EXCEPT ![p.slot_idx] = @ \/ ~p.write_en]
          /\ rs_tid' = IF p.write_en THEN rs_tid
                       ELSE [rs_tid EXCEPT ![p.slot_idx] = p.tid]
          /\ fatal' = IF ~p.write_en /\ busy[p.slot_idx] THEN "slot_busy"
                      ELSE fatal
      BY <1>9 DEF NewRequest
    <2> HIDE DEF p, r
    <2>2. Listed' = Listed \cup {p} /\ Replied' = Replied
      <3>1. Elems(Append(mmio_req_list, p)) = Elems(mmio_req_list) \cup {p}
        BY <1>2, <1>6, ElemsAppend
      <3>2. Elems(mmio_req_list)' = Elems(Append(mmio_req_list, p))
        BY <2>1 DEF Elems
      <3>3. Elems(mmiorsp)' = Elems(mmiorsp)
        BY <2>1 DEF Elems
      <3>4. QED  BY <3>1, <3>2, <3>3 DEF Replied, Listed
    <2>3. \A q \in Flying' : \E e \in Flying :
              q.id = e.id /\ q.tid = e.tid /\ q.slot_idx = e.slot_idx
      BY <1>1, <1>2, <1>5, <2>2 DEF Flying
    <2>4. \A q \in Listed \cup AtAfu \cup Replied \cup Applied : q.id # p.id
      BY <1>0, <1>1 DEF OnePlace, Apart
    <2>5. OnePlace'
      <3>1. Distinct(mmio_req_list')
        BY <1>0, <1>2, <1>6, <2>1, <2>4, DistinctAppend DEF OnePlace, Listed
      <3>2. Distinct(mmiorsp') /\ Apart(Posted', {p})
        BY <1>0, <1>1, <2>1 DEF OnePlace, Apart, Distinct
      <3>3. QED
        BY <1>0, <1>1, <1>5, <2>2, <2>4, <3>1, <3>2 DEF OnePlace, Apart
    <2>6. RightAnswer'
      BY <1>0, <1>1, <1>4, <1>5, <2>2
         DEF RightAnswer, RightAnswerOf, Reading, args
    <2>7. \A q \in Listed \cup AtAfu : q.slot_idx # p.slot_idx
      BY <1>7, <2>4 DEF Flying
    <2>8. ~busy[p.slot_idx]
      BY <1>0, <1>2, <2>7 DEF SimKnows
    <2>9. SimKnows'
      <3>1. \A s \in Slots : s # p.slot_idx =>
                (busy'[s] <=> busy[s]) /\ rs_tid'[s] = rs_tid[s]
        BY <1>0, <1>2, <2>1 DEF TypeOK
      <3>2. /\ busy'[p.slot_idx] <=> ~p.write_en
            /\ ~p.write_en => rs_tid'[p.slot_idx] = p.tid
        BY <1>0, <1>2, <2>1, <2>8 DEF TypeOK
      <3>3. \A q \in Listed \cup AtAfu : q.slot_idx \in Slots
        BY <1>0, PacketFields DEF Flying
      <3>4. \A q \in Listed' \cup AtAfu' : ~q.write_en =>
                busy'[q.slot_idx] /\ rs_tid'[q.slot_idx] = q.tid
        BY <1>0, <1>5, <2>2, <2>7, <3>1, <3>2, <3>3 DEF SimKnows
      <3>5. \A s \in Slots : busy'[s] =>
                \E q \in Listed' \cup AtAfu' : ~q.write_en /\ q.slot_idx = s
        BY <1>0, <1>5, <2>2, <3>1, <3>2 DEF SimKnows
      <3>6. QED  BY <1>0, <1>1, <1>5, <3>4, <3>5 DEF SimKnows
    <2>10. WatcherInv' /\ NeverLosesTrack'
      BY <1>0, <1>4, <2>1, <2>8 DEF WatcherInv, Applying, NeverLosesTrack, table
    <2>11. QED
      BY <1>4, <2>3, <2>5, <2>6, <2>9, <2>10, MoveKeeps DEF IInv
  <1>10. QED  BY <1>2, <1>8, <1>9 DEF Packets, Ports

\* pcie_tlp_h2a_mem: the oldest request of the list goes to the AFU, or, a
\* write, to the response pipe.
LEMMA SendToAfuStep ==
    ASSUME IInv, TInv', SendToAfu
    PROVE  IInv'
  <1> DEFINE p == Head(mmio_req_list)
             r == Response(p, p.tid)
  <1>0. /\ TypeOK /\ LineWaits /\ OneRequest /\ ReadLine /\ RightAnswer /\ WatcherInv
        /\ OnePlace /\ SimKnows /\ NeverLosesTrack
    BY DEF IInv, TInv
  <1>1. /\ p \in Listed /\ Listed' \subseteq Listed
        /\ \A e \in Listed' : e.id # p.id
        /\ \A e \in Listed : e # p => e \in Listed'
        /\ Distinct(mmio_req_list')
    <2>1. /\ mmio_req_list \in Seq(Packets) /\ mmio_req_list # << >>
          /\ Distinct(mmio_req_list) /\ mmio_req_list' = Tail(mmio_req_list)
      BY <1>0 DEF TypeOK, SendToAfu, OnePlace
    <2>2. Listed' = Elems(Tail(mmio_req_list))
      BY <2>1 DEF Listed, Elems
    <2>3. QED  BY <2>1, <2>2, ElemsTail DEF Listed
  <1>2. p \in Flying /\ p \in Packets /\ p.slot_idx \in Slots
        /\ p.write_en \in BOOLEAN /\ p.tid \in Tids
    BY <1>0, <1>1, PacketFields DEF Flying, Packets
  <1>3. /\ r \in Responses /\ r.id = p.id /\ r.tid = p.tid
        /\ r.slot_idx = p.slot_idx /\ r.write_en = p.write_en
    <2>1. r \in Responses
      BY <1>2, ResponseType
    <2>2. QED  BY <2>1 DEF Response
  <1>4. UNCHANGED <<table, io, pc, args, wpc, wpkt, wslot, mmioreq, busy, rs_tid,
                    fatal>>
    BY DEF SendToAfu, watcher
  <1>5. Posted' = Posted /\ Applied' = Applied
    BY <1>4 DEF Posted, Applied, Applying, Elems
  <1>6. mmiorsp \in Seq(Responses)
    BY <1>0 DEF TypeOK
  <1>7. \A q \in Posted \cup AtAfu \cup Replied \cup Applied : q.id # p.id
    BY <1>0, <1>1 DEF OnePlace, Apart
  <1>8. CASE p.write_en
    <2>1. mmiorsp' = Append(mmiorsp, r) /\ UNCHANGED afu_reads
      BY <1>8 DEF SendToAfu
    <2> HIDE DEF p, r
    <2>2. Replied' = Replied \cup {r} /\ AtAfu' = AtAfu
      BY <1>3, <1>6, <2>1, ElemsAppend DEF Replied, AtAfu, Elems
    <2>3. \A q \in Flying' : \E e \in Flying :
              q.id = e.id /\ q.tid = e.tid /\ q.slot_idx = e.slot_idx
      BY <1>1, <1>2, <1>3, <1>5, <2>2 DEF Flying
    <2>4. OnePlace'
      <3>1. Distinct(mmiorsp')
        BY <1>0, <1>3, <1>6, <1>7, <2>1, DistinctAppend DEF OnePlace, Replied
      <3>2. Distinct(mmioreq') /\ Apart(Listed', {r})
        BY <1>0, <1>1, <1>3, <1>4 DEF OnePlace, Apart, Distinct
      <3>3. QED
        BY <1>0, <1>1, <1>3, <1>5, <1>7, <2>2, <3>1, <3>2 DEF OnePlace, Apart
    <2>5. RightAnswer'
      BY <1>0, <1>1, <1>3, <1>4, <1>5, <1>8, <2>2
         DEF RightAnswer, RightAnswerOf, Reading, args
    <2>6. SimKnows'
      BY <1>0, <1>1, <1>4, <1>5, <1>8, <2>2 DEF SimKnows
    <2>7. WatcherInv' /\ NeverLosesTrack'
      BY <1>0, <1>4 DEF WatcherInv, Applying, NeverLosesTrack, table
    <2>8. QED
      BY <1>4, <2>3, <2>4, <2>5, <2>6, <2>7, MoveKeeps DEF IInv
  <1>9. CASE ~p.write_en
    <2>1. afu_reads' = afu_reads \cup {p} /\ UNCHANGED mmiorsp
      BY <1>9 DEF SendToAfu
    <2> HIDE DEF p, r
    <2>2. AtAfu' = AtAfu \cup {p} /\ Replied' = Replied
      BY <2>1 DEF Replied, AtAfu, Elems
    <2>3. \A q \in Flying' : \E e \in Flying :
              q.id = e.id /\ q.tid = e.tid /\ q.slot_idx = e.slot_idx
      BY <1>1, <1>2, <1>5, <2>2 DEF Flying
    <2>4. OnePlace'
      <3>1. Distinct(mmioreq') /\ Distinct(mmiorsp') /\ Apart(Listed', {p})
        BY <1>0, <1>1, <1>4, <2>1 DEF OnePlace, Apart, Distinct
      <3>2. QED
        BY <1>0, <1>1, <1>5, <1>7, <2>2, <3>1 DEF OnePlace, Apart
    <2>5. RightAnswer'
      BY <1>0, <1>1, <1>4, <1>5, <2>2
         DEF RightAnswer, RightAnswerOf, Reading, args
    <2>6. SimKnows'
      BY <1>0, <1>1, <1>4, <1>5, <1>9, <2>2 DEF SimKnows
    <2>7. WatcherInv' /\ NeverLosesTrack'
      BY <1>0, <1>4 DEF WatcherInv, Applying, NeverLosesTrack, table
    <2>8. QED
      BY <1>4, <2>3, <2>4, <2>5, <2>6, <2>7, MoveKeeps DEF IInv
  <1>10. QED  BY <1>2, <1>8, <1>9

\* pcie_tlp_a2h_cpld: the tag of a completion is busy and gives back the id of
\* its own read.
LEMMA CompleteReadStep ==
    ASSUME IInv, TInv', NEW p \in afu_reads, CompleteRead(p)
    PROVE  IInv'
  <1> DEFINE r == Response(p, rs_tid[p.slot_idx])
  <1>0. /\ TypeOK /\ LineWaits /\ OneRequest /\ ReadLine /\ RightAnswer /\ WatcherInv
        /\ OnePlace /\ SimKnows /\ NeverLosesTrack
    BY DEF IInv, TInv
  <1>1. p \in AtAfu /\ p \in Flying /\ p \in Packets /\ p.slot_idx \in Slots
        /\ p.tid \in Tids
    BY <1>0, PacketFields DEF Flying, AtAfu, Packets
  <1>2. ~p.write_en /\ busy[p.slot_idx] /\ rs_tid[p.slot_idx] = p.tid
    BY <1>0, <1>1 DEF SimKnows
  <1>3. /\ r \in Responses /\ r.id = p.id /\ r.tid = p.tid
        /\ r.slot_idx = p.slot_idx /\ ~r.write_en
        /\ r.data = Answer(p.port, p.id)
    <2>1. r \in Responses
      BY <1>1, <1>2, ResponseType
    <2>2. QED  BY <1>2, <2>1 DEF Response
  <1>4. /\ UNCHANGED <<table, io, pc, args, wpc, wpkt, wslot, mmioreq,
                       mmio_req_list, rs_tid, fatal>>
        /\ busy' = [busy EXCEPT ![p.slot_idx] = FALSE]
        /\ afu_reads' = afu_reads \ {p} /\ mmiorsp' = Append(mmiorsp, r)
    BY <1>2 DEF CompleteRead, watcher
  <1> HIDE DEF r
  <1>5. /\ Posted' = Posted /\ Applied' = Applied /\ Listed' = Listed
        /\ AtAfu' = AtAfu \ {p} /\ Replied' = Replied \cup {r}
    <2>1. mmiorsp \in Seq(Responses)
      BY <1>0 DEF TypeOK
    <2>2. Elems(mmiorsp') = Elems(mmiorsp) \cup {r}
      BY <1>3, <1>4, <2>1, ElemsAppend
    <2>3. QED
      BY <1>4, <2>2 DEF Posted, Applied, Applying, Listed, AtAfu, Replied, Elems
  <1>6. \A q \in Posted \cup Listed \cup AtAfu' \cup Replied \cup Applied :
            q.id # p.id
    BY <1>0, <1>1, <1>5 DEF OnePlace, Apart
  <1>7. \A q \in Flying' : \E e \in Flying :
            q.id = e.id /\ q.tid = e.tid /\ q.slot_idx = e.slot_idx
    BY <1>1, <1>3, <1>5 DEF Flying
  <1>8. OnePlace'
    <2>1. mmiorsp \in Seq(Responses)
      BY <1>0 DEF TypeOK
    <2>2. Distinct(mmiorsp')
      BY <1>0, <1>3, <1>4, <1>6, <2>1, DistinctAppend DEF OnePlace, Replied
    <2>3. Distinct(mmioreq') /\ Distinct(mmio_req_list')
      BY <1>0, <1>4 DEF OnePlace, Distinct
    <2>4. QED
      BY <1>0, <1>3, <1>5, <1>6, <2>2, <2>3 DEF OnePlace, Apart
  <1>9. RightAnswer'
    <2> SUFFICES ASSUME NEW t \in Threads, Reading(t)
                 PROVE  RightAnswerOf(t)'
      BY <1>4 DEF RightAnswer, RightAnswerOf, Reading, args
    <2>1. p.slot_idx = slot[t] => p.port = port[t] /\ p.id = id[t]
      BY <1>0, <1>1, SameLine DEF RightAnswer, RightAnswerOf
    <2>2. UNCHANGED <<slot, port, id>>
      BY <1>4 DEF args
    <2>3. QED
      BY <1>0, <1>3, <1>5, <2>1, <2>2 DEF RightAnswer, RightAnswerOf
  <1>10. SimKnows'
    <2>1. \A q \in Listed \cup AtAfu' : q.slot_idx \in Slots \ {p.slot_idx}
      BY <1>0, <1>1, <1>5, <1>6, SameLine, PacketFields DEF Flying
    <2>2. /\ \A s \in Slots \ {p.slot_idx} : busy'[s] = busy[s]
          /\ ~busy'[p.slot_idx] /\ rs_tid' = rs_tid
      BY <1>0, <1>1, <1>4 DEF TypeOK
    <2>3. \A q \in Listed' \cup AtAfu' : ~q.write_en =>
              busy'[q.slot_idx] /\ rs_tid'[q.slot_idx] = q.tid
      BY <1>0, <1>5, <2>1, <2>2 DEF SimKnows
    <2>4. \A s \in Slots : busy'[s] =>
              \E q \in Listed' \cup AtAfu' : ~q.write_en /\ q.slot_idx = s
      BY <1>0, <1>5, <2>2 DEF SimKnows
    <2>5. QED  BY <1>0, <1>5, <2>3, <2>4 DEF SimKnows
  <1>11. WatcherInv' /\ NeverLosesTrack'
    BY <1>0, <1>4 DEF WatcherInv, Applying, NeverLosesTrack, table
  <1>12. QED
    BY <1>4, <1>7, <1>8, <1>9, <1>10, <1>11, MoveKeeps DEF IInv

-----------------------------------------------------------------------------
(* The watcher. *)

\* The watcher finds a line by transaction id, and it is the line of the
\* request: no line before it carries that id.
LEMMA WatcherRecvStep ==
    ASSUME IInv, TInv', WatcherRecv
    PROVE  IInv'
  <1> DEFINE h == Head(mmiorsp)
  <1>0. /\ TypeOK /\ LineWaits /\ FoundFirst /\ ReadLine /\ RightAnswer
        /\ WatcherInv /\ OnePlace /\ SimKnows /\ NeverLosesTrack
    BY DEF IInv, TInv
  <1>1. /\ h \in Replied /\ Replied' \subseteq Replied
        /\ \A e \in Replied' : e.id # h.id
        /\ Distinct(mmiorsp')
    <2>1. /\ mmiorsp \in Seq(Responses) /\ mmiorsp # << >>
          /\ Distinct(mmiorsp) /\ mmiorsp' = Tail(mmiorsp)
      BY <1>0 DEF TypeOK, WatcherRecv, OnePlace
    <2>2. QED  BY <2>1, ElemsTail DEF Replied, Elems
  <1>2. h \in Flying /\ h.slot_idx \in Slots
    BY <1>0, <1>1, PacketFields DEF Flying
  <1>3. HasTid(h.slot_idx, h.tid)
    BY <1>0, <1>2 DEF LineWaits, HasTid
  <1>4. ASSUME NEW s \in Slots, FirstWithTid(s, h.tid)
        PROVE  s = h.slot_idx
    <2>1. tid[s] = tid[h.slot_idx] /\ s <= h.slot_idx
      BY <1>2, <1>3, <1>4 DEF FirstWithTid, HasTid
    <2>2. tid[h.slot_idx] = h.tid /\ ~(s < h.slot_idx)
      BY <1>0, <1>2, <2>1 DEF LineWaits, FoundFirst, FirstFor
    <2>3. QED  BY <1>2, <2>1, <2>2, SlotsAssumption DEF Slots
  <1>5. /\ wpc = "recv" /\ wpkt' = h /\ wpc' = "apply" /\ fatal' = fatal
        /\ wslot' = h.slot_idx
        /\ UNCHANGED <<table, io, pc, args, mmioreq, sim>>
    BY <1>2, <1>3, <1>4 DEF WatcherRecv
  <1> HIDE DEF h
  <1>6. /\ Posted' = Posted /\ Listed' = Listed /\ AtAfu' = AtAfu
        /\ Applied = {} /\ Applied' = {h}
    BY <1>5 DEF Posted, Listed, AtAfu, Applied, Applying, sim, Elems
  <1>7. \A q \in Flying' : \E e \in Flying :
            q.id = e.id /\ q.tid = e.tid /\ q.slot_idx = e.slot_idx
    BY <1>1, <1>2, <1>6 DEF Flying
  <1>8. OnePlace'
    <2>1. Distinct(mmioreq') /\ Distinct(mmio_req_list')
      BY <1>0, <1>5 DEF OnePlace, Distinct, sim
    <2>2. QED  BY <1>0, <1>1, <1>6, <2>1 DEF OnePlace, Apart
  <1>9. RightAnswer'
    BY <1>0, <1>1, <1>5, <1>6 DEF RightAnswer, RightAnswerOf, Reading, args
  <1>10. SimKnows' /\ WatcherInv' /\ NeverLosesTrack'
    BY <1>0, <1>5, <1>6 DEF SimKnows, WatcherInv, Applying, NeverLosesTrack, sim
  <1>11. QED
    BY <1>5, <1>7, <1>8, <1>9, <1>10, MoveKeeps DEF IInv

\* What the watcher knows while it applies a response: its line waits for this
\* response, and no other request in flight uses the line.
LEMMA ApplyingFacts ==
    ASSUME IInv, Applying
    PROVE  /\ wpkt \in Flying /\ Applied = {wpkt} /\ wslot \in Slots
           /\ wslot = wpkt.slot_idx /\ wpkt.id \in Nat
           /\ tx_flag[wslot] /\ ~rx_flag[wslot] /\ tid[wslot] = wpkt.tid
           /\ \A q \in Posted \cup Listed \cup AtAfu \cup Replied :
                q.slot_idx \in Slots \ {wslot}
           /\ \A t \in Threads :
                /\ pc[t] \in {"clear_tx", "clear_rx"} => slot[t] # wslot
                /\ pc[t] = "put" => slot[t] # wslot
  <1>0. /\ TypeOK /\ LineWaits /\ OneRequest /\ ReadLine /\ Newest /\ OnePlace
        /\ WatcherInv
    BY DEF IInv, TInv
  <1>1. wpkt \in Flying /\ Applied = {wpkt} /\ wslot = wpkt.slot_idx
    BY <1>0 DEF Applied, Applying, Flying, WatcherInv
  <1>2. wslot \in Slots /\ wpkt.id \in Nat
    <2>1. wpkt.slot_idx \in Slots /\ wpkt.id \in Ids
      BY <1>0, <1>1, PacketFields
    <2>2. QED  BY <1>1, <2>1, ReqsAssumption DEF Ids
  <1>3. /\ tx_flag[wslot] /\ ~rx_flag[wslot] /\ tid[wslot] = wpkt.tid
        /\ wpkt.id < glbl_mmio_tid
    BY <1>0, <1>1 DEF LineWaits
  <1>4. \A q \in Posted \cup Listed \cup AtAfu \cup Replied : q.id # wpkt.id
    BY <1>0, <1>1 DEF OnePlace, Apart
  <1>5. \A q \in Posted \cup Listed \cup AtAfu \cup Replied :
            q.slot_idx \in Slots \ {wslot}
    BY <1>0, <1>1, <1>4, SameLine, PacketFields DEF Flying
  <1>6. ASSUME NEW t \in Threads
        PROVE  /\ pc[t] \in {"clear_tx", "clear_rx"} => slot[t] # wslot
               /\ pc[t] = "put" => slot[t] # wslot
    <2>1. pc[t] \in {"clear_tx", "clear_rx"} => slot[t] # wslot
      BY <1>0, <1>3 DEF ReadLine, ReadLineOf
    <2>2. pc[t] = "put" => slot[t] # wslot
      BY <1>0, <1>1 DEF Newest, NewestOf
    <2>3. QED  BY <2>1, <2>2
  <1>7. QED  BY <1>1, <1>2, <1>3, <1>5, <1>6

\* The data of a read's response goes to the line of the read that waits, which
\* does not look at it yet.
LEMMA WatcherReadDataStep ==
    ASSUME IInv, TInv', WatcherReadData
    PROVE  IInv'
  <1>0. /\ TypeOK /\ LineWaits /\ FoundFirst /\ OneRequest /\ Newest /\ ReadLine
        /\ RightAnswer /\ OnePlace /\ SimKnows /\ SlotOwnedOnce /\ NeverLosesTrack
        /\ WatcherInv
    BY DEF IInv, TInv
  <1>1. /\ wslot \in Slots /\ ~rx_flag[wslot] /\ tid[wslot] = wpkt.tid
        /\ \A t \in Threads : pc[t] \in {"clear_tx", "clear_rx"} => slot[t] # wslot
    BY ApplyingFacts DEF WatcherReadData, Applying
  <1>2. /\ UNCHANGED <<tx_flag, rx_flag, glbl_mmio_tid, pc, op, port, id, slot,
                       val, mmioreq, mmiorsp, mmio_req_list, busy, rs_tid,
                       afu_reads, wpkt, wslot, fatal>>
        /\ wpc = "apply" /\ wpc' = "read_tx" /\ ~wpkt.write_en
    BY DEF WatcherReadData, io, args, pipes, sim
  <1>3. /\ tid' = tid
        /\ \A s \in Slots \ {wslot} : data'[s] = data[s]
        /\ data'[wslot] = wpkt.data
    BY <1>0, <1>1 DEF WatcherReadData, TypeOK
  <1>4. /\ Posted' = Posted /\ Listed' = Listed /\ AtAfu' = AtAfu
        /\ Replied' = Replied /\ Applied' = Applied /\ Flying' = Flying
    BY <1>2 DEF Posted, Listed, AtAfu, Replied, Applied, Applying, Flying, Elems
  <1>5. OnePlace' /\ SimKnows'
    BY <1>0, <1>2, <1>4 DEF OnePlace, Apart, Distinct, SimKnows
  <1>6. LineWaits' /\ FoundFirst' /\ Newest'
    <2>1. LineWaits' /\ FoundFirst'
      BY <1>0, <1>2, <1>3, <1>4 DEF LineWaits, FoundFirst, FirstFor
    <2>2. Newest'
      BY <1>0, <1>2, <1>3, <1>4
         DEF Newest, NewestOf, FirstFor, ReadCall, InCall
    <2>3. QED  BY <2>1, <2>2
  <1>7. OneRequest' /\ RightAnswer'
    BY <1>0, <1>2, <1>4 DEF OneRequest, RightAnswer, RightAnswerOf, Reading
  <1>8. ASSUME NEW t \in Threads
        PROVE  ReadLineOf(t)'
    <2>1. slot[t] \in Slots
      BY <1>0 DEF TypeOK
    <2>2. QED
      BY <1>0, <1>1, <1>2, <1>3, <2>1 DEF ReadLine, ReadLineOf, Reading
  <1>9. WatcherInv'
    BY <1>0, <1>2, <1>3 DEF WatcherInv, Applying
  <1>10. SlotOwnedOnce' /\ NeverLosesTrack'
    BY <1>0, <1>2 DEF SlotOwnedOnce, OwnsSlot, NeverLosesTrack
  <1>11. QED
    BY <1>5, <1>6, <1>7, <1>8, <1>9, <1>10 DEF IInv, ReadLine

\* The store of tx_flag changes nothing: the flag is set.
LEMMA WatcherReadTxStep ==
    ASSUME IInv, TInv', WatcherReadTx
    PROVE  IInv'
  <1>1. UNCHANGED table
    BY ApplyingFacts DEF WatcherReadTx, Applying, IInv, TInv, TypeOK, table
  <1>2. /\ UNCHANGED <<io, pc, args, pipes, sim, wpkt, wslot, fatal>>
        /\ wpc = "read_tx" /\ wpc' = "read_rx"
    BY DEF WatcherReadTx
  <1>3. /\ Posted' = Posted /\ Listed' = Listed /\ AtAfu' = AtAfu
        /\ Replied' = Replied /\ Applied' = Applied /\ Flying' = Flying
    BY <1>2 DEF Posted, Listed, AtAfu, Replied, Applied, Applying, Flying, Elems,
                pipes, sim
  <1>4. /\ LineWaits' /\ FoundFirst' /\ OneRequest' /\ Newest' /\ ReadLine'
        /\ SlotOwnedOnce'
    BY <1>1, <1>2, <1>3, MoveKeeps
  <1>5. OnePlace' /\ SimKnows' /\ RightAnswer'
    BY <1>2, <1>3 DEF IInv, OnePlace, Apart, Distinct, SimKnows, RightAnswer,
                      RightAnswerOf, Reading, pipes, sim, args
  <1>6. WatcherInv' /\ NeverLosesTrack'
    BY <1>1, <1>2 DEF IInv, WatcherInv, Applying, NeverLosesTrack, table
  <1>7. QED  BY <1>4, <1>5, <1>6 DEF IInv

\* The last store of a read's response: the line of the read that waits has the
\* data already.
LEMMA WatcherReadRxStep ==
    ASSUME IInv, TInv', WatcherReadRx
    PROVE  IInv'
  <1>0. /\ TypeOK /\ LineWaits /\ FoundFirst /\ OneRequest /\ Newest /\ ReadLine
        /\ RightAnswer /\ WatcherInv
        /\ OnePlace /\ SimKnows /\ SlotOwnedOnce /\ NeverLosesTrack
    BY DEF IInv, TInv
  <1>1. /\ wpkt \in Flying /\ Applied = {wpkt} /\ wslot \in Slots
        /\ wslot = wpkt.slot_idx /\ wpkt.id \in Nat
        /\ tx_flag[wslot] /\ ~rx_flag[wslot] /\ tid[wslot] = wpkt.tid
        /\ \A q \in Posted \cup Listed \cup AtAfu \cup Replied :
             q.slot_idx \in Slots \ {wslot}
        /\ \A t \in Threads :
             /\ pc[t] \in {"clear_tx", "clear_rx"} => slot[t] # wslot
             /\ pc[t] = "put" => slot[t] # wslot
    BY ApplyingFacts DEF WatcherReadRx, Applying
  <1>2. /\ UNCHANGED <<glbl_mmio_tid, pc, op, port, id, slot, val, mmioreq,
                       mmiorsp, mmio_req_list, busy, rs_tid, afu_reads, fatal>>
        /\ wpc' = "recv"
    BY DEF WatcherReadRx, io, args, pipes, sim
  <1>3. /\ \A s \in Slots : tx_flag'[s] = tx_flag[s] /\ tid'[s] = tid[s]
        /\ \A s \in Slots \ {wslot} : rx_flag'[s] = rx_flag[s]
        /\ rx_flag'[wslot] /\ data' = data /\ data[wslot] = wpkt.data
    BY <1>0, <1>1 DEF WatcherReadRx, TypeOK, WatcherInv
  <1>4. /\ Posted' = Posted /\ Listed' = Listed /\ AtAfu' = AtAfu
        /\ Replied' = Replied /\ Applied' = {}
        /\ Flying' = Posted \cup Listed \cup AtAfu \cup Replied
        /\ Flying' \subseteq Flying
    BY <1>2 DEF Posted, Listed, AtAfu, Replied, Applied, Applying, Flying, Elems
  <1>5. OnePlace'
    BY <1>0, <1>2, <1>4 DEF OnePlace, Apart, Distinct
  <1>6. LineWaits'
    BY <1>0, <1>1, <1>2, <1>3, <1>4 DEF LineWaits
  <1>7. FoundFirst' /\ OneRequest'
    BY <1>0, <1>2, <1>3, <1>4
       DEF FoundFirst, FirstFor, OneRequest, Reading
  <1>8. ASSUME NEW t \in Threads
        PROVE  ReadLineOf(t)' /\ RightAnswerOf(t)' /\ NewestOf(t)'
    <2>1. slot[t] \in Slots
      BY <1>0 DEF TypeOK
    <2>2. Reading(t) /\ slot[t] = wslot => wpkt.data = Answer(port[t], id[t])
      BY <1>0, <1>1 DEF RightAnswer, RightAnswerOf
    <2>3. ReadLineOf(t)'
      BY <1>0, <1>1, <1>2, <1>3, <2>1, <2>2 DEF ReadLine, ReadLineOf, Reading
    <2>4. RightAnswerOf(t)'
      BY <1>0, <1>2, <1>4 DEF RightAnswer, RightAnswerOf, Reading
    <2>5. NewestOf(t)'
      <3>1. \A x \in Threads : ReadCall(x)' <=> ReadCall(x)
        BY <1>2 DEF ReadCall, InCall
      <3>2. FirstFor(slot[t], TidOf(id[t])) => FirstFor(slot[t], TidOf(id[t]))'
        BY <1>2, <1>3 DEF FirstFor
      <3>3. QED
        BY <1>0, <1>1, <1>2, <1>3, <1>4, <2>1, <3>1, <3>2 DEF Newest, NewestOf
    <2>6. QED  BY <2>3, <2>4, <2>5
  <1>9. SimKnows' /\ WatcherInv'
    BY <1>0, <1>2, <1>4 DEF SimKnows, WatcherInv, Applying
  <1>10. SlotOwnedOnce' /\ NeverLosesTrack'
    BY <1>0, <1>2 DEF SlotOwnedOnce, OwnsSlot, NeverLosesTrack
  <1>11. QED
    BY <1>5, <1>6, <1>7, <1>8, <1>9, <1>10
       DEF IInv, ReadLine, RightAnswer, Newest

\* The response of a write frees the line: no read waits on it.
LEMMA WatcherWriteTxStep ==
    ASSUME IInv, TInv', WatcherWriteTx
    PROVE  IInv'
  <1>0. /\ TypeOK /\ LineWaits /\ FoundFirst /\ OneRequest /\ Newest /\ ReadLine
        /\ RightAnswer /\ WatcherInv
        /\ OnePlace /\ SimKnows /\ SlotOwnedOnce /\ NeverLosesTrack
    BY DEF IInv, TInv
  <1>1. /\ wpkt \in Flying /\ Applied = {wpkt} /\ wslot \in Slots
        /\ wslot = wpkt.slot_idx /\ wpkt.id \in Nat
        /\ tx_flag[wslot] /\ ~rx_flag[wslot] /\ tid[wslot] = wpkt.tid
        /\ \A q \in Posted \cup Listed \cup AtAfu \cup Replied :
             q.slot_idx \in Slots \ {wslot}
        /\ \A t \in Threads :
             /\ pc[t] \in {"clear_tx", "clear_rx"} => slot[t] # wslot
             /\ pc[t] = "put" => slot[t] # wslot
    BY ApplyingFacts DEF WatcherWriteTx, Applying
  <1>2. /\ UNCHANGED <<rx_flag, tid, data, glbl_mmio_tid, pc, op, port, id, slot,
                       val, mmioreq, mmiorsp, mmio_req_list, busy, rs_tid,
                       afu_reads, wslot, fatal>>
        /\ wpkt.write_en /\ wpc' = "write_rx"
    BY DEF WatcherWriteTx, io, args, pipes, sim
  <1>3. \A s \in Slots \ {wslot} : tx_flag'[s] = tx_flag[s]
    BY <1>0, <1>1 DEF WatcherWriteTx, TypeOK
  <1>4. /\ Posted' = Posted /\ Listed' = Listed /\ AtAfu' = AtAfu
        /\ Replied' = Replied /\ Applied' = {}
        /\ Flying' = Posted \cup Listed \cup AtAfu \cup Replied
        /\ Flying' \subseteq Flying
    BY <1>2 DEF Posted, Listed, AtAfu, Replied, Applied, Applying, Flying, Elems
  <1>5. OnePlace'
    BY <1>0, <1>2, <1>4 DEF OnePlace, Apart, Distinct
  <1>6. LineWaits'
    BY <1>0, <1>1, <1>2, <1>3, <1>4 DEF LineWaits
  <1>7. FoundFirst' /\ OneRequest'
    BY <1>0, <1>2, <1>4 DEF FoundFirst, FirstFor, OneRequest, Reading
  <1>8. ASSUME NEW t \in Threads
        PROVE  ReadLineOf(t)' /\ RightAnswerOf(t)' /\ NewestOf(t)'
    <2>1. slot[t] \in Slots
      BY <1>0 DEF TypeOK
    <2>2. Reading(t) => slot[t] # wslot
      BY <1>0, <1>1, <1>2 DEF RightAnswer, RightAnswerOf
    <2>3. ReadLineOf(t)'
      BY <1>0, <1>1, <1>2, <1>3, <2>1, <2>2 DEF ReadLine, ReadLineOf, Reading
    <2>4. RightAnswerOf(t)'
      BY <1>0, <1>2, <1>4 DEF RightAnswer, RightAnswerOf, Reading
    <2>5. NewestOf(t)'
      <3>1. \A x \in Threads : ReadCall(x)' <=> ReadCall(x)
        BY <1>2 DEF ReadCall, InCall
      <3>2. FirstFor(slot[t], TidOf(id[t])) => FirstFor(slot[t], TidOf(id[t]))'
        BY <1>2, <1>3 DEF FirstFor
      <3>3. QED
        BY <1>0, <1>1, <1>2, <1>3, <1>4, <2>1, <3>1, <3>2 DEF Newest, NewestOf
    <2>6. QED  BY <2>3, <2>4, <2>5
  <1>9. SimKnows' /\ WatcherInv'
    BY <1>0, <1>1, <1>2, <1>4 DEF SimKnows, WatcherInv, Applying
  <1>10. SlotOwnedOnce' /\ NeverLosesTrack'
    BY <1>0, <1>2 DEF SlotOwnedOnce, OwnsSlot, NeverLosesTrack
  <1>11. QED
    BY <1>5, <1>6, <1>7, <1>8, <1>9, <1>10
       DEF IInv, ReadLine, RightAnswer, Newest

\* The late clear of rx_flag hits a flag that is clear, even when another
\* thread has claimed the line meanwhile.
LEMMA WatcherWriteRxStep ==
    ASSUME IInv, TInv', WatcherWriteRx
    PROVE  IInv'
  <1>1. UNCHANGED table
    BY DEF WatcherWriteRx, IInv, TInv, TypeOK, WatcherInv, Applying, table
  <1>2. /\ UNCHANGED <<io, pc, args, pipes, sim, wpkt, fatal>>
        /\ wpc = "write_rx" /\ wpc' = "recv"
    BY DEF WatcherWriteRx
  <1>3. /\ Posted' = Posted /\ Listed' = Listed /\ AtAfu' = AtAfu
        /\ Replied' = Replied /\ Applied' = Applied /\ Flying' = Flying
    BY <1>2 DEF Posted, Listed, AtAfu, Replied, Applied, Applying, Flying, Elems, pipes,
                sim
  <1>4. /\ LineWaits' /\ FoundFirst' /\ OneRequest' /\ Newest' /\ ReadLine'
        /\ SlotOwnedOnce'
    BY <1>1, <1>2, <1>3, MoveKeeps
  <1>5. OnePlace' /\ SimKnows' /\ RightAnswer'
    BY <1>2, <1>3 DEF IInv, OnePlace, Apart, Distinct, SimKnows, RightAnswer,
                      RightAnswerOf, Reading, pipes, sim, args
  <1>6. WatcherInv' /\ NeverLosesTrack'
    BY <1>2 DEF IInv, WatcherInv, Applying, NeverLosesTrack
  <1>7. QED  BY <1>4, <1>5, <1>6 DEF IInv

-----------------------------------------------------------------------------
\* The invariant holds initially.
LEMMA InvInit ==
    ASSUME Init, TInv
    PROVE  IInv
  <1>1. /\ Posted = {} /\ Listed = {} /\ AtAfu = {} /\ Replied = {}
        /\ Applied = {} /\ Flying = {}
    BY DEF Init, Posted, Listed, AtAfu, Replied, Applied, Applying, Flying, Elems
  <1>2. OnePlace /\ LineWaits /\ SimKnows
    BY <1>1 DEF Init, OnePlace, Distinct, Apart, LineWaits, SimKnows
  <1>3. FoundFirst /\ OneRequest /\ WatcherInv /\ NeverLosesTrack
    BY <1>1 DEF Init, FoundFirst, OneRequest, WatcherInv, Applying, NeverLosesTrack
  <1>4. Newest /\ ReadLine /\ RightAnswer /\ SlotOwnedOnce
    BY DEF Init, Newest, NewestOf, ReadLine, ReadLineOf, RightAnswer,
           RightAnswerOf, Reading, SlotOwnedOnce, OwnsSlot
  <1>5. QED  BY <1>2, <1>3, <1>4 DEF IInv

\* Every step keeps the invariant.
LEMMA InvStep ==
    ASSUME IdsRecent, CreditInv, IInv, [Next]_vars
    PROVE  IInv'
  <1>1. TInv'
    BY TypeStep DEF IInv
  <1>2. CASE UNCHANGED vars
    <2>1. UNCHANGED <<table, io, pc, args, pipes, sim, watcher, fatal>>
      BY <1>2 DEF vars
    <2>2. /\ LineWaits' /\ FoundFirst' /\ OneRequest' /\ Newest' /\ ReadLine'
          /\ SlotOwnedOnce' /\ OnePlace' /\ SimKnows'
      <3>1. /\ Flying' = Flying /\ OnePlace' /\ SimKnows'
        BY <2>1, NothingMoves DEF IInv
      <3>2. QED  BY <2>1, <3>1, MoveKeeps
    <2>3. RightAnswer'
      BY <2>1, NothingMoves DEF IInv, RightAnswer, RightAnswerOf, Reading, args
    <2>4. WatcherInv' /\ NeverLosesTrack'
      BY <2>1 DEF IInv, WatcherInv, Applying, NeverLosesTrack, table, watcher
    <2>5. QED  BY <1>1, <2>2, <2>3, <2>4 DEF IInv
  <1>3. CASE OpenAfu \/ \E t \in Threads : NoSlotLeft(t)
    BY <1>1, <1>3, QuietStep
  <1>4. ASSUME NEW t \in Threads, NEW o \in {"read", "write"},
               NEW prt \in Ports, LockPort(t, o, prt)
        PROVE  IInv'
    BY <1>1, <1>4, LockPortStep
  <1>5. ASSUME NEW t \in Threads, ThreadStep(t)
        PROVE  IInv'
    BY <1>1, <1>3, <1>5, GenerateTidStep, FindSlotStep, PutRequestStep,
       UnlockPortStep, TakeResponseStep, ClearTxStep, ClearRxStep
       DEF ThreadStep
  <1>6. CASE NewRequest \/ SendToAfu \/ \E p \in afu_reads : CompleteRead(p)
    BY <1>1, <1>6, NewRequestStep, SendToAfuStep, CompleteReadStep
  <1>7. CASE WatcherStep
    BY <1>1, <1>7, WatcherRecvStep, WatcherReadDataStep, WatcherReadTxStep,
       WatcherReadRxStep, WatcherWriteTxStep, WatcherWriteRxStep DEF WatcherStep
  <1>8. QED
    BY <1>2, <1>3, <1>4, <1>5, <1>6, <1>7 DEF Next, Finished

-----------------------------------------------------------------------------
(* Requests reach the AFU in the order of their ids. *)

\* What is appended behind an ascending pipe keeps it ascending.
LEMMA AscendingAppend ==
    ASSUME NEW S, NEW q \in Seq(S), NEW e \in S, Ascending(q),
           \A f \in Elems(q) : f.id < e.id
    PROVE  Ascending(Append(q, e))
  <1>1. Len(Append(q, e)) = Len(q) + 1 /\ Len(q) \in Nat
    OBVIOUS
  <1>2. \A i \in 1 .. Len(q) : Append(q, e)[i] = q[i] /\ q[i] \in Elems(q)
    BY DEF Elems
  <1>3. Append(q, e)[Len(q) + 1] = e
    OBVIOUS
  <1>4. QED  BY <1>1, <1>2, <1>3 DEF Ascending

\* What is received from an ascending pipe is the oldest request in it.
LEMMA AscendingTail ==
    ASSUME NEW S, NEW q \in Seq(S), q # << >>, Ascending(q)
    PROVE  /\ Head(q) \in Elems(q) /\ Elems(Tail(q)) \subseteq Elems(q)
           /\ \A e \in Elems(Tail(q)) : Head(q).id < e.id
           /\ Ascending(Tail(q))
  <1>1. Len(q) \in Nat /\ Len(q) > 0 /\ Len(Tail(q)) = Len(q) - 1
    OBVIOUS
  <1>2. Head(q) = q[1] /\ \A i \in 1 .. Len(Tail(q)) : Tail(q)[i] = q[i + 1]
    BY <1>1
  <1>3. Head(q) \in Elems(q) /\ Elems(Tail(q)) \subseteq Elems(q)
    BY <1>1, <1>2 DEF Elems
  <1>4. \A e \in Elems(Tail(q)) : Head(q).id < e.id
    BY <1>1, <1>2 DEF Elems, Ascending
  <1>5. Ascending(Tail(q))
    BY <1>1, <1>2 DEF Ascending
  <1>6. QED  BY <1>3, <1>4, <1>5

\* A step that makes no request and receives none.
LEMMA OrderQuiet ==
    ASSUME OrderInv, UNCHANGED <<mmioreq, mmio_req_list, glbl_mmio_tid, id>>,
           \A t \in Threads : pc'[t] \in {"find", "put"} => pc[t] \in {"find", "put"}
    PROVE  OrderInv'
  <1>1. Posted' = Posted /\ Listed' = Listed
    BY DEF Posted, Listed, Elems
  <1>2. QED  BY <1>1 DEF OrderInv, Ascending

\* Every step keeps the order.
LEMMA OrderStep ==
    ASSUME TInv, TInv', OrderInv, [Next]_vars
    PROVE  OrderInv'
  <1>0. /\ TypeOK /\ LockInv /\ glbl_mmio_tid \in Nat
        /\ mmioreq \in Seq(Packets) /\ mmio_req_list \in Seq(Packets)
        /\ \A t \in Threads : id[t] \in Nat
        /\ \A p \in Packets : p.id \in Nat
        /\ Posted \subseteq Packets /\ Listed \subseteq Packets
    <2>1. /\ TypeOK /\ LockInv /\ glbl_mmio_tid \in Nat
          /\ mmioreq \in Seq(Packets) /\ mmio_req_list \in Seq(Packets)
          /\ \A t \in Threads : id[t] \in Nat
      <3>1. TypeOK /\ LockInv
        BY DEF TInv
      <3>2. Ids \subseteq Nat /\ 0 .. MaxReqs \subseteq Nat
        BY ReqsAssumption DEF Ids
      <3>3. /\ glbl_mmio_tid \in 0 .. MaxReqs /\ id \in [Threads -> Ids]
            /\ mmioreq \in Seq(Packets) /\ mmio_req_list \in Seq(Packets)
        BY <3>1 DEF TypeOK
      <3> QED
        BY <3>1, <3>2, <3>3
    <2>2. \A p \in Packets : p.id \in Nat
      BY ReqsAssumption DEF Ids, Packets
    <2>3. Posted \subseteq Packets /\ Listed \subseteq Packets
      BY <2>1 DEF Posted, Listed, Elems
    <2>4. QED  BY <2>1, <2>2, <2>3
  <1>1. ASSUME NEW t \in Threads, GenerateTid(t)
        PROVE  OrderInv'
    <2>1. /\ pc[t] = "gen" /\ pc'[t] = "find" /\ id'[t] = glbl_mmio_tid
          /\ glbl_mmio_tid' = glbl_mmio_tid + 1
          /\ UNCHANGED <<mmioreq, mmio_req_list>>
          /\ \A u \in Threads : u # t => pc'[u] = pc[u] /\ id'[u] = id[u]
      BY <1>0, <1>1 DEF GenerateTid, At, GoTo, TypeOK, pipes, sim
    <2>2. \A u \in Threads : u # t => pc[u] \notin {"find", "put"}
      BY <1>0, <2>1 DEF LockInv
    <2>3. Posted' = Posted /\ Listed' = Listed
      BY <2>1 DEF Posted, Listed, Elems
    <2>4. /\ glbl_mmio_tid \in Nat /\ \A u \in Threads : id[u] \in Nat
          /\ \A p \in Packets : p.id \in Nat
          /\ Posted \subseteq Packets /\ Listed \subseteq Packets
      BY <1>0
    <2>5. QED
      BY <2>1, <2>2, <2>3, <2>4 DEF OrderInv, Ascending
  <1>2. ASSUME NEW t \in Threads, PutRequest(t)
        PROVE  OrderInv'
    <2>1. PICK k \in Packets : k.id = id[t] /\ mmioreq' = Append(mmioreq, k)
      <3> DEFINE k == [write_en |-> (op[t] = "write"), port |-> port[t],
                       tid |-> TidOf(id[t]), slot_idx |-> slot[t], id |-> id[t]]
      <3>1. k \in Packets
        BY <1>0, TidOfType DEF TypeOK, Packets
      <3>2. k.id = id[t] /\ mmioreq' = Append(mmioreq, k)
        BY <1>2 DEF PutRequest
      <3>3. QED  BY <3>1, <3>2
    <2>2. /\ pc[t] = "put" /\ pc'[t] = "unlock"
          /\ UNCHANGED <<mmio_req_list, glbl_mmio_tid, id>>
          /\ \A u \in Threads : u # t => pc'[u] = pc[u]
      BY <1>0, <1>2 DEF PutRequest, At, GoTo, TypeOK, io, sim, args
    <2>3. \A u \in Threads : pc'[u] \notin {"find", "put"}
      BY <1>0, <2>2 DEF LockInv
    <2>4. Posted' = Posted \cup {k} /\ Listed' = Listed
      BY <1>0, <2>1, <2>2, ElemsAppend DEF Posted, Listed, Elems
    <2>5. \A p \in Posted \cup Listed : p.id < k.id
      BY <2>1, <2>2 DEF OrderInv
    <2>6. Ascending(mmioreq')
      BY <1>0, <2>1, <2>5, AscendingAppend DEF OrderInv, Posted
    <2>7. k.id < glbl_mmio_tid
      BY <2>1, <2>2 DEF OrderInv
    <2>8. QED
      BY <2>2, <2>3, <2>4, <2>5, <2>6, <2>7 DEF OrderInv, Ascending
  <1>3. CASE NewRequest
    <2>1. /\ mmioreq # << >> /\ mmioreq' = Tail(mmioreq)
          /\ \/ mmio_req_list' = mmio_req_list
             \/ mmio_req_list' = Append(mmio_req_list, Head(mmioreq))
          /\ UNCHANGED <<glbl_mmio_tid, pc, id>>
      BY <1>3 DEF NewRequest, sim, io, args
    <2>2. PICK h : h = Head(mmioreq)
      OBVIOUS
    <2>3. /\ h \in Posted /\ Posted' \subseteq Posted
          /\ \A e \in Posted' : h.id < e.id
          /\ Ascending(mmioreq')
      BY <1>0, <2>1, <2>2, AscendingTail DEF OrderInv, Posted, Elems
    <2>4. CASE mmio_req_list' = mmio_req_list
      <3>1. Listed' = Listed
        BY <2>4 DEF Listed, Elems
      <3>2. QED  BY <2>1, <2>3, <2>4, <3>1 DEF OrderInv, Ascending
    <2>5. CASE mmio_req_list' = Append(mmio_req_list, h)
      <3>1. h \in Packets /\ \A p \in Listed : p.id < h.id
        BY <1>0, <2>3 DEF OrderInv
      <3>2. Listed' = Listed \cup {h}
        BY <1>0, <2>5, <3>1, ElemsAppend DEF Listed, Elems
      <3>3. Ascending(mmio_req_list')
        BY <1>0, <2>5, <3>1, AscendingAppend DEF OrderInv, Listed
      <3>4. QED  BY <2>1, <2>3, <3>2, <3>3 DEF OrderInv
    <2>6. QED  BY <2>1, <2>2, <2>4, <2>5
  <1>4. CASE SendToAfu
    <2>1. /\ mmio_req_list # << >> /\ mmio_req_list' = Tail(mmio_req_list)
          /\ UNCHANGED <<mmioreq, glbl_mmio_tid, pc, id>>
      BY <1>4 DEF SendToAfu, io, args
    <2>2. Listed' \subseteq Listed /\ Ascending(mmio_req_list')
      BY <1>0, <2>1, AscendingTail DEF OrderInv, Listed, Elems
    <2>3. Posted' = Posted
      BY <2>1 DEF Posted, Elems
    <2>4. QED  BY <2>1, <2>2, <2>3 DEF OrderInv, Ascending
  <1>5. ASSUME NEW t \in Threads, NEW o \in {"read", "write"},
               NEW prt \in Ports, LockPort(t, o, prt)
        PROVE  OrderInv'
    BY <1>0, <1>5, OrderQuiet DEF LockPort, GoTo, TypeOK, pipes, sim
  <1>6. ASSUME NEW t \in Threads,
               \/ FindSlot(t) \/ NoSlotLeft(t) \/ UnlockPort(t)
               \/ TakeResponse(t) \/ ClearTx(t) \/ ClearRx(t)
        PROVE  OrderInv'
    BY <1>0, <1>6, OrderQuiet
       DEF FindSlot, NoSlotLeft, UnlockPort, TakeResponse, ClearTx, ClearRx, At,
           GoTo, TypeOK, pipes, sim, io, args
  <1>7. CASE OpenAfu \/ WatcherStep \/ \E p \in afu_reads : CompleteRead(p)
    BY <1>7, OrderQuiet
       DEF OpenAfu, WatcherStep, WatcherRecv, WatcherReadData, WatcherReadTx,
           WatcherReadRx, WatcherWriteTx, WatcherWriteRx, CompleteRead, pipes, sim, io, args
  <1>8. CASE UNCHANGED vars
    BY <1>8, OrderQuiet DEF vars, pipes, sim, io, args
  <1>9. QED
    BY <1>1, <1>2, <1>3, <1>4, <1>5, <1>6, <1>7, <1>8
       DEF Next, ThreadStep, Finished

\* The AFU gets the requests in the order in which their ids were given out,
\* for any number of threads, and also when the ids that are sent wrap.
THEOREM RequestsInOrder == Spec => DeliveredInOrder
  <1>1. Init => TInv /\ OrderInv
    <2>1. Init => OrderInv
      BY DEF Init, OrderInv, Ascending, Posted, Listed, Elems
    <2>2. QED  BY <2>1, TypeInit
  <1>2. TInv /\ OrderInv /\ [Next]_vars => (TInv /\ OrderInv)'
    BY TypeStep, OrderStep
  <1>3. ASSUME TInv, OrderInv, mmio_req_list # << >>
        PROVE  /\ \A i \in 2 .. Len(mmio_req_list) :
                      Head(mmio_req_list).id < mmio_req_list[i].id
               /\ \A i \in 1 .. Len(mmioreq) : Head(mmio_req_list).id < mmioreq[i].id
               /\ \A t \in Threads : pc[t] \in {"find", "put"} =>
                      Head(mmio_req_list).id < id[t]
    <2>1. mmio_req_list \in Seq(Packets)
      BY <1>3 DEF TInv, TypeOK
    <2>2. /\ Len(mmio_req_list) \in Nat /\ Len(mmio_req_list) > 0
          /\ Head(mmio_req_list) = mmio_req_list[1]
      BY <1>3, <2>1
    <2>3. Head(mmio_req_list) \in Listed
      BY <2>2 DEF Listed, Elems
    <2>4. \A i \in 2 .. Len(mmio_req_list) :
              Head(mmio_req_list).id < mmio_req_list[i].id
      BY <1>3, <2>2 DEF OrderInv, Ascending
    <2>5. \A i \in 1 .. Len(mmioreq) : mmioreq[i] \in Posted
      BY DEF Posted, Elems
    <2>6. QED  BY <1>3, <2>3, <2>4, <2>5 DEF OrderInv
  <1>4. QED  BY <1>1, <1>2, <1>3, PTL DEF Spec, DeliveredInOrder

-----------------------------------------------------------------------------
(* Lines in use: no credit leaks. *)

\* A step that moves requests and claims no line; the calls that hold a line or
\* wait for an answer go on doing so.
LEMMA CreditMove ==
    ASSUME CreditInv,
           \A s \in Slots : tx_flag'[s] => tx_flag[s],
           \A s \in Slots : rx_flag'[s] => rx_flag[s],
           \A p \in Flying : \E e \in Flying' : e.slot_idx = p.slot_idx,
           \A e \in Flying' : \E p \in Flying :
               e.slot_idx = p.slot_idx /\ e.write_en = p.write_en,
           \A t \in Threads : HoldsLine(t) => HoldsLine(t)' /\ slot'[t] = slot[t],
           \A t \in Threads : Reading(t) => Reading(t)' /\ slot'[t] = slot[t],
           \A t \in Threads : ReadCall(t) /\ rx_flag'[slot[t]] =>
               ReadCall(t)' /\ slot'[t] = slot[t]
    PROVE  CreditInv'
  <1>1. LineClaimed'
    BY DEF CreditInv, LineClaimed
  <1>2. ReaderWaits'
    BY DEF CreditInv, ReaderWaits
  <1>3. RxClaimed'
    BY DEF CreditInv, RxClaimed
  <1>4. QED  BY <1>1, <1>2, <1>3 DEF CreditInv

\* A step of a call that is not one of those.
LEMMA CreditCall ==
    ASSUME CreditInv, UNCHANGED <<pipes, sim, watcher>>,
           \A s \in Slots : tx_flag'[s] => tx_flag[s],
           \A s \in Slots : rx_flag'[s] => rx_flag[s],
           \A t \in Threads : HoldsLine(t) => HoldsLine(t)' /\ slot'[t] = slot[t],
           \A t \in Threads : Reading(t) => Reading(t)' /\ slot'[t] = slot[t],
           \A t \in Threads : ReadCall(t) /\ rx_flag'[slot[t]] =>
               ReadCall(t)' /\ slot'[t] = slot[t]
    PROVE  CreditInv'
  <1>1. Flying' = Flying
    BY NothingMoves
  <1>2. QED  BY <1>1, CreditMove

\* The line that is claimed belongs to the call that claims it.
LEMMA CreditFind ==
    ASSUME IInv, CreditInv, NEW t \in Threads, FindSlot(t)
    PROVE  CreditInv'
  <1>0. TypeOK
    BY DEF IInv, TInv
  <1>1. PICK s \in Slots : /\ slot' = [slot EXCEPT ![t] = s]
                           /\ tx_flag' = [tx_flag EXCEPT ![s] = TRUE]
                           /\ rx_flag' = [rx_flag EXCEPT ![s] = FALSE]
    BY DEF FindSlot
  <1>2. /\ pc[t] = "find" /\ pc'[t] = "put" /\ op' = op
        /\ \A u \in Threads : u # t => pc'[u] = pc[u] /\ slot'[u] = slot[u]
        /\ slot'[t] = s /\ \A z \in Slots : z # s => tx_flag'[z] = tx_flag[z]
        /\ \A z \in Slots : rx_flag'[z] => rx_flag[z]
        /\ UNCHANGED <<pipes, sim, watcher>>
    BY <1>0, <1>1 DEF FindSlot, At, GoTo, TypeOK
  <1>3. Flying' = Flying
    BY <1>2, NothingMoves
  <1>4. ASSUME NEW u \in Threads
        PROVE  /\ HoldsLine(u) => HoldsLine(u)' /\ slot'[u] = slot[u]
               /\ Reading(u) => Reading(u)' /\ slot'[u] = slot[u]
               /\ ReadCall(u) => ReadCall(u)' /\ slot'[u] = slot[u]
    BY <1>2 DEF HoldsLine, Reading, ReadCall, InCall
  <1>5. HoldsLine(t)'
    BY <1>2 DEF HoldsLine
  <1>6. LineClaimed'
    BY <1>2, <1>3, <1>4, <1>5 DEF CreditInv, LineClaimed
  <1>7. ReaderWaits'
    BY <1>3, <1>4 DEF CreditInv, ReaderWaits
  <1>8. RxClaimed'
    BY <1>2, <1>4 DEF CreditInv, RxClaimed
  <1>9. QED  BY <1>6, <1>7, <1>8 DEF CreditInv

\* The request that is posted holds the line; a read goes on holding it.
LEMMA CreditPut ==
    ASSUME IInv, CreditInv, NEW t \in Threads, PutRequest(t)
    PROVE  CreditInv'
  <1> DEFINE k == [write_en |-> (op[t] = "write"), port |-> port[t],
                   tid |-> TidOf(id[t]), slot_idx |-> slot[t], id |-> id[t]]
  <1>0. TypeOK /\ ReadLine
    BY DEF IInv, TInv
  <1>1. k \in Packets
    BY <1>0, TidOfType DEF TypeOK, Packets
  <1>2. k.slot_idx = slot[t] /\ (k.write_en <=> op[t] = "write")
    OBVIOUS
  <1>3. /\ pc[t] = "put" /\ pc'[t] = "unlock" /\ mmioreq' = Append(mmioreq, k)
        /\ UNCHANGED <<tx_flag, rx_flag, op, slot, mmiorsp, mmio_req_list,
                       afu_reads, wpc, wpkt>>
        /\ \A u \in Threads : u # t => pc'[u] = pc[u]
    BY <1>0 DEF PutRequest, At, GoTo, TypeOK, args, sim, watcher
  <1> HIDE DEF k
  <1>4. Flying' = Flying \cup {k}
    <2>1. Elems(mmioreq') = Elems(mmioreq) \cup {k}
      BY <1>0, <1>1, <1>3, ElemsAppend DEF TypeOK
    <2>2. QED
      BY <1>3, <2>1 DEF Posted, Listed, AtAfu, Replied, Applied, Applying, Flying, Elems
  <1>5. op[t] = "write" \/ op[t] = "read"
    BY <1>0, <1>3 DEF ReadLine, ReadLineOf, TypeOK
  <1>6. ASSUME NEW u \in Threads, u # t
        PROVE  (HoldsLine(u) => HoldsLine(u)') /\ (Reading(u) => Reading(u)')
    BY <1>3, <1>6 DEF HoldsLine, Reading
  <1>7. ~Reading(t) /\ (op[t] = "read" => Reading(t)')
    BY <1>3 DEF Reading
  <1>8. LineClaimed'
    BY <1>2, <1>3, <1>4, <1>6 DEF CreditInv, LineClaimed
  <1>9. ReaderWaits'
    BY <1>2, <1>3, <1>4, <1>5, <1>6, <1>7 DEF CreditInv, ReaderWaits
  <1>10. RxClaimed'
    BY <1>3 DEF CreditInv, RxClaimed, ReadCall, InCall
  <1>11. QED  BY <1>8, <1>9, <1>10 DEF CreditInv

\* A read that takes its data has nothing in flight, and still holds its line.
LEMMA CreditTake ==
    ASSUME IInv, CreditInv, NEW t \in Threads, TakeResponse(t)
    PROVE  CreditInv'
  <1>0. TypeOK /\ LineWaits /\ ReadLine
    BY DEF IInv, TInv
  <1>1. /\ pc[t] = "wait" /\ pc'[t] = "clear_tx" /\ rx_flag[slot[t]]
        /\ UNCHANGED <<tx_flag, rx_flag, op, slot, pipes, sim, watcher>>
        /\ \A u \in Threads : u # t => pc'[u] = pc[u]
    BY <1>0 DEF TakeResponse, At, GoTo, TypeOK, table
  <1>2. Flying' = Flying
    BY <1>1, NothingMoves
  <1>3. \A p \in Flying : p.slot_idx # slot[t]
    BY <1>0, <1>1 DEF LineWaits
  <1>4. \A u \in Threads : HoldsLine(u) => HoldsLine(u)'
    BY <1>1 DEF HoldsLine
  <1>5. \A u \in Threads : u # t /\ Reading(u) => Reading(u)'
    BY <1>1 DEF Reading
  <1>6. LineClaimed'
    BY <1>1, <1>2, <1>4 DEF CreditInv, LineClaimed
  <1>7. ReaderWaits'
    BY <1>1, <1>2, <1>3, <1>5 DEF CreditInv, ReaderWaits
  <1>8. RxClaimed'
    BY <1>1 DEF CreditInv, RxClaimed, ReadCall, InCall
  <1>9. QED  BY <1>6, <1>7, <1>8 DEF CreditInv

\* A read gives its line back.
LEMMA CreditClear ==
    ASSUME IInv, CreditInv, NEW t \in Threads, ClearTx(t)
    PROVE  CreditInv'
  <1>0. TypeOK
    BY DEF IInv, TInv
  <1>1. /\ pc[t] = "clear_tx" /\ pc'[t] = "clear_rx"
        /\ UNCHANGED <<rx_flag, op, slot, pipes, sim, watcher>>
        /\ slot[t] \in Slots /\ ~tx_flag'[slot[t]]
        /\ \A s \in Slots : s # slot[t] => tx_flag'[s] = tx_flag[s]
        /\ \A u \in Threads : u # t => pc'[u] = pc[u]
    BY <1>0 DEF ClearTx, At, GoTo, TypeOK, args
  <1>2. Flying' = Flying
    BY <1>1, NothingMoves
  <1>3. \A u \in Threads : u # t => (HoldsLine(u) => HoldsLine(u)')
    BY <1>1 DEF HoldsLine
  <1>4. \A u \in Threads : Reading(u) => Reading(u)'
    BY <1>1 DEF Reading
  <1>5. LineClaimed'
    BY <1>1, <1>2, <1>3 DEF CreditInv, LineClaimed
  <1>6. ReaderWaits'
    BY <1>1, <1>2, <1>4 DEF CreditInv, ReaderWaits
  <1>7. RxClaimed'
    BY <1>1 DEF CreditInv, RxClaimed, ReadCall, InCall
  <1>8. QED  BY <1>5, <1>6, <1>7 DEF CreditInv

\* Requests go from the pipe to the list or to the response pipe, to the AFU and
\* back, and keep their line.
LEMMA CreditSim ==
    ASSUME IInv, CreditInv,
           NewRequest \/ SendToAfu \/ \E p \in afu_reads : CompleteRead(p)
    PROVE  CreditInv'
  <1>0. /\ TypeOK /\ SimKnows /\ OnePlace
        /\ mmiorsp \in Seq(Responses) /\ mmio_req_list \in Seq(Packets)
        /\ mmioreq \in Seq(Packets) /\ afu_reads \subseteq Packets
        /\ Distinct(mmioreq) /\ Distinct(mmio_req_list)
    BY DEF IInv, TInv, TypeOK, OnePlace
  <1>1. UNCHANGED <<tx_flag, rx_flag, pc, op, slot, wpc, wpkt>>
    BY DEF NewRequest, SendToAfu, CompleteRead, table, args, watcher
  <1>2. Applied' = Applied
    BY <1>1 DEF Applied, Applying
  <1>3. SUFFICES ASSUME TRUE
                 PROVE  /\ \A p \in Flying : \E e \in Flying' : e.slot_idx = p.slot_idx
                        /\ \A e \in Flying' : \E p \in Flying :
                             e.slot_idx = p.slot_idx /\ e.write_en = p.write_en
    BY <1>1, CreditMove DEF HoldsLine, Reading, ReadCall, InCall
  <1>4. ASSUME NEW p \in Packets, NEW z \in Tids
        PROVE  /\ Response(p, z) \in Responses
               /\ Response(p, z).slot_idx = p.slot_idx
               /\ Response(p, z).write_en = p.write_en
    <2>1. Response(p, z) \in Responses
      BY ResponseType
    <2>2. QED  BY <2>1 DEF Response
  <1>5. CASE NewRequest
    <2>1. PICK p : p = Head(mmioreq)
      OBVIOUS
    <2>2. /\ p \in Posted /\ Posted' \subseteq Posted
          /\ \A e \in Posted : e # p => e \in Posted'
      <3>1. mmioreq # << >> /\ mmioreq' = Tail(mmioreq)
        BY <1>5 DEF NewRequest
      <3>2. Posted' = Elems(Tail(mmioreq))
        BY <3>1 DEF Posted, Elems
      <3>3. QED  BY <1>0, <2>1, <3>1, <3>2, ElemsTail DEF Posted
    <2>3. p \in Packets /\ p.tid \in Tids /\ p.port \in Ports
      <3>1. p \in Packets
        BY <1>0, <2>2 DEF Posted, Elems
      <3>2. QED  BY <3>1 DEF Packets
    <2>4. CASE p.port = "absent"
      <3>1. PICK r : r = Response(p, p.tid)
        OBVIOUS
      <3>2. ~p.write_en
        BY <1>0, <2>2, <2>4 DEF SimKnows
      <3>3. mmiorsp' = Append(mmiorsp, r) /\ UNCHANGED <<mmio_req_list, afu_reads>>
        BY <1>5, <2>1, <2>4, <3>1, <3>2 DEF NewRequest, sim
      <3>4. r \in Responses /\ r.slot_idx = p.slot_idx /\ r.write_en = p.write_en
        BY <1>4, <2>3, <3>1
      <3>5. Replied' = Replied \cup {r} /\ Listed' = Listed /\ AtAfu' = AtAfu
        BY <1>0, <3>3, <3>4, ElemsAppend DEF Replied, Listed, AtAfu, Elems
      <3>6. QED  BY <1>2, <2>2, <3>4, <3>5 DEF Flying
    <2>5. CASE p.port = "present"
      <3>1. mmio_req_list' = Append(mmio_req_list, p) /\ UNCHANGED <<mmiorsp, afu_reads>>
        BY <1>5, <2>1, <2>5 DEF NewRequest
      <3>2. Listed' = Listed \cup {p} /\ Replied' = Replied /\ AtAfu' = AtAfu
        BY <1>0, <2>3, <3>1, ElemsAppend DEF Replied, Listed, AtAfu, Elems
      <3>3. QED  BY <1>2, <2>2, <3>2 DEF Flying
    <2>6. QED  BY <2>3, <2>4, <2>5 DEF Ports
  <1>6. CASE SendToAfu
    <2>1. PICK p : p = Head(mmio_req_list)
      OBVIOUS
    <2>2. /\ p \in Listed /\ Listed' \subseteq Listed
          /\ \A e \in Listed : e # p => e \in Listed'
      <3>1. mmio_req_list # << >> /\ mmio_req_list' = Tail(mmio_req_list)
        BY <1>6 DEF SendToAfu
      <3>2. Listed' = Elems(Tail(mmio_req_list))
        BY <3>1 DEF Listed, Elems
      <3>3. QED  BY <1>0, <2>1, <3>1, <3>2, ElemsTail DEF Listed
    <2>3. p \in Packets /\ p.tid \in Tids
      <3>1. p \in Packets
        BY <1>0, <2>2 DEF Listed, Elems
      <3>2. QED  BY <3>1 DEF Packets
    <2>4. Posted' = Posted
      BY <1>6 DEF SendToAfu, Posted, Elems
    <2>5. PICK r : r = Response(p, p.tid)
      OBVIOUS
    <2>6. r \in Responses /\ r.slot_idx = p.slot_idx /\ r.write_en = p.write_en
      BY <1>4, <2>3, <2>5
    <2>7. CASE mmiorsp' = Append(mmiorsp, r) /\ afu_reads' = afu_reads
      <3>1. Replied' = Replied \cup {r} /\ AtAfu' = AtAfu
        BY <1>0, <2>6, <2>7, ElemsAppend DEF Replied, AtAfu, Elems
      <3>2. QED  BY <1>2, <2>2, <2>4, <2>6, <3>1 DEF Flying
    <2>8. CASE mmiorsp' = mmiorsp /\ afu_reads' = afu_reads \cup {p}
      <3>1. Replied' = Replied /\ AtAfu' = AtAfu \cup {p}
        BY <2>8 DEF Replied, AtAfu, Elems
      <3>2. QED  BY <1>2, <2>2, <2>4, <3>1 DEF Flying
    <2>9. QED  BY <1>6, <2>1, <2>5, <2>7, <2>8 DEF SendToAfu
  <1>7. ASSUME NEW p \in afu_reads, CompleteRead(p)
        PROVE  /\ \A e \in Flying : \E f \in Flying' : f.slot_idx = e.slot_idx
               /\ \A f \in Flying' : \E e \in Flying :
                    f.slot_idx = e.slot_idx /\ f.write_en = e.write_en
    <2>1. p \in Packets /\ rs_tid[p.slot_idx] \in Tids
      BY <1>0 DEF TypeOK, Packets
    <2>2. PICK r : r = Response(p, rs_tid[p.slot_idx])
      OBVIOUS
    <2>3. r \in Responses /\ r.slot_idx = p.slot_idx /\ r.write_en = p.write_en
      BY <1>4, <2>1, <2>2
    <2>4. /\ mmiorsp' = Append(mmiorsp, r) /\ afu_reads' = afu_reads \ {p}
          /\ UNCHANGED <<mmioreq, mmio_req_list>>
      BY <1>7, <2>2 DEF CompleteRead
    <2>5. /\ Replied' = Replied \cup {r} /\ AtAfu' = AtAfu \ {p}
          /\ Posted' = Posted /\ Listed' = Listed
      BY <1>0, <2>3, <2>4, ElemsAppend DEF Replied, AtAfu, Posted, Listed, Elems
    <2>6. QED  BY <1>2, <2>3, <2>5 DEF Flying, AtAfu
  <1>8. QED  BY <1>5, <1>6, <1>7

\* The watcher takes a response, and leaves the line of a read to the read that
\* waits; the line of a write is free.
LEMMA CreditWatcher ==
    ASSUME IInv, IInv', CreditInv, WatcherStep
    PROVE  CreditInv'
  <1>0. /\ TypeOK /\ OnePlace /\ mmiorsp \in Seq(Responses) /\ Distinct(mmiorsp)
        /\ tx_flag \in [Slots -> BOOLEAN] /\ rx_flag \in [Slots -> BOOLEAN]
    BY DEF IInv, TInv, TypeOK, OnePlace
  <1>1. /\ UNCHANGED <<pc, op, slot, mmioreq, sim>>
        /\ Posted' = Posted /\ Listed' = Listed /\ AtAfu' = AtAfu
    BY DEF WatcherStep, WatcherRecv, WatcherReadData, WatcherReadTx,
           WatcherReadRx, WatcherWriteTx, WatcherWriteRx, args, pipes, sim,
           Posted, Listed, AtAfu, Elems
  <1>2. \A u \in Threads : /\ HoldsLine(u)' <=> HoldsLine(u)
                           /\ Reading(u)' <=> Reading(u)
                           /\ ReadCall(u)' <=> ReadCall(u)
    BY <1>1 DEF HoldsLine, Reading, ReadCall, InCall
  <1>3. CASE WatcherRecv
    <2>1. PICK h : h = Head(mmiorsp)
      OBVIOUS
    <2>2. /\ h \in Replied /\ Replied' \subseteq Replied
          /\ \A e \in Replied : e # h => e \in Replied'
      <3>1. mmiorsp # << >> /\ mmiorsp' = Tail(mmiorsp)
        BY <1>3 DEF WatcherRecv
      <3>2. Replied' = Elems(Tail(mmiorsp))
        BY <3>1 DEF Replied, Elems
      <3>3. QED  BY <1>0, <2>1, <3>1, <3>2, ElemsTail DEF Replied
    <2>3. Applied = {} /\ Applied' = {h} /\ UNCHANGED <<tx_flag, rx_flag>>
      <3>1. fatal' # "bad_slot"
        BY DEF IInv, NeverLosesTrack
      <3>2. QED  BY <1>3, <2>1, <3>1 DEF WatcherRecv, Applied, Applying, table
    <2>4. /\ \A p \in Flying : \E e \in Flying' : e.slot_idx = p.slot_idx
          /\ \A e \in Flying' : \E p \in Flying :
               e.slot_idx = p.slot_idx /\ e.write_en = p.write_en
      BY <1>1, <2>2, <2>3 DEF Flying
    <2>5. QED  BY <1>1, <1>2, <2>3, <2>4, CreditMove
  <1>4. CASE WatcherReadRx \/ WatcherWriteTx
    <2>1. /\ Applying /\ ~Applying' /\ mmiorsp' = mmiorsp
          /\ WatcherReadRx => /\ tx_flag' = tx_flag /\ ~wpkt.write_en
                              /\ rx_flag' = [rx_flag EXCEPT ![wslot] = TRUE]
          /\ WatcherWriteTx => /\ tx_flag' = [tx_flag EXCEPT ![wslot] = FALSE]
                               /\ rx_flag' = rx_flag
      BY <1>4 DEF WatcherReadRx, WatcherWriteTx, Applying, pipes, IInv, WatcherInv
    <2>2. /\ wpkt \in Flying /\ wslot \in Slots /\ wslot = wpkt.slot_idx
          /\ Applied = {wpkt}
      BY <2>1, ApplyingFacts
    <2>3. Applied' = {} /\ Replied' = Replied
      BY <2>1 DEF Applied, Replied, Elems
    <2>4. /\ Flying' \subseteq Flying
          /\ \A p \in Flying : p.slot_idx # wslot => p \in Flying'
      BY <1>1, <2>2, <2>3 DEF Flying
    <2>5. \A s \in Slots : s # wslot =>
              tx_flag'[s] = tx_flag[s] /\ rx_flag'[s] = rx_flag[s]
      BY <1>0, <1>4, <2>1, <2>2
    <2>6. WatcherReadRx => \E u \in Threads : Reading(u) /\ slot[u] = wslot
      BY <2>1, <2>2 DEF CreditInv, ReaderWaits
    <2>7. \A u \in Threads : Reading(u) => HoldsLine(u) /\ ReadCall(u)
      BY DEF Reading, HoldsLine, ReadCall, InCall
    <2>8. tx_flag'[wslot] => \E u \in Threads : slot[u] = wslot /\ HoldsLine(u)
      BY <1>0, <1>4, <2>1, <2>2, <2>6, <2>7
    <2>9. LineClaimed'
      BY <1>1, <1>2, <2>4, <2>5, <2>8 DEF CreditInv, LineClaimed
    <2>10. ReaderWaits'
      BY <1>1, <1>2, <2>4 DEF CreditInv, ReaderWaits
    <2>11. RxClaimed'
      <3>1. CASE WatcherWriteTx
        BY <1>1, <1>2, <2>1, <3>1 DEF CreditInv, RxClaimed
      <3>2. CASE WatcherReadRx
        BY <1>1, <1>2, <2>5, <2>6, <2>7, <3>2 DEF CreditInv, RxClaimed
      <3>3. QED  BY <1>4, <3>1, <3>2
    <2>12. QED  BY <2>9, <2>10, <2>11 DEF CreditInv
  <1>5. CASE WatcherReadData \/ WatcherReadTx \/ WatcherWriteRx
    <2>1. UNCHANGED <<tx_flag, mmiorsp>> /\ (Applying' <=> Applying) /\ wpkt' = wpkt
      <3>1. CASE WatcherReadTx
        <4>1. tx_flag[wslot] /\ wslot \in Slots
          BY <3>1, ApplyingFacts DEF WatcherReadTx, Applying
        <4>2. QED  BY <1>0, <3>1, <4>1 DEF WatcherReadTx, Applying, pipes
      <3>2. QED
        BY <1>5, <3>1 DEF WatcherReadData, WatcherWriteRx, Applying, pipes
    <2>2. \A s \in Slots : rx_flag'[s] => rx_flag[s]
      <3>1. rx_flag \in [Slots -> BOOLEAN]
        BY <1>0 DEF TypeOK
      <3>2. QED
        BY <1>5, <3>1 DEF WatcherReadData, WatcherReadTx, WatcherWriteRx
    <2>3. Flying' = Flying
      BY <1>1, <2>1 DEF Flying, Replied, Applied, Elems
    <2>4. QED  BY <1>1, <1>2, <2>1, <2>2, <2>3, CreditMove
  <1>6. QED  BY <1>3, <1>4, <1>5 DEF WatcherStep

\* Every step keeps the credits.
LEMMA CreditStep ==
    ASSUME IInv, IInv', CreditInv, [Next]_vars
    PROVE  CreditInv'
  <1>0. TypeOK
    BY DEF IInv, TInv
  <1>1. ASSUME NEW t \in Threads, NEW o \in {"read", "write"},
               NEW prt \in Ports, LockPort(t, o, prt)
        PROVE  CreditInv'
    <2>1. /\ pc[t] = "idle"
          /\ UNCHANGED <<tx_flag, rx_flag, slot, pipes, sim, watcher>>
          /\ \A u \in Threads : u # t => pc'[u] = pc[u] /\ op'[u] = op[u]
      BY <1>0, <1>1 DEF LockPort, At, GoTo, TypeOK, table
    <2>2. QED  BY <2>1, CreditCall DEF HoldsLine, Reading, ReadCall, InCall
  <1>2. ASSUME NEW t \in Threads, GenerateTid(t) \/ UnlockPort(t) \/ ClearRx(t)
        PROVE  CreditInv'
    <2>1. /\ pc[t] \in {"gen", "clear_rx"} \/ (pc[t] = "unlock" /\ pc'[t] =
                  IF op[t] = "write" THEN "idle" ELSE "wait")
          /\ UNCHANGED <<tx_flag, op, slot, pipes, sim, watcher>>
          /\ \A u \in Threads : u # t => pc'[u] = pc[u]
          /\ \A s \in Slots : rx_flag'[s] => rx_flag[s]
          /\ pc[t] = "clear_rx" => ~rx_flag'[slot[t]]
          /\ pc[t] = "gen" => pc'[t] = "find"
      BY <1>0, <1>2 DEF GenerateTid, UnlockPort, ClearRx, At, GoTo, TypeOK, table,
                        args
    <2>2. QED  BY <2>1, CreditCall DEF HoldsLine, Reading, ReadCall, InCall
  <1>3. CASE OpenAfu \/ (\E t \in Threads : NoSlotLeft(t)) \/ UNCHANGED vars
    <2>1. UNCHANGED <<tx_flag, rx_flag, pc, op, slot, pipes, sim, watcher>>
      BY <1>3 DEF OpenAfu, NoSlotLeft, vars, table, args
    <2>2. QED  BY <2>1, CreditCall DEF HoldsLine, Reading, ReadCall, InCall
  <1>4. ASSUME NEW t \in Threads, ThreadStep(t)
        PROVE  CreditInv'
    BY <1>2, <1>3, <1>4, CreditFind, CreditPut, CreditTake, CreditClear
       DEF ThreadStep
  <1>5. QED
    BY <1>1, <1>3, <1>4, CreditSim, CreditWatcher DEF Next, Finished

\* The port keeps its inductive invariant as long as no request stays unfinished
\* while 2^MMIO_TID_BITWIDTH others are made: each request is in one place, its
\* line waits for it and is the first the watcher finds by its id, and the data
\* a line holds is the answer to the read that waits on it.
LEMMA Invariance == Spec /\ []IdsRecent => [](IInv /\ CreditInv)
  <1>1. Init => IInv /\ CreditInv
    <2>1. Init => CreditInv
      BY DEF Init, CreditInv, LineClaimed, ReaderWaits, RxClaimed, Flying, Posted,
             Listed, AtAfu, Replied, Applied, Applying, Elems
    <2>2. QED  BY <2>1, TypeInit, InvInit
  <1>2. IdsRecent /\ IInv /\ CreditInv /\ [Next]_vars => (IInv /\ CreditInv)'
    BY InvStep, CreditStep
  <1>3. QED  BY <1>1, <1>2, PTL DEF Spec

\* mmio_read32/64 return the AFU's answer to this very read, for any number of
\* threads, lines and requests and in any interleaving, as long as no request
\* stays unfinished while 2^MMIO_TID_BITWIDTH others are made.
THEOREM ReadsCorrect == Spec /\ []IdsRecent => []ReadReturnsOwnData
  <1>1. IInv => ReadReturnsOwnData
    BY DEF IInv, ReadLine, ReadLineOf, ReadReturnsOwnData
  <1>2. QED  BY <1>1, Invariance, PTL

\* Under the same hypothesis the error branches "MMIO response has no slot",
\* "read slot is busy" and "completion for a tag that is not active" are never
\* taken.
THEOREM TrackKept == Spec /\ []IdsRecent => []NeverLosesTrack
  <1>1. IInv => NeverLosesTrack
    BY DEF IInv
  <1>2. QED  BY <1>1, Invariance, PTL

\* Under the same hypothesis two calls never own the same line, although a read
\* gives its line back without the lock, and tx_flag before rx_flag.
THEOREM OwnersDiffer == Spec /\ []IdsRecent => []SlotOwnedOnce
  <1>1. IInv => SlotOwnedOnce
    BY DEF IInv
  <1>2. QED  BY <1>1, Invariance, PTL

\* Under the same hypothesis no credit leaks and none is given back too early: a
\* line is in use exactly while its request is posted, in flight or read
\* (mmio_request_put, mmio_response_watcher, mmio_read32/64).
THEOREM CreditsKept == Spec /\ []IdsRecent => []NoCreditLeak
  <1>1. IInv /\ CreditInv => NoCreditLeak
    <2> SUFFICES ASSUME IInv, CreditInv, NEW s \in Slots
                 PROVE  tx_flag[s] <=> \/ InFlight(s)
                                       \/ \E t \in Threads : slot[t] = s /\ HoldsLine(t)
      BY DEF NoCreditLeak
    <2>1. InFlight(s) <=> \E p \in Flying : p.slot_idx = s
      BY DEF InFlight, Flying, Posted, Listed, AtAfu, Replied, Applied, Elems
    <2>2. ASSUME NEW p \in Flying, p.slot_idx = s
          PROVE  tx_flag[s]
      BY <2>2 DEF IInv, LineWaits
    <2>3. ASSUME NEW t \in Threads, slot[t] = s, HoldsLine(t)
          PROVE  tx_flag[s]
      BY <2>3 DEF IInv, HoldsLine, Newest, NewestOf, ReadLine, ReadLineOf, Reading
    <2>4. QED  BY <2>1, <2>2, <2>3 DEF CreditInv, LineClaimed
  <1>2. QED  BY <1>1, Invariance, PTL

=============================================================================

---------------------------- MODULE PcieSsProofs ----------------------------
(***************************************************************************)
(* Proofs about PcieSsStream: for every number of tags, every width of the *)
(* bus, every length of requests and every completion boundary.            *)
(*                                                                         *)
(* A read passes through four places: the two pipes (Flying), the response *)
(* that is being cut up (split), and the list of completions.  The numbers *)
(* of the reads in the pipes are above the number in split, and that one   *)
(* is at or above the numbers on the list; so a state that is freed, or    *)
(* taken, is the state of one place only.  ReadInv says so, together with  *)
(* what is known of the words of every completion.                         *)
(***************************************************************************)
EXTENDS PcieSsStream, TLAPS, FiniteSetTheorems, SequenceTheorems

Owns(t, n) == busy[t] /\ owner[t] = n /\ start_cycle[t] = Cycle

\* The reads in the two pipes.
Flying == {rd_rsp[k] : k \in 1 .. Len(rd_rsp)}
            \cup {rd_req[k] : k \in 1 .. Len(rd_req)}

PipeMsgs == [tag : Tags, n : Reads]
ReadRecs == [kind : {"read", "fence", "atomic"}, len : Nat \ {0}, dm : BOOLEAN,
             after : Nat]

ReadType ==
    /\ busy \in [Tags -> BOOLEAN]
    /\ owner \in [Tags -> {NoRead} \cup Reads]
    /\ start_cycle \in [Tags -> Tags \cup {Null, Cycle}]
    /\ dma_read_state_free_head \in Tags \cup {Null}
    /\ dma_read_cpl \in Seq(Cpls)
    /\ dma_read_cpl_dw_rem \in Nat
    /\ split \in [n : {NoRead} \cup Reads, tag : Tags, start : Nat, rem : Nat]
    /\ rd_req \in Seq(PipeMsgs)
    /\ rd_rsp \in Seq(PipeMsgs)
    /\ reqs \in Seq(ReadRecs)
    /\ Len(reqs) <= MaxReads
    /\ got \in [Reads -> Nat]
    /\ wrote \in Nat

\* A response is being cut up in one phase of the cycle only; an atomic request
\* whose operands have not arrived will be recorded.
Places ==
    /\ split.n # NoRead <=> phase = "split"
    /\ afu_to_host_state = "MRD" => Len(reqs) < MaxReads
    /\ dma_read_cpl_dw_rem > 0 =>
         /\ dma_read_cpl # << >>
         /\ dma_read_cpl_dw_rem <= dma_read_cpl[1].len

\* The field of an idle state is no cycle number.
IdleLinked ==
    TagMapper => \A t \in Tags : ~busy[t] => start_cycle[t] # Cycle

\* The pipes keep the order of the requests.
Fifo ==
    /\ \A i, j \in 1 .. Len(rd_req) : i < j => rd_req[i].n < rd_req[j].n
    /\ \A i, j \in 1 .. Len(rd_rsp) : i < j => rd_rsp[i].n < rd_rsp[j].n
    /\ \A i \in 1 .. Len(rd_rsp), j \in 1 .. Len(rd_req) :
         rd_rsp[i].n < rd_req[j].n

FlyingLive ==
    \A m \in Flying :
      /\ Owns(m.tag, m.n) /\ m.n <= Len(reqs) /\ got[m.n] = 0
      /\ split.n < m.n
      /\ \A i \in 1 .. Len(dma_read_cpl) : dma_read_cpl[i].n < m.n

SplitLive ==
    split.n # NoRead =>
      /\ Owns(split.tag, split.n) /\ split.n <= Len(reqs)
      /\ split.rem > 0 /\ split.start + split.rem = reqs[split.n].len
      /\ \A i \in 1 .. Len(dma_read_cpl) :
           /\ dma_read_cpl[i].n <= split.n
           /\ dma_read_cpl[i].n = split.n =>
                dma_read_cpl[i].tag = split.tag /\ CplEnd(i) <= split.start
      /\ (\A i \in 1 .. Len(dma_read_cpl) : dma_read_cpl[i].n # split.n) =>
           got[split.n] = split.start

Ranges ==
    \A i \in 1 .. Len(dma_read_cpl) :
      /\ dma_read_cpl[i].n <= Len(reqs)
      /\ CplEnd(i) <= reqs[dma_read_cpl[i].n].len
      /\ dma_read_cpl[i].is_last <=> CplEnd(i) = reqs[dma_read_cpl[i].n].len

NoOverlap ==
    \A i, j \in 1 .. Len(dma_read_cpl) :
      i < j /\ SameRead(i, j) => CplEnd(i) <= dma_read_cpl[j].start

FromNext ==
    \A i \in 1 .. Len(dma_read_cpl) :
      (\A k \in 1 .. i - 1 : ~SameRead(k, i)) =>
        got[dma_read_cpl[i].n] = dma_read_cpl[i].start + Sent(i)

NoGap ==
    \A i, j \in 1 .. Len(dma_read_cpl) :
      /\ i < j /\ SameRead(i, j)
      /\ \A k \in i + 1 .. j - 1 : ~SameRead(i, k)
      => CplEnd(i) = dma_read_cpl[j].start

ToEnd ==
    \A i \in 1 .. Len(dma_read_cpl) :
      (\A k \in i + 1 .. Len(dma_read_cpl) : ~SameRead(i, k)) =>
        CplEnd(i) = IF split.n = dma_read_cpl[i].n THEN split.start
                    ELSE reqs[dma_read_cpl[i].n].len

Unasked == \A n \in Reads : n > Len(reqs) => got[n] = 0

\* No read is lost: it is complete or in one of the places.
Accounted ==
    err = "none" =>
      \A n \in 1 .. Len(reqs) :
        \/ got[n] = reqs[n].len
        \/ \E i \in 1 .. Len(dma_read_cpl) : dma_read_cpl[i].n = n
        \/ split.n = n
        \/ \E m \in Flying : m.n = n

\* With ordered completions the list is in the order of the requests.
InOrder ==
    Ordered => \A i, j \in 1 .. Len(dma_read_cpl) :
                 i < j => dma_read_cpl[i].n <= dma_read_cpl[j].n

NeverWrong == afu_err \notin {"wrong_header", "out_of_order"}

ReadInv ==
    /\ ReadType /\ Places /\ IdleLinked /\ Fifo /\ FlyingLive /\ SplitLive /\ CplStateLive
    /\ Ranges /\ NoOverlap /\ FromNext /\ NoGap /\ ToEnd /\ Unasked
    /\ Accounted /\ InOrder /\ NeverWrong

\* The stream to the AFU between two beats: which counter is not 0 and what
\* the AFU has still to receive.
FrameInv ==
    /\ SoftReset # "off" => num_reset > 0
    /\ num_reset \in Nat
    /\ num_reset = 0 =>
         /\ afu_err \notin {"interrupted", "headless"}
         /\ \/ /\ host_to_afu_state = "SOP"
               /\ mmio_req_dw_rem = 0 /\ dma_read_cpl_dw_rem = 0
               /\ rx = NoPacket
            \/ /\ host_to_afu_state = "MWR"
               /\ mmio_req_dw_rem > 0 /\ dma_read_cpl_dw_rem = 0
               /\ mmio_req # << >>
               /\ rx = [n |-> NoRead, kind |-> "mmio", left |-> mmio_req_dw_rem]
            \/ /\ host_to_afu_state = "CPL"
               /\ mmio_req_dw_rem = 0 /\ dma_read_cpl_dw_rem > 0
               /\ rx = [n |-> dma_read_cpl[1].n, kind |-> "cpl",
                        left |-> dma_read_cpl_dw_rem]
    /\ mmio_req \in Seq(MmioLens) /\ mmio_req_dw_rem \in Nat

\* The states `idle' form a list from `head' through `next', numbered by `rank'
\* from their count at the head down to 1.
Linked(idle, head, next, rank) ==
    /\ IF idle = {} THEN head = Null
       ELSE head \in idle /\ rank[head] = Cardinality(idle)
    /\ \A t \in idle :
         /\ rank[t] \in 1 .. Cardinality(idle)
         /\ IF rank[t] = 1 THEN next[t] = Null
            ELSE next[t] \in idle /\ rank[next[t]] = rank[t] - 1
    /\ \A t, u \in idle : rank[t] = rank[u] => t = u

Idle == {t \in Tags : ~busy[t]}

\* What the free list and the tags of the AFU promise a read.
TagInv ==
    /\ TagMapper => \E rank \in [Tags -> 0 .. NumTags] :
                      Linked(Idle, dma_read_state_free_head, start_cycle, rank)
    /\ TagMapper => err = "none" /\ (tready => dma_read_state_free_head # Null)
    /\ ~TagMapper /\ num_reset = 0 =>
         err = "none" /\ \A t \in Tags : busy[t] => t \in afu_tags

-----------------------------------------------------------------------------
(* The operators of the model. *)

\* InsertAfter puts its element behind the first p (push_new_read_cpl).
LEMMA InsertProps ==
    ASSUME NEW s \in Seq(Cpls), NEW e \in Cpls, NEW p \in 0 .. Len(s)
    PROVE  /\ InsertAfter(s, p, e) \in Seq(Cpls)
           /\ Len(InsertAfter(s, p, e)) = Len(s) + 1
           /\ \A i \in 1 .. p : InsertAfter(s, p, e)[i] = s[i]
           /\ InsertAfter(s, p, e)[p + 1] = e
           /\ \A i \in p + 2 .. Len(s) + 1 :
                InsertAfter(s, p, e)[i] = s[i - 1]
  <1> DEFINE r == InsertAfter(s, p, e)
  <1>a. Len(s) \in Nat /\ p \in Nat /\ p <= Len(s)
    BY LenProperties
  <1> DEFINE x == SubSeq(s, 1, p)
             y == SubSeq(s, p + 1, Len(s))
  <1>1. x \in Seq(Cpls) /\ Len(x) = p /\ \A i \in 1 .. p : x[i] = s[i]
    BY <1>a
  <1>2. /\ y \in Seq(Cpls) /\ Len(y) = Len(s) - p
        /\ \A i \in 1 .. Len(s) - p : y[i] = s[p + i]
    BY <1>a
  <1>3. /\ x \o <<e>> \in Seq(Cpls) /\ Len(x \o <<e>>) = p + 1
        /\ \A i \in 1 .. p : (x \o <<e>>)[i] = s[i]
        /\ (x \o <<e>>)[p + 1] = e
    <2> HIDE DEF x
    <2> QED
      BY <1>1, <1>a
  <1> DEFINE z == x \o <<e>>
  <1>4. r = z \o y
    BY DEF InsertAfter
  <1> HIDE DEF r
  <1>5. \A i \in p + 2 .. Len(s) + 1 : r[i] = y[i - (p + 1)]
    <2> HIDE DEF x, y
    <2> QED
      BY <1>1, <1>2, <1>3, <1>4, <1>a
  <1>6. ASSUME NEW i \in p + 2 .. Len(s) + 1
        PROVE  r[i] = s[i - 1]
    <2>1. i - (p + 1) \in 1 .. Len(s) - p /\ p + (i - (p + 1)) = i - 1
      BY <1>a
    <2> HIDE DEF y
    <2> QED
      BY <2>1, <1>5, <1>2
  <1>7. /\ r \in Seq(Cpls) /\ Len(r) = Len(s) + 1
        /\ \A i \in 1 .. p + 1 : r[i] = z[i]
    <2>1. z \in Seq(Cpls) /\ Len(z) = p + 1
      BY <1>3
    <2> HIDE DEF y, z
    <2> QED
      BY <2>1, <1>2, <1>4, <1>a
  <1> QED
    BY <1>3, <1>6, <1>7, <1>a DEF r

\* A completion brings at least one word and no more than remain
\* (random_cpl_length).
LEMMA CplLengthsRange ==
    ASSUME NEW rem \in Nat \ {0}, NEW dm, NEW len \in CplLengths(rem, dm)
    PROVE  len \in 1 .. rem
  <1>1. CASE len = rem
    BY <1>1
  <1>2. CASE len # rem
    <2>1. PICK k \in 1 .. MaxChunks : len = Smaller(rem, k * RcbDw)
      BY <1>2 DEF CplLengths
    <2>2. k * RcbDw \in Nat /\ k * RcbDw >= 1
      BY WidthAssumption
    <2> QED
      BY <2>1, <2>2 DEF Smaller
  <1> QED
    BY <1>1, <1>2

\* A completion goes behind the head and behind those of its own request, and
\* to the end when completions are ordered (push_new_read_cpl).
LEMMA CplPositionsRange ==
    ASSUME dma_read_cpl \in Seq(Cpls), NEW t \in Tags, NEW p \in CplPositions(t)
    PROVE  /\ p \in 0 .. Len(dma_read_cpl)
           /\ Len(dma_read_cpl) > 0 => p >= 1
           /\ \A i \in 1 .. Len(dma_read_cpl) :
                dma_read_cpl[i].tag = t => i <= p
           /\ Ordered => p = Len(dma_read_cpl)
  BY LenProperties DEF CplPositions, Smaller

-----------------------------------------------------------------------------
(* The places of a read. *)

\* The invariant holds when the emulator starts (pcie_ss_param_init).
LEMMA ReadInit == Init => ReadInv
  <1> SUFFICES ASSUME Init
               PROVE  ReadInv
    OBVIOUS
  <1>1. 0 \in Tags
    BY TagsAssumption DEF Tags
  <1>2. ReadType
    <2>1. \A t \in Tags : t # NumTags - 1 => t + 1 \in Tags
      BY TagsAssumption DEF Tags
    <2>2. start_cycle \in [Tags -> Tags \cup {Null, Cycle}]
      BY <2>1 DEF Init
    <2>3. << >> \in Seq(Cpls) /\ << >> \in Seq(PipeMsgs) /\ << >> \in Seq(ReadRecs)
      OBVIOUS
    <2>4. /\ busy \in [Tags -> BOOLEAN]
          /\ owner \in [Tags -> {NoRead} \cup Reads]
          /\ got \in [Reads -> Nat]
      BY DEF Init
    <2> QED
      BY <1>1, <2>2, <2>3, <2>4, BoundAssumption
      DEF Init, ReadType, NoSplit, NoRead
  <1>3. Flying = {}
    BY DEF Init, Flying
  <1>4. IdleLinked
    BY TagsAssumption DEF Init, IdleLinked, Tags, Cycle, Null
  <1> QED
    BY <1>2, <1>3, <1>4
    DEF Init, ReadInv, Places, Fifo, FlyingLive, SplitLive, CplStateLive,
        Ranges, NoOverlap, FromNext, NoGap, ToEnd, Unasked, Accounted, InOrder,
        NeverWrong, NoSplit, NoRead, Reads

\* The fields of a completion on the list, and of a request.
LEMMA CplTyped ==
    ASSUME ReadType, NEW i \in 1 .. Len(dma_read_cpl)
    PROVE  /\ dma_read_cpl[i] \in Cpls
           /\ dma_read_cpl[i].tag \in Tags /\ dma_read_cpl[i].n \in Reads
           /\ dma_read_cpl[i].n \in Nat /\ dma_read_cpl[i].n # NoRead
           /\ dma_read_cpl[i].start \in Nat /\ dma_read_cpl[i].len \in Nat
           /\ dma_read_cpl[i].len > 0 /\ dma_read_cpl[i].is_last \in BOOLEAN
           /\ CplEnd(i) \in Nat /\ CplEnd(i) > dma_read_cpl[i].start
  <1>1. dma_read_cpl[i] \in Cpls
    BY DEF ReadType
  <1> QED
    BY <1>1, BoundAssumption DEF Cpls, Reads, NoRead, CplEnd

\* The length of a request that has been made.
LEMMA ReqTyped ==
    ASSUME ReadType, NEW n \in Reads, n <= Len(reqs)
    PROVE  n \in 1 .. Len(reqs) /\ reqs[n].len \in Nat /\ reqs[n].len > 0
  <1>1. n \in 1 .. Len(reqs)
    BY BoundAssumption, LenProperties DEF ReadType, Reads
  <1>2. reqs[n] \in ReadRecs
    BY <1>1 DEF ReadType
  <1> QED
    BY <1>1, <1>2 DEF ReadRecs

\* A read in the pipes.
LEMMA FlyingTyped ==
    ASSUME ReadType, NEW x \in Flying
    PROVE  /\ x \in PipeMsgs /\ x.tag \in Tags /\ x.n \in Reads
           /\ x.n \in Nat /\ x.n > 0
  <1>1. x \in PipeMsgs
    <2>1. CASE \E k \in 1 .. Len(rd_rsp) : x = rd_rsp[k]
      BY <2>1 DEF ReadType
    <2>2. CASE \E k \in 1 .. Len(rd_req) : x = rd_req[k]
      BY <2>2 DEF ReadType
    <2> QED
      BY <2>1, <2>2 DEF Flying
  <1> QED
    BY <1>1, BoundAssumption DEF PipeMsgs, Reads

\* A step that touches no read.
Quiet ==
    /\ UNCHANGED <<states, cpls, split, rd_req, rd_rsp, reqs, got, err>>
    /\ phase' = "split" <=> phase = "split"
    /\ wrote' \in {wrote, wrote + 1}
    /\ afu_to_host_state' = "MRD" =>
         afu_to_host_state = "MRD" \/ Len(reqs) < MaxReads
    /\ NeverWrong'

\* Such a step preserves the invariant.
LEMMA QuietStep == ReadInv /\ Quiet => ReadInv'
  <1> SUFFICES ASSUME ReadInv, Quiet
               PROVE  ReadInv'
    OBVIOUS
  <1> USE DEF Quiet, ReadInv, states, cpls
  <1>1. ReadType'
    BY DEF ReadType
  <1>2. Places' /\ IdleLinked'
    BY DEF Places, IdleLinked
  <1>3. Flying' = Flying
    BY DEF Flying
  <1>4. Fifo' /\ FlyingLive' /\ SplitLive'
    BY <1>3 DEF Fifo, FlyingLive, SplitLive, Owns, CplEnd
  <1>5. CplStateLive' /\ Ranges' /\ NoOverlap' /\ FromNext' /\ NoGap' /\ ToEnd'
    BY DEF CplStateLive, Ranges, NoOverlap, FromNext, NoGap, ToEnd, SameRead,
           CplEnd, Sent
  <1>6. Unasked' /\ Accounted' /\ InOrder' /\ NeverWrong'
    BY <1>3 DEF Unasked, Accounted, InOrder
  <1> QED
    BY <1>1, <1>2, <1>4, <1>5, <1>6

\* The read watcher moves a read from one pipe to the other.
LEMMA RdWatcherStep == ReadInv /\ RdWatcher => ReadInv'
  <1> SUFFICES ASSUME ReadInv, RdWatcher
               PROVE  ReadInv'
    OBVIOUS
  <1> USE DEF ReadInv
  <1>a. /\ rd_req \in Seq(PipeMsgs) /\ rd_rsp \in Seq(PipeMsgs)
        /\ rd_req # << >> /\ Len(rd_req) \in Nat /\ Len(rd_rsp) \in Nat
    BY DEF ReadType, RdWatcher
  <1>b. rd_req' = Tail(rd_req) /\ rd_rsp' = Append(rd_rsp, Head(rd_req))
    BY DEF RdWatcher
  <1>c. /\ UNCHANGED <<states, cpls, split, reqs, got, err, phase, wrote>>
        /\ UNCHANGED <<afu_to_host_state, afu_err>>
    BY DEF RdWatcher, fsm, afu_tx, afu_rx
  <1>d. /\ Len(rd_req') = Len(rd_req) - 1
        /\ \A k \in 1 .. Len(rd_req) - 1 : rd_req'[k] = rd_req[k + 1]
        /\ Len(rd_rsp') = Len(rd_rsp) + 1
        /\ \A k \in 1 .. Len(rd_rsp) : rd_rsp'[k] = rd_rsp[k]
        /\ rd_rsp'[Len(rd_rsp) + 1] = rd_req[1]
        /\ rd_req' \in Seq(PipeMsgs) /\ rd_rsp' \in Seq(PipeMsgs)
        /\ Len(rd_req) >= 1
    BY <1>a, <1>b
  <1>1. ReadType'
    BY <1>c, <1>d DEF ReadType, states, cpls
  <1>2. Places' /\ IdleLinked'
    BY <1>c DEF Places, cpls, IdleLinked, states
  <1>3. Flying' = Flying
    <2>1. ASSUME NEW m \in Flying'
          PROVE  m \in Flying
      <3>1. CASE \E k \in 1 .. Len(rd_rsp') : m = rd_rsp'[k]
        <4>1. 1 \in 1 .. Len(rd_req)
          BY <1>a, <1>d
        <4>2. PICK k \in 1 .. Len(rd_rsp') : m = rd_rsp'[k]
          BY <3>1
        <4>3. k \in 1 .. Len(rd_rsp) \/ k = Len(rd_rsp) + 1
          BY <4>2, <1>a, <1>d
        <4>4. (\E i \in 1 .. Len(rd_rsp) : m = rd_rsp[i]) \/ m = rd_req[1]
          BY <4>2, <4>3, <1>d
        <4> QED
          BY <4>1, <4>4 DEF Flying
      <3>2. CASE \E k \in 1 .. Len(rd_req') : m = rd_req'[k]
        <4>1. PICK k \in 1 .. Len(rd_req') : m = rd_req'[k]
          BY <3>2
        <4>2. k + 1 \in 1 .. Len(rd_req) /\ m = rd_req[k + 1]
          BY <4>1, <1>a, <1>d
        <4> QED
          BY <4>2 DEF Flying
      <3> QED
        BY <3>1, <3>2 DEF Flying
    <2>2. ASSUME NEW m \in Flying
          PROVE  m \in Flying'
      <3>1. CASE \E k \in 1 .. Len(rd_rsp) : m = rd_rsp[k]
        BY <3>1, <1>a, <1>d DEF Flying
      <3>2. CASE m = rd_req[1]
        <4>1. Len(rd_rsp) + 1 \in 1 .. Len(rd_rsp')
          BY <1>a, <1>d
        <4> QED
          BY <4>1, <3>2, <1>d DEF Flying
      <3>3. CASE \E k \in 2 .. Len(rd_req) : m = rd_req[k]
        <4>1. PICK k \in 2 .. Len(rd_req) : m = rd_req[k]
          BY <3>3
        <4>2. k - 1 \in 1 .. Len(rd_req) - 1 /\ (k - 1) + 1 = k
          BY <1>a
        <4>3. m = rd_req'[k - 1] /\ k - 1 \in 1 .. Len(rd_req')
          BY <4>1, <4>2, <1>d
        <4> QED
          BY <4>3 DEF Flying
      <3> QED
        BY <3>1, <3>2, <3>3, <1>a DEF Flying
    <2> QED
      BY <2>1, <2>2
  <1>4. Fifo'
    <2>1. ASSUME NEW i \in 1 .. Len(rd_req'), NEW j \in 1 .. Len(rd_req'), i < j
          PROVE  rd_req'[i].n < rd_req'[j].n
      <3>1. /\ i + 1 \in 1 .. Len(rd_req) /\ j + 1 \in 1 .. Len(rd_req)
            /\ i + 1 < j + 1
            /\ rd_req'[i] = rd_req[i + 1] /\ rd_req'[j] = rd_req[j + 1]
        BY <2>1, <1>a, <1>d
      <3> QED
        BY <3>1 DEF Fifo
    <2>2. ASSUME NEW i \in 1 .. Len(rd_rsp'), NEW j \in 1 .. Len(rd_rsp'), i < j
          PROVE  rd_rsp'[i].n < rd_rsp'[j].n
      <3>1. CASE j <= Len(rd_rsp)
        <4>1. /\ i \in 1 .. Len(rd_rsp) /\ j \in 1 .. Len(rd_rsp)
              /\ rd_rsp'[i] = rd_rsp[i] /\ rd_rsp'[j] = rd_rsp[j]
          <5>1. Len(rd_rsp) \in Nat
            BY <1>a
          <5>2. i \in Nat /\ j \in Nat /\ 1 <= i /\ 1 <= j
            BY <1>a, <1>d
          <5>3. i \in 1 .. Len(rd_rsp) /\ j \in 1 .. Len(rd_rsp)
            BY ONLY <5>1, <5>2, <3>1, <2>2
          <5> QED
            BY <5>3, <1>d
        <4> QED
          BY <4>1, <2>2 DEF Fifo
      <3>2. CASE j = Len(rd_rsp) + 1
        <4>1. i \in 1 .. Len(rd_rsp) /\ 1 \in 1 .. Len(rd_req)
          BY <3>2, <2>2, <1>a, <1>d
        <4> QED
          BY <4>1, <3>2, <1>d DEF Fifo
      <3> QED
        BY <3>1, <3>2, <1>a, <1>d
    <2>3. ASSUME NEW i \in 1 .. Len(rd_rsp'), NEW j \in 1 .. Len(rd_req')
          PROVE  rd_rsp'[i].n < rd_req'[j].n
      <3>0. /\ Len(rd_req) \in Nat /\ j \in 1 .. Len(rd_req) - 1
            /\ \A k \in 1 .. Len(rd_req) - 1 : rd_req'[k] = rd_req[k + 1]
        BY <1>a, <1>d
      <3>1. j + 1 \in 1 .. Len(rd_req) /\ rd_req'[j] = rd_req[j + 1] /\ 1 < j + 1
        BY ONLY <3>0
      <3>2. CASE i \in 1 .. Len(rd_rsp)
        BY <3>1, <3>2, <1>d DEF Fifo
      <3>3. CASE i = Len(rd_rsp) + 1
        <4>1. 1 \in 1 .. Len(rd_req) /\ rd_rsp'[i] = rd_req[1]
          BY <3>3, <1>a, <1>d
        <4> QED
          BY <4>1, <3>1 DEF Fifo
      <3> QED
        BY <3>2, <3>3, <1>a, <1>d
    <2> QED
      BY <2>1, <2>2, <2>3 DEF Fifo
  <1>5. FlyingLive' /\ SplitLive'
    BY <1>3, <1>c DEF FlyingLive, SplitLive, Owns, CplEnd, states, cpls
  <1>6. CplStateLive' /\ Ranges' /\ NoOverlap' /\ FromNext' /\ NoGap' /\ ToEnd'
    BY <1>c DEF CplStateLive, Ranges, NoOverlap, FromNext, NoGap, ToEnd,
                SameRead, CplEnd, Sent, states, cpls
  <1>7. Unasked' /\ Accounted' /\ InOrder' /\ NeverWrong'
    BY <1>3, <1>c DEF Unasked, Accounted, InOrder, NeverWrong, states, cpls
  <1> QED
    BY <1>1, <1>2, <1>4, <1>5, <1>6, <1>7

\* A response is taken from its pipe to be cut up.
LEMMA ReceiveReadStep == ReadInv /\ ReceiveRead => ReadInv'
  <1> SUFFICES ASSUME ReadInv, ReceiveRead
               PROVE  ReadInv'
    OBVIOUS
  <1> USE DEF ReadInv
  <1>a. /\ rd_rsp \in Seq(PipeMsgs) /\ rd_rsp # << >>
        /\ Len(rd_rsp) \in Nat /\ Len(rd_rsp) >= 1
    BY EmptySeq, LenProperties DEF ReadType, ReceiveRead
  <1>b. /\ rd_rsp' = Tail(rd_rsp) /\ phase' = "split"
        /\ split' = [n |-> rd_rsp[1].n, tag |-> rd_rsp[1].tag, start |-> 0,
                     rem |-> reqs[owner[rd_rsp[1].tag]].len]
    BY <1>a DEF ReceiveRead
  <1>c. /\ UNCHANGED <<states, cpls, reqs, got, err, wrote, rd_req>>
        /\ UNCHANGED <<afu_to_host_state, afu_err>>
    BY DEF ReceiveRead, fsm, afu_tx, afu_rx
  <1>d. /\ Len(rd_rsp') = Len(rd_rsp) - 1 /\ rd_rsp' \in Seq(PipeMsgs)
        /\ \A k \in 1 .. Len(rd_rsp) - 1 : rd_rsp'[k] = rd_rsp[k + 1]
    BY <1>a, <1>b
  <1> DEFINE m == rd_rsp[1]
  <1>e. m \in Flying /\ m \in PipeMsgs
    BY <1>a DEF Flying
  <1>f. /\ Owns(m.tag, m.n) /\ m.n <= Len(reqs) /\ got[m.n] = 0
        /\ \A i \in 1 .. Len(dma_read_cpl) : dma_read_cpl[i].n < m.n
    BY <1>e DEF FlyingLive
  <1>g. m.n \in Reads /\ m.tag \in Tags /\ m.n # NoRead
    BY <1>e DEF PipeMsgs, Reads, NoRead
  <1>h. reqs[m.n].len \in Nat \ {0}
    BY <1>f, <1>g, ReqTyped
  <1>i. split' = [n |-> m.n, tag |-> m.tag, start |-> 0, rem |-> reqs[m.n].len]
    BY <1>b, <1>f DEF Owns
  <1>1. ReadType'
    BY <1>c, <1>d, <1>g, <1>h, <1>i DEF ReadType, states, cpls
  <1>2. Places' /\ IdleLinked'
    BY <1>b, <1>c, <1>g, <1>i DEF Places, cpls, IdleLinked, states
  <1>3. ASSUME NEW x \in Flying'
        PROVE  x \in Flying /\ m.n < x.n
    <2>1. CASE \E k \in 1 .. Len(rd_rsp') : x = rd_rsp'[k]
      <3>1. PICK k \in 1 .. Len(rd_rsp) - 1 : x = rd_rsp[k + 1]
        BY <2>1, <1>d
      <3>2. k + 1 \in 1 .. Len(rd_rsp) /\ 1 \in 1 .. Len(rd_rsp) /\ 1 < k + 1
        BY <1>a
      <3> QED
        BY <3>1, <3>2 DEF Fifo, Flying
    <2>2. CASE \E k \in 1 .. Len(rd_req) : x = rd_req[k]
      <3>1. 1 \in 1 .. Len(rd_rsp)
        BY <1>a
      <3> QED
        BY <2>2, <3>1 DEF Fifo, Flying
    <2> QED
      BY <2>1, <2>2, <1>c DEF Flying
  <1>4. Fifo'
    <2>1. ASSUME NEW i \in 1 .. Len(rd_rsp')
          PROVE  i + 1 \in 1 .. Len(rd_rsp) /\ rd_rsp'[i] = rd_rsp[i + 1]
      BY <1>a, <1>d
    <2>2. ASSUME NEW i \in 1 .. Len(rd_rsp'), NEW j \in 1 .. Len(rd_rsp'), i < j
          PROVE  rd_rsp'[i].n < rd_rsp'[j].n
      <3>1. i + 1 < j + 1
        BY <2>2, <1>a, <1>d
      <3> QED
        BY <3>1, <2>1 DEF Fifo
    <2>3. ASSUME NEW i \in 1 .. Len(rd_rsp'), NEW j \in 1 .. Len(rd_req)
          PROVE  rd_rsp'[i].n < rd_req[j].n
      BY <2>1 DEF Fifo
    <2> QED
      BY <2>2, <2>3, <1>c DEF Fifo
  <1>5. FlyingLive'
    BY <1>3, <1>c, <1>i DEF FlyingLive, Owns, states, cpls
  <1>6. SplitLive'
    <2>1. \A i \in 1 .. Len(dma_read_cpl) :
            dma_read_cpl[i].n <= m.n /\ dma_read_cpl[i].n # m.n
      BY <1>f, <1>g, CplTyped, BoundAssumption DEF Reads
    <2>2. 0 + reqs[m.n].len = reqs[m.n].len
      BY <1>h
    <2> HIDE DEF m
    <2> QED
      BY <2>1, <2>2, <1>c, <1>f, <1>g, <1>h, <1>i
      DEF SplitLive, Owns, CplEnd, states, cpls
  <1>7. CplStateLive' /\ Ranges' /\ NoOverlap' /\ FromNext' /\ NoGap'
    BY <1>c DEF CplStateLive, Ranges, NoOverlap, FromNext, NoGap,
                SameRead, CplEnd, Sent, states, cpls
  <1>8. ToEnd'
    <2>1. split.n = NoRead
      BY DEF Places, ReceiveRead, Running
    <2>2. \A i \in 1 .. Len(dma_read_cpl) :
            dma_read_cpl[i].n \in Reads /\ dma_read_cpl[i].n # NoRead
      BY CplTyped
    <2>3. \A i \in 1 .. Len(dma_read_cpl) : dma_read_cpl[i].n # m.n
      BY <1>f, <1>g, <2>2 DEF Reads
    <2> QED
      BY <2>1, <2>2, <2>3, <1>c, <1>i DEF ToEnd, SameRead, CplEnd, cpls
  <1>9. Accounted'
    <2>1. ASSUME NEW x \in Flying, x # m
          PROVE  x \in Flying'
      <3>1. CASE \E k \in 1 .. Len(rd_req) : x = rd_req[k]
        BY <3>1, <1>c DEF Flying
      <3>2. CASE \E k \in 2 .. Len(rd_rsp) : x = rd_rsp[k]
        <4>1. PICK k \in 2 .. Len(rd_rsp) : x = rd_rsp[k]
          BY <3>2
        <4>2. k - 1 \in 1 .. Len(rd_rsp) - 1 /\ (k - 1) + 1 = k
          BY <1>a
        <4>3. x = rd_rsp'[k - 1] /\ k - 1 \in 1 .. Len(rd_rsp')
          BY <4>1, <4>2, <1>d
        <4> QED
          BY <4>3 DEF Flying
      <3> QED
        BY <3>1, <3>2, <2>1, <1>a DEF Flying
    <2>2. split.n = NoRead
      BY DEF Places, ReceiveRead, Running
    <2>3. split'.n = m.n
      BY <1>i
    <2> HIDE DEF m
    <2>4. ASSUME NEW n \in 1 .. Len(reqs), split.n = n
          PROVE  FALSE
      BY <2>4, <2>2 DEF NoRead
    <2> QED
      BY <2>1, <2>3, <2>4, <1>c DEF Accounted, cpls
  <1>10. Unasked' /\ InOrder' /\ NeverWrong'
    BY <1>c DEF Unasked, InOrder, NeverWrong, cpls
  <1> QED
    BY <1>1, <1>2, <1>4, <1>5, <1>6, <1>7, <1>8, <1>9, <1>10

\* Where the k-th completion is after one has been put behind the first p.
Shift(p, k) == IF k <= p THEN k ELSE k + 1

\* A completion of the response that is being cut up is put on the list.
LEMMA SplitCplStep == ReadInv /\ SplitCpl => ReadInv'
  <1> SUFFICES ASSUME ReadInv, SplitCpl
               PROVE  ReadInv'
    OBVIOUS
  <1> USE DEF ReadInv
  <1>a. /\ dma_read_cpl \in Seq(Cpls) /\ Len(dma_read_cpl) \in Nat
        /\ split.n \in Reads /\ split.n # NoRead /\ split.n \in Nat
        /\ split.tag \in Tags /\ split.start \in Nat /\ split.rem \in Nat
    <2>1. split.n # NoRead
      BY DEF Places, SplitCpl, Running
    <2>2. split.n \in Reads /\ split.tag \in Tags /\ split.start \in Nat
          /\ split.rem \in Nat
      BY <2>1 DEF ReadType
    <2> QED
      BY <2>1, <2>2, LenProperties, BoundAssumption DEF ReadType, Reads
  <1>b. /\ Owns(split.tag, split.n) /\ split.n <= Len(reqs)
        /\ split.rem > 0 /\ split.start + split.rem = reqs[split.n].len
        /\ \A i \in 1 .. Len(dma_read_cpl) :
             /\ dma_read_cpl[i].n <= split.n
             /\ dma_read_cpl[i].n = split.n =>
                  dma_read_cpl[i].tag = split.tag /\ CplEnd(i) <= split.start
        /\ (\A i \in 1 .. Len(dma_read_cpl) : dma_read_cpl[i].n # split.n) =>
             got[split.n] = split.start
    BY <1>a DEF SplitLive
  <1>c. PICK len \in CplLengths(split.rem, reqs[owner[split.tag]].dm),
             p \in CplPositions(split.tag) :
          /\ dma_read_cpl' = InsertAfter(dma_read_cpl, p,
               [tag |-> split.tag, n |-> split.n, start |-> split.start,
                len |-> len, is_last |-> IsLast(len)])
          /\ IF len = split.rem
               THEN split' = NoSplit /\ phase' = "recv"
               ELSE /\ split' = [split EXCEPT !.start = @ + len, !.rem = @ - len]
                    /\ UNCHANGED phase
    BY DEF SplitCpl
  <1>d. /\ UNCHANGED <<states, dma_read_cpl_dw_rem, reqs, got, err, wrote, rd_req>>
        /\ UNCHANGED <<rd_rsp, afu_to_host_state, afu_err>>
    BY DEF SplitCpl, fsm, afu_tx, afu_rx, pipes
  <1>e. len \in 1 .. split.rem /\ len \in Nat
    BY <1>a, <1>b, CplLengthsRange
  <1>f. /\ p \in 0 .. Len(dma_read_cpl)
        /\ Len(dma_read_cpl) > 0 => p >= 1
        /\ \A i \in 1 .. Len(dma_read_cpl) :
             dma_read_cpl[i].tag = split.tag => i <= p
        /\ Ordered => p = Len(dma_read_cpl)
    BY <1>a, CplPositionsRange
  <1> DEFINE e == [tag |-> split.tag, n |-> split.n, start |-> split.start,
                   len |-> len, is_last |-> IsLast(len)]
             L == Len(dma_read_cpl)
  <1>g. e \in Cpls
    BY <1>a, <1>e DEF Cpls, IsLast
  <1>h. /\ dma_read_cpl' \in Seq(Cpls) /\ Len(dma_read_cpl') = L + 1
        /\ \A i \in 1 .. p : dma_read_cpl'[i] = dma_read_cpl[i]
        /\ dma_read_cpl'[p + 1] = e
        /\ \A i \in p + 2 .. L + 1 : dma_read_cpl'[i] = dma_read_cpl[i - 1]
    <2>1. dma_read_cpl' = InsertAfter(dma_read_cpl, p, e)
      BY <1>c
    <2>2. PICK x \in Cpls : x = e
      BY <1>g
    <2>3. PICK q : q = dma_read_cpl
      OBVIOUS
    <2>4. q \in Seq(Cpls) /\ p \in 0 .. Len(q)
      BY <2>3, <1>a, <1>f
    <2>5. /\ InsertAfter(q, p, x) \in Seq(Cpls)
          /\ Len(InsertAfter(q, p, x)) = Len(q) + 1
          /\ \A i \in 1 .. p : InsertAfter(q, p, x)[i] = q[i]
          /\ InsertAfter(q, p, x)[p + 1] = x
          /\ \A i \in p + 2 .. Len(q) + 1 : InsertAfter(q, p, x)[i] = q[i - 1]
      BY <2>4, InsertProps
    <2>6. dma_read_cpl' = InsertAfter(q, p, x)
      BY <2>1, <2>2, <2>3
    <2> HIDE DEF e
    <2> QED
      BY <2>2, <2>3, <2>5, <2>6
  <1>i. ASSUME NEW k \in 1 .. L
        PROVE  /\ Shift(p, k) \in 1 .. L + 1 /\ Shift(p, k) # p + 1
               /\ dma_read_cpl'[Shift(p, k)] = dma_read_cpl[k]
               /\ k <= p => Shift(p, k) = k
               /\ k > p => Shift(p, k) = k + 1
    <2>1. CASE k <= p
      BY <2>1, <1>a, <1>f, <1>h DEF Shift
    <2>2. CASE k > p
      <3>1. k + 1 \in p + 2 .. L + 1 /\ (k + 1) - 1 = k
        BY <2>2, <1>a, <1>f
      <3> QED
        BY <2>2, <3>1, <1>a, <1>f, <1>h DEF Shift
    <2> QED
      BY <2>1, <2>2, <1>a, <1>f
  <1>j. ASSUME NEW i \in 1 .. L + 1, i # p + 1
        PROVE  \E k \in 1 .. L : i = Shift(p, k)
    <2>1. CASE i <= p
      BY <2>1, <1>a, <1>f DEF Shift
    <2>2. CASE i > p + 1
      <3>1. i - 1 \in 1 .. L /\ ~(i - 1 <= p) /\ (i - 1) + 1 = i
        BY <2>2, <1>a, <1>f
      <3> QED
        BY <3>1 DEF Shift
    <2> QED
      BY <2>1, <2>2, <1>j, <1>a, <1>f
  <1>k. \A k, m \in 1 .. L : k < m <=> Shift(p, k) < Shift(p, m)
    BY <1>a, <1>f DEF Shift
  <1>l. \A k \in 1 .. L : dma_read_cpl[k].n = split.n => k <= p
    BY <1>b, <1>f
  <1>m. \/ /\ len = split.rem /\ split'.n = NoRead /\ phase' = "recv"
           /\ split' \in [n : {NoRead} \cup Reads, tag : Tags, start : Nat, rem : Nat]
        \/ /\ len < split.rem /\ phase' = "split"
           /\ split' = [n |-> split.n, tag |-> split.tag,
                        start |-> split.start + len, rem |-> split.rem - len]
    <2>1. CASE len = split.rem
      BY <2>1, <1>c, TagsAssumption DEF NoSplit, NoRead, Tags
    <2>2. CASE len # split.rem
      <3>1. split \in [n : {NoRead} \cup Reads, tag : Tags, start : Nat, rem : Nat]
        BY DEF ReadType
      <3>2. phase = "split"
        BY DEF SplitCpl, Running
      <3>3. len < split.rem
        BY <2>2, <1>e, <1>a
      <3>4. split' = [split EXCEPT !.start = @ + len, !.rem = @ - len]
        BY <2>2, <1>c
      <3> QED
        BY <2>2, <3>1, <3>2, <3>3, <3>4, <1>c
    <2> QED
      BY <2>1, <2>2
  <1>n. L > 0 => p >= 1 /\ dma_read_cpl'[1] = dma_read_cpl[1]
    BY <1>a, <1>f, <1>h
  <1>o. L \in Nat /\ p \in Nat
    BY <1>a, <1>f
  <1> HIDE DEF L
  <1>1. ReadType'
    <2>1. split' \in [n : {NoRead} \cup Reads, tag : Tags, start : Nat, rem : Nat]
      BY <1>m, <1>a, <1>e
    <2> QED
      BY <2>1, <1>d, <1>h DEF ReadType, states
  <1>2. Places'
    <2>1. split'.n # NoRead <=> phase' = "split"
      BY <1>m, <1>a
    <2>2. dma_read_cpl_dw_rem > 0 => L > 0
      BY EmptySeq, <1>a DEF Places, L
    <2>3. dma_read_cpl' # << >>
      BY <1>h, <1>a DEF L
    <2> QED
      BY <2>1, <2>2, <2>3, <1>d, <1>n DEF Places
  <1>3. Flying' = Flying
    BY <1>d DEF Flying
  <1>4. Fifo'
    BY <1>d DEF Fifo
  <1>5. FlyingLive'
    <2>1. \A x \in Flying : \A i \in 1 .. L + 1 : dma_read_cpl'[i].n < x.n
      <3>1. \A x \in Flying : e.n < x.n
        BY DEF FlyingLive
      <3>2. \A x \in Flying, k \in 1 .. L : dma_read_cpl[k].n < x.n
        BY DEF FlyingLive, L
      <3> QED
        BY <3>1, <3>2, <1>h, <1>i, <1>j
    <2>2. \A x \in Flying : x.n \in Nat /\ x.n > 0
      BY FlyingTyped
    <2>3. \A x \in Flying : split'.n < x.n
      BY <1>m, <2>2 DEF FlyingLive, NoRead
    <2> QED
      BY <1>3, <2>1, <2>3, <1>d, <1>h DEF FlyingLive, Owns, states
  <1>6. SplitLive'
    <2> SUFFICES ASSUME split'.n # NoRead
                 PROVE  SplitLive'
      BY DEF SplitLive
    <2>1. /\ len < split.rem
          /\ split' = [n |-> split.n, tag |-> split.tag,
                       start |-> split.start + len, rem |-> split.rem - len]
      BY <1>m
    <2>2. ASSUME NEW i \in 1 .. L + 1
          PROVE  /\ dma_read_cpl'[i].n <= split.n
                 /\ dma_read_cpl'[i].n = split.n =>
                      /\ dma_read_cpl'[i].tag = split.tag
                      /\ dma_read_cpl'[i].start + dma_read_cpl'[i].len
                           <= split.start + len
      <3>1. CASE i = p + 1
        BY <3>1, <1>h, <1>a, <1>e
      <3>2. CASE i # p + 1
        <4>1. PICK k \in 1 .. L : i = Shift(p, k)
          BY <3>2, <1>j
        <4>2. dma_read_cpl'[i] = dma_read_cpl[k]
          BY <4>1, <1>i
        <4>3. k \in 1 .. Len(dma_read_cpl)
          BY DEF L
        <4> QED
          BY <4>2, <4>3, <1>a, <1>b, <1>e, CplTyped DEF CplEnd
      <3> QED
        BY <3>1, <3>2
    <2>3. p + 1 \in 1 .. L + 1 /\ dma_read_cpl'[p + 1].n = split.n
      BY <1>a, <1>f, <1>h DEF L
    <2>4. /\ split.rem - len > 0
          /\ (split.start + len) + (split.rem - len) = reqs[split.n].len
      <3>1. split.start + split.rem = reqs[split.n].len
        BY <1>b
      <3>2. (split.start + len) + (split.rem - len) = split.start + split.rem
        BY <1>a, <1>e
      <3> QED
        BY <2>1, <3>1, <3>2, <1>a, <1>e
    <2> QED
      BY <2>1, <2>2, <2>3, <2>4, <1>b, <1>d, <1>h DEF SplitLive, Owns, CplEnd, states
  <1>7. CplStateLive'
    <2> SUFFICES ASSUME NEW i \in 1 .. L + 1, i > 1 \/ dma_read_cpl_dw_rem = 0
                 PROVE  Owns(dma_read_cpl'[i].tag, dma_read_cpl'[i].n)
      BY <1>d, <1>h DEF CplStateLive, Owns, states
    <2>1. CASE i = p + 1
      BY <2>1, <1>h, <1>b
    <2>2. CASE i # p + 1
      <3>1. PICK k \in 1 .. L : i = Shift(p, k)
        BY <2>2, <1>j
      <3>2. k > 1 \/ dma_read_cpl_dw_rem = 0
        BY <3>1, <1>i, <1>n, <1>o, <1>f
      <3>3. k \in 1 .. Len(dma_read_cpl)
        BY DEF L
      <3> QED
        BY <3>1, <3>2, <3>3, <1>i DEF CplStateLive, Owns
    <2> QED
      BY <2>1, <2>2
  <1>8. Ranges'
    <2> SUFFICES ASSUME NEW i \in 1 .. L + 1
                 PROVE  LET c == dma_read_cpl'[i] IN
                          /\ c.n <= Len(reqs)
                          /\ c.start + c.len <= reqs[c.n].len
                          /\ c.is_last <=> c.start + c.len = reqs[c.n].len
      BY <1>d, <1>h DEF Ranges, CplEnd
    <2>1. CASE i = p + 1
      <3>1. /\ split.start + len <= reqs[split.n].len
            /\ len = split.rem <=> split.start + len = reqs[split.n].len
        BY <1>a, <1>b, <1>e
      <3>2. dma_read_cpl'[i] = e
        BY <2>1, <1>h
      <3>3. e.is_last <=> len = split.rem
        BY DEF IsLast
      <3>4. e.n = split.n /\ e.start = split.start /\ e.len = len
        OBVIOUS
      <3> HIDE DEF e
      <3> QED
        BY <3>1, <3>2, <3>3, <3>4, <1>b
    <2>2. CASE i # p + 1
      <3>1. PICK k \in 1 .. L : i = Shift(p, k)
        BY <2>2, <1>j
      <3>2. k \in 1 .. Len(dma_read_cpl)
        BY DEF L
      <3> QED
        BY <3>1, <3>2, <1>i DEF Ranges, CplEnd
    <2> QED
      BY <2>1, <2>2
  <1>9. NoOverlap'
    <2> SUFFICES ASSUME NEW i \in 1 .. L + 1, NEW j \in 1 .. L + 1, i < j,
                        dma_read_cpl'[i].n = dma_read_cpl'[j].n
                 PROVE  dma_read_cpl'[i].start + dma_read_cpl'[i].len
                          <= dma_read_cpl'[j].start
      BY <1>h DEF NoOverlap, SameRead, CplEnd
    <2>1. CASE j = p + 1
      <3>1. i # p + 1
        BY <2>1, <1>a, <1>f
      <3>2. PICK k \in 1 .. L : i = Shift(p, k)
        BY <3>1, <1>j
      <3>3. dma_read_cpl[k].n = split.n
        BY <3>2, <2>1, <1>i, <1>h
      <3>4. k \in 1 .. Len(dma_read_cpl)
        BY DEF L
      <3> QED
        BY <3>2, <3>3, <3>4, <2>1, <1>i, <1>h, <1>b DEF CplEnd
    <2>2. CASE i = p + 1
      <3>1. j # p + 1
        BY <2>2, <1>a, <1>f
      <3>2. PICK k \in 1 .. L : j = Shift(p, k)
        BY <3>1, <1>j
      <3>3. dma_read_cpl[k].n = split.n /\ k > p
        <4>1. k > p
          BY <3>2, <2>2, <1>o DEF Shift
        <4> QED
          BY <4>1, <3>2, <2>2, <1>i, <1>h
      <3> QED
        BY <3>3, <1>l, <1>a, <1>f
    <2>3. CASE i # p + 1 /\ j # p + 1
      <3>1. PICK k \in 1 .. L : i = Shift(p, k)
        BY <2>3, <1>j
      <3>2. PICK m \in 1 .. L : j = Shift(p, m)
        BY <2>3, <1>j
      <3>3. k < m /\ k \in 1 .. Len(dma_read_cpl) /\ m \in 1 .. Len(dma_read_cpl)
        BY <3>1, <3>2, <1>k DEF L
      <3> QED
        BY <3>1, <3>2, <3>3, <1>i DEF NoOverlap, SameRead, CplEnd
    <2> QED
      BY <2>1, <2>2, <2>3
  <1>10. FromNext'
    <2> SUFFICES ASSUME NEW i \in 1 .. L + 1,
                        \A k \in 1 .. i - 1 : dma_read_cpl'[k].n # dma_read_cpl'[i].n
                 PROVE  got[dma_read_cpl'[i].n] = dma_read_cpl'[i].start + Sent(i)'
      BY <1>d, <1>h DEF FromNext, SameRead
    <2>1. CASE i = p + 1
      <3>1. ASSUME NEW k \in 1 .. L, dma_read_cpl[k].n = split.n
            PROVE  FALSE
        <4>1. k <= p /\ Shift(p, k) = k /\ k \in 1 .. i - 1
          BY <3>1, <2>1, <1>l, <1>i, <1>a, <1>f
        <4> QED
          BY <4>1, <3>1, <2>1, <1>i, <1>h
      <3>2. got[split.n] = split.start
        BY <3>1, <1>b DEF L
      <3>3. ~(i = 1 /\ dma_read_cpl_dw_rem > 0)
        <4>1. dma_read_cpl_dw_rem > 0 => L > 0
          BY EmptySeq, <1>a DEF Places, L
        <4> QED
          BY <4>1, <2>1, <1>n, <1>a, <1>f
      <3> QED
        BY <3>2, <3>3, <2>1, <1>h, <1>d, <1>a DEF Sent
    <2>2. CASE i # p + 1
      <3>1. PICK k \in 1 .. L : i = Shift(p, k)
        BY <2>2, <1>j
      <3>2. ASSUME NEW m \in 1 .. k - 1
            PROVE  dma_read_cpl[m].n # dma_read_cpl[k].n
        <4>1. m \in 1 .. L /\ m < k
          BY <1>a DEF L
        <4>2. Shift(p, m) \in 1 .. i - 1
          BY <4>1, <3>1, <1>k, <1>i, <1>a DEF L
        <4> QED
          BY <4>1, <4>2, <3>1, <1>i
      <3>3. got[dma_read_cpl[k].n] = dma_read_cpl[k].start + Sent(k)
        BY <3>2 DEF FromNext, SameRead, L
      <3>4. k = 1 <=> i = 1
        <4>1. L > 0 /\ p >= 1
          BY <1>n, <1>o
        <4> QED
          BY <3>1, <4>1, <1>o DEF Shift
      <3>5. Sent(i)' = Sent(k)
        BY <3>1, <3>4, <1>d, <1>i DEF Sent
      <3> QED
        BY <3>1, <3>3, <3>5, <1>i
    <2> QED
      BY <2>1, <2>2
  <1>11. NoGap'
    <2> SUFFICES ASSUME NEW i \in 1 .. L + 1, NEW j \in 1 .. L + 1, i < j,
                        dma_read_cpl'[i].n = dma_read_cpl'[j].n,
                        \A k \in i + 1 .. j - 1 :
                          dma_read_cpl'[i].n # dma_read_cpl'[k].n
                 PROVE  dma_read_cpl'[i].start + dma_read_cpl'[i].len
                          = dma_read_cpl'[j].start
      BY <1>h DEF NoGap, SameRead, CplEnd
    <2>1. CASE j = p + 1
      <3>1. i # p + 1
        BY <2>1, <1>a, <1>f
      <3>2. PICK k \in 1 .. L : i = Shift(p, k)
        BY <3>1, <1>j
      <3>3. dma_read_cpl[k].n = split.n /\ k <= p /\ i = k
        BY <3>2, <2>1, <1>i, <1>h, <1>l
      <3>4. ASSUME NEW m \in k + 1 .. L, dma_read_cpl[m].n = dma_read_cpl[k].n
            PROVE  FALSE
        <4>1. m \in 1 .. L /\ m <= p
          BY <3>3, <3>4, <1>l, <1>a DEF L
        <4>2. Shift(p, m) = m /\ m \in i + 1 .. j - 1
          BY <4>1, <3>3, <2>1, <1>i, <1>a, <1>f DEF L
        <4> QED
          BY <4>1, <4>2, <3>2, <3>4, <1>i
      <3>5. k \in 1 .. Len(dma_read_cpl)
        BY DEF L
      <3>6. CplEnd(k) = split.start
        BY <3>3, <3>4, <3>5 DEF ToEnd, SameRead, L
      <3> QED
        BY <3>2, <3>6, <2>1, <1>i, <1>h DEF CplEnd
    <2>2. CASE i = p + 1
      <3>1. j # p + 1
        BY <2>2, <1>a, <1>f
      <3>2. PICK k \in 1 .. L : j = Shift(p, k)
        BY <3>1, <1>j
      <3>3. dma_read_cpl[k].n = split.n /\ k > p
        <4>1. k > p
          BY <3>2, <2>2, <1>o DEF Shift
        <4> QED
          BY <4>1, <3>2, <2>2, <1>i, <1>h
      <3> QED
        BY <3>3, <1>l, <1>a, <1>f
    <2>3. CASE i # p + 1 /\ j # p + 1
      <3>1. PICK k \in 1 .. L : i = Shift(p, k)
        BY <2>3, <1>j
      <3>2. PICK m \in 1 .. L : j = Shift(p, m)
        BY <2>3, <1>j
      <3>3. k < m /\ k \in 1 .. Len(dma_read_cpl) /\ m \in 1 .. Len(dma_read_cpl)
        BY <3>1, <3>2, <1>k DEF L
      <3>4. ASSUME NEW x \in k + 1 .. m - 1
            PROVE  dma_read_cpl[k].n # dma_read_cpl[x].n
        <4>1. x \in 1 .. L /\ k < x /\ x < m
          BY <1>a DEF L
        <4>2. Shift(p, x) \in i + 1 .. j - 1
          BY <4>1, <3>1, <3>2, <1>k, <1>i, <1>a DEF L
        <4> QED
          BY <4>1, <4>2, <3>1, <1>i
      <3> QED
        BY <3>1, <3>2, <3>3, <3>4, <1>i DEF NoGap, SameRead, CplEnd
    <2> QED
      BY <2>1, <2>2, <2>3
  <1>12. ToEnd'
    <2> SUFFICES ASSUME NEW i \in 1 .. L + 1,
                        \A k \in i + 1 .. L + 1 :
                          dma_read_cpl'[i].n # dma_read_cpl'[k].n
                 PROVE  dma_read_cpl'[i].start + dma_read_cpl'[i].len
                          = IF split'.n = dma_read_cpl'[i].n THEN split'.start
                            ELSE reqs[dma_read_cpl'[i].n].len
      BY <1>d, <1>h DEF ToEnd, SameRead, CplEnd
    <2>1. CASE i = p + 1
      <3>1. CASE len = split.rem
        BY <3>1, <2>1, <1>h, <1>m, <1>a, <1>b
      <3>2. CASE len # split.rem
        BY <3>2, <2>1, <1>h, <1>m, <1>a, <1>b
      <3> QED
        BY <3>1, <3>2
    <2>2. CASE i # p + 1
      <3>1. PICK k \in 1 .. L : i = Shift(p, k)
        BY <2>2, <1>j
      <3>2. dma_read_cpl[k].n # split.n
        <4>1. SUFFICES ASSUME dma_read_cpl[k].n = split.n
                       PROVE  FALSE
          OBVIOUS
        <4>2. i = k /\ k <= p
          BY <4>1, <3>1, <1>i, <1>l
        <4>3. p + 1 \in i + 1 .. L + 1
          BY <4>2, <1>a, <1>f DEF L
        <4> QED
          BY <4>1, <4>3, <3>1, <1>i, <1>h
      <3>3. ASSUME NEW x \in k + 1 .. L
            PROVE  dma_read_cpl[k].n # dma_read_cpl[x].n
        <4>1. x \in 1 .. L /\ k < x
          BY <1>a DEF L
        <4>2. Shift(p, x) \in i + 1 .. L + 1
          BY <4>1, <3>1, <1>k, <1>i, <1>a DEF L
        <4> QED
          BY <4>1, <4>2, <3>1, <1>i
      <3>4. k \in 1 .. Len(dma_read_cpl)
        BY DEF L
      <3>5. CplEnd(k) = reqs[dma_read_cpl[k].n].len
        BY <3>2, <3>3, <3>4 DEF ToEnd, SameRead, L
      <3>6. split'.n # dma_read_cpl[k].n
        BY <3>2, <3>4, <1>m, CplTyped
      <3> QED
        BY <3>1, <3>5, <3>6, <1>i DEF CplEnd
    <2> QED
      BY <2>1, <2>2
  <1>13. Accounted'
    <2>1. p + 1 \in 1 .. L + 1 /\ dma_read_cpl'[p + 1].n = split.n
      BY <1>a, <1>f, <1>h DEF L
    <2>2. \A k \in 1 .. L : \E i \in 1 .. L + 1 : dma_read_cpl'[i] = dma_read_cpl[k]
      BY <1>i
    <2> QED
      BY <2>1, <2>2, <1>3, <1>d, <1>h DEF Accounted, L
  <1>14. InOrder'
    <2> SUFFICES ASSUME Ordered, NEW i \in 1 .. L + 1, NEW j \in 1 .. L + 1, i < j
                 PROVE  dma_read_cpl'[i].n <= dma_read_cpl'[j].n
      BY <1>h DEF InOrder
    <2>1. p = L
      BY <1>f DEF L
    <2>2. i \in 1 .. L /\ dma_read_cpl'[i] = dma_read_cpl[i]
      BY <2>1, <1>h, <1>a DEF L
    <2>3. CASE j = L + 1
      BY <2>1, <2>2, <2>3, <1>b, <1>h DEF L
    <2>4. CASE j # L + 1
      <3>1. j \in 1 .. L /\ dma_read_cpl'[j] = dma_read_cpl[j]
        BY <2>1, <2>4, <1>h, <1>a DEF L
      <3> QED
        BY <3>1, <2>2 DEF InOrder, L
    <2> QED
      BY <2>3, <2>4
  <1>15. Unasked' /\ NeverWrong' /\ IdleLinked'
    BY <1>d DEF Unasked, NeverWrong, IdleLinked, states
  <1> QED
    BY <1>1, <1>2, <1>4, <1>5, <1>6, <1>7, <1>8, <1>9, <1>10, <1>11, <1>12,
       <1>13, <1>14, <1>15

\* A read is recorded in a free state and sent to the memory, or refused
\* (pcie_tlp_a2h_mrd).
LEMMA RecordReadStep ==
    ASSUME ReadInv,
           NEW kind \in {"read", "fence", "atomic"}, NEW len \in Nat \ {0},
           NEW dm \in BOOLEAN,
           RecordRead(kind, len, dm), Len(reqs) < MaxReads, err = "none",
           UNCHANGED <<cpls, split, rd_rsp, got, wrote, afu_err>>,
           phase # "split", phase' # "split", afu_to_host_state' # "MRD"
    PROVE  ReadInv'
  <1> USE DEF ReadInv
  <1>err. err = "none"
    OBVIOUS
  <1>0. PICK n : n = Len(reqs) + 1
    OBVIOUS
  <1>a. PICK afu_tag \in AfuTags :
          LET tag == IF TagMapper THEN dma_read_state_free_head ELSE afu_tag
          IN  /\ reqs' = Append(reqs, [kind |-> kind, len |-> len, dm |-> dm,
                                       after |-> wrote])
              /\ err' = CASE tag = Null -> "no_tag"
                          [] tag # Null /\ busy[tag] -> "tag_in_use"
                          [] OTHER -> "none"
              /\ IF err' = "none"
                   THEN /\ busy' = [busy EXCEPT ![tag] = TRUE]
                        /\ start_cycle' = [start_cycle EXCEPT ![tag] = Cycle]
                        /\ owner' = [owner EXCEPT ![tag] = n]
                        /\ rd_req' = Append(rd_req, [tag |-> tag, n |-> n])
                        /\ \/ dma_read_state_free_head' = dma_read_state_free_head
                           \/ /\ TagMapper
                              /\ dma_read_state_free_head' = start_cycle[tag]
                   ELSE UNCHANGED <<states, rd_req>>
    BY <1>0 DEF RecordRead, TakeFree
  <1>b. /\ UNCHANGED <<dma_read_cpl, dma_read_cpl_dw_rem>>
        /\ reqs \in Seq(ReadRecs) /\ Len(reqs) \in Nat /\ Len(reqs) <= MaxReads
        /\ rd_req \in Seq(PipeMsgs) /\ Len(rd_req) \in Nat
        /\ n \in Reads /\ n # NoRead
    BY <1>0, LenProperties, BoundAssumption DEF ReadType, cpls, Reads, NoRead
  <1>c. /\ reqs' \in Seq(ReadRecs) /\ Len(reqs') = n
        /\ \A m \in 1 .. Len(reqs) : reqs'[m] = reqs[m]
        /\ reqs'[n].len = len
    <2>1. [kind |-> kind, len |-> len, dm |-> dm, after |-> wrote] \in ReadRecs
      BY DEF ReadRecs, ReadType
    <2>2. /\ reqs' \in Seq(ReadRecs) /\ Len(reqs') = n
          /\ \A m \in 1 .. Len(reqs) : reqs'[m] = reqs[m]
          /\ reqs'[n] = [kind |-> kind, len |-> len, dm |-> dm, after |-> wrote]
      BY <2>1, <1>0, <1>a, <1>b
    <2> QED
      BY <2>2
  <1>d. split.n = NoRead
    BY DEF Places
  <1>e. \A i \in 1 .. Len(dma_read_cpl) :
          /\ dma_read_cpl[i].n <= Len(reqs')
          /\ reqs'[dma_read_cpl[i].n] = reqs[dma_read_cpl[i].n]
    <2> TAKE i \in 1 .. Len(dma_read_cpl)
    <2>1. dma_read_cpl[i].n \in 1 .. Len(reqs)
      BY CplTyped, ReqTyped DEF Ranges
    <2> QED
      BY <2>1, <1>0, <1>b, <1>c
  <1>1. Places'
    BY <1>b, <1>d DEF Places
  <1>2. Ranges' /\ NoOverlap' /\ FromNext' /\ NoGap' /\ ToEnd' /\ InOrder' /\ NeverWrong'
    <2>1. Ranges' /\ ToEnd'
      BY <1>b, <1>e DEF Ranges, ToEnd, SameRead, CplEnd
    <2>2. NoOverlap' /\ FromNext' /\ NoGap' /\ InOrder' /\ NeverWrong'
      <3>1. NoOverlap' /\ InOrder'
        BY <1>b DEF NoOverlap, InOrder, SameRead, CplEnd
      <3>2. NoGap'
        <4>1. NoGap /\ dma_read_cpl' = dma_read_cpl
          BY <1>b
        <4> QED
          BY ONLY <4>1 DEF NoGap, SameRead, CplEnd
      <3>3. FromNext'
        BY <1>b DEF FromNext, SameRead, Sent
      <3> QED
        BY <3>1, <3>2, <3>3 DEF NeverWrong
    <2> QED
      BY <2>1, <2>2
  <1>3. Unasked' /\ SplitLive'
    BY <1>0, <1>b, <1>c, <1>d DEF Unasked, SplitLive, Reads
  <1>4. CASE err' # "none"
    <2>1. UNCHANGED <<states, rd_req>>
      BY <1>4, <1>a
    <2>2. ReadType'
      BY <2>1, <1>0, <1>b, <1>c DEF ReadType, states, Reads
    <2>3. Flying' = Flying /\ Fifo'
      BY <2>1 DEF Flying, Fifo
    <2>4. FlyingLive' /\ CplStateLive'
      <3>1. \A m \in Flying : m.n <= Len(reqs')
        BY FlyingTyped, <1>0, <1>b, <1>c DEF FlyingLive
      <3> QED
        BY <3>1, <2>1, <2>3, <1>b DEF FlyingLive, CplStateLive, Owns, states
    <2>5. Accounted' /\ IdleLinked'
      BY <1>4, <2>1 DEF Accounted, IdleLinked, states
    <2> QED
      BY <2>2, <2>3, <2>4, <2>5, <1>1, <1>2, <1>3
  <1>5. CASE err' = "none"
    <2>1. PICK tag \in Tags :
            /\ ~busy[tag]
            /\ busy' = [busy EXCEPT ![tag] = TRUE]
            /\ start_cycle' = [start_cycle EXCEPT ![tag] = Cycle]
            /\ owner' = [owner EXCEPT ![tag] = n]
            /\ rd_req' = Append(rd_req, [tag |-> tag, n |-> n])
            /\ \/ dma_read_state_free_head' = dma_read_state_free_head
               \/ TagMapper /\ tag = dma_read_state_free_head
                  /\ dma_read_state_free_head' = start_cycle[tag]
      <3> DEFINE tag == IF TagMapper THEN dma_read_state_free_head ELSE afu_tag
      <3>1. tag # Null /\ ~busy[tag]
        BY <1>5, <1>a
      <3>2. tag \in Tags
        BY <3>1, <1>a DEF AfuTags, ReadType
      <3>3. TagMapper => tag = dma_read_state_free_head
        OBVIOUS
      <3> QED
        BY <3>1, <3>2, <3>3, <1>5, <1>a
    <2>2. ASSUME NEW t \in Tags, NEW m, Owns(t, m)
          PROVE  Owns(t, m)' /\ t # tag
      BY <2>1, <2>2 DEF Owns, ReadType
    <2>3. Owns(tag, n)'
      BY <2>1 DEF Owns, ReadType
    <2> DEFINE new == [tag |-> tag, n |-> n]
    <2>4. /\ rd_req' \in Seq(PipeMsgs) /\ Len(rd_req') = Len(rd_req) + 1
          /\ \A k \in 1 .. Len(rd_req) : rd_req'[k] = rd_req[k]
          /\ rd_req'[Len(rd_req) + 1] = new
      <3>1. new \in PipeMsgs
        BY <1>b DEF PipeMsgs
      <3> HIDE DEF new
      <3>2. rd_req' = Append(rd_req, new)
        BY <2>1 DEF new
      <3> QED
        BY <3>1, <3>2, <1>b
    <2>5. ASSUME NEW x
          PROVE  x \in Flying' <=> x \in Flying \/ x = new
      <3> HIDE DEF new
      <3>1. (\E k \in 1 .. Len(rd_req') : x = rd_req'[k])
              <=> (\E k \in 1 .. Len(rd_req) : x = rd_req[k]) \/ x = new
        <4>1. \A k \in 1 .. Len(rd_req') :
                k \in 1 .. Len(rd_req) \/ k = Len(rd_req) + 1
          BY <2>4, <1>b
        <4>2. /\ \A k \in 1 .. Len(rd_req) : k \in 1 .. Len(rd_req')
              /\ Len(rd_req) + 1 \in 1 .. Len(rd_req')
          BY <2>4, <1>b
        <4> QED
          BY <4>1, <4>2, <2>4
      <3>2. rd_rsp' = rd_rsp
        OBVIOUS
      <3> QED
        BY <3>1, <3>2 DEF Flying
    <2>6. ReadType'
      <3>1. Cycle \in Tags \cup {Null, Cycle}
        OBVIOUS
      <3>2. dma_read_state_free_head' \in Tags \cup {Null}
        <4>1. CASE dma_read_state_free_head' = dma_read_state_free_head
          BY <4>1 DEF ReadType
        <4>2. CASE /\ TagMapper /\ tag = dma_read_state_free_head
                   /\ dma_read_state_free_head' = start_cycle[tag]
          BY <4>2, <2>1 DEF IdleLinked, ReadType
        <4> QED
          BY <2>1, <4>1, <4>2
      <3> QED
        BY <3>1, <3>2, <2>1, <2>4, <1>b, <1>c DEF ReadType, Reads
    <2>7. IdleLinked'
      BY <2>1 DEF IdleLinked, ReadType
    <2>8. ASSUME NEW x \in Flying
          PROVE  x.n \in Nat /\ x.n < n
      BY FlyingTyped, <1>0, <1>b DEF FlyingLive
    <2>9. Fifo'
      <3>1. ASSUME NEW i \in 1 .. Len(rd_req'), NEW j \in 1 .. Len(rd_req'), i < j
            PROVE  rd_req'[i].n < rd_req'[j].n
        <4>1. i \in 1 .. Len(rd_req) /\ rd_req'[i] = rd_req[i]
          BY <3>1, <2>4, <1>b
        <4>2. CASE j \in 1 .. Len(rd_req)
          BY <4>1, <4>2, <3>1, <2>4 DEF Fifo
        <4>3. CASE j = Len(rd_req) + 1
          BY <4>1, <4>3, <2>4, <2>8 DEF Flying
        <4> QED
          BY <4>2, <4>3, <2>4, <1>b
      <3>2. ASSUME NEW i \in 1 .. Len(rd_rsp), NEW j \in 1 .. Len(rd_req')
            PROVE  rd_rsp[i].n < rd_req'[j].n
        <4>1. CASE j \in 1 .. Len(rd_req)
          BY <4>1, <2>4 DEF Fifo
        <4>2. CASE j = Len(rd_req) + 1
          BY <4>2, <2>4, <2>8 DEF Flying
        <4> QED
          BY <4>1, <4>2, <2>4, <1>b
      <3> QED
        BY <3>1, <3>2 DEF Fifo
    <2>10. FlyingLive'
      <3> SUFFICES ASSUME NEW m \in Flying'
                   PROVE  /\ Owns(m.tag, m.n)' /\ m.n <= Len(reqs') /\ got[m.n] = 0
                          /\ split.n < m.n
                          /\ \A i \in 1 .. Len(dma_read_cpl) : dma_read_cpl[i].n < m.n
        BY <1>b DEF FlyingLive, Owns
      <3>1. CASE m \in Flying
        <4>1. m.tag \in Tags /\ Owns(m.tag, m.n)
          BY <3>1, FlyingTyped DEF FlyingLive
        <4>2. Owns(m.tag, m.n)'
          BY <4>1, <2>2
        <4>3. m.n <= Len(reqs')
          BY <3>1, <2>8, <1>0, <1>b, <1>c
        <4> QED
          BY <4>2, <4>3, <3>1 DEF FlyingLive
      <3>2. CASE m = new
        <4>1. got[n] = 0
          BY <1>0, <1>b DEF Unasked
        <4>2. split.n < n
          BY <1>0, <1>b, <1>d DEF NoRead
        <4>3. \A i \in 1 .. Len(dma_read_cpl) : dma_read_cpl[i].n < n
          BY CplTyped, <1>0, <1>b DEF Ranges
        <4>4. n <= Len(reqs')
          BY <1>0, <1>b, <1>c
        <4>5. m.tag = tag /\ m.n = n
          BY <3>2
        <4> QED
          BY <4>1, <4>2, <4>3, <4>4, <4>5, <2>3
      <3> QED
        BY <3>1, <3>2, <2>5
    <2>11. CplStateLive'
      <3> SUFFICES ASSUME NEW i \in 1 .. Len(dma_read_cpl),
                          i > 1 \/ dma_read_cpl_dw_rem = 0
                   PROVE  Owns(dma_read_cpl[i].tag, dma_read_cpl[i].n)'
        BY <1>b DEF CplStateLive, Owns
      <3>1. Owns(dma_read_cpl[i].tag, dma_read_cpl[i].n)
        BY DEF CplStateLive, Owns
      <3>2. dma_read_cpl[i].tag \in Tags
        BY CplTyped
      <3>3. PICK t, m : t \in Tags /\ t = dma_read_cpl[i].tag /\ m = dma_read_cpl[i].n
        BY <3>2
      <3>4. Owns(t, m)'
        BY <3>1, <3>3, <2>2
      <3> QED
        BY <3>3, <3>4, <1>b DEF Owns
    <2>12. Accounted'
      <3> SUFFICES ASSUME err = "none", NEW m \in 1 .. Len(reqs')
                   PROVE  \/ got[m] = reqs'[m].len
                          \/ \E i \in 1 .. Len(dma_read_cpl) : dma_read_cpl[i].n = m
                          \/ split.n = m
                          \/ \E x \in Flying' : x.n = m
        BY <1>b, <1>err DEF Accounted
      <3>1. CASE m \in 1 .. Len(reqs)
        BY <3>1, <2>5, <1>c DEF Accounted
      <3>2. CASE m = n
        <4>1. new \in Flying' /\ new.n = n
          BY <2>5
        <4> QED
          BY <4>1, <3>2
      <3> QED
        BY <3>1, <3>2, <1>0, <1>b, <1>c
    <2> QED
      BY <2>6, <2>7, <2>9, <2>10, <2>11, <2>12, <1>1, <1>2, <1>3
  <1> QED
    BY <1>4, <1>5

\* A beat of the completion at the head of the list (pcie_tlp_h2a_cpld).
LEMMA H2aCpldStep == ReadInv /\ H2aCpld => ReadInv'
  <1> SUFFICES ASSUME ReadInv, H2aCpld
               PROVE  ReadInv'
    OBVIOUS
  <1> USE DEF ReadInv
  <1>a. /\ dma_read_cpl \in Seq(Cpls) /\ dma_read_cpl # << >>
        /\ Len(dma_read_cpl) \in Nat /\ Len(dma_read_cpl) >= 1
        /\ 1 \in 1 .. Len(dma_read_cpl) /\ Head(dma_read_cpl) = dma_read_cpl[1]
    BY EmptySeq, LenProperties DEF ReadType, H2aCpld
  <1>b. PICK c \in Cpls, L \in Nat : c = dma_read_cpl[1] /\ L = Len(dma_read_cpl)
    BY <1>a, CplTyped
  <1>c. /\ c.tag \in Tags /\ c.n \in Reads /\ c.n \in Nat /\ c.n # NoRead
        /\ c.start \in Nat /\ c.len \in Nat /\ c.len > 0
        /\ c.start + c.len = CplEnd(1)
    BY <1>a, <1>b, CplTyped DEF CplEnd
  <1>d. PICK sop \in BOOLEAN : sop <=> dma_read_cpl_dw_rem = 0
    OBVIOUS
  <1>e. PICK rem, room : /\ rem = (IF sop THEN c.len ELSE dma_read_cpl_dw_rem)
                         /\ room = Room(sop)
    OBVIOUS
  <1>f. PICK cnt : cnt = Smaller(rem, room)
    OBVIOUS
  <1>g. /\ rem \in Nat /\ rem > 0 /\ rem <= c.len /\ room \in Nat
        /\ cnt \in Nat /\ cnt <= rem /\ (rem <= room => cnt = rem)
        /\ (~(rem <= room) => cnt < rem)
    <2>1. rem \in Nat /\ rem > 0 /\ rem <= c.len
      BY <1>b, <1>c, <1>d, <1>e DEF ReadType, Places
    <2>2. room \in Nat
      BY <1>e, WidthAssumption DEF Room
    <2> QED
      BY <2>1, <2>2, <1>f DEF Smaller
  <1>h. /\ dma_read_cpl_dw_rem' = rem - cnt
        /\ dma_read_cpl' = IF rem <= room THEN Tail(dma_read_cpl) ELSE dma_read_cpl
        /\ got' = [got EXCEPT ![c.n] = @ + cnt]
        /\ AfuReceives(sop, "cpl", c.n, c.len, cnt,
                CASE sop /\ owner[c.tag] # c.n -> "wrong_header"
                  [] c.start + c.len - rem # got[c.n] -> "out_of_order"
                  [] OTHER                     -> "none")
        /\ IF sop /\ c.is_last
             THEN /\ busy' = [busy EXCEPT ![c.tag] = FALSE]
                  /\ IF TagMapper
                       THEN LinkFreed(c.tag)
                       ELSE UNCHANGED <<start_cycle, dma_read_state_free_head>>
             ELSE UNCHANGED <<busy, start_cycle, dma_read_state_free_head>>
    BY <1>a, <1>b, <1>d, <1>e, <1>f DEF H2aCpld, FreesTag
  <1>i. /\ UNCHANGED <<owner, split, rd_req, rd_rsp, reqs, wrote, err>>
        /\ afu_to_host_state' = afu_to_host_state
        /\ phase = "recv" /\ phase' = "a2h"
    BY DEF H2aCpld, InHostToAfu, Running, pipes, afu_tx
  <1>j. split.n = NoRead
    BY <1>i DEF Places
  <1>k. got[c.n] = c.start + c.len - rem
    <2>1. got[c.n] = c.start + Sent(1)
      BY <1>a, <1>b DEF FromNext
    <2> QED
      BY <2>1, <1>b, <1>c, <1>d, <1>e, <1>g DEF Sent, ReadType
  <1>l. sop => Owns(c.tag, c.n)
    BY <1>a, <1>b, <1>d DEF CplStateLive, Owns
  <1>m. ASSUME NEW t \in Tags, NEW n, Owns(t, n), n # c.n
        PROVE  Owns(t, n)'
    <2>1. sop => t # c.tag
      BY <1>l, <1>m DEF Owns
    <2> QED
      BY <2>1, <1>m, <1>h, <1>i, <1>c DEF Owns, LinkFreed, ReadType
  <1>n. ASSUME NEW i \in 2 .. L, NEW t, NEW n,
               t = dma_read_cpl[i].tag, n = dma_read_cpl[i].n
        PROVE  Owns(t, n)'
    <2>1. i \in 1 .. Len(dma_read_cpl) /\ i > 1
      BY <1>b
    <2>2. t \in Tags /\ t = dma_read_cpl[i].tag /\ n = dma_read_cpl[i].n
      BY <2>1, <1>n, CplTyped
    <2>3. Owns(t, n)
      BY <2>1, <2>2 DEF CplStateLive, Owns
    <2>4. CASE n # c.n
      BY <2>2, <2>3, <2>4, <1>m
    <2>5. CASE n = c.n
      <3>1. CplEnd(1) <= dma_read_cpl[i].start
        BY <2>1, <2>2, <2>5, <1>a, <1>b DEF NoOverlap, SameRead
      <3>2. CplEnd(i) <= reqs[n].len /\ CplEnd(i) > dma_read_cpl[i].start
            /\ CplEnd(i) \in Nat /\ dma_read_cpl[i].start \in Nat
        BY <2>1, <2>2, CplTyped DEF Ranges
      <3>3. reqs[n].len \in Nat
        BY <2>1, <2>2, CplTyped, ReqTyped DEF Ranges
      <3>4. CplEnd(1) # reqs[c.n].len /\ CplEnd(1) \in Nat
        BY <3>1, <3>2, <3>3, <2>5, <1>a, CplTyped
      <3>5. ~dma_read_cpl[1].is_last
        BY <3>4, <1>a, <1>b DEF Ranges
      <3> QED
        BY <3>5, <2>3, <1>b, <1>h, <1>i DEF Owns
    <2> QED
      BY <2>4, <2>5
  <1>o. /\ got' \in [Reads -> Nat]
        /\ got'[c.n] = c.start + c.len - (rem - cnt)
        /\ \A n \in Reads : n # c.n => got'[n] = got[n]
    <2>1. got \in [Reads -> Nat]
      BY DEF ReadType
    <2>2. got[c.n] + cnt = c.start + c.len - (rem - cnt) /\ got[c.n] + cnt \in Nat
      BY <2>1, <1>c, <1>g, <1>k
    <2>3. got' = [got EXCEPT ![c.n] = got[c.n] + cnt]
      BY <1>h
    <2> QED
      BY <2>1, <2>2, <2>3, <1>c
  <1>p. CplEnd(1) <= reqs[c.n].len /\ c.n <= Len(reqs)
    BY <1>a, <1>b DEF Ranges
  <1>q. \/ /\ rem <= room /\ dma_read_cpl_dw_rem' = 0
           /\ dma_read_cpl' \in Seq(Cpls) /\ Len(dma_read_cpl') = L - 1
           /\ \A i \in 1 .. L - 1 : dma_read_cpl'[i] = dma_read_cpl[i + 1]
           /\ got'[c.n] = CplEnd(1)
        \/ /\ ~(rem <= room) /\ dma_read_cpl' = dma_read_cpl
           /\ dma_read_cpl_dw_rem' > 0 /\ dma_read_cpl_dw_rem' <= c.len
    <2>1. CASE rem <= room
      <3>1. dma_read_cpl' = Tail(dma_read_cpl)
        BY <2>1, <1>h
      <3>2. /\ dma_read_cpl' \in Seq(Cpls) /\ Len(dma_read_cpl') = L - 1
            /\ \A i \in 1 .. L - 1 : dma_read_cpl'[i] = dma_read_cpl[i + 1]
        BY <3>1, <1>a, <1>b
      <3>3. dma_read_cpl_dw_rem' = 0 /\ got'[c.n] = CplEnd(1)
        BY <2>1, <1>c, <1>g, <1>h, <1>o
      <3> QED
        BY <2>1, <3>2, <3>3
    <2>2. CASE ~(rem <= room)
      BY <2>2, <1>c, <1>g, <1>h
    <2> QED
      BY <2>1, <2>2
  <1>r. dma_read_cpl_dw_rem' \in Nat
    BY <1>g, <1>h
  <1>1. ReadType'
    <2>1. /\ busy' \in [Tags -> BOOLEAN]
          /\ start_cycle' \in [Tags -> Tags \cup {Null, Cycle}]
          /\ dma_read_state_free_head' \in Tags \cup {Null}
      BY <1>c, <1>h DEF ReadType, LinkFreed
    <2>2. dma_read_cpl' \in Seq(Cpls)
      BY <1>a, <1>q
    <2> QED
      BY <2>1, <2>2, <1>i, <1>o, <1>r DEF ReadType
  <1>2. Places'
    <2>1. split'.n = NoRead /\ phase' # "split"
      BY <1>i, <1>j
    <2>2. dma_read_cpl_dw_rem' > 0 =>
            /\ dma_read_cpl' # << >>
            /\ dma_read_cpl_dw_rem' <= dma_read_cpl'[1].len
      BY <1>q, <1>a, <1>b
    <2> QED
      BY <2>1, <2>2, <1>i DEF Places
  <1>3. IdleLinked'
    <2>1. CASE sop /\ c.is_last /\ TagMapper
      <3>1. dma_read_state_free_head # Cycle
        BY TagsAssumption DEF ReadType, Cycle, Null, Tags
      <3>2. /\ busy' = [busy EXCEPT ![c.tag] = FALSE]
            /\ start_cycle' = [start_cycle EXCEPT ![c.tag] = dma_read_state_free_head]
        BY <2>1, <1>h DEF LinkFreed
      <3> QED
        BY <2>1, <3>1, <3>2, <1>c DEF IdleLinked, ReadType
    <2>2. CASE ~(sop /\ c.is_last) \/ ~TagMapper
      BY <2>2, <1>h DEF IdleLinked
    <2> QED
      BY <2>1, <2>2
  <1>4. Flying' = Flying /\ Fifo'
    BY <1>i DEF Flying, Fifo
  <1>5. FlyingLive'
    <2> SUFFICES ASSUME NEW m \in Flying
                 PROVE  /\ Owns(m.tag, m.n)' /\ m.n <= Len(reqs) /\ got'[m.n] = 0
                        /\ split.n < m.n
                        /\ \A i \in 1 .. Len(dma_read_cpl') : dma_read_cpl'[i].n < m.n
      BY <1>4, <1>i DEF FlyingLive, Owns
    <2>1. /\ Owns(m.tag, m.n) /\ m.n <= Len(reqs) /\ got[m.n] = 0
          /\ split.n < m.n /\ m.tag \in Tags /\ m.n \in Reads /\ m.n \in Nat
          /\ \A i \in 1 .. Len(dma_read_cpl) : dma_read_cpl[i].n < m.n
      BY FlyingTyped DEF FlyingLive
    <2>2. m.n # c.n
      BY <2>1, <1>a, <1>b, <1>c
    <2>3. \A i \in 1 .. Len(dma_read_cpl') : dma_read_cpl'[i].n < m.n
      <3>1. \A i \in 1 .. L - 1 : i + 1 \in 1 .. L
        BY <1>b
      <3> QED
        BY <3>1, <2>1, <1>q, <1>b
    <2> QED
      BY <2>1, <2>2, <2>3, <1>m, <1>o
  <1>6. SplitLive'
    BY <1>i, <1>j DEF SplitLive
  <1>7. CplStateLive'
    <2> SUFFICES ASSUME NEW i \in 1 .. Len(dma_read_cpl'),
                        i > 1 \/ dma_read_cpl_dw_rem' = 0,
                        NEW t, NEW n,
                        t = dma_read_cpl'[i].tag, n = dma_read_cpl'[i].n
                 PROVE  Owns(t, n)'
      BY DEF CplStateLive, Owns
    <2>1. CASE rem <= room
      <3>1. i + 1 \in 2 .. L /\ dma_read_cpl'[i] = dma_read_cpl[i + 1]
        BY <2>1, <1>b, <1>q
      <3> QED
        BY <3>1, <1>n
    <2>2. CASE ~(rem <= room)
      <3>1. dma_read_cpl_dw_rem' > 0 /\ dma_read_cpl' = dma_read_cpl
        BY <2>2, <1>q
      <3>2. i \in 2 .. L
        BY <3>1, <1>b, <1>r
      <3> QED
        BY <3>1, <3>2, <1>n
    <2> QED
      BY <2>1, <2>2
  <1>8. Ranges'
    <2> SUFFICES ASSUME NEW i \in 1 .. Len(dma_read_cpl')
                 PROVE  LET x == dma_read_cpl'[i] IN
                          /\ x.n <= Len(reqs)
                          /\ x.start + x.len <= reqs[x.n].len
                          /\ x.is_last <=> x.start + x.len = reqs[x.n].len
      BY <1>i DEF Ranges, CplEnd
    <2>1. PICK k \in 1 .. Len(dma_read_cpl) : dma_read_cpl'[i] = dma_read_cpl[k]
      <3>1. CASE rem <= room
        <4>1. i + 1 \in 1 .. Len(dma_read_cpl)
              /\ dma_read_cpl'[i] = dma_read_cpl[i + 1]
          BY <3>1, <1>b, <1>q
        <4> QED
          BY <4>1
      <3>2. CASE ~(rem <= room)
        BY <3>2, <1>q
      <3> QED
        BY <3>1, <3>2
    <2> QED
      BY <2>1 DEF Ranges, CplEnd
  <1>9. ASSUME ~(rem <= room)
         PROVE  NoOverlap' /\ NoGap' /\ ToEnd' /\ FromNext' /\ InOrder' /\ Accounted'
    <2>1. UNCHANGED dma_read_cpl
      BY <1>9, <1>q
    <2>2. NoOverlap' /\ NoGap' /\ InOrder'
      BY <2>1 DEF NoOverlap, NoGap, InOrder, SameRead, CplEnd
    <2>3. ToEnd'
      BY <2>1, <1>i DEF ToEnd, SameRead, CplEnd
    <2>4. FromNext'
      <3> SUFFICES ASSUME NEW i \in 1 .. L,
                          \A k \in 1 .. i - 1 : dma_read_cpl[k].n # dma_read_cpl[i].n
                   PROVE  got'[dma_read_cpl[i].n] = dma_read_cpl[i].start + Sent(i)'
        BY <2>1, <1>b DEF FromNext, SameRead
      <3>1. CASE i = 1
        <4>1. Sent(i)' = c.len - (rem - cnt)
          BY <3>1, <2>1, <1>9, <1>b, <1>h, <1>q DEF Sent
        <4> QED
          BY <4>1, <3>1, <1>b, <1>c, <1>g, <1>o
      <3>2. CASE i # 1
        <4>1. 1 \in 1 .. i - 1 /\ i \in 1 .. Len(dma_read_cpl)
          BY <3>2, <1>b
        <4>2. dma_read_cpl[i].n # c.n
          BY <4>1, <1>b
        <4>3. got[dma_read_cpl[i].n] = dma_read_cpl[i].start + Sent(i)
          BY <4>1 DEF FromNext, SameRead
        <4>4. Sent(i)' = Sent(i)
          BY <3>2 DEF Sent
        <4> QED
          BY <4>1, <4>2, <4>3, <4>4, <1>o, CplTyped
      <3> QED
        BY <3>1, <3>2
    <2>5. Accounted'
      <3> SUFFICES ASSUME err = "none", NEW n \in 1 .. Len(reqs),
                          got'[n] # reqs[n].len,
                          \A i \in 1 .. Len(dma_read_cpl) : dma_read_cpl[i].n # n
                   PROVE  split.n = n \/ \E m \in Flying : m.n = n
        BY <2>1, <1>4, <1>i DEF Accounted
      <3>1. n # c.n
        BY <1>a, <1>b
      <3>2. n \in Reads
        BY BoundAssumption, LenProperties DEF ReadType, Reads
      <3>3. got[n] # reqs[n].len
        BY <3>1, <3>2, <1>o
      <3> QED
        BY <3>3 DEF Accounted
    <2> QED
      BY <2>2, <2>3, <2>4, <2>5
  <1>10. ASSUME rem <= room
         PROVE  NoOverlap' /\ NoGap' /\ ToEnd' /\ FromNext' /\ InOrder' /\ Accounted'
    <2>1. /\ dma_read_cpl_dw_rem' = 0
          /\ Len(dma_read_cpl') = L - 1 /\ L >= 1
          /\ got'[c.n] = CplEnd(1)
      BY <1>10, <1>a, <1>b, <1>q
    <2>2. ASSUME NEW i \in 1 .. L - 1
          PROVE  /\ i + 1 \in 1 .. Len(dma_read_cpl)
                 /\ dma_read_cpl'[i] = dma_read_cpl[i + 1]
      BY <1>10, <1>b, <1>q
    <2>3. NoOverlap'
      <3> SUFFICES ASSUME NEW i \in 1 .. L - 1, NEW j \in 1 .. L - 1, i < j,
                          dma_read_cpl'[i].n = dma_read_cpl'[j].n
                   PROVE  dma_read_cpl'[i].start + dma_read_cpl'[i].len
                            <= dma_read_cpl'[j].start
        BY <2>1 DEF NoOverlap, SameRead, CplEnd
      <3>1. i + 1 < j + 1
        BY <1>b
      <3> QED
        BY <3>1, <2>2 DEF NoOverlap, SameRead, CplEnd
    <2>4. InOrder'
      <3> SUFFICES ASSUME Ordered, NEW i \in 1 .. L - 1, NEW j \in 1 .. L - 1, i < j
                   PROVE  dma_read_cpl'[i].n <= dma_read_cpl'[j].n
        BY <2>1 DEF InOrder
      <3>1. i + 1 < j + 1
        BY <1>b
      <3> QED
        BY <3>1, <2>2 DEF InOrder
    <2>5. NoGap'
      <3> SUFFICES ASSUME NEW i \in 1 .. L - 1, NEW j \in 1 .. L - 1, i < j,
                          dma_read_cpl'[i].n = dma_read_cpl'[j].n,
                          \A k \in i + 1 .. j - 1 :
                            dma_read_cpl'[i].n # dma_read_cpl'[k].n
                   PROVE  dma_read_cpl'[i].start + dma_read_cpl'[i].len
                            = dma_read_cpl'[j].start
        BY <2>1 DEF NoGap, SameRead, CplEnd
      <3>1. i + 1 < j + 1
        BY <1>b
      <3>2. ASSUME NEW k \in (i + 1) + 1 .. (j + 1) - 1
            PROVE  dma_read_cpl[i + 1].n # dma_read_cpl[k].n
        <4>0. L \in Nat /\ i \in 1 .. L - 1 /\ j \in 1 .. L - 1
              /\ k \in (i + 1) + 1 .. (j + 1) - 1
          BY <1>b
        <4>1. k - 1 \in i + 1 .. j - 1 /\ k - 1 \in 1 .. L - 1 /\ (k - 1) + 1 = k
          BY ONLY <4>0
        <4> QED
          BY <4>1, <2>2
      <3>3. /\ i + 1 \in 1 .. Len(dma_read_cpl) /\ j + 1 \in 1 .. Len(dma_read_cpl)
            /\ dma_read_cpl'[i] = dma_read_cpl[i + 1]
            /\ dma_read_cpl'[j] = dma_read_cpl[j + 1]
        BY <2>2
      <3>4. CplEnd(i + 1) = dma_read_cpl[j + 1].start
        BY <3>1, <3>2, <3>3 DEF NoGap, SameRead
      <3> QED
        BY <3>3, <3>4 DEF CplEnd
    <2>6. ToEnd'
      <3> SUFFICES ASSUME NEW i \in 1 .. L - 1,
                          \A k \in i + 1 .. L - 1 :
                            dma_read_cpl'[i].n # dma_read_cpl'[k].n
                   PROVE  dma_read_cpl'[i].start + dma_read_cpl'[i].len
                            = IF split.n = dma_read_cpl'[i].n THEN split.start
                              ELSE reqs[dma_read_cpl'[i].n].len
        BY <2>1, <1>i DEF ToEnd, SameRead, CplEnd
      <3>1. ASSUME NEW k \in (i + 1) + 1 .. Len(dma_read_cpl)
            PROVE  dma_read_cpl[i + 1].n # dma_read_cpl[k].n
        <4>0. L \in Nat /\ i \in 1 .. L - 1 /\ k \in (i + 1) + 1 .. L
          BY <1>b
        <4>1. k - 1 \in i + 1 .. L - 1 /\ k - 1 \in 1 .. L - 1 /\ (k - 1) + 1 = k
          BY ONLY <4>0
        <4> QED
          BY <4>1, <2>2
      <3>2. CplEnd(i + 1) = IF split.n = dma_read_cpl[i + 1].n THEN split.start
                            ELSE reqs[dma_read_cpl[i + 1].n].len
        BY <3>1, <2>2 DEF ToEnd, SameRead
      <3> QED
        BY <3>2, <2>2 DEF CplEnd
    <2>7. FromNext'
      <3> SUFFICES ASSUME NEW i \in 1 .. L - 1,
                          \A k \in 1 .. i - 1 : dma_read_cpl'[k].n # dma_read_cpl'[i].n
                   PROVE  got'[dma_read_cpl'[i].n] = dma_read_cpl'[i].start + Sent(i)'
        BY <2>1 DEF FromNext, SameRead
      <3>1. Sent(i)' = 0 /\ Sent(i + 1) = 0
        BY <2>1, <1>b DEF Sent
      <3>2. ASSUME NEW k \in 2 .. i
            PROVE  dma_read_cpl[k].n # dma_read_cpl[i + 1].n
        <4>1. k - 1 \in 1 .. i - 1 /\ k - 1 \in 1 .. L - 1 /\ (k - 1) + 1 = k
          BY <1>b
        <4> QED
          BY <4>1, <2>2
      <3>3. dma_read_cpl[i + 1].n \in Reads /\ dma_read_cpl[i + 1].start \in Nat
        BY <2>2, CplTyped
      <3>4. CASE dma_read_cpl[i + 1].n = c.n
        <4>1. 1 < i + 1
          BY <1>b
        <4>2. \A k \in 1 + 1 .. (i + 1) - 1 : dma_read_cpl[1].n # dma_read_cpl[k].n
          BY <3>2, <3>4, <1>b
        <4>3. CplEnd(1) = dma_read_cpl[i + 1].start
          BY <4>1, <4>2, <3>4, <2>2, <1>a, <1>b DEF NoGap, SameRead
        <4> QED
          BY <4>3, <3>1, <3>3, <3>4, <2>1, <2>2
      <3>5. CASE dma_read_cpl[i + 1].n # c.n
        <4>1. \A k \in 1 .. (i + 1) - 1 : dma_read_cpl[k].n # dma_read_cpl[i + 1].n
          BY <3>2, <3>5, <1>b
        <4>2. got[dma_read_cpl[i + 1].n] = dma_read_cpl[i + 1].start + Sent(i + 1)
          BY <4>1, <2>2 DEF FromNext, SameRead
        <4> QED
          BY <4>2, <3>1, <3>3, <3>5, <2>2, <1>o
      <3> QED
        BY <3>4, <3>5
    <2>8. Accounted'
      <3> SUFFICES ASSUME err = "none", NEW n \in 1 .. Len(reqs),
                          got'[n] # reqs[n].len,
                          \A i \in 1 .. L - 1 : dma_read_cpl'[i].n # n
                   PROVE  split.n = n \/ \E m \in Flying : m.n = n
        BY <2>1, <1>4, <1>i DEF Accounted
      <3>1. ASSUME NEW k \in 2 .. Len(dma_read_cpl)
            PROVE  dma_read_cpl[k].n # n
        <4>1. k - 1 \in 1 .. L - 1 /\ (k - 1) + 1 = k
          BY <1>b
        <4> QED
          BY <4>1, <2>2
      <3>2. n # c.n
        <4> SUFFICES ASSUME n = c.n
                     PROVE  FALSE
          OBVIOUS
        <4>1. \A k \in 1 + 1 .. Len(dma_read_cpl) :
                dma_read_cpl[1].n # dma_read_cpl[k].n
          BY <3>1, <1>b
        <4>2. CplEnd(1) = reqs[c.n].len
          BY <4>1, <1>a, <1>b, <1>c, <1>j DEF ToEnd, SameRead
        <4> QED
          BY <4>2, <2>1
      <3>3. n \in Reads
        BY BoundAssumption, LenProperties DEF ReadType, Reads
      <3>4. got[n] # reqs[n].len
        BY <3>2, <3>3, <1>o
      <3>5. \A i \in 1 .. Len(dma_read_cpl) : dma_read_cpl[i].n # n
        <4> TAKE i \in 1 .. Len(dma_read_cpl)
        <4>1. i = 1 \/ i \in 2 .. Len(dma_read_cpl)
          BY <1>a
        <4> QED
          BY <4>1, <3>1, <3>2, <1>b
      <3> QED
        BY <3>4, <3>5 DEF Accounted
    <2> QED
      BY <2>3, <2>4, <2>5, <2>6, <2>7, <2>8
  <1>11. NoOverlap' /\ NoGap' /\ ToEnd' /\ FromNext' /\ InOrder' /\ Accounted'
    BY <1>9, <1>10
  <1>12. Unasked'
    <2>1. \A n \in Reads : n > Len(reqs) => n # c.n
      BY <1>p, <1>c, LenProperties, BoundAssumption DEF ReadType, Reads
    <2> QED
      BY <2>1, <1>i, <1>o DEF Unasked
  <1>13. NeverWrong'
    <2>1. ~(sop /\ owner[c.tag] # c.n)
      BY <1>l DEF Owns
    <2> QED
      BY <2>1, <1>h, <1>k DEF AfuReceives, NeverWrong
  <1> QED
    BY <1>1, <1>2, <1>3, <1>4, <1>5, <1>6, <1>7, <1>8, <1>11, <1>12, <1>13

\* A read of the AFU is recorded or refused.
Recorded ==
    /\ err = "none" /\ Len(reqs) < MaxReads
    /\ phase # "split" /\ phase' # "split" /\ afu_to_host_state' # "MRD"
    /\ UNCHANGED <<cpls, split, rd_rsp, got, wrote, afu_err>>
    /\ \E kind \in {"read", "fence", "atomic"}, len \in ReadLens \cup {1},
          dm \in BOOLEAN : RecordRead(kind, len, dm)

\* Every step of the emulator, the application and the AFU is one of these, as
\* far as reads are concerned.
LEMMA StepKinds ==
    ASSUME ReadInv, [Next]_vars
    PROVE  Quiet \/ RdWatcher \/ ReceiveRead \/ SplitCpl \/ H2aCpld \/ Recorded
  <1>a. NeverWrong /\ Places
    BY DEF ReadInv
  <1> USE DEF Quiet, states, cpls, pipes, afu_tx, afu_rx, fsm, Running
  <1>1. ASSUME UNCHANGED vars
        PROVE  Quiet
    BY <1>1, <1>a DEF vars, NeverWrong
  <1>2. ASSUME WrWatcher \/ NewMmio \/ NewMsg
        PROVE  Quiet
    BY <1>2, <1>a DEF WrWatcher, NewMmio, NewMsg, NeverWrong
  <1>3. ASSUME AskReset \/ Reset
        PROVE  Quiet
    BY <1>3, <1>a DEF AskReset, Reset, RaiseReset, ResetCycle, LowerReset,
                      SoftResetTo, NeverWrong
  <1>4. ASSUME CompleteWrites \/ H2aNothing \/ H2aRefuse
        PROVE  Quiet
    BY <1>4, <1>a DEF CompleteWrites, H2aNothing, H2aRefuse, InHostToAfu, NeverWrong
  <1>5. ASSUME H2aMsg
        PROVE  Quiet
    BY <1>5, <1>a DEF H2aMsg, InHostToAfu, AfuReceives, NeverWrong
  <1>6. ASSUME H2aMem
        PROVE  Quiet
    BY <1>6, <1>a DEF H2aMem, InHostToAfu, AfuReceives, NeverWrong
  <1>7. ASSUME A2hNothing \/ A2hAtomicSop
        PROVE  Quiet
    BY <1>7, <1>a DEF A2hNothing, A2hAtomicSop, A2hBeat, EndOfCycle, NeverWrong
  <1>8. ASSUME A2hWriteSop \/ A2hWrite
        PROVE  Quiet
    <2>1. PICK rem, room : WriteBeat(rem, room)
      BY <1>8 DEF A2hWriteSop, A2hWrite
    <2>2. phase = "a2h"
      BY <1>8 DEF A2hWriteSop, A2hWrite, A2hBeat
    <2> QED
      BY <2>1, <2>2, <1>a DEF WriteBeat, EndOfCycle, NeverWrong
  <1>9. ASSUME A2hCpldSop \/ A2hCpld
        PROVE  Quiet
    BY <1>9, <1>a DEF A2hCpldSop, A2hCpld, A2hBeat, EndOfCycle, NeverWrong
  <1>10. ASSUME A2hRead
         PROVE  Recorded
    <2>1. \E kind \in {"read", "fence", "atomic"}, len \in ReadLens \cup {1},
             dm \in BOOLEAN : RecordRead(kind, len, dm)
      BY <1>10, ModeAssumption DEF A2hRead
    <2> QED
      BY <2>1, <1>10 DEF A2hRead, A2hBeat, EndOfCycle, Recorded
  <1>11. ASSUME A2hAtomic
         PROVE  Recorded
    <2>1. Len(reqs) < MaxReads
      BY <1>11, <1>a DEF A2hAtomic, A2hBeat, Places
    <2>2. \E kind \in {"read", "fence", "atomic"}, len \in ReadLens \cup {1},
             dm \in BOOLEAN : RecordRead(kind, len, dm)
      BY <1>11 DEF A2hAtomic
    <2> QED
      BY <2>1, <2>2, <1>11 DEF A2hAtomic, A2hBeat, EndOfCycle, Recorded
  <1>12. ASSUME PollReads \/ Killed
         PROVE  Quiet
    BY <1>12, <1>1 DEF PollReads, Killed
  <1> QED
    BY <1>1, <1>2, <1>3, <1>4, <1>5, <1>6, <1>7, <1>8, <1>9, <1>10, <1>11, <1>12
    DEF Next, App, HostToAfu, AfuToHost

\* Every step preserves the invariant.
LEMMA ReadStep == ReadInv /\ [Next]_vars => ReadInv'
  <1> SUFFICES ASSUME ReadInv, [Next]_vars
               PROVE  ReadInv'
    OBVIOUS
  <1>1. ASSUME Recorded
        PROVE  ReadInv'
    <2>1. PICK kind \in {"read", "fence", "atomic"}, len \in ReadLens \cup {1},
               dm \in BOOLEAN : RecordRead(kind, len, dm)
      BY <1>1 DEF Recorded
    <2>2. len \in Nat \ {0}
      BY LenAssumption
    <2> QED
      BY <1>1, <2>1, <2>2, RecordReadStep DEF Recorded
  <1> QED
    BY <1>1, StepKinds, QuietStep, RdWatcherStep, ReceiveReadStep, SplitCplStep,
       H2aCpldStep

\* The invariant holds in every reachable state.
LEMMA ReadInvariance == Spec => []ReadInv
  BY ReadInit, ReadStep, PTL DEF Spec

\* A completion whose header has still to be sent finds its request in its
\* state: the tag that pcie_tlp_h2a_cpld frees is not the tag of another read,
\* however completions are reordered and whenever the AFU is reset.
THEOREM CompletionsFindTheirState == Spec => []CplStateLive
  BY ReadInvariance, PTL DEF ReadInv

\* The completions of every read cover its words once and in order, and the
\* one that frees the response data is the last, however responses are cut
\* (random_cpl_length) and inserted (push_new_read_cpl).
THEOREM WordsSentOnce == Spec => []EveryWordOnce
  <1>1. ReadInv => EveryWordOnce
    <2> SUFFICES ASSUME ReadInv, NEW i \in 1 .. Len(dma_read_cpl)
                 PROVE  LET n == dma_read_cpl[i].n IN
          /\ (\A k \in 1 .. i - 1 : ~SameRead(k, i)) =>
               got[n] = dma_read_cpl[i].start + Sent(i)
          /\ \A j \in i + 1 .. Len(dma_read_cpl) :
               /\ SameRead(i, j)
               /\ \A k \in i + 1 .. j - 1 : ~SameRead(i, k)
               => CplEnd(i) = dma_read_cpl[j].start
          /\ dma_read_cpl[i].is_last <=> CplEnd(i) = reqs[n].len
          /\ (\A k \in i + 1 .. Len(dma_read_cpl) : ~SameRead(i, k)) =>
               CplEnd(i) = IF split.n = n THEN split.start ELSE reqs[n].len
      BY DEF EveryWordOnce
    <2> USE DEF ReadInv
    <2>1. (\A k \in 1 .. i - 1 : ~SameRead(k, i)) =>
            got[dma_read_cpl[i].n] = dma_read_cpl[i].start + Sent(i)
      BY DEF FromNext
    <2>2. ASSUME NEW j \in i + 1 .. Len(dma_read_cpl), SameRead(i, j),
                 \A k \in i + 1 .. j - 1 : ~SameRead(i, k)
          PROVE  CplEnd(i) = dma_read_cpl[j].start
      <3>1. j \in 1 .. Len(dma_read_cpl) /\ i < j
        BY LenProperties DEF ReadType
      <3> QED
        BY <3>1, <2>2 DEF NoGap
    <2>3. dma_read_cpl[i].is_last <=> CplEnd(i) = reqs[dma_read_cpl[i].n].len
      BY DEF Ranges
    <2>4. (\A k \in i + 1 .. Len(dma_read_cpl) : ~SameRead(i, k)) =>
            CplEnd(i) = IF split.n = dma_read_cpl[i].n THEN split.start
                        ELSE reqs[dma_read_cpl[i].n].len
      BY DEF ToEnd
    <2> QED
      BY <2>1, <2>2, <2>3, <2>4
  <1> QED
    BY <1>1, ReadInvariance, PTL

\* The AFU never receives the words of another read and never out of order
\* (pcie_tlp_h2a_cpld).
THEOREM ReadDataIsCorrect == Spec => []ReadDataCorrect
  <1>1. ReadInv => ReadDataCorrect
    BY DEF ReadInv, NeverWrong, ReadDataCorrect
  <1> QED
    BY <1>1, ReadInvariance, PTL

\* A beat brings a read words that it lacks, no more than it asked for, and
\* in order if completions are ordered (pcie_tlp_h2a_cpld).
LEMMA CpldGives ==
    ASSUME ReadInv, H2aCpld
    PROVE  \E n \in 1 .. Len(reqs) : \E k \in got[n] .. reqs[n].len :
             /\ got' = [got EXCEPT ![n] = k] /\ UNCHANGED reqs
             /\ Ordered => \A m \in 1 .. n - 1 : got[m] = reqs[m].len
  <1> USE DEF ReadInv
  <1>a. /\ dma_read_cpl \in Seq(Cpls) /\ dma_read_cpl # << >>
        /\ 1 \in 1 .. Len(dma_read_cpl) /\ Head(dma_read_cpl) = dma_read_cpl[1]
    BY EmptySeq, LenProperties DEF ReadType, H2aCpld
  <1>b. PICK c \in Cpls : c = dma_read_cpl[1]
    BY <1>a, CplTyped
  <1>c. /\ c.n \in 1 .. Len(reqs) /\ c.n \in Reads /\ reqs[c.n].len \in Nat
        /\ c.n \in Nat /\ c.start \in Nat /\ c.len \in Nat /\ c.len > 0
        /\ c.start + c.len <= reqs[c.n].len
    BY <1>a, <1>b, CplTyped, ReqTyped DEF Ranges, CplEnd
  <1>d. PICK rem, room :
          /\ rem = (IF dma_read_cpl_dw_rem = 0 THEN c.len ELSE dma_read_cpl_dw_rem)
          /\ room = Room(dma_read_cpl_dw_rem = 0)
    OBVIOUS
  <1>e. PICK cnt : cnt = Smaller(rem, room)
    OBVIOUS
  <1>f. got' = [got EXCEPT ![c.n] = got[c.n] + cnt] /\ UNCHANGED reqs
    BY <1>a, <1>b, <1>d, <1>e DEF H2aCpld, afu_tx
  <1>g. rem \in Nat /\ rem > 0 /\ rem <= c.len /\ cnt \in 0 .. rem
    <2>1. rem \in Nat /\ rem > 0 /\ rem <= c.len
      BY <1>b, <1>c, <1>d DEF ReadType, Places
    <2>2. room \in Nat
      BY <1>d, WidthAssumption DEF Room
    <2> QED
      BY <2>1, <2>2, <1>e DEF Smaller
  <1>h. got[c.n] = c.start + c.len - rem
    <2>1. got[c.n] = c.start + Sent(1)
      BY <1>a, <1>b DEF FromNext
    <2> QED
      BY <2>1, <1>b, <1>c, <1>d, <1>g DEF Sent, ReadType
  <1>i. got[c.n] + cnt \in got[c.n] .. reqs[c.n].len
    <2>1. PICK s \in Nat, l \in Nat, w \in Nat :
            s = c.start /\ l = c.len /\ w = reqs[c.n].len
      BY <1>c
    <2>2. /\ rem \in Nat /\ rem <= l /\ cnt \in 0 .. rem /\ s + l <= w
          /\ got[c.n] = s + l - rem /\ w = reqs[c.n].len
      BY <2>1, <1>c, <1>g, <1>h
    <2> QED
      BY ONLY <2>1, <2>2
  <1>j. ASSUME Ordered, NEW m \in 1 .. c.n - 1
        PROVE  got[m] = reqs[m].len
    <2>0. Len(reqs) \in Nat /\ c.n \in 1 .. Len(reqs)
      BY <1>c, LenProperties DEF ReadType
    <2>1. m \in 1 .. Len(reqs) /\ m < c.n
      BY ONLY <2>0, m \in 1 .. c.n - 1
    <2>2. \A i \in 1 .. Len(dma_read_cpl) : dma_read_cpl[i].n # m
      <3> TAKE i \in 1 .. Len(dma_read_cpl)
      <3>1. i = 1 \/ 1 < i
        BY <1>a, LenProperties
      <3>2. c.n <= dma_read_cpl[i].n /\ dma_read_cpl[i].n \in Nat
        BY <3>1, <1>a, <1>b, <1>c, <1>j, CplTyped DEF InOrder
      <3> QED
        BY <3>2, <2>1, <1>c
    <2>3. split.n # m
      BY <2>1 DEF Places, H2aCpld, InHostToAfu, Running, NoRead
    <2>4. \A x \in Flying : x.n # m
      BY <2>1, <1>a, <1>b, <1>c, FlyingTyped DEF FlyingLive
    <2>5. err = "none"
      BY DEF H2aCpld, InHostToAfu, Running
    <2> QED
      BY <2>1, <2>2, <2>3, <2>4, <2>5 DEF Accounted
  <1> QED
    BY <1>c, <1>f, <1>i, <1>j

\* The lengths the abstract service knows.
Want == [n \in 1 .. Len(reqs) |-> reqs[n].len]

\* The emulator, its pipes and the watchers implement the read service of
\* DmaReads: every read gets exactly the words it asked for and, with
\* ordered_completions, the reads are answered in order; a soft reset of the
\* AFU in the middle changes nothing.
THEOREM EmulatorImplementsReads == Spec => ImplementsDmaReads
  <1>1. Init => Service!Init
    BY DEF Init, Service!Init, Reads
  <1>2. ReadInv /\ [Next]_vars => [Service!Next]_<<Want, got>>
    <2> SUFFICES ASSUME ReadInv, [Next]_vars
                 PROVE  [Service!Next]_<<Want, got>>
      OBVIOUS
    <2>a. /\ reqs \in Seq(ReadRecs) /\ Len(reqs) \in Nat /\ Len(reqs) <= MaxReads
          /\ got \in [Reads -> Nat] /\ DOMAIN Want = 1 .. Len(reqs)
          /\ \A n \in 1 .. Len(reqs) : Want[n] = reqs[n].len /\ Want[n] \in Nat
      <3>1. reqs \in Seq(ReadRecs) /\ Len(reqs) \in Nat
        BY LenProperties DEF ReadInv, ReadType
      <3>2. \A n \in 1 .. Len(reqs) : reqs[n] \in ReadRecs
        BY <3>1
      <3> QED
        BY <3>1, <3>2 DEF ReadInv, ReadType, ReadRecs, Want
    <2>b. Want \in Seq(Nat) /\ Len(Want) = Len(reqs)
      BY <2>a DEF Want
    <2>1. CASE Quiet \/ RdWatcher \/ ReceiveRead \/ SplitCpl
      BY <2>1 DEF Quiet, RdWatcher, ReceiveRead, SplitCpl, Want, afu_tx, afu_rx
    <2>2. CASE Recorded
      <3>0. PICK kind \in {"read", "fence", "atomic"},
                 len \in ReadLens \cup {1}, dm \in BOOLEAN :
                   RecordRead(kind, len, dm)
        BY <2>2 DEF Recorded
      <3>1. PICK r : /\ r = [kind |-> kind, len |-> len, dm |-> dm,
                             after |-> wrote]
                     /\ reqs' = Append(reqs, r)
        BY <3>0 DEF RecordRead
      <3>2. /\ Len(reqs') = Len(reqs) + 1 /\ reqs'[Len(reqs) + 1].len = len
            /\ \A n \in 1 .. Len(reqs) : reqs'[n] = reqs[n]
        <4>1. r \in ReadRecs /\ r.len = len
          BY <3>1, LenAssumption DEF ReadRecs, ReadInv, ReadType
        <4> QED
          BY <3>1, <4>1, <2>a
      <3>3. Want' = Append(Want, len)
        <4>1. len \in Nat
          BY LenAssumption
        <4>2. /\ Append(Want, len) \in Seq(Nat)
              /\ Len(Append(Want, len)) = Len(reqs) + 1
              /\ \A n \in 1 .. Len(reqs) : Append(Want, len)[n] = Want[n]
              /\ Append(Want, len)[Len(reqs) + 1] = len
          BY <4>1, <2>b
        <4>3. \A n \in 1 .. Len(reqs) + 1 : Append(Want, len)[n] = reqs'[n].len
          <5> TAKE n \in 1 .. Len(reqs) + 1
          <5>1. n \in 1 .. Len(reqs) \/ n = Len(reqs) + 1
            BY <2>a
          <5> QED
            BY <5>1, <4>2, <3>2, <2>a
        <4>4. \A n \in 1 .. Len(reqs) + 1 : reqs'[n].len \in Nat
          BY <4>2, <4>3
        <4>5. /\ Want' = [n \in 1 .. Len(reqs) + 1 |-> reqs'[n].len]
              /\ Want' \in Seq(Nat) /\ Len(Want') = Len(reqs) + 1
          BY <4>4, <3>2, <2>a DEF Want
        <4>6. \A n \in 1 .. Len(Want') : Want'[n] = Append(Want, len)[n]
          BY <4>3, <4>5
        <4>7. PICK s \in Seq(Nat), t \in Seq(Nat) : s = Want' /\ t = Append(Want, len)
          BY <4>2, <4>5
        <4>8. s = t
          BY <4>2, <4>5, <4>6, <4>7, SeqEqual
        <4> QED
          BY <4>7, <4>8
      <3>4. Len(Want) < MaxReads /\ UNCHANGED got
        BY <2>2, <2>b DEF Recorded
      <3> QED
        BY <3>3, <3>4 DEF Service!Next, Service!Ask, Want
    <2>3. CASE H2aCpld
      <3>0. PICK n \in 1 .. Len(reqs) : \E k \in got[n] .. reqs[n].len :
              /\ got' = [got EXCEPT ![n] = k] /\ UNCHANGED reqs
              /\ Ordered => \A m \in 1 .. n - 1 : got[m] = reqs[m].len
        BY <2>3, CpldGives
      <3>1. PICK k \in got[n] .. reqs[n].len :
              /\ got' = [got EXCEPT ![n] = k] /\ UNCHANGED reqs
              /\ Ordered => \A m \in 1 .. n - 1 : got[m] = reqs[m].len
        BY <3>0
      <3>2. Want' = Want
        BY <3>1 DEF Want
      <3>3. n \in 1 .. MaxReads /\ got[n] \in Nat
        BY <2>a, BoundAssumption DEF Reads
      <3>4. CASE k = got[n]
        BY <3>1, <3>2, <3>4, <2>a
      <3>5. CASE k # got[n]
        <4>1. k \in got[n] + 1 .. Want[n] /\ n <= Len(Want)
          BY <3>3, <3>5, <2>a, <2>b
        <4>2. Ordered => \A m \in 1 .. n - 1 : m <= Len(Want) /\ got[m] = Want[m]
          BY <3>1, <2>a, <2>b
        <4> QED
          BY <3>1, <3>2, <3>3, <4>1, <4>2
          DEF Service!Next, Service!Give, Service!Finished, Want
      <3> QED
        BY <3>4, <3>5
    <2> QED
      BY <2>1, <2>2, <2>3, StepKinds
  <1> QED
    BY <1>1, <1>2, ReadInvariance, PTL
    DEF Spec, ImplementsDmaReads, Service!Spec, Want

-----------------------------------------------------------------------------
(* The counters that the emulator polls on. *)

PendingInv == PendingMatchesPipes /\ wr_req \in Nat /\ wr_rsp \in Nat

\* Every step moves the counters with the pipes.
LEMMA PendingStep ==
    ASSUME ReadInv, PendingInv, [Next]_vars
    PROVE  PendingInv'
  <1>a. /\ rd_req \in Seq(PipeMsgs) /\ rd_rsp \in Seq(PipeMsgs)
        /\ Len(rd_req) \in Nat /\ Len(rd_rsp) \in Nat
    BY LenProperties DEF ReadInv, ReadType
  <1> USE DEF PendingInv, PendingMatchesPipes, pipes, counts
  <1>1. ASSUME UNCHANGED <<counts, rd_req, rd_rsp, wr_req, wr_rsp>>
        PROVE  PendingInv'
    BY <1>1
  <1>2. CASE RdWatcher
    <2>1. Len(rd_req') + Len(rd_rsp') = Len(rd_req) + Len(rd_rsp)
      BY <1>2, <1>a DEF RdWatcher
    <2> QED
      BY <2>1, <1>2 DEF RdWatcher
  <1>3. CASE WrWatcher
    BY <1>3 DEF WrWatcher
  <1>4. CASE CompleteWrites
    BY <1>4 DEF CompleteWrites
  <1>5. CASE ReceiveRead
    <2>1. Len(rd_rsp') = Len(rd_rsp) - 1
      BY <1>5, <1>a DEF ReceiveRead
    <2> QED
      BY <2>1, <1>5, <1>a DEF ReceiveRead
  <1>6. CASE A2hRead \/ A2hAtomic
    <2>1. PICK kind, len, dm : RecordRead(kind, len, dm)
      BY <1>6 DEF A2hRead, A2hAtomic
    <2>2. /\ UNCHANGED <<rd_rsp, wr_req, wr_rsp, num_dma_writes_pending>>
      BY <1>6 DEF A2hRead, A2hAtomic
    <2>3. CASE err' = "none"
      <3>1. PICK x : rd_req' = Append(rd_req, x)
        BY <2>1, <2>3 DEF RecordRead
      <3>2. Len(rd_req') = Len(rd_req) + 1
        BY <3>1, <1>a
      <3>3. num_dma_reads_pending' = num_dma_reads_pending + 1
        BY <2>1, <2>3 DEF RecordRead
      <3> QED
        BY <3>2, <3>3, <2>2, <1>a
    <2>4. CASE err' # "none"
      BY <2>1, <2>2, <2>4 DEF RecordRead
    <2> QED
      BY <2>3, <2>4
  <1>7. CASE A2hWriteSop \/ A2hWrite
    <2>1. PICK rem, room : WriteBeat(rem, room)
      BY <1>7 DEF A2hWriteSop, A2hWrite
    <2> QED
      BY <2>1 DEF WriteBeat
  <1>8. CASE NewMmio \/ NewMsg \/ AskReset \/ Reset
    BY <1>8, <1>1 DEF NewMmio, NewMsg, AskReset, Reset, RaiseReset, ResetCycle,
                      LowerReset, SoftResetTo
  <1>9. CASE SplitCpl \/ H2aNothing \/ H2aMsg \/ H2aMem \/ H2aCpld \/ H2aRefuse
    BY <1>9, <1>1 DEF SplitCpl, H2aNothing, H2aMsg, H2aMem, H2aCpld, H2aRefuse
  <1>10. CASE A2hNothing \/ A2hAtomicSop \/ A2hCpldSop \/ A2hCpld
    BY <1>10, <1>1 DEF A2hNothing, A2hAtomicSop, A2hCpldSop, A2hCpld
  <1>11. CASE PollReads \/ Killed \/ UNCHANGED vars
    BY <1>11, <1>1 DEF PollReads, Killed, vars
  <1> QED
    BY <1>2, <1>3, <1>4, <1>5, <1>6, <1>7, <1>8, <1>9, <1>10, <1>11
    DEF Next, App, HostToAfu, AfuToHost

\* The counts of pending requests, on which the emulator polls and so would
\* hang, are the numbers of messages the application has still to answer
\* (pcie_receive_dma_reads, pcie_complete_dma_writes), also after a reset.
THEOREM CountsMatchPipes == Spec => []PendingMatchesPipes
  <1>1. Init => PendingInv
    BY DEF Init, PendingInv, PendingMatchesPipes
  <1>2. PendingInv => PendingMatchesPipes
    BY DEF PendingInv
  <1> QED
    BY <1>1, <1>2, PendingStep, ReadInvariance, PTL DEF Spec

-----------------------------------------------------------------------------
(* The stream to the AFU. *)

\* A completion that is half sent stays at the head (push_new_read_cpl).
LEMMA SplitKeepsHead ==
    ASSUME ReadInv, SplitCpl, dma_read_cpl_dw_rem > 0
    PROVE  dma_read_cpl'[1] = dma_read_cpl[1]
  <1>a. dma_read_cpl \in Seq(Cpls) /\ dma_read_cpl # << >> /\ split.tag \in Tags
        /\ Len(dma_read_cpl) > 0 /\ Len(dma_read_cpl) \in Nat
    BY EmptySeq, LenProperties DEF ReadInv, ReadType, Places
  <1>b. split.n \in Reads /\ split.start \in Nat /\ split.rem \in Nat \ {0}
    BY DEF ReadInv, ReadType, Places, SplitLive, SplitCpl, Running
  <1>c. PICK len \in CplLengths(split.rem, reqs[owner[split.tag]].dm),
             p \in CplPositions(split.tag) :
          dma_read_cpl' = InsertAfter(dma_read_cpl, p,
               [tag |-> split.tag, n |-> split.n, start |-> split.start,
                len |-> len, is_last |-> IsLast(len)])
    BY DEF SplitCpl
  <1>d. PICK x \in Cpls :
          x = [tag |-> split.tag, n |-> split.n, start |-> split.start,
               len |-> len, is_last |-> IsLast(len)]
    <2>1. len \in 1 .. split.rem
      BY <1>b, CplLengthsRange
    <2>2. len \in Nat \ {0}
      BY <2>1, <1>b
    <2>3. [tag |-> split.tag, n |-> split.n, start |-> split.start,
           len |-> len, is_last |-> IsLast(len)] \in Cpls
      BY <1>a, <1>b, <2>2 DEF Cpls, IsLast
    <2> QED
      BY <2>3
  <1>e. p \in 0 .. Len(dma_read_cpl) /\ 1 \in 1 .. p
    BY <1>a, CplPositionsRange
  <1>f. PICK q \in Seq(Cpls) : q = dma_read_cpl
    BY <1>a
  <1>g. InsertAfter(q, p, x)[1] = q[1]
    BY <1>e, <1>f, InsertProps
  <1> QED
    BY <1>c, <1>d, <1>f, <1>g

\* A beat of an MMIO request (pcie_tlp_h2a_mem).
LEMMA FrameMem ==
    ASSUME ReadInv, FrameInv, H2aMem
    PROVE  FrameInv'
  <1>a. /\ mmio_req \in Seq(MmioLens) /\ mmio_req # << >>
        /\ mmio_req_dw_rem \in Nat /\ Len(mmio_req) \in Nat
    BY LenProperties DEF FrameInv, H2aMem
  <1>b. PICK len : len = Head(mmio_req)
    OBVIOUS
  <1>c. len \in Nat
    <2>1. 1 \in 1 .. Len(mmio_req) /\ Head(mmio_req) = mmio_req[1]
      BY <1>a, EmptySeq
    <2>2. mmio_req[1] \in MmioLens
      BY <1>a, <2>1, ElementOfSeq
    <2> QED
      BY <1>b, <2>1, <2>2, LenAssumption
  <1>d. PICK sop \in BOOLEAN : sop <=> mmio_req_dw_rem = 0
    OBVIOUS
  <1>e. PICK rem, room : /\ rem = (IF sop THEN len ELSE mmio_req_dw_rem)
                         /\ room = Room(sop)
    OBVIOUS
  <1>f. PICK cnt : cnt = Smaller(rem, room)
    OBVIOUS
  <1>g. /\ rem \in Nat /\ cnt \in Nat /\ cnt <= rem /\ room \in Nat
        /\ (rem <= room => cnt = rem) /\ (~(rem <= room) => cnt < rem)
    <2>1. rem \in Nat /\ room \in Nat
      BY <1>a, <1>c, <1>e, WidthAssumption DEF Room
    <2> QED
      BY <2>1, <1>f DEF Smaller
  <1>h. /\ mmio_req_dw_rem' = rem - cnt
        /\ mmio_req' = IF rem <= room THEN Tail(mmio_req) ELSE mmio_req
        /\ host_to_afu_state' = IF rem <= room THEN "SOP" ELSE "MWR"
        /\ AfuReceives(sop, "mmio", NoRead, len, cnt, "none")
        /\ UNCHANGED <<dma_read_cpl, dma_read_cpl_dw_rem, SoftReset, num_reset>>
    BY <1>b, <1>d, <1>e, <1>f DEF H2aMem, cpls, bounds
  <1>1. mmio_req' \in Seq(MmioLens) /\ mmio_req_dw_rem' \in Nat
    <2>1. Tail(mmio_req) \in Seq(MmioLens)
      BY <1>a
    <2> QED
      BY <2>1, <1>a, <1>g, <1>h
  <1>2. ASSUME num_reset = 0
        PROVE  /\ afu_err' \notin {"interrupted", "headless"}
               /\ dma_read_cpl_dw_rem = 0
               /\ rx' = IF rem <= room THEN NoPacket
                        ELSE [n |-> NoRead, kind |-> "mmio", left |-> rem - cnt]
    <2>1. afu_err \notin {"interrupted", "headless"}
      BY <1>2 DEF FrameInv
    <2>2. CASE sop
      <3>1. host_to_afu_state = "SOP" /\ rx = NoPacket /\ dma_read_cpl_dw_rem = 0
        BY <1>2, <2>2, <1>d DEF FrameInv, H2aMem
      <3>0. rem = len
        BY <2>2, <1>e
      <3>2. rem = len /\ (len - cnt > 0 <=> ~(rem <= room))
        <4>1. rem - cnt > 0 <=> ~(rem <= room)
          BY <1>g
        <4> QED
          BY <4>1, <3>0
      <3>3. rx' = IF rem <= room THEN NoPacket
                  ELSE [n |-> NoRead, kind |-> "mmio", left |-> rem - cnt]
        BY <3>2, <2>2, <1>h DEF AfuReceives
      <3>4. afu_err' \in {afu_err, "none"}
        BY <3>1, <2>2, <1>h DEF AfuReceives
      <3> QED
        BY <3>1, <3>3, <3>4, <2>1
    <2>3. CASE ~sop
      <3>1. /\ rx = [n |-> NoRead, kind |-> "mmio", left |-> mmio_req_dw_rem]
            /\ dma_read_cpl_dw_rem = 0
        BY <1>2, <2>3, <1>a, <1>d DEF FrameInv, H2aMem
      <3>2. rx.n = NoRead /\ rx.kind = "mmio" /\ rx.left = rem
        BY <3>1, <2>3, <1>e
      <3> QED
        BY <3>1, <3>2, <2>1, <2>3, <1>g, <1>h DEF AfuReceives
    <2> QED
      BY <2>2, <2>3
  <1> QED
    BY <1>1, <1>2, <1>a, <1>g, <1>h DEF FrameInv

\* A beat of a completion (pcie_tlp_h2a_cpld).
LEMMA FrameCpld ==
    ASSUME ReadInv, FrameInv, H2aCpld
    PROVE  FrameInv'
  <1>a. /\ dma_read_cpl \in Seq(Cpls) /\ dma_read_cpl # << >>
        /\ 1 \in 1 .. Len(dma_read_cpl) /\ Head(dma_read_cpl) = dma_read_cpl[1]
        /\ dma_read_cpl_dw_rem \in Nat
    BY EmptySeq, LenProperties DEF ReadInv, ReadType, H2aCpld
  <1>b. PICK c \in Cpls : c = dma_read_cpl[1]
    BY <1>a, CplTyped DEF ReadInv
  <1>c. c.len \in Nat /\ c.len > 0
    BY <1>a, <1>b, CplTyped DEF ReadInv
  <1>d. PICK sop \in BOOLEAN : sop <=> dma_read_cpl_dw_rem = 0
    OBVIOUS
  <1>e. PICK rem, room : /\ rem = (IF sop THEN c.len ELSE dma_read_cpl_dw_rem)
                         /\ room = Room(sop)
    OBVIOUS
  <1>f. PICK cnt : cnt = Smaller(rem, room)
    OBVIOUS
  <1>g. /\ rem \in Nat /\ rem > 0 /\ cnt \in Nat /\ cnt <= rem
        /\ (rem <= room => cnt = rem) /\ (~(rem <= room) => cnt < rem)
    <2>1. rem \in Nat /\ room \in Nat /\ rem > 0
      BY <1>a, <1>c, <1>d, <1>e, WidthAssumption DEF Room
    <2> QED
      BY <2>1, <1>f DEF Smaller
  <1>h. PICK problem :
          /\ dma_read_cpl_dw_rem' = rem - cnt
          /\ dma_read_cpl' = IF rem <= room THEN Tail(dma_read_cpl) ELSE dma_read_cpl
          /\ host_to_afu_state' = IF rem <= room THEN "SOP" ELSE "CPL"
          /\ AfuReceives(sop, "cpl", c.n, c.len, cnt, problem)
          /\ problem \in {"wrong_header", "out_of_order", "none"}
          /\ UNCHANGED <<mmio_req, mmio_req_dw_rem, SoftReset, num_reset>>
    BY <1>a, <1>b, <1>d, <1>e, <1>f DEF H2aCpld, mmio, bounds
  <1>1. ASSUME num_reset = 0
        PROVE  /\ afu_err' \notin {"interrupted", "headless"}
               /\ mmio_req_dw_rem = 0
               /\ rx' = IF rem <= room THEN NoPacket
                        ELSE [n |-> c.n, kind |-> "cpl", left |-> rem - cnt]
    <2>1. afu_err \notin {"interrupted", "headless"}
      BY <1>1 DEF FrameInv
    <2>2. CASE sop
      <3>1. host_to_afu_state = "SOP" /\ rx = NoPacket /\ mmio_req_dw_rem = 0
        BY <1>1, <2>2, <1>d DEF FrameInv, H2aCpld
      <3>0. rem = c.len
        BY <2>2, <1>e
      <3>2. rem = c.len /\ (c.len - cnt > 0 <=> ~(rem <= room))
        <4>1. rem - cnt > 0 <=> ~(rem <= room)
          BY <1>g
        <4> QED
          BY <4>1, <3>0
      <3>3. rx' = IF rem <= room THEN NoPacket
                  ELSE [n |-> c.n, kind |-> "cpl", left |-> rem - cnt]
        BY <3>2, <2>2, <1>h DEF AfuReceives
      <3>4. afu_err' \in {afu_err, problem}
        BY <3>1, <2>2, <1>h DEF AfuReceives
      <3> QED
        BY <3>1, <3>3, <3>4, <2>1, <1>h
    <2>3. CASE ~sop
      <3>1. /\ rx = [n |-> c.n, kind |-> "cpl", left |-> dma_read_cpl_dw_rem]
            /\ mmio_req_dw_rem = 0
        BY <1>1, <2>3, <1>a, <1>b, <1>d DEF FrameInv, H2aCpld
      <3>2. rx.n = c.n /\ rx.kind = "cpl" /\ rx.left = rem
        BY <3>1, <2>3, <1>e
      <3> QED
        BY <3>1, <3>2, <2>1, <2>3, <1>g, <1>h DEF AfuReceives
    <2> QED
      BY <2>2, <2>3
  <1> QED
    BY <1>1, <1>a, <1>b, <1>g, <1>h DEF FrameInv

\* Every step keeps the stream and what the AFU waits for in agreement.
LEMMA FrameStep ==
    ASSUME ReadInv, FrameInv, [Next]_vars
    PROVE  FrameInv'
  <1>1. ASSUME UNCHANGED <<dma_read_cpl, dma_read_cpl_dw_rem, mmio,
                           host_to_afu_state, rx, afu_err, SoftReset, num_reset>>
        PROVE  FrameInv'
    BY <1>1 DEF FrameInv, mmio
  <1> USE DEF cpls, afu_rx, afu_tx, fsm, bounds
  <1>2. CASE RdWatcher \/ WrWatcher \/ NewMsg
    BY <1>2, <1>1 DEF RdWatcher, WrWatcher, NewMsg
  <1>3. CASE NewMmio
    <2>1. PICK len \in MmioLens : mmio_req' = Append(mmio_req, len)
      BY <1>3 DEF NewMmio
    <2>2. mmio_req' \in Seq(MmioLens) /\ mmio_req' # << >>
      BY <2>1 DEF FrameInv
    <2> QED
      BY <2>2, <1>3 DEF NewMmio, FrameInv
  <1>4. CASE AskReset
    BY <1>4 DEF AskReset, SoftResetTo, FrameInv, mmio
  <1>5. CASE RaiseReset \/ ResetCycle \/ LowerReset
    BY <1>5 DEF RaiseReset, ResetCycle, LowerReset, SoftResetTo, FrameInv, mmio
  <1>6. CASE CompleteWrites \/ ReceiveRead \/ H2aNothing
    BY <1>6, <1>1 DEF CompleteWrites, ReceiveRead, H2aNothing
  <1>7. CASE SplitCpl
    <2>1. UNCHANGED <<dma_read_cpl_dw_rem, mmio_req, mmio_req_dw_rem,
                      host_to_afu_state, rx, afu_err, SoftReset, num_reset>>
      BY <1>7 DEF SplitCpl, mmio
    <2>2. dma_read_cpl_dw_rem > 0 => dma_read_cpl'[1] = dma_read_cpl[1]
      BY <1>7, SplitKeepsHead
    <2> QED
      BY <2>1, <2>2 DEF FrameInv
  <1>8. CASE H2aMsg
    <2>1. /\ UNCHANGED <<dma_read_cpl, dma_read_cpl_dw_rem, mmio_req,
                         mmio_req_dw_rem, host_to_afu_state, SoftReset, num_reset>>
          /\ host_to_afu_state = "SOP"
          /\ AfuReceives(TRUE, "msg", NoRead, 0, 0, "none")
      BY <1>8 DEF H2aMsg, mmio
    <2>2. num_reset = 0 => rx = NoPacket
      BY <2>1 DEF FrameInv
    <2> QED
      BY <2>1, <2>2 DEF FrameInv, AfuReceives
  <1>9. CASE H2aRefuse
    BY <1>9 DEF H2aRefuse, FrameInv, mmio
  <1>10. CASE A2hNothing \/ A2hAtomicSop \/ A2hCpldSop \/ A2hCpld
    BY <1>10, <1>1 DEF A2hNothing, A2hAtomicSop, A2hCpldSop, A2hCpld
  <1>11. CASE A2hRead \/ A2hAtomic
    BY <1>11, <1>1 DEF A2hRead, A2hAtomic
  <1>12. CASE A2hWriteSop \/ A2hWrite
    <2>1. PICK rem, room : WriteBeat(rem, room)
      BY <1>12 DEF A2hWriteSop, A2hWrite
    <2> QED
      BY <2>1, <1>1 DEF WriteBeat
  <1>13. CASE PollReads \/ Killed \/ UNCHANGED vars
    BY <1>13, <1>1 DEF PollReads, Killed, vars
  <1> QED
    BY <1>2, <1>3, <1>4, <1>5, <1>6, <1>7, <1>8, <1>9, <1>10, <1>11, <1>12,
       <1>13, FrameMem, FrameCpld
    DEF Next, App, Reset, HostToAfu, AfuToHost

\* The AFU sees whole packets with their headers as long as it is not reset,
\* for every width of the bus and every length of completions and MMIO writes
\* (pcie_ss_stream_host_to_afu and the h2a functions).
THEOREM PacketsWellFramed == Spec => []WellFramed
  <1>1. Init => FrameInv
    BY DEF Init, FrameInv
  <1>2. FrameInv => WellFramed
    BY DEF FrameInv, WellFramed
  <1> QED
    BY <1>1, <1>2, FrameStep, ReadInvariance, PTL DEF Spec

-----------------------------------------------------------------------------
(* The free list, and the tags of the AFU. *)

\* There are finitely many tags.
LEMMA TagsFinite ==
    /\ IsFiniteSet(Tags) /\ Cardinality(Tags) = NumTags
    /\ \A S \in SUBSET Tags : /\ IsFiniteSet(S) /\ Cardinality(S) \in Nat
                              /\ Cardinality(S) <= NumTags
                              /\ Cardinality(S) = 0 <=> S = {}
  <1>1. IsFiniteSet(Tags) /\ Cardinality(Tags) = NumTags
    BY FS_Interval, TagsAssumption DEF Tags
  <1>2. ASSUME NEW S \in SUBSET Tags
        PROVE  /\ IsFiniteSet(S) /\ Cardinality(S) \in Nat
               /\ Cardinality(S) <= NumTags
               /\ Cardinality(S) = 0 <=> S = {}
    <2>1. IsFiniteSet(S) /\ Cardinality(S) <= Cardinality(Tags)
      BY <1>1, FS_Subset
    <2> QED
      BY <1>1, <2>1, FS_CardinalityType, FS_EmptySet
  <1> QED
    BY <1>1, <1>2

\* Taking the head of the free list leaves a list of the others, although the
\* link of the state that is taken is overwritten (pcie_tlp_a2h_mrd).
LEMMA TakeHead ==
    ASSUME NEW idle \in SUBSET Tags, NEW head \in idle,
           NEW next \in [Tags -> Tags \cup {Null, Cycle}],
           NEW rank \in [Tags -> 0 .. NumTags], Linked(idle, head, next, rank)
    PROVE  Linked(idle \ {head}, next[head], [next EXCEPT ![head] = Cycle], rank)
  <1>1. PICK N \in Nat : N = Cardinality(idle) /\ N > 0 /\ N <= NumTags
    BY TagsFinite
  <1>2. Cardinality(idle \ {head}) = N - 1
    BY <1>1, TagsFinite, FS_RemoveElement
  <1>3. rank[head] = N /\ \A t \in Tags : rank[t] \in Nat
    BY <1>1, TagsAssumption DEF Linked
  <1>4. ASSUME NEW t \in idle \ {head}
        PROVE  /\ rank[t] \in 1 .. N - 1
               /\ IF rank[t] = 1 THEN next[t] = Null
                  ELSE next[t] \in idle \ {head} /\ rank[next[t]] = rank[t] - 1
    <2>1. rank[t] \in 1 .. N /\ rank[t] # N
      BY <1>1, <1>3 DEF Linked
    <2>2. rank[t] # 1 => next[t] \in idle /\ rank[next[t]] = rank[t] - 1
      BY DEF Linked
    <2>3. rank[t] # 1 => next[t] # head
      BY <2>1, <2>2, <1>1, <1>3
    <2>4. rank[t] = 1 => next[t] = Null
      BY DEF Linked
    <2> QED
      BY <2>1, <2>2, <2>3, <2>4, <1>1
  <1>5. IF idle \ {head} = {} THEN next[head] = Null
        ELSE next[head] \in idle \ {head} /\ rank[next[head]] = N - 1
    <2>1. idle \ {head} = {} <=> N = 1
      BY <1>1, <1>2, TagsFinite
    <2>2. IF N = 1 THEN next[head] = Null
          ELSE next[head] \in idle /\ rank[next[head]] = N - 1
      BY <1>3 DEF Linked
    <2> QED
      BY <2>1, <2>2, <1>1, <1>3
  <1>6. \A t \in idle \ {head} : [next EXCEPT ![head] = Cycle][t] = next[t]
    OBVIOUS
  <1>7. \A t, u \in idle : rank[t] = rank[u] => t = u
    BY DEF Linked
  <1> QED
    BY <1>2, <1>4, <1>5, <1>6, <1>7 DEF Linked

\* Returning a state makes it the head of the list (pcie_tlp_h2a_cpld).
LEMMA ReturnState ==
    ASSUME NEW idle \in SUBSET Tags, NEW head \in Tags \cup {Null},
           NEW next \in [Tags -> Tags \cup {Null, Cycle}],
           NEW rank \in [Tags -> 0 .. NumTags], Linked(idle, head, next, rank),
           NEW tag \in Tags \ idle
    PROVE  \E r \in [Tags -> 0 .. NumTags] :
             Linked(idle \cup {tag}, tag, [next EXCEPT ![tag] = head], r)
  <1>1. PICK N \in Nat : N = Cardinality(idle)
    BY TagsFinite
  <1>2. Cardinality(idle \cup {tag}) = N + 1 /\ N + 1 <= NumTags
    <2>1. IsFiniteSet(idle)
      BY TagsFinite
    <2>2. Cardinality(idle \cup {tag}) = N + 1
      BY <2>1, <1>1, FS_AddElement
    <2>3. idle \cup {tag} \in SUBSET Tags
      OBVIOUS
    <2> QED
      BY <2>2, <2>3, TagsFinite
  <1>3. PICK r : r = [rank EXCEPT ![tag] = N + 1]
    OBVIOUS
  <1>4. r \in [Tags -> 0 .. NumTags]
    BY <1>2, <1>3, TagsAssumption
  <1>5. r[tag] = N + 1 /\ \A t \in idle : r[t] = rank[t] /\ t # tag
    BY <1>3
  <1>6. \A t \in idle : rank[t] \in 1 .. N
    BY <1>1 DEF Linked
  <1>7. PICK next2 : next2 = [next EXCEPT ![tag] = head]
    OBVIOUS
  <1>8. next2[tag] = head /\ \A t \in idle : next2[t] = next[t]
    BY <1>7
  <1>9. ASSUME NEW t \in idle \cup {tag}
        PROVE  /\ r[t] \in 1 .. N + 1
               /\ IF r[t] = 1 THEN next2[t] = Null
                  ELSE next2[t] \in idle \cup {tag} /\ r[next2[t]] = r[t] - 1
    <2>1. CASE t \in idle
      <3>1. IF rank[t] = 1 THEN next[t] = Null
            ELSE next[t] \in idle /\ rank[next[t]] = rank[t] - 1
        BY <2>1 DEF Linked
      <3> QED
        BY <3>1, <2>1, <1>5, <1>6, <1>8
    <2>2. CASE t = tag
      <3>1. N = 0 <=> idle = {}
        BY <1>1, TagsFinite
      <3>2. IF idle = {} THEN head = Null ELSE head \in idle /\ rank[head] = N
        BY <1>1 DEF Linked
      <3> QED
        BY <3>1, <3>2, <2>2, <1>5, <1>8
    <2> QED
      BY <2>1, <2>2
  <1>10. ASSUME NEW t \in idle \cup {tag}, NEW u \in idle \cup {tag}, r[t] = r[u]
         PROVE  t = u
    <2>1. t \in idle /\ u \in idle => t = u
      BY <1>5, <1>10 DEF Linked
    <2>2. t \in idle => r[t] # N + 1
      BY <1>5, <1>6
    <2>3. u \in idle => r[u] # N + 1
      BY <1>5, <1>6
    <2> QED
      BY <2>1, <2>2, <2>3, <1>5, <1>10
  <1> QED
    BY <1>2, <1>4, <1>5, <1>7, <1>9, <1>10 DEF Linked

\* pcie_ss_param_init links the states in the order of their numbers.
LEMMA TagInit == Init => TagInv
  <1> SUFFICES ASSUME Init
               PROVE  TagInv
    OBVIOUS
  <1>1. PICK rank : rank = [t \in Tags |-> NumTags - t]
    OBVIOUS
  <1>2. rank \in [Tags -> 0 .. NumTags]
    BY <1>1, TagsAssumption DEF Tags
  <1>3. Idle = Tags /\ Cardinality(Idle) = NumTags /\ 0 \in Tags /\ Tags # {}
    <2>1. Idle = Tags
      BY DEF Init, Idle
    <2>2. 0 \in Tags
      BY TagsAssumption DEF Tags
    <2> QED
      BY <2>1, <2>2, TagsFinite
  <1>4. ASSUME NEW t \in Tags
        PROVE  /\ rank[t] \in 1 .. NumTags
               /\ IF rank[t] = 1 THEN start_cycle[t] = Null
                  ELSE /\ start_cycle[t] \in Tags
                       /\ rank[start_cycle[t]] = rank[t] - 1
    <2>1. t \in 0 .. NumTags - 1 /\ rank[t] = NumTags - t
      BY <1>1 DEF Tags
    <2>2. start_cycle[t] = IF t = NumTags - 1 THEN Null ELSE t + 1
      BY DEF Init
    <2>3. t # NumTags - 1 => t + 1 \in Tags /\ rank[t + 1] = NumTags - (t + 1)
      BY <2>1, <1>1, TagsAssumption DEF Tags
    <2> QED
      BY <2>1, <2>2, <2>3, TagsAssumption
  <1>5. \A t, u \in Tags : rank[t] = rank[u] => t = u
    BY <1>1, TagsAssumption DEF Tags
  <1>6. rank[0] = NumTags /\ dma_read_state_free_head = 0
    BY <1>1, <1>3, TagsAssumption DEF Init
  <1>7. Linked(Idle, dma_read_state_free_head, start_cycle, rank)
    BY <1>3, <1>4, <1>5, <1>6 DEF Linked
  <1>8. /\ err = "none" /\ tready = FALSE /\ \A t \in Tags : ~busy[t]
    BY DEF Init
  <1> QED
    BY <1>2, <1>7, <1>8 DEF TagInv

\* A read of a legal AFU takes a state (pcie_tlp_a2h_mrd).
LEMMA TagRecord ==
    ASSUME ReadInv, TagInv, NEW kind, NEW len, NEW dm,
           RecordRead(kind, len, dm), tready, err = "none", num_reset' = num_reset
    PROVE  /\ TagMapper => \E rank \in [Tags -> 0 .. NumTags] :
                Linked(Idle, dma_read_state_free_head, start_cycle, rank)'
           /\ TagMapper \/ num_reset = 0 => err' = "none"
           /\ ~TagMapper /\ num_reset = 0 =>
                \A t \in Tags : busy'[t] => t \in afu_tags'
  <1>a. /\ busy \in [Tags -> BOOLEAN]
        /\ start_cycle \in [Tags -> Tags \cup {Null, Cycle}]
    BY DEF ReadInv, ReadType
  <1>1. CASE TagMapper
    <2>1. PICK rank \in [Tags -> 0 .. NumTags] :
            Linked(Idle, dma_read_state_free_head, start_cycle, rank)
      BY <1>1 DEF TagInv
    <2>2. PICK head : head = dma_read_state_free_head
      OBVIOUS
    <2>3. head # Null
      BY <1>1, <2>2 DEF TagInv
    <2>4. head \in Idle /\ head \in Tags /\ ~busy[head]
      BY <2>1, <2>2, <2>3 DEF Linked, Idle
    <2>5. /\ err' = "none"
          /\ dma_read_state_free_head' = start_cycle[head]
          /\ busy' = [busy EXCEPT ![head] = TRUE]
          /\ start_cycle' = [start_cycle EXCEPT ![head] = Cycle]
      BY <1>1, <2>2, <2>3, <2>4 DEF RecordRead, TakeFree
    <2>6. Idle' = Idle \ {head}
      BY <2>4, <2>5, <1>a DEF Idle
    <2>7. Linked(Idle \ {head}, start_cycle[head],
                 [start_cycle EXCEPT ![head] = Cycle], rank)
      BY <2>1, <2>2, <2>4, <1>a, TakeHead DEF Idle
    <2>8. Linked(Idle, dma_read_state_free_head, start_cycle, rank)'
      <3>1. PICK I, h, next : /\ I = Idle \ {head} /\ h = start_cycle[head]
                              /\ next = [start_cycle EXCEPT ![head] = Cycle]
        OBVIOUS
      <3>2. Linked(I, h, next, rank)
        BY <3>1, <2>7
      <3>3. Idle' = I /\ dma_read_state_free_head' = h /\ start_cycle' = next
        BY <3>1, <2>5, <2>6
      <3> QED
        BY <3>2, <3>3 DEF Linked
    <2> QED
      BY <1>1, <2>5, <2>8
  <1>2. CASE ~TagMapper /\ num_reset = 0
    <2>1. PICK tag \in Tags \ afu_tags :
            /\ err' = CASE tag = Null -> "no_tag"
                        [] tag # Null /\ busy[tag] -> "tag_in_use"
                        [] OTHER -> "none"
            /\ err' = "none" => /\ busy' = [busy EXCEPT ![tag] = TRUE]
                                /\ afu_tags' = afu_tags \cup {tag}
      BY <1>2 DEF RecordRead, AfuTags
    <2>2. tag # Null /\ ~busy[tag]
      BY <1>2, <2>1, TagsAssumption DEF TagInv, Tags, Null
    <2> QED
      BY <1>2, <2>1, <2>2, <1>a DEF TagInv
  <1>3. CASE ~TagMapper /\ num_reset # 0
    BY <1>3
  <1> QED
    BY <1>1, <1>2, <1>3

\* The last completion of a read returns its state (pcie_tlp_h2a_cpld).
LEMMA TagCpld ==
    ASSUME ReadInv, TagInv, H2aCpld
    PROVE  TagInv'
  <1>a. /\ busy \in [Tags -> BOOLEAN]
        /\ start_cycle \in [Tags -> Tags \cup {Null, Cycle}]
        /\ dma_read_state_free_head \in Tags \cup {Null}
        /\ dma_read_cpl \in Seq(Cpls) /\ dma_read_cpl # << >>
        /\ 1 \in 1 .. Len(dma_read_cpl) /\ Head(dma_read_cpl) = dma_read_cpl[1]
    BY EmptySeq, LenProperties DEF ReadInv, ReadType, H2aCpld
  <1>b. PICK c \in Cpls : c = dma_read_cpl[1] /\ c = Head(dma_read_cpl)
    BY <1>a, CplTyped DEF ReadInv
  <1>c. c.tag \in Tags
    BY <1>a, <1>b, CplTyped DEF ReadInv
  <1>d. UNCHANGED <<tready, err, num_reset>>
    BY DEF H2aCpld, bounds
  <1>1. CASE dma_read_cpl_dw_rem = 0 /\ c.is_last
    <2>1. /\ busy' = [busy EXCEPT ![c.tag] = FALSE]
          /\ afu_tags' = afu_tags \ {c.tag}
          /\ TagMapper => LinkFreed(c.tag)
      BY <1>1, <1>b DEF H2aCpld, FreesTag
    <2>2. busy[c.tag]
      BY <1>1, <1>a, <1>b DEF ReadInv, CplStateLive
    <2>3. Idle' = Idle \cup {c.tag} /\ c.tag \in Tags \ Idle
      BY <2>1, <2>2, <1>a, <1>c DEF Idle
    <2>4. ASSUME TagMapper
          PROVE  \E rank \in [Tags -> 0 .. NumTags] :
                   Linked(Idle, dma_read_state_free_head, start_cycle, rank)'
      <3>1. PICK rank \in [Tags -> 0 .. NumTags] :
              Linked(Idle, dma_read_state_free_head, start_cycle, rank)
        BY <2>4 DEF TagInv
      <3>2. Idle \in SUBSET Tags
        BY DEF Idle
      <3>3. PICK r \in [Tags -> 0 .. NumTags] :
              Linked(Idle \cup {c.tag}, c.tag,
                     [start_cycle EXCEPT ![c.tag] = dma_read_state_free_head], r)
        BY <3>1, <3>2, <2>3, <1>a, ReturnState
      <3>4. /\ dma_read_state_free_head' = c.tag
            /\ start_cycle' = [start_cycle EXCEPT ![c.tag] = dma_read_state_free_head]
        BY <2>1, <2>4 DEF LinkFreed
      <3>5. Linked(Idle, dma_read_state_free_head, start_cycle, r)'
        <4>1. PICK I, h, next :
                /\ I = Idle \cup {c.tag} /\ h = c.tag
                /\ next = [start_cycle EXCEPT ![c.tag] = dma_read_state_free_head]
          OBVIOUS
        <4>2. Linked(I, h, next, r)
          BY <4>1, <3>3
        <4>3. Idle' = I /\ dma_read_state_free_head' = h /\ start_cycle' = next
          BY <4>1, <3>4, <2>3
        <4> QED
          BY <4>2, <4>3 DEF Linked
      <3> QED
        BY <3>5
    <2>5. TagMapper => dma_read_state_free_head' # Null
      BY <2>1, <1>c, TagsAssumption DEF LinkFreed, Tags, Null
    <2>6. ASSUME ~TagMapper, num_reset = 0
          PROVE  \A t \in Tags : busy'[t] => t \in afu_tags'
      BY <2>6, <2>1, <1>a, <1>c DEF TagInv
    <2>7. (TagMapper \/ num_reset = 0) => err' = "none"
      BY <1>d DEF TagInv
    <2> QED
      BY <2>4, <2>5, <2>6, <2>7, <1>d DEF TagInv
  <1>2. CASE ~(dma_read_cpl_dw_rem = 0 /\ c.is_last)
    <2>1. UNCHANGED <<busy, start_cycle, dma_read_state_free_head, afu_tags>>
      BY <1>2, <1>b DEF H2aCpld, FreesTag
    <2> QED
      BY <2>1, <1>d DEF TagInv, Linked, Idle
  <1> QED
    BY <1>1, <1>2

\* Every step keeps the free list and the tags.
LEMMA TagStep ==
    ASSUME ReadInv, FrameInv, TagInv, [Next]_vars
    PROVE  TagInv'
  <1>1. ASSUME UNCHANGED <<states, err, num_reset, afu_tags>>,
               UNCHANGED tready \/ EndOfCycle \/ tready' = FALSE
        PROVE  TagInv'
    <2>1. UNCHANGED <<busy, start_cycle, dma_read_state_free_head>>
      BY <1>1 DEF states
    <2>2. TagMapper => (tready' => dma_read_state_free_head' # Null)
      BY <1>1, <2>1 DEF EndOfCycle, NextTready, TagInv
    <2>3. Idle' = Idle
      BY <2>1 DEF Idle
    <2> QED
      BY <1>1, <2>1, <2>2, <2>3 DEF TagInv
  <1> USE DEF bounds
  <1>2. CASE RdWatcher \/ WrWatcher \/ NewMmio \/ NewMsg
    BY <1>2, <1>1 DEF RdWatcher, WrWatcher, NewMmio, NewMsg
  <1>3. CASE AskReset
    <2>1. UNCHANGED <<busy, start_cycle, dma_read_state_free_head, err, afu_tags,
                      tready>> /\ num_reset' # 0
      BY <1>3 DEF AskReset, SoftResetTo, states, FrameInv
    <2>2. Idle' = Idle
      BY <2>1 DEF Idle
    <2> QED
      BY <2>1, <2>2 DEF TagInv
  <1>4. CASE RaiseReset \/ LowerReset
    BY <1>4, <1>1 DEF RaiseReset, LowerReset, SoftResetTo
  <1>5. CASE ResetCycle
    <2>1. UNCHANGED <<busy, start_cycle, dma_read_state_free_head, err, num_reset>>
          /\ tready' = FALSE /\ num_reset # 0
      BY <1>5 DEF ResetCycle, states, FrameInv
    <2>2. Idle' = Idle
      BY <2>1 DEF Idle
    <2> QED
      BY <2>1, <2>2 DEF TagInv
  <1>6. CASE CompleteWrites \/ ReceiveRead \/ SplitCpl
    BY <1>6, <1>1 DEF CompleteWrites, ReceiveRead, SplitCpl
  <1>7. CASE H2aNothing \/ H2aMsg \/ H2aMem \/ H2aRefuse
    BY <1>7, <1>1 DEF H2aNothing, H2aMsg, H2aMem, H2aRefuse
  <1>8. CASE A2hNothing \/ A2hAtomicSop \/ A2hCpldSop \/ A2hCpld
    BY <1>8, <1>1 DEF A2hNothing, A2hAtomicSop, A2hCpldSop, A2hCpld
  <1>9. CASE A2hWriteSop \/ A2hWrite
    <2>1. PICK rem, room : WriteBeat(rem, room)
      BY <1>9 DEF A2hWriteSop, A2hWrite
    <2> QED
      BY <2>1, <1>1 DEF WriteBeat
  <1>10. CASE A2hRead \/ A2hAtomic
    <2>1. PICK kind, len, dm : RecordRead(kind, len, dm)
      BY <1>10 DEF A2hRead, A2hAtomic
    <2>2. tready /\ err = "none" /\ num_reset' = num_reset /\ EndOfCycle
      BY <1>10 DEF A2hRead, A2hAtomic, A2hBeat, Running
    <2>3. tready' => dma_read_state_free_head' # Null
      BY <2>2 DEF EndOfCycle, NextTready
    <2> QED
      BY <2>1, <2>2, <2>3, TagRecord DEF TagInv
  <1>11. CASE PollReads \/ Killed \/ UNCHANGED vars
    BY <1>11, <1>1 DEF PollReads, Killed, vars
  <1> QED
    BY <1>2, <1>3, <1>4, <1>5, <1>6, <1>7, <1>8, <1>9, <1>10, <1>11, TagCpld
    DEF Next, App, Reset, HostToAfu, AfuToHost

\* The free list and the tags in every reachable state.
LEMMA TagInvariance == Spec => []TagInv
  <1>1. Init => FrameInv
    BY DEF Init, FrameInv
  <1> QED
    BY <1>1, TagInit, TagStep, FrameStep, ReadInvariance, PTL DEF Spec

\* The free list threaded through start_cycle holds exactly the idle states, in
\* whatever order reads complete (pcie_tlp_a2h_mrd, pcie_tlp_h2a_cpld).
THEOREM FreeListIsSound == Spec => []FreeListSound
  <1>1. TagInv => FreeListSound
    BY DEF TagInv, Linked, Idle, FreeListSound
  <1> QED
    BY <1>1, TagInvariance, PTL

\* With the mapper tready promises a free state for the read that follows, and
\* without it a legal AFU reuses only tags whose state is free: neither "No
\* available emulated mapped read tags" nor "tag already in use" is reported.
THEOREM ReadsAreAccepted == Spec => []ReadAlwaysAccepted
  <1>1. TagInv => ReadAlwaysAccepted
    BY DEF TagInv, ReadAlwaysAccepted
  <1> QED
    BY <1>1, TagInvariance, PTL

=============================================================================

------------------------------ MODULE AtsTags ------------------------------
(***************************************************************************)
(* PCIe address translation service of an ASE application.                 *)
(*                                                                         *)
(* A wrapper around munmap (libase-preload.so) calls ase_mem_unmap_hook,   *)
(* which cuts the range into aligned chunks and sends the AFU one          *)
(* invalidation per chunk, each with a tag of ase_pcie_ats.c.  Four kinds  *)
(* of threads meet here:                                                   *)
(*   - application threads inside the hook (Threads);                      *)
(*   - membus_rd_watcher and membus_wr_watcher (Watchers), which answer    *)
(*     the AFU's memory traffic and after every request look, without a    *)
(*     lock, for tags that have been busy too long;                        *)
(*   - pcie_msg_watcher, which receives completions (page requests, whose   *)
(*     answer is a header without payload, are left out);                  *)
(*   - the simulator with the AFU.                                         *)
(*                                                                         *)
(* The fields that itag_cycle reads without ase_itag_lock are read in      *)
(* separate steps and in either order: the accesses race.                  *)
(***************************************************************************)
EXTENDS Integers, Sequences, FiniteSets, FiniteSetsExt

CONSTANTS
    Threads,     \* application threads that unmap memory
    Watchers,    \* the threads that call ase_pcie_ats_itag_cycle
    RdWatcher,   \* the one of them that answers translation requests
    NumTags,     \* 32 in the code
    MaxCC,       \* most completions of an invalidation: 8 in the code
    AfuCC,       \* numbers of completions the AFU answers with
    Limit,       \* 10000 in the code
    Wrap,        \* 2^64 in the code
    PageBytes,   \* 4096 in the code
    RangesOf,    \* ranges <<first page, bytes>> that each thread unmaps
    AtcPages,    \* pages that AFUs ask a translation for
    AfuOfPage,   \* the AFU that asks for a page
    MaxUnmaps,   \* bound: calls of the hook by each thread
    MaxTraffic   \* bound: memory requests of the AFU

ASSUME AtsAssumption ==
    /\ NumTags \in Nat \ {0} /\ MaxCC \in Nat \ {0} /\ PageBytes \in Nat \ {0}
    /\ Limit \in Nat /\ Wrap \in Nat /\ MaxTraffic \in Nat /\ Wrap > MaxTraffic
    /\ RdWatcher \in Watchers /\ AfuCC \subseteq 1..MaxCC
    /\ AfuOfPage \in [AtcPages -> Nat]

Tags == 0 .. NumTags - 1
NoTag == -1
Free == "free"     \* a lock nobody holds

ASSUME FreeAssumption == Free \notin Threads

VARIABLES
    busy,       \* itag_busy_vec, as the set of busy tags
    state,      \* itag_busy_state: cc_expected, cc_received, set_cycle per tag
    cycle,      \* err_check_cycle
    itag_lock,  \* ase_itag_lock: Free or the thread in itag_alloc
    tx_lock,    \* pcie_msg_tx_lock
    atc_active, \* pcie_atc_active
    hook,       \* application threads: place in the hook, chunks left, tag
    watch,      \* watchers: place, snapshot of the busy vector, loaded words
    app2sim,    \* app2sim_pcie_msg: headers and payloads, one element each
    pending,    \* AFU: completions it owes, per tag
    xlat,       \* AFU: translation of a page: none, asked or answered
    dead,       \* AFU: pages whose translation an invalidation has voided
    count,      \* calls of the hook so far, per thread (bound)
    owner,      \* ghost: thread whose invalidation has the tag
    since,      \* ghost: cycle when the tag was taken
    old,        \* ghost: per thread, translations given out before its hook
    failed      \* whether exit_cleanup or the timeout stopped the application

tagvars == <<busy, state, owner, since>>
locks   == <<itag_lock, tx_lock>>
afuvars == <<pending, xlat, dead>>
vars == <<tagvars, cycle, locks, atc_active, hook, watch, app2sim, afuvars, count, old, failed>>

NotFailed == [why |-> "no", late |-> FALSE, reused |-> FALSE]
Running == failed.why = "no"

-----------------------------------------------------------------------------
(* The chunks of a range                                                   *)

\* ilog2_ceil, as the power of two itself: the least one not below n.
Pow2Ceil(n) == LET P == {2^k : k \in 0..n} IN Min({p \in P : p >= n})

PagesOf(bytes) == (bytes + PageBytes - 1) \div PageBytes

ChunksEnd_plain(first, pages, size) == first + pages

\* The page behind the last chunk: the end of the range, aligned up.
ChunksEnd(first, pages, size) == ((first + pages + size - 1) \div size) * size

\* The chunks the hook sends for a range, in order: each a power of two pages,
\* the first one aligned down.
Chunks(first, pages) ==
    LET size  == Pow2Ceil(pages)
        start == (first \div size) * size
        end   == ChunksEnd(first, pages, size)
    IN  [i \in 1 .. (end - start) \div size |->
            [first |-> start + (i - 1) * size, pages |-> size]]

\* The pages of a range.
Pages(first, pages) == first .. first + pages - 1

\* ase_pcie_ats_pa_enc and its decoding by the AFU: the block of 2^k pages with
\* the address; address 0 loses its length and stands for one page.
Decoded(chunk) ==
    IF chunk.first = 0 THEN {0}
    ELSE LET n == chunk.pages IN Pages((chunk.first \div n) * n, n)

-----------------------------------------------------------------------------
(* Allocation, release and age of tags                                     *)

IdleHook == [pc |-> "idle", chunks |-> <<>>, tag |-> NoTag]

\* ase_mem_unmap_hook: nothing to do before the first translation request.
HookStart(t, r) ==
    LET pages == PagesOf(r[2])
    IN  /\ Running /\ hook[t].pc \in {"idle", "done"} /\ count[t] < MaxUnmaps
        /\ count' = [count EXCEPT ![t] = @ + 1]
        /\ old' = [old EXCEPT ![t] =
               {p \in Pages(r[1], pages) : p \in AtcPages /\ xlat[p] = "answered"}]
        /\ hook' = [hook EXCEPT ![t] =
               IF atc_active /\ pages > 0
               THEN [IdleHook EXCEPT !.pc = "alloc", !.chunks = Chunks(r[1], pages)]
               ELSE [IdleHook EXCEPT !.pc = "done"]]
        /\ UNCHANGED <<tagvars, cycle, locks, atc_active, watch, app2sim, afuvars, failed>>

\* The state of a tag that is about to become busy.
Fresh(s) == [cc_expected |-> -1, cc_received |-> -1, set_cycle |-> cycle]

\* ase_pcie_ats_itag_alloc: with a free tag, lock and stamp the lowest one.
\* Without one the loop spins; under the lock the vector is looked at again.
AllocStamp(t) ==
    /\ Running /\ hook[t].pc = "alloc" /\ busy # Tags /\ itag_lock = Free
    /\ LET tag == Min(Tags \ busy)
       IN  /\ hook' = [hook EXCEPT ![t].pc = "publish", ![t].tag = tag]
           /\ state' = [state EXCEPT ![tag] = Fresh(@)]
           /\ since' = [since EXCEPT ![tag] = cycle]
           /\ watch' = [w \in Watchers |->
                  [watch[w] EXCEPT !.reused = @ \cup ({tag} \cap watch[w].vec)]]
    /\ itag_lock' = t
    /\ UNCHANGED <<busy, owner, cycle, tx_lock, atc_active, app2sim, afuvars, count, old,
                   failed>>

\* After the barrier the tag becomes busy and the lock is released.
AllocPublish(t) ==
    /\ Running /\ hook[t].pc = "publish"
    /\ LET tag == hook[t].tag
       IN  /\ busy' = busy \cup {tag}
           /\ owner' = [owner EXCEPT ![tag] = t]
    /\ itag_lock' = Free
    /\ hook' = [hook EXCEPT ![t].pc = "hdr"]
    /\ UNCHANGED <<state, since, cycle, tx_lock, atc_active, watch, app2sim, afuvars,
                   count, old, failed>>

TakeTx_none(who) == tx_lock' = who

\* The sender of a header and its payload holds pcie_msg_tx_lock.
TakeTx(who) == tx_lock = Free /\ tx_lock' = who

\* afu_idx of an invalidation: pcie_send_ats_inval clears the header and never
\* sets it.
InvalAfu == 0

\* pcie_send_ats_inval: lock and header.
SendHdr(t) ==
    /\ Running /\ hook[t].pc = "hdr" /\ TakeTx(t)
    /\ app2sim' = Append(app2sim, [kind |-> "inval", tag |-> hook[t].tag])
    /\ hook' = [hook EXCEPT ![t].pc = "payload"]
    /\ UNCHANGED <<tagvars, cycle, itag_lock, atc_active, watch, afuvars,
                   count, old, failed>>

\* The encoded address, unlock, and the next chunk of the hook's loop.  What the
\* hook does after the last chunk, the invalidation of ASE's own page table, is
\* MunmapHook of module HostMemory; it touches nothing of this module.
SendPayload(t) ==
    /\ Running /\ hook[t].pc = "payload"
    /\ app2sim' = Append(app2sim, [kind |-> "payload", tag |-> hook[t].tag,
                                   pages |-> Decoded(Head(hook[t].chunks))])
    /\ tx_lock' = Free
    /\ hook' = [hook EXCEPT ![t] =
           [pc |-> IF Len(@.chunks) > 1 THEN "alloc" ELSE "done",
            chunks |-> Tail(@.chunks), tag |-> NoTag]]
    /\ UNCHANGED <<tagvars, cycle, itag_lock, atc_active, watch, afuvars,
                   count, old, failed>>

\* The AFU's invalidation after one more completion.
NothingPending == [cc |-> 0, left |-> 0]
Answered(p) == IF p.left = 1 THEN NothingPending ELSE [p EXCEPT !.left = @ - 1]

\* What one tag of a completion does to its state: the first completion tells
\* how many there will be, the last one releases the tag.
Received(s, cc) ==
    IF s.cc_expected = -1 THEN [s EXCEPT !.cc_expected = cc, !.cc_received = 1]
    ELSE [s EXCEPT !.cc_received = @ + 1]

\* A count of 0 in the header means the largest one.
Count(cc) == IF cc = 0 THEN MaxCC ELSE cc

\* The errors of ase_pcie_ats_itag_free.
FreeError(vec, cc) ==
    \/ ~ (vec \subseteq busy)
    \/ \E t \in vec : state[t].cc_expected \notin {-1, cc}

Releases_first(s, cc) == s.cc_received >= 1

\* The last completion releases the tag.
Releases(s, cc) == s.cc_received = cc

\* pcie_msg_watcher receives a completion, which the AFU sent (pcie_tlp_a2h_msg)
\* for some of its invalidations with the same count; the header has few bits
\* for the count.  ase_pcie_ats_itag_free runs under ase_itag_lock; on an error
\* the application exits.
FreeTags(vec) ==
    /\ Running /\ vec # {} /\ itag_lock = Free
    /\ \E n \in AfuCC :
          /\ \A t \in vec : pending[t].cc = n /\ pending[t].left > 0
          /\ LET cc  == Count(n % MaxCC)
                 new == [t \in Tags |-> IF t \in vec THEN Received(state[t], cc) ELSE state[t]]
             IN  IF FreeError(vec, cc)
                 THEN failed' = [NotFailed EXCEPT !.why = "exit"] /\ UNCHANGED <<busy, state>>
                 ELSE /\ state' = new
                      /\ busy' = busy \ {t \in vec : Releases(new[t], cc)}
                      /\ UNCHANGED failed
    /\ pending' = [t \in Tags |-> IF t \in vec THEN Answered(pending[t]) ELSE pending[t]]
    /\ UNCHANGED <<owner, since, cycle, locks, atc_active, hook, watch, app2sim, xlat,
                   dead, count, old>>

-----------------------------------------------------------------------------
(* The memory watchers                                                     *)

NotLoaded == -1
IdleWatch == [pc |-> "idle", page |-> NoTag, vec |-> {}, reused |-> {},
              cyc |-> NotLoaded, set |-> NotLoaded]

MoreTraffic == cycle + Cardinality({w \in Watchers : watch[w].pc # "idle"}) < MaxTraffic

\* membus_rd_watcher, translation request: the flag first, then the answer.
TranslateFlag(p) ==
    /\ Running /\ watch[RdWatcher].pc = "idle" /\ xlat[p] = "none" /\ MoreTraffic
    /\ xlat' = [xlat EXCEPT ![p] = "asked"]
    /\ atc_active' = TRUE
    /\ watch' = [watch EXCEPT ![RdWatcher].pc = "answer", ![RdWatcher].page = p]
    /\ UNCHANGED <<tagvars, cycle, locks, hook, app2sim, pending, dead, count, old,
                   failed>>

TranslateAnswer ==
    /\ Running /\ watch[RdWatcher].pc = "answer"
    /\ xlat' = [xlat EXCEPT ![watch[RdWatcher].page] = "answered"]
    /\ watch' = [watch EXCEPT ![RdWatcher].pc = "snap", ![RdWatcher].page = NoTag]
    /\ UNCHANGED <<tagvars, cycle, locks, atc_active, hook, app2sim, pending, dead, count,
                   old, failed>>

\* After any read, write or translation: ase_pcie_ats_itag_cycle.  The busy
\* vector is read first ...
CycleSnapshot(w) ==
    /\ Running /\ watch[w].pc \in {"idle", "snap"}
    /\ watch[w].pc = "idle" => MoreTraffic
    /\ watch' = [watch EXCEPT ![w].pc = "add", ![w].vec = busy]
    /\ UNCHANGED <<tagvars, cycle, locks, atc_active, hook, app2sim, afuvars, count, old,
                   failed>>

\* ... then the cycle is incremented atomically ...
CycleAdd(w) ==
    /\ Running /\ watch[w].pc = "add"
    /\ cycle' = cycle + 1
    /\ watch' = [watch EXCEPT ![w] =
           IF @.vec = {} THEN IdleWatch ELSE [@ EXCEPT !.pc = "check"]]
    /\ UNCHANGED <<tagvars, locks, atc_active, hook, app2sim, afuvars, count, old, failed>>

\* ... and for each tag of the snapshot two words are compared.  One of them
\* may have been loaded a while before the other, the cycle for all tags.
CycleLoad(w) ==
    /\ Running /\ watch[w].pc = "check"
    /\ watch[w].set = NotLoaded /\ watch[w].cyc = NotLoaded
    /\ \/ watch' = [watch EXCEPT ![w].cyc = cycle]
       \/ watch' = [watch EXCEPT ![w].set = state[Min(watch[w].vec)].set_cycle]
    /\ UNCHANGED <<tagvars, cycle, locks, atc_active, hook, app2sim, afuvars, count, old,
                   failed>>

\* The unsigned difference.
Age(now, set) == (now - set) % Wrap

TooOld(age) == age > Limit

CycleCompare(w) ==
    LET v   == watch[w]
        tag == Min(v.vec)
        now == IF v.cyc = NotLoaded THEN cycle ELSE v.cyc
        set == IF v.set = NotLoaded THEN state[tag].set_cycle ELSE v.set
    IN  /\ Running /\ v.pc = "check"
        /\ IF TooOld(Age(now, set))
           THEN /\ failed' = [why |-> "abort", late |-> cycle - since[tag] > Limit,
                              reused |-> tag \in v.reused]
                /\ UNCHANGED watch
           ELSE /\ \E cyc \in {v.cyc, NotLoaded} :
                      watch' = [watch EXCEPT ![w] =
                          IF v.vec = {tag} THEN IdleWatch
                          ELSE [v EXCEPT !.vec = @ \ {tag}, !.reused = @ \ {tag},
                                         !.cyc = cyc, !.set = NotLoaded]]
                /\ UNCHANGED failed
        /\ UNCHANGED <<tagvars, cycle, locks, atc_active, hook, app2sim, afuvars, count,
                       old>>

-----------------------------------------------------------------------------
(* The simulator and the AFU                                               *)

\* pcie_tlp_h2a_msg: a header is read, then the simulator stands still, and the
\* AFU with it, until the next element of the pipe, the payload, is there.  The
\* AFU it is sent to drops the pages, translations on their way to it too, and
\* will answer with cc completions.
H2aMsg(cc) ==
    /\ Running /\ Len(app2sim) > 1
    /\ LET hdr == app2sim[1]
           msg == app2sim[2]
       IN  /\ dead' = IF msg.kind # "payload" THEN dead
                      ELSE dead \cup {p \in msg.pages \cap AtcPages :
                                     AfuOfPage[p] = InvalAfu /\ xlat[p] # "none"}
           /\ pending' = [pending EXCEPT ![hdr.tag] = [cc |-> cc, left |-> cc]]
    /\ app2sim' = SubSeq(app2sim, 3, Len(app2sim))
    /\ UNCHANGED <<tagvars, cycle, locks, atc_active, hook, watch, xlat, count, old,
                   failed>>

-----------------------------------------------------------------------------
Init ==
    /\ busy = {} /\ cycle = 0 /\ itag_lock = Free /\ tx_lock = Free
    /\ state = [t \in Tags |-> [cc_expected |-> 0, cc_received |-> 0, set_cycle |-> 0]]
    /\ atc_active = FALSE
    /\ hook = [t \in Threads |-> IdleHook]
    /\ watch = [w \in Watchers |-> IdleWatch]
    /\ app2sim = <<>>
    /\ pending = [t \in Tags |-> NothingPending]
    /\ xlat = [p \in AtcPages |-> "none"] /\ dead = {}
    /\ count = [t \in Threads |-> 0]
    /\ since = [t \in Tags |-> 0]
    /\ owner = [t \in Tags |-> Free]
    /\ old = [t \in Threads |-> {}]
    /\ failed = NotFailed

HookStep(t) == AllocStamp(t) \/ AllocPublish(t) \/ SendHdr(t) \/ SendPayload(t)

WatchStep(w) == CycleSnapshot(w) \/ CycleAdd(w) \/ CycleLoad(w) \/ CycleCompare(w)

\* The application has stopped, or no hook is under way.  A hook that waits
\* for ever, for a tag or for a lock, is a deadlock.
Finished ==
    /\ Running => \A t \in Threads : hook[t].pc \in {"idle", "done"}
    /\ UNCHANGED vars

Next ==
    \/ \E t \in Threads : HookStep(t) \/ \E r \in RangesOf[t] : HookStart(t, r)
    \/ \E w \in Watchers : WatchStep(w)
    \/ \E p \in AtcPages : TranslateFlag(p)
    \/ TranslateAnswer
    \/ \E vec \in SUBSET Tags : FreeTags(vec)
    \/ \E cc \in AfuCC : H2aMsg(cc)
    \/ Finished

Spec == Init /\ [][Next]_vars

-----------------------------------------------------------------------------
(* Properties                                                              *)

\* An AFU that completes every invalidation with the number of completions it
\* announced never runs into an error of ase_pcie_ats_itag_free, however its
\* completions are combined and however fast a tag is used again.
CompletionsAccepted == failed.why # "exit"

\* The simulator always finds the payload of an invalidation behind its header,
\* and never takes a payload for a header, although several threads write the
\* pipe: pcie_tlp_h2a_msg reads with the length of what it expects.
MsgFramed ==
    /\ app2sim # <<>> => app2sim[1].kind = "inval"
    /\ Len(app2sim) > 1 => app2sim[2].kind = "payload" /\ app2sim[2].tag = app2sim[1].tag

\* When a hook has returned and the AFU has completed its invalidations, the
\* AFU keeps no translation of the range that was given out before the hook.
StaleDropped ==
    \A t \in Threads :
        hook[t].pc = "done" /\ (\A tag \in busy : owner[tag] # t) => old[t] \subseteq dead

\* The comment of ase_mem_unmap_hook, "ASE sends address space invalidation
\* messages only to AFUs that are caching translations": the AFU a message is
\* sent to has asked for a translation.
InvalOnlyToCaching ==
    app2sim # <<>> => \E p \in AtcPages : AfuOfPage[p] = InvalAfu /\ xlat[p] # "none"

\* The comment of ase_pcie_ats_itag_cycle, "managed such that locking isn't
\* required here": the check reports a timeout only of an invalidation that has
\* been outstanding for longer than the limit.
TimeoutIsLate == failed.why = "abort" => failed.late

\* What is true instead: a tag that is not late makes the application abort only if it was released
\* and taken again after the watcher read the busy vector: then the unsigned
\* difference may be taken of an older cycle and a newer set_cycle.
FalseTimeoutOnlyOnReuse == failed.why = "abort" => failed.late \/ failed.reused

=============================================================================

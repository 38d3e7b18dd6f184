----------------------------- MODULE AtsProofs -----------------------------
(***************************************************************************)
(* Theorems about AtsTags: the tags of invalidations, for every number of  *)
(* threads, watchers and tags, and every limit and wrap of the cycle.      *)
(***************************************************************************)
EXTENDS AtsTags, TLAPS, WellFoundedInduction, SequenceTheorems

-----------------------------------------------------------------------------
(* The inductive invariant. *)

HookPcs  == {"idle", "done", "alloc", "publish", "hdr", "payload"}
WatchPcs == {"idle", "answer", "snap", "add", "check"}
Hdrs     == [kind : {"inval"}, tag : Tags]
Payloads == [kind : {"payload"}, tag : Tags, pages : SUBSET Int]

\* The types of what the tags depend on.  The chunks of a hook may be anything.
TagType ==
    /\ busy \subseteq Tags
    /\ state \in [Tags -> [cc_expected : Int, cc_received : Int, set_cycle : Nat]]
    /\ itag_lock \in Threads \cup {Free} /\ tx_lock \in Threads \cup {Free}
    /\ hook = [t \in Threads |-> [pc |-> hook[t].pc, chunks |-> hook[t].chunks,
                                  tag |-> hook[t].tag]]
    /\ \A t \in Threads : hook[t].pc \in HookPcs
    /\ app2sim \in Seq(Hdrs \cup Payloads)
    /\ pending \in [Tags -> [cc : Nat, left : Nat]]

\* A thread that has a tag it has not sent off completely.
HasTag(t) == hook[t].pc \in {"publish", "hdr", "payload"}

\* Each lock is held by the thread inside its critical section.
Locked ==
    \A t \in Threads :
        /\ itag_lock = t <=> hook[t].pc = "publish"
        /\ tx_lock = t <=> hook[t].pc = "payload"

\* Headers and payloads alternate, a payload follows its own header, and the
\* last header lacks its payload exactly while its sender has the lock.
IsHdr(i) == i % 2 = 1

Paired ==
    /\ \A i \in 1 .. Len(app2sim) :
          /\ app2sim[i].kind = IF IsHdr(i) THEN "inval" ELSE "payload"
          /\ ~IsHdr(i) => app2sim[i].tag = app2sim[i - 1].tag
    /\ IsHdr(Len(app2sim)) <=> tx_lock # Free
    /\ tx_lock # Free => app2sim[Len(app2sim)].tag = hook[tx_lock].tag

\* An invalidation that the AFU has not seen yet: its tag is busy with no
\* completion received or owed.
Unseen(tag) ==
    /\ state[tag].cc_expected = -1 /\ state[tag].cc_received = -1
    /\ pending[tag].left = 0

\* A tag is held by one thread, is not in the pipe before its header is sent,
\* and is published before that.
HeldTags ==
    /\ \A t \in Threads : HasTag(t) =>
          /\ hook[t].tag \in Tags /\ Unseen(hook[t].tag)
          /\ hook[t].tag \in busy <=> hook[t].pc # "publish"
    /\ \A t, u \in Threads : HasTag(t) /\ HasTag(u) /\ t # u =>
          hook[t].tag # hook[u].tag
    /\ \A t \in Threads, i \in 1 .. Len(app2sim) :
          hook[t].pc \in {"publish", "hdr"} => app2sim[i].tag # hook[t].tag

\* The tags in the pipe are busy and different.
PipeTags ==
    /\ \A i \in 1 .. Len(app2sim) : app2sim[i].tag \in busy /\ Unseen(app2sim[i].tag)
    /\ \A i, j \in 1 .. Len(app2sim) :
          IsHdr(i) /\ IsHdr(j) /\ app2sim[i].tag = app2sim[j].tag => i = j

\* What the AFU still owes is what ase_pcie_ats_itag_free still expects.
OwedTags ==
    \A tag \in Tags : pending[tag].left > 0 =>
        /\ tag \in busy
        /\ pending[tag].cc \in AfuCC /\ pending[tag].left <= pending[tag].cc
        /\ IF state[tag].cc_expected = -1
           THEN pending[tag].left = pending[tag].cc
           ELSE /\ state[tag].cc_expected = pending[tag].cc
                /\ state[tag].cc_received = pending[tag].cc - pending[tag].left

TagInv == TagType /\ Locked /\ Paired /\ HeldTags /\ PipeTags /\ OwedTags

\* The types of what the ages depend on.
AgeType ==
    /\ cycle \in Nat /\ since \in [Tags -> Nat] /\ busy \subseteq Tags
    /\ state \in [Tags -> [cc_expected : Int, cc_received : Int, set_cycle : Nat]]
    /\ watch \in [Watchers -> [pc : WatchPcs, page : AtcPages \cup {NoTag},
                               vec : SUBSET Tags, reused : SUBSET Tags,
                               cyc : Int, set : Int]]
    /\ failed \in [why : {"no", "exit", "abort"}, late : BOOLEAN, reused : BOOLEAN]

\* No tag was taken in the future.
Stamped == \A tag \in Tags : state[tag].set_cycle = since[tag] /\ since[tag] <= cycle

\* A watcher that loaded the cycle loaded one between the stamps of its tags
\* and now, unless a tag was taken again; a loaded stamp is that of its tag.
LoadedOf(w) ==
    LET v == watch[w]
    IN  /\ v.pc = "check" => v.vec # {}
        /\ v.pc # "check" => v.cyc = NotLoaded /\ v.set = NotLoaded
        /\ v.cyc # NotLoaded => /\ v.cyc <= cycle
                                /\ \A tag \in v.vec \ v.reused : since[tag] <= v.cyc
        /\ v.set # NotLoaded /\ Min(v.vec) \notin v.reused => v.set = since[Min(v.vec)]
Loaded == \A w \in Watchers : LoadedOf(w)

AgeInv == AgeType /\ Stamped /\ Loaded /\ FalseTimeoutOnlyOnReuse

\* Every AFU that asks for translations is the one invalidations are sent to.
OneAfu == \A p \in AtcPages : AfuOfPage[p] = InvalAfu

\* The unmapped ranges lie above their own size, rounded up to a power of two
\* of pages: no chunk begins at address 0, for which ase_pcie_ats_pa_enc has no
\* length.
RangesHigh ==
    \A t \in Threads : \A r \in RangesOf[t] :
        /\ r \in Nat \X Nat
        /\ LET pages == PagesOf(r[2])
               size  == Pow2Ceil(pages)
           IN  pages > 0 => size \in Nat /\ size >= pages /\ r[1] >= size

ChunkRecs == [first : Nat, pages : Nat]

\* The invalidation of a page for a thread is on its way: in a chunk the hook
\* still has to send, or in the pipe under a tag of the thread.
Carried(t, p) ==
    \/ \E k \in 1 .. Len(hook[t].chunks) : p \in Decoded(hook[t].chunks[k])
    \/ \E i \in 1 .. Len(app2sim) :
          /\ app2sim[i].kind = "payload" /\ p \in app2sim[i].pages
          /\ owner[app2sim[i].tag] = t

\* A hook has chunks left until it is done.
ChunksLeft ==
    \A t \in Threads :
        /\ hook[t].chunks \in Seq(ChunkRecs)
        /\ hook[t].chunks = <<>> <=> hook[t].pc \in {"idle", "done"}
        /\ hook[t].pc \in {"hdr", "payload"} => owner[hook[t].tag] = t

\* Nothing is given out before the flag is set.
FlagFirst ==
    ~atc_active => /\ \A p \in AtcPages : xlat[p] = "none"
                   /\ watch[RdWatcher].pc # "answer"

\* A page that was given out before a hook, and whose translation the AFU may
\* still have, is on its way to the AFU.
OldCarried ==
    \A t \in Threads :
        /\ old[t] \subseteq AtcPages
        /\ \A p \in old[t] : xlat[p] = "answered" /\ (p \notin dead => Carried(t, p))

StaleType ==
    /\ xlat \in [AtcPages -> {"none", "asked", "answered"}]
    /\ owner \in [Tags -> Threads \cup {Free}]
    /\ old = [t \in Threads |-> old[t]]
    /\ atc_active \in BOOLEAN

StaleInv == StaleType /\ ChunksLeft /\ FlagFirst /\ OldCarried

-----------------------------------------------------------------------------
(* Numbers. *)

\* The lowest free tag of ase_pcie_ats_itag_alloc exists and is free.
LEMMA MinInSet ==
    ASSUME NEW T \in SUBSET Nat, T # {}
    PROVE  Min(T) \in T
  <1>1. PICK x \in T : \A y \in T : ~ (<<y, x>> \in OpToRel(<, Nat))
    BY WFMin, NatLessThanWellFounded
  <1>2. \A y \in T : x <= y
    <2> TAKE y \in T
    <2>1. ~ (y < x)
      BY <1>1 DEF OpToRel
    <2>2. QED  BY <2>1
  <1>3. QED  BY <1>2 DEF Min

\* The count of a completion survives the few bits the header has for it.
LEMMA CountKept ==
    ASSUME NEW n \in AfuCC
    PROVE  /\ Count(n % MaxCC) = n
           /\ n \in Nat \ {0}
  <1>1. n \in 1 .. MaxCC /\ MaxCC \in Nat \ {0}
    BY AtsAssumption
  <1>2. CASE n = MaxCC
    <2>1. n % MaxCC = 0
      BY <1>1, <1>2
    <2>2. QED  BY <1>1, <1>2, <2>1 DEF Count
  <1>3. CASE n < MaxCC
    <2>1. n % MaxCC = n
      BY <1>1, <1>3
    <2>2. QED  BY <1>1, <1>3, <2>1 DEF Count
  <1>4. QED  BY <1>1, <1>2, <1>3

\* The unsigned difference of two words in order is not above the true one.
LEMMA AgeBound ==
    ASSUME NEW now \in Nat, NEW set \in Nat, set <= now
    PROVE  Age(now, set) \in Nat /\ Age(now, set) <= now - set
  <1>1. Wrap \in Nat /\ Wrap > 0
    BY AtsAssumption
  <1> DEFINE d == now - set
  <1>2. d \in Nat
    OBVIOUS
  <1> HIDE DEF d
  <1>3. d % Wrap \in Nat /\ d % Wrap <= d
    <2>1. d % Wrap \in 0 .. Wrap - 1
      BY <1>1, <1>2
    <2>2. d < Wrap => d % Wrap = d
      BY <1>1, <1>2
    <2>3. QED  BY <1>1, <1>2, <2>1, <2>2
  <1>4. QED  BY <1>3 DEF Age, d

-----------------------------------------------------------------------------
(* The tags. *)

\* No tag is in use at the start (itag_busy_vec is 0).
LEMMA TagInit == Init => TagInv
  <1> SUFFICES ASSUME Init
               PROVE  TagInv
    OBVIOUS
  <1>1. TagType
    BY DEF Init, TagType, IdleHook, NothingPending, HookPcs, Free
  <1>2. Locked
    BY FreeAssumption DEF Init, Locked, IdleHook
  <1>3. Paired /\ PipeTags
    BY DEF Init, Paired, PipeTags, IsHdr
  <1>4. HeldTags
    BY DEF Init, HeldTags, HasTag, IdleHook
  <1>5. OwedTags
    BY DEF Init, OwedTags, NothingPending
  <1>6. QED  BY <1>1, <1>2, <1>3, <1>4, <1>5 DEF TagInv

\* What the tags depend on.
tagside == <<busy, state, itag_lock, tx_lock, hook, app2sim, pending>>

\* A step of a watcher or of the address translation leaves the tags alone.
LEMMA TagSame ==
    ASSUME TagInv, UNCHANGED tagside
    PROVE  TagInv'
  BY DEF TagInv, tagside, TagType, Locked, Paired, HeldTags, PipeTags, OwedTags,
         HasTag, Unseen, IsHdr

\* ase_mem_unmap_hook is entered with no tag.
LEMMA TagHookStart ==
    ASSUME TagInv, NEW t \in Threads, NEW r, HookStart(t, r)
    PROVE  TagInv'
  <1> USE DEF TagInv
  <1>1. /\ hook[t].pc \in {"idle", "done"}
        /\ hook'[t].pc \in {"alloc", "done"}
        /\ hook' = [hook EXCEPT ![t] = hook'[t]]
        /\ hook'[t] = [pc |-> hook'[t].pc, chunks |-> hook'[t].chunks, tag |-> hook'[t].tag]
        /\ UNCHANGED <<busy, state, itag_lock, tx_lock, app2sim, pending>>
    BY DEF HookStart, IdleHook, tagvars, locks, afuvars, TagType
  <1>2. \A u \in Threads : u # t => hook'[u] = hook[u]
    BY <1>1 DEF TagType
  <1>3. TagType'
    BY <1>1, <1>2 DEF TagType, HookPcs
  <1>4. Locked'
    BY <1>1, <1>2 DEF Locked
  <1>5. Paired'
    BY <1>1, <1>2, FreeAssumption DEF Paired, Locked, IsHdr, TagType
  <1>6. HeldTags'
    BY <1>1, <1>2 DEF HeldTags, HasTag, Unseen
  <1>7. PipeTags' /\ OwedTags'
    BY <1>1 DEF PipeTags, OwedTags, Unseen, IsHdr
  <1>8. QED  BY <1>3, <1>4, <1>5, <1>6, <1>7

\* The tag that itag_alloc stamps is in no other place.
LEMMA TagAllocStamp ==
    ASSUME TagInv, cycle \in Nat, NEW t \in Threads, AllocStamp(t)
    PROVE  TagInv'
  <1> USE DEF TagInv
  <1>1. PICK tag \in Tags : tag = Min(Tags \ busy) /\ tag \notin busy
    <2>1. Tags \ busy # {}
      BY DEF AllocStamp, TagType
    <2>2. Tags \ busy \in SUBSET Nat
      BY AtsAssumption DEF Tags
    <2>3. QED  BY <2>1, <2>2, MinInSet
  <1>2. /\ hook[t].pc = "alloc" /\ itag_lock = Free /\ itag_lock' = t
        /\ hook' = [hook EXCEPT ![t].pc = "publish", ![t].tag = tag]
        /\ state' = [state EXCEPT ![tag] = Fresh(state[tag])]
        /\ UNCHANGED <<busy, tx_lock, app2sim, pending>>
    BY <1>1 DEF AllocStamp, afuvars
  <1>3. \A u \in Threads : u # t => hook'[u] = hook[u]
    BY <1>2 DEF TagType
  <1>4. hook'[t] = [pc |-> "publish", chunks |-> hook[t].chunks, tag |-> tag]
        /\ hook'[t].pc = "publish" /\ hook'[t].tag = tag
    <2>1. t \in DOMAIN hook
          /\ hook[t] = [pc |-> hook[t].pc, chunks |-> hook[t].chunks, tag |-> hook[t].tag]
      BY DEF TagType
    <2>2. hook'[t] = [[hook[t] EXCEPT !.pc = "publish"] EXCEPT !.tag = tag]
      BY <1>2, <2>1
    <2>3. QED  BY <2>1, <2>2
  <1>5. /\ state'[tag].cc_expected = -1 /\ state'[tag].cc_received = -1
        /\ \A g \in Tags : g # tag => state'[g] = state[g]
    BY <1>1, <1>2 DEF TagType, Fresh
  <1>6. pending[tag].left = 0
    BY <1>1 DEF OwedTags, TagType
  <1>7. TagType'
    <2>1. state' \in [Tags -> [cc_expected : Int, cc_received : Int, set_cycle : Nat]]
      <3>1. Fresh(state[tag]) \in [cc_expected : Int, cc_received : Int, set_cycle : Nat]
        BY DEF Fresh
      <3>2. QED  BY <1>2, <3>1 DEF TagType
    <2>2. hook' = [u \in Threads |-> [pc |-> hook'[u].pc, chunks |-> hook'[u].chunks,
                                      tag |-> hook'[u].tag]]
      BY <1>2, <1>4 DEF TagType
    <2>3. QED  BY <1>2, <1>3, <1>4, <2>1, <2>2 DEF TagType, HookPcs
  <1>8. Locked'
    BY <1>2, <1>3, <1>4, FreeAssumption DEF Locked
  <1>9. Paired'
    BY <1>2, <1>3, FreeAssumption DEF Paired, Locked, IsHdr, TagType
  <1>10. HeldTags'
    <2>1. \A u \in Threads : hook[u].pc # "publish"
      BY <1>2, FreeAssumption DEF Locked
    <2>2. \A u \in Threads : HasTag(u) /\ u # t => hook[u].tag # tag
      BY <1>1, <2>1 DEF HeldTags
    <2>3. \A i \in 1 .. Len(app2sim) : app2sim[i].tag # tag
      BY <1>1 DEF PipeTags
    <2>4. \A u \in Threads : HasTag(u)' /\ u # t => HasTag(u)
      BY <1>3 DEF HasTag
    <2>5. Unseen(tag)'
      BY <1>2, <1>5, <1>6 DEF Unseen
    <2>6. ASSUME NEW u \in Threads, HasTag(u), u # t
          PROVE  Unseen(hook[u].tag)'
      <3>1. hook[u].tag \in Tags /\ Unseen(hook[u].tag) /\ hook[u].tag # tag
        BY <2>2, <2>6 DEF HeldTags
      <3>2. state'[hook[u].tag] = state[hook[u].tag] /\ hook'[u].tag = hook[u].tag
        BY <1>3, <1>5, <2>6, <3>1
      <3>3. QED  BY <1>2, <3>1, <3>2 DEF Unseen
    <2>7. \A u \in Threads : HasTag(u)' =>
             /\ hook'[u].tag \in Tags /\ Unseen(hook[u].tag)'
             /\ hook'[u].tag \in busy' <=> hook'[u].pc # "publish"
      <3> SUFFICES ASSUME NEW u \in Threads, HasTag(u)'
                   PROVE  /\ hook'[u].tag \in Tags /\ Unseen(hook[u].tag)'
                          /\ hook'[u].tag \in busy' <=> hook'[u].pc # "publish"
        OBVIOUS
      <3>1. CASE u = t
        BY <1>1, <1>2, <1>4, <2>5, <3>1 DEF Unseen
      <3>2. CASE u # t
        <4>1. HasTag(u) /\ hook'[u] = hook[u]
          BY <1>3, <2>4, <3>2
        <4>2. hook[u].tag \in Tags /\ (hook[u].tag \in busy <=> hook[u].pc # "publish")
          BY <4>1 DEF HeldTags
        <4>3. Unseen(hook[u].tag)'
          BY <2>6, <3>2, <4>1
        <4>4. busy' = busy
          BY <1>2
        <4>5. QED  BY <4>1, <4>2, <4>3, <4>4
      <3>3. QED  BY <3>1, <3>2
    <2>8. \A u, v \in Threads : HasTag(u)' /\ HasTag(v)' /\ u # v =>
             hook'[u].tag # hook'[v].tag
      BY <1>3, <1>4, <2>2, <2>4 DEF HeldTags
    <2>9. \A u \in Threads, i \in 1 .. Len(app2sim') :
             hook'[u].pc \in {"publish", "hdr"} => app2sim'[i].tag # hook'[u].tag
      <3> SUFFICES ASSUME NEW u \in Threads, NEW i \in 1 .. Len(app2sim),
                          hook'[u].pc \in {"publish", "hdr"}
                   PROVE  app2sim[i].tag # hook'[u].tag
        BY <1>2
      <3>1. CASE u = t
        BY <1>4, <2>3, <3>1
      <3>2. CASE u # t
        BY <1>3, <3>2 DEF HeldTags
      <3>3. QED  BY <3>1, <3>2
    <2>10. QED  BY <2>7, <2>8, <2>9 DEF HeldTags
  <1>11. PipeTags' /\ OwedTags'
    <2>1. \A i \in 1 .. Len(app2sim) : app2sim[i].tag # tag /\ app2sim[i].tag \in Tags
      BY <1>1 DEF PipeTags, TagType
    <2>2. PipeTags'
      BY <1>2, <1>5, <2>1 DEF PipeTags, Unseen, IsHdr
    <2>3. OwedTags'
      BY <1>1, <1>2, <1>5, <1>6 DEF OwedTags, TagType
    <2>4. QED  BY <2>2, <2>3
  <1>12. QED  BY <1>7, <1>8, <1>9, <1>10, <1>11

\* itag_alloc makes the tag busy and lets go of ase_itag_lock.
LEMMA TagAllocPublish ==
    ASSUME TagInv, NEW t \in Threads, AllocPublish(t)
    PROVE  TagInv'
  <1> USE DEF TagInv
  <1> DEFINE tag == hook[t].tag
  <1>1. /\ hook[t].pc = "publish" /\ itag_lock' = Free /\ itag_lock = t
        /\ hook' = [hook EXCEPT ![t].pc = "hdr"]
        /\ busy' = busy \cup {tag}
        /\ UNCHANGED <<state, tx_lock, app2sim, pending>>
    BY DEF AllocPublish, afuvars, Locked
  <1>2. \A u \in Threads : u # t => hook'[u] = hook[u]
    BY <1>1 DEF TagType
  <1>3. hook'[t] = [pc |-> "hdr", chunks |-> hook[t].chunks, tag |-> tag]
    BY <1>1 DEF TagType
  <1>4. tag \in Tags /\ tag \notin busy
    BY <1>1 DEF HeldTags, HasTag
  <1>5. TagType'
    <2>1. hook' = [u \in Threads |-> [pc |-> hook'[u].pc, chunks |-> hook'[u].chunks,
                                      tag |-> hook'[u].tag]]
      BY <1>1, <1>3 DEF TagType
    <2>2. \A u \in Threads : hook'[u].pc \in HookPcs
      <3>1. hook'[t].pc \in HookPcs
        BY <1>3 DEF HookPcs
      <3>2. \A u \in Threads : hook[u].pc \in HookPcs
        BY DEF TagType
      <3> QED
        BY <1>2, <3>1, <3>2
    <2> QED
      BY <1>1, <1>4, <2>1, <2>2 DEF TagType
  <1>6. Locked'
    BY <1>1, <1>2, <1>3, FreeAssumption DEF Locked
  <1>7. Paired'
    BY <1>1, <1>2, FreeAssumption DEF Paired, Locked, IsHdr, TagType
  <1>8. HeldTags'
    BY <1>1, <1>2, <1>3, <1>4 DEF HeldTags, HasTag, Unseen
  <1>9. PipeTags' /\ OwedTags'
    BY <1>1 DEF PipeTags, OwedTags, Unseen, IsHdr
  <1>10. QED  BY <1>5, <1>6, <1>7, <1>8, <1>9

\* pcie_send_ats_inval takes pcie_msg_tx_lock and writes the header.
LEMMA TagSendHdr ==
    ASSUME TagInv, NEW t \in Threads, SendHdr(t)
    PROVE  TagInv'
  <1> USE DEF TagInv
  <1>1. PICK tag \in Tags : tag = hook[t].tag /\ tag \in busy /\ Unseen(tag)
    BY DEF SendHdr, HeldTags, HasTag
  <1> DEFINE hdr == [kind |-> "inval", tag |-> tag]
             n   == Len(app2sim)
  <1>2. /\ hook[t].pc = "hdr" /\ tx_lock = Free /\ tx_lock' = t
        /\ hook' = [hook EXCEPT ![t].pc = "payload"]
        /\ app2sim' = Append(app2sim, hdr)
        /\ UNCHANGED <<busy, state, itag_lock, pending>>
    BY <1>1 DEF SendHdr, TakeTx, tagvars, afuvars
  <1>3. \A u \in Threads : u # t => hook'[u] = hook[u]
    BY <1>2 DEF TagType
  <1>4. hook'[t] = [pc |-> "payload", chunks |-> hook[t].chunks, tag |-> tag]
        /\ hook'[t].pc = "payload" /\ hook'[t].tag = tag
    BY <1>1, <1>2 DEF TagType
  <1>5. hdr \in Hdrs \cup Payloads /\ hdr.kind = "inval" /\ hdr.tag = tag
    BY DEF Hdrs
  <1> HIDE DEF hdr
  <1>6. /\ app2sim' \in Seq(Hdrs \cup Payloads)
        /\ n \in Nat /\ Len(app2sim') = n + 1 /\ app2sim'[n + 1] = hdr
        /\ \A i \in 1 .. n : app2sim'[i] = app2sim[i]
    BY <1>2, <1>5 DEF TagType
  <1>7. ~IsHdr(n)
    BY <1>2 DEF Paired
  <1>8. TagType'
    <2>1. hook' = [u \in Threads |-> [pc |-> hook'[u].pc, chunks |-> hook'[u].chunks,
                                      tag |-> hook'[u].tag]]
      BY <1>2, <1>4 DEF TagType
    <2>2. QED  BY <1>2, <1>3, <1>4, <1>6, <2>1 DEF TagType, HookPcs
  <1>9. Locked'
    BY <1>2, <1>3, <1>4, FreeAssumption DEF Locked
  <1>10. Paired'
    <2>1. IsHdr(n + 1)
      BY <1>6, <1>7 DEF IsHdr
    <2>2. \A i \in 1 .. n : ~IsHdr(i) => i - 1 \in 1 .. n
      BY <1>6 DEF IsHdr
    <2>3. ASSUME NEW i \in 1 .. n + 1
          PROVE  /\ app2sim'[i].kind = IF IsHdr(i) THEN "inval" ELSE "payload"
                 /\ ~IsHdr(i) => app2sim'[i].tag = app2sim'[i - 1].tag
      <3>1. CASE i = n + 1
        BY <1>5, <1>6, <2>1, <3>1
      <3>2. CASE i \in 1 .. n
        BY <1>6, <2>2, <3>2 DEF Paired
      <3>3. QED  BY <1>6, <3>1, <3>2
    <2>4. tx_lock' # Free /\ hook'[tx_lock'].tag = tag
      BY <1>2, <1>4, FreeAssumption
    <2>5. QED  BY <1>5, <1>6, <2>1, <2>3, <2>4 DEF Paired, IsHdr
  <1>11. HeldTags'
    <2>1. \A u \in Threads : u # t /\ HasTag(u) => hook[u].tag # tag
      BY <1>1, <1>2 DEF HeldTags, HasTag
    <2>2. \A u \in Threads : HasTag(u)' => HasTag(u) /\ hook'[u].tag = hook[u].tag
      BY <1>1, <1>2, <1>3, <1>4 DEF HasTag
    <2>3. \A g \in Tags : Unseen(g)' <=> Unseen(g)
      BY <1>2 DEF Unseen
    <2>4. ASSUME NEW u \in Threads, NEW i \in 1 .. n + 1, hook'[u].pc \in {"publish", "hdr"}
          PROVE  app2sim'[i].tag # hook'[u].tag
      <3>1. u # t /\ HasTag(u) /\ hook[u].pc \in {"publish", "hdr"} /\ hook'[u] = hook[u]
        BY <1>3, <1>4, <2>4 DEF HasTag
      <3>2. CASE i = n + 1
        BY <1>5, <1>6, <2>1, <3>1, <3>2
      <3>3. CASE i \in 1 .. n
        BY <1>6, <3>1, <3>3 DEF HeldTags
      <3>4. QED  BY <1>6, <3>2, <3>3
    <2>5. ASSUME NEW u \in Threads, HasTag(u)'
          PROVE  /\ hook'[u].tag \in Tags /\ Unseen(hook[u].tag)'
                 /\ hook'[u].tag \in busy' <=> hook'[u].pc # "publish"
      BY <1>1, <1>2, <1>3, <1>4, <2>2, <2>3, <2>5 DEF HeldTags
    <2>6. \A u, v \in Threads : HasTag(u)' /\ HasTag(v)' /\ u # v =>
             hook'[u].tag # hook'[v].tag
      BY <2>2 DEF HeldTags
    <2>7. Len(app2sim)' = n + 1
      BY <1>6
    <2>8. \A u \in Threads : HasTag(u)' => Unseen(hook[u].tag)' /\ hook'[u].tag = hook[u].tag
      BY <2>2, <2>5
    <2>9. QED  BY <2>2, <2>4, <2>5, <2>6, <2>7, <2>8 DEF HeldTags, Unseen
  <1>12. PipeTags'
    <2>1. \A i \in 1 .. n : app2sim[i].tag # tag
      BY <1>1, <1>2 DEF HeldTags
    <2>2. \A i \in 1 .. n + 1 : app2sim'[i].tag \in busy' /\ Unseen(app2sim[i].tag)'
      <3> TAKE i \in 1 .. n + 1
      <3>1. CASE i = n + 1
        BY <1>1, <1>2, <1>5, <1>6, <3>1 DEF Unseen
      <3>2. CASE i \in 1 .. n
        BY <1>2, <1>6, <3>2 DEF PipeTags, Unseen
      <3>3. QED  BY <1>6, <3>1, <3>2
    <2>3. \A i, j \in 1 .. n + 1 :
             IsHdr(i) /\ IsHdr(j) /\ app2sim'[i].tag = app2sim'[j].tag => i = j
      BY <1>5, <1>6, <2>1 DEF PipeTags
    <2>4. QED  BY <1>6, <2>2, <2>3 DEF PipeTags, IsHdr
  <1>13. OwedTags'
    BY <1>2 DEF OwedTags
  <1>14. QED  BY <1>8, <1>9, <1>10, <1>11, <1>12, <1>13

\* The address follows the header, the lock is released and the hook forgets
\* the tag.
LEMMA TagSendPayload ==
    ASSUME TagInv, NEW t \in Threads, SendPayload(t)
    PROVE  TagInv'
  <1> USE DEF TagInv
  <1>1. PICK tag \in Tags : tag = hook[t].tag
    BY DEF SendPayload, HeldTags, HasTag
  <1>2. PICK msg : msg = [kind |-> "payload", tag |-> tag,
                          pages |-> Decoded(Head(hook[t].chunks))]
    OBVIOUS
  <1> DEFINE n   == Len(app2sim)
  <1>3. /\ hook[t].pc = "payload" /\ tx_lock' = Free
        /\ app2sim' = Append(app2sim, msg)
        /\ UNCHANGED <<busy, state, itag_lock, pending>>
    BY <1>1, <1>2 DEF SendPayload, tagvars, afuvars
  <1>4. /\ \A u \in Threads : u # t => hook'[u] = hook[u]
        /\ hook'[t].pc \in {"alloc", "done"}
        /\ hook' = [u \in Threads |-> [pc |-> hook'[u].pc, chunks |-> hook'[u].chunks,
                                       tag |-> hook'[u].tag]]
    BY DEF SendPayload, TagType
  <1>5. msg \in Hdrs \cup Payloads /\ msg.kind = "payload" /\ msg.tag = tag
    <2>1. Decoded(Head(hook[t].chunks)) \in SUBSET Int
      BY DEF Decoded, Pages
    <2>2. QED  BY <1>2, <2>1 DEF Payloads
  <1>6. /\ app2sim' \in Seq(Hdrs \cup Payloads)
        /\ n \in Nat /\ Len(app2sim') = n + 1 /\ app2sim'[n + 1] = msg
        /\ \A i \in 1 .. n : app2sim'[i] = app2sim[i]
    BY <1>3, <1>5 DEF TagType
  <1>7. /\ tx_lock = t /\ IsHdr(n) /\ app2sim[n].tag = tag
    BY <1>1, <1>3, FreeAssumption DEF Locked, Paired
  <1>8. n \in 1 .. n /\ ~IsHdr(n + 1)
    BY <1>6, <1>7 DEF IsHdr
  <1>9. TagType'
    BY <1>3, <1>4, <1>6 DEF TagType, HookPcs
  <1>10. Locked'
    BY <1>3, <1>4, <1>7, FreeAssumption DEF Locked
  <1>11. Paired'
    <2>1. \A i \in 1 .. n : ~IsHdr(i) => i - 1 \in 1 .. n
      BY <1>6 DEF IsHdr
    <2>2. ASSUME NEW i \in 1 .. n + 1
          PROVE  /\ app2sim'[i].kind = IF IsHdr(i) THEN "inval" ELSE "payload"
                 /\ ~IsHdr(i) => app2sim'[i].tag = app2sim'[i - 1].tag
      <3>1. CASE i = n + 1
        BY <1>5, <1>6, <1>7, <1>8, <3>1
      <3>2. CASE i \in 1 .. n
        BY <1>6, <2>1, <3>2 DEF Paired
      <3>3. QED  BY <1>6, <3>1, <3>2
    <2>3. QED  BY <1>3, <1>6, <1>8, <2>2 DEF Paired, IsHdr
  <1>12. HeldTags'
    <2>1. \A u \in Threads : HasTag(u)' => u # t /\ HasTag(u) /\ hook'[u] = hook[u]
      BY <1>4 DEF HasTag
    <2>2. \A u \in Threads : HasTag(u)' => Unseen(hook[u].tag)'
      BY <1>3, <2>1 DEF HeldTags, Unseen
    <2>3. ASSUME NEW u \in Threads, NEW i \in 1 .. n + 1, hook'[u].pc \in {"publish", "hdr"}
          PROVE  app2sim'[i].tag # hook'[u].tag
      <3>1. u # t /\ HasTag(u) /\ hook[u].pc \in {"publish", "hdr"} /\ hook'[u] = hook[u]
        BY <1>4, <2>3 DEF HasTag
      <3>2. CASE i = n + 1
        BY <1>1, <1>3, <1>5, <1>6, <3>1, <3>2 DEF HeldTags, HasTag
      <3>3. CASE i \in 1 .. n
        BY <1>6, <3>1, <3>3 DEF HeldTags
      <3>4. QED  BY <1>6, <3>2, <3>3
    <2>4. \A u \in Threads : HasTag(u)' =>
             /\ hook'[u].tag \in Tags
             /\ hook'[u].tag \in busy' <=> hook'[u].pc # "publish"
      BY <1>3, <2>1 DEF HeldTags
    <2>5. \A u, v \in Threads : HasTag(u)' /\ HasTag(v)' /\ u # v =>
             hook'[u].tag # hook'[v].tag
      BY <2>1 DEF HeldTags
    <2>6. Len(app2sim)' = n + 1
      BY <1>6
    <2>7. QED  BY <2>2, <2>3, <2>4, <2>5, <2>6 DEF HeldTags
  <1>13. PipeTags'
    <2>1. \A i \in 1 .. n + 1 : app2sim'[i].tag \in busy' /\ Unseen(app2sim[i].tag)'
      <3> TAKE i \in 1 .. n + 1
      <3>1. CASE i = n + 1
        BY <1>3, <1>5, <1>6, <1>7, <1>8, <3>1 DEF PipeTags, Unseen
      <3>2. CASE i \in 1 .. n
        BY <1>3, <1>6, <3>2 DEF PipeTags, Unseen
      <3>3. QED  BY <1>6, <3>1, <3>2
    <2>2. \A i, j \in 1 .. n + 1 :
             IsHdr(i) /\ IsHdr(j) /\ app2sim'[i].tag = app2sim'[j].tag => i = j
      BY <1>6, <1>8 DEF PipeTags
    <2>3. QED  BY <1>6, <2>1, <2>2 DEF PipeTags, IsHdr
  <1>14. OwedTags'
    BY <1>3 DEF OwedTags
  <1>15. QED  BY <1>9, <1>10, <1>11, <1>12, <1>13, <1>14

\* pcie_tlp_h2a_msg takes a whole invalidation out of the pipe: from here the
\* AFU owes the completions of its tag.
LEMMA TagH2aMsg ==
    ASSUME TagInv, NEW cc \in AfuCC, H2aMsg(cc)
    PROVE  TagInv'
  <1> USE DEF TagInv
  <1>0. app2sim \in Seq(Hdrs \cup Payloads) /\ Len(app2sim) \in Nat /\ Len(app2sim) > 1
    BY DEF H2aMsg, TagType
  <1>1. PICK n \in Nat : n = Len(app2sim) /\ n > 1 /\ app2sim \in Seq(Hdrs \cup Payloads)
    BY <1>0
  <1> USE <1>1
  <1>2. PICK tag \in Tags : tag = app2sim[1].tag /\ tag \in busy /\ Unseen(tag)
    <2>1. 1 \in 1 .. n /\ app2sim[1] \in Hdrs \cup Payloads
      BY <1>1
    <2>2. QED  BY <2>1 DEF PipeTags, Hdrs, Payloads
  <1>3. /\ pending' = [pending EXCEPT ![tag] = [cc |-> cc, left |-> cc]]
        /\ app2sim' = SubSeq(app2sim, 3, n)
        /\ UNCHANGED <<busy, state, itag_lock, tx_lock, hook>>
    BY <1>1, <1>2 DEF H2aMsg, tagvars, locks
  <1>4. /\ app2sim' \in Seq(Hdrs \cup Payloads)
        /\ Len(app2sim') = n - 2
        /\ \A i \in 1 .. n - 2 : i + 2 \in 1 .. n /\ app2sim'[i] = app2sim[i + 2]
    <2>1. \A i \in 1 .. n - 2 : i + 2 \in 1 .. n
      BY <1>1
    <2>2. SubSeq(app2sim, 3, n) \in Seq(Hdrs \cup Payloads)
      BY <1>1
    <2>3. /\ Len(SubSeq(app2sim, 3, n)) = n - 2
          /\ \A i \in 1 .. n - 2 : SubSeq(app2sim, 3, n)[i] = app2sim[i + 2]
      BY <1>1
    <2>4. QED  BY <1>3, <2>1, <2>2, <2>3
  <1>5. cc \in Nat /\ cc > 0
    BY CountKept
  <1>6. /\ pending'[tag].cc = cc /\ pending'[tag].left = cc
        /\ \A g \in Tags : g # tag => pending'[g] = pending[g]
    BY <1>2, <1>3 DEF TagType
  <1>7. TagType'
    <2>1. pending' \in [Tags -> [cc : Nat, left : Nat]]
      BY <1>3, <1>5 DEF TagType
    <2>2. QED  BY <1>3, <1>4, <2>1 DEF TagType
  <1>8. Locked'
    BY <1>3 DEF Locked
  <1>9. \A i \in 1 .. n - 2 : IsHdr(i) <=> IsHdr(i + 2)
    BY <1>1 DEF IsHdr
  <1>10. IsHdr(1) /\ ~IsHdr(2) /\ app2sim[2].tag = tag
    BY <1>1, <1>2 DEF IsHdr, Paired
  <1>11. \A i \in 1 .. n - 2 : app2sim'[i].tag # tag
    <2> SUFFICES ASSUME NEW i \in 1 .. n - 2
                 PROVE  app2sim[i + 2].tag # tag
      BY <1>4
    <2>1. i \in Nat /\ i >= 1 /\ 1 \in 1 .. n /\ i + 2 \in 1 .. n
      BY <1>1
    <2>2. CASE IsHdr(i + 2)
      BY <1>2, <1>10, <2>1, <2>2 DEF PipeTags
    <2>3. CASE ~IsHdr(i + 2)
      <3>1. i + 1 \in 1 .. n /\ i + 1 # 1 /\ IsHdr(i + 1)
        BY <2>1, <2>3 DEF IsHdr
      <3>2. app2sim[i + 2].tag = app2sim[i + 1].tag
        <4>1. app2sim[i + 2].tag = app2sim[(i + 2) - 1].tag
          BY <2>1, <2>3 DEF Paired
        <4>2. (i + 2) - 1 = i + 1
          BY <2>1
        <4>3. QED  BY <4>1, <4>2
      <3>3. QED  BY <1>2, <1>10, <2>1, <3>1, <3>2 DEF PipeTags
    <2>4. QED  BY <2>2, <2>3
  <1>12. Paired'
    <2>1. ASSUME NEW i \in 1 .. n - 2
          PROVE  /\ app2sim'[i].kind = IF IsHdr(i) THEN "inval" ELSE "payload"
                 /\ ~IsHdr(i) => app2sim'[i].tag = app2sim'[i - 1].tag
      <3>1. app2sim'[i].kind = IF IsHdr(i) THEN "inval" ELSE "payload"
        BY <1>4, <1>9 DEF Paired
      <3>2. ASSUME ~IsHdr(i)
            PROVE  app2sim'[i].tag = app2sim'[i - 1].tag
        <4>1. i \in Nat /\ i >= 2 /\ i - 1 \in 1 .. n - 2 /\ (i + 2) - 1 = (i - 1) + 2
          BY <1>1, <3>2 DEF IsHdr
        <4>2. app2sim[i + 2].tag = app2sim[(i + 2) - 1].tag
          BY <1>4, <1>9, <3>2 DEF Paired
        <4>3. QED  BY <1>4, <4>1, <4>2
      <3>3. QED  BY <3>1, <3>2
    <2>2. IsHdr(n - 2) <=> IsHdr(n)
      BY <1>1 DEF IsHdr
    <2>3. tx_lock # Free => app2sim'[n - 2].tag = hook[tx_lock].tag
      <3>1. SUFFICES ASSUME tx_lock # Free
                     PROVE  app2sim'[n - 2].tag = hook[tx_lock].tag
        OBVIOUS
      <3>2. IsHdr(n) /\ app2sim[n].tag = hook[tx_lock].tag
        BY <3>1 DEF Paired
      <3>3. n - 2 \in 1 .. n - 2 /\ (n - 2) + 2 = n
        BY <1>1, <3>2 DEF IsHdr
      <3>4. QED  BY <1>4, <3>2, <3>3
    <2>4. QED  BY <1>3, <1>4, <2>1, <2>2, <2>3 DEF Paired, IsHdr
  <1>13. HeldTags'
    <2>1. \A u \in Threads : HasTag(u) => hook[u].tag # tag
      <3> SUFFICES ASSUME NEW u \in Threads, HasTag(u)
                   PROVE  hook[u].tag # tag
        OBVIOUS
      <3>1. CASE hook[u].pc \in {"publish", "hdr"}
        BY <1>1, <1>2, <3>1 DEF HeldTags
      <3>2. CASE hook[u].pc = "payload"
        <4>1. IsHdr(n) /\ app2sim[n].tag = hook[u].tag
          BY <3>2, FreeAssumption DEF Locked, Paired
        <4>2. n \in 1 .. n /\ n # 1 /\ 1 \in 1 .. n
          BY <1>1
        <4>3. QED  BY <1>2, <1>10, <4>1, <4>2 DEF PipeTags
      <3>3. QED  BY <3>1, <3>2 DEF HasTag
    <2>2. \A u \in Threads : HasTag(u)' => HasTag(u) /\ Unseen(hook[u].tag)'
      BY <1>3, <1>6, <2>1 DEF HasTag, HeldTags, Unseen
    <2>3. \A u \in Threads, i \in 1 .. n - 2 :
             hook[u].pc \in {"publish", "hdr"} => app2sim'[i].tag # hook[u].tag
      BY <1>4 DEF HeldTags
    <2>4. QED  BY <1>3, <1>4, <2>2, <2>3 DEF HeldTags, HasTag
  <1>14. PipeTags'
    <2>1. \A i \in 1 .. n - 2 : app2sim'[i].tag \in busy' /\ Unseen(app2sim[i].tag)'
      <3> TAKE i \in 1 .. n - 2
      <3>1. app2sim[i + 2].tag \in busy /\ Unseen(app2sim[i + 2].tag)
        BY <1>4 DEF PipeTags
      <3>2. app2sim'[i].tag \in Tags /\ app2sim'[i].tag = app2sim[i + 2].tag
        BY <1>4, <3>1 DEF TagType
      <3>3. QED  BY <1>3, <1>6, <1>11, <3>1, <3>2 DEF Unseen
    <2>2. \A i, j \in 1 .. n - 2 :
             IsHdr(i) /\ IsHdr(j) /\ app2sim'[i].tag = app2sim'[j].tag => i = j
      <3> TAKE i, j \in 1 .. n - 2
      <3>1. HAVE IsHdr(i) /\ IsHdr(j) /\ app2sim'[i].tag = app2sim'[j].tag
      <3>2. i + 2 \in 1 .. n /\ j + 2 \in 1 .. n /\ IsHdr(i + 2) /\ IsHdr(j + 2)
            /\ app2sim[i + 2].tag = app2sim[j + 2].tag
        BY <1>4, <1>9, <3>1
      <3>4. i + 2 = j + 2
        BY <1>1, <3>2 DEF PipeTags
      <3>5. QED  BY <3>4
    <2>3. QED  BY <1>4, <2>1, <2>2 DEF PipeTags, IsHdr
  <1>15. OwedTags'
    BY <1>2, <1>3, <1>5, <1>6 DEF OwedTags, Unseen
  <1>16. QED  BY <1>7, <1>8, <1>12, <1>13, <1>14, <1>15

\* A completion changes the counts of a tag and nothing else of its state.
LEMMA ReceivedType ==
    ASSUME NEW s \in [cc_expected : Int, cc_received : Int, set_cycle : Nat],
           NEW cc \in Nat
    PROVE  /\ Received(s, cc) \in [cc_expected : Int, cc_received : Int, set_cycle : Nat]
           /\ Received(s, cc).set_cycle = s.set_cycle
  <1>1. CASE s.cc_expected = -1
    <2>1. Received(s, cc) = [cc_expected |-> cc, cc_received |-> 1, set_cycle |-> s.set_cycle]
      BY <1>1 DEF Received
    <2>2. QED  BY <2>1
  <1>2. CASE s.cc_expected # -1
    <2>1. Received(s, cc) = [s EXCEPT !.cc_received = s.cc_received + 1]
      BY <1>2 DEF Received
    <2>2. s.cc_received + 1 \in Int
      OBVIOUS
    <2>3. QED  BY <2>1, <2>2
  <1>3. QED  BY <1>1, <1>2

\* ase_pcie_ats_itag_free accepts every completion the AFU owes: the tag is busy
\* and expects this number of completions.
LEMMA OwedAccepted ==
    ASSUME TagInv, NEW vec \in SUBSET Tags, NEW n \in AfuCC,
           \A t \in vec : pending[t].cc = n /\ pending[t].left > 0
    PROVE  ~FreeError(vec, n)
  <1>1. \A t \in vec : t \in busy /\ state[t].cc_expected \in {-1, n}
    BY DEF TagInv, OwedTags
  <1>2. QED  BY <1>1 DEF FreeError

\* A completion: the counts of the tags in it go up together with what the AFU
\* has left, and a tag is released with the last one.
LEMMA TagFreeTags ==
    ASSUME TagInv, NEW vec \in SUBSET Tags, FreeTags(vec)
    PROVE  TagInv' /\ UNCHANGED failed
  <1> USE DEF TagInv
  <1>1. PICK n \in AfuCC :
          /\ \A t \in vec : pending[t].cc = n /\ pending[t].left > 0
          /\ LET cc  == Count(n % MaxCC)
                 new == [t \in Tags |-> IF t \in vec THEN Received(state[t], cc) ELSE state[t]]
             IN  IF FreeError(vec, cc)
                 THEN failed' = [NotFailed EXCEPT !.why = "exit"] /\ UNCHANGED <<busy, state>>
                 ELSE /\ state' = new
                      /\ busy' = busy \ {t \in vec : Releases(new[t], cc)}
                      /\ UNCHANGED failed
    BY DEF FreeTags
  <1>2. Count(n % MaxCC) = n /\ n \in Nat /\ n > 0
    BY CountKept
  <1>3. ~FreeError(vec, n)
    BY <1>1, OwedAccepted
  <1>4. /\ state' = [t \in Tags |-> IF t \in vec THEN Received(state[t], n) ELSE state[t]]
        /\ busy' = busy \ {t \in vec : Releases(state'[t], n)}
        /\ UNCHANGED failed
    BY <1>1, <1>2, <1>3
  <1>5. /\ pending' = [t \in Tags |-> IF t \in vec THEN Answered(pending[t]) ELSE pending[t]]
        /\ UNCHANGED <<itag_lock, tx_lock, hook, app2sim>>
    BY DEF FreeTags, locks
  <1>6. \A g \in Tags : g \notin vec =>
           state'[g] = state[g] /\ pending'[g] = pending[g] /\ (g \in busy' <=> g \in busy)
    BY <1>4, <1>5
  <1>7. \A g \in vec :
           /\ state'[g] = Received(state[g], n)
           /\ state'[g].cc_expected = n /\ state'[g].cc_received = n - pending[g].left + 1
    <2> TAKE g \in vec
    <2>1. /\ pending[g].cc = n /\ pending[g].left > 0 /\ g \in Tags
          /\ state[g] \in [cc_expected : Int, cc_received : Int, set_cycle : Nat]
          /\ pending[g] \in [cc : Nat, left : Nat]
      BY <1>1 DEF TagType
    <2>2. state'[g] = Received(state[g], n)
      BY <1>4, <2>1
    <2>3. CASE state[g].cc_expected = -1
      <3>1. pending[g].left = n
        BY <2>1, <2>3 DEF OwedTags
      <3>2. QED  BY <1>2, <2>1, <2>2, <2>3, <3>1 DEF Received
    <2>4. CASE state[g].cc_expected # -1
      <3>1. state[g].cc_expected = n /\ state[g].cc_received = n - pending[g].left
        BY <2>1, <2>4 DEF OwedTags
      <3>2. QED  BY <1>2, <2>1, <2>2, <2>4, <3>1 DEF Received
    <2>5. QED  BY <2>3, <2>4
  <1>8. \A g \in vec :
           /\ g \in busy /\ (g \in busy' <=> pending[g].left # 1)
           /\ pending[g].left = 1 => pending'[g].left = 0
           /\ pending[g].left # 1 => pending'[g].cc = n /\ pending'[g].left = pending[g].left - 1
    <2> TAKE g \in vec
    <2>1. /\ pending[g].cc = n /\ pending[g].left > 0 /\ g \in Tags /\ g \in busy
          /\ pending[g] \in [cc : Nat, left : Nat]
      BY <1>1 DEF TagType, OwedTags
    <2>2. Releases(state'[g], n) <=> pending[g].left = 1
      BY <1>2, <1>7, <2>1 DEF Releases
    <2>3. pending'[g] = Answered(pending[g])
      BY <1>5, <2>1
    <2>4. QED  BY <1>4, <2>1, <2>2, <2>3 DEF Answered, NothingPending
  <1>9. \A g \in Tags : pending[g].left = 0 => g \notin vec
    BY <1>1
  <1>10. TagType'
    <2>1. \A g \in Tags :
             /\ state'[g] \in [cc_expected : Int, cc_received : Int, set_cycle : Nat]
             /\ pending'[g] \in [cc : Nat, left : Nat]
      <3> TAKE g \in Tags
      <3>1. /\ state[g] \in [cc_expected : Int, cc_received : Int, set_cycle : Nat]
            /\ pending[g] \in [cc : Nat, left : Nat]
        BY DEF TagType
      <3>2. CASE g \in vec
        <4>1. state'[g] \in [cc_expected : Int, cc_received : Int, set_cycle : Nat]
          BY <1>2, <1>7, <3>1, <3>2, ReceivedType
        <4>2. pending'[g] = Answered(pending[g]) /\ pending[g].left > 0
          BY <1>1, <1>5, <3>2
        <4>3. QED  BY <3>1, <4>1, <4>2 DEF Answered, NothingPending
      <3>3. CASE g \notin vec
        BY <1>6, <3>1, <3>3
      <3>4. QED  BY <3>2, <3>3
    <2>2. /\ state' \in [Tags -> [cc_expected : Int, cc_received : Int, set_cycle : Nat]]
          /\ pending' \in [Tags -> [cc : Nat, left : Nat]]
      BY <1>4, <1>5, <2>1
    <2>3. QED  BY <1>4, <1>5, <2>2 DEF TagType
  <1>11. Locked'
    BY <1>5 DEF Locked
  <1>12. Paired'
    BY <1>5 DEF Paired, IsHdr
  <1>13. \A g \in Tags : Unseen(g) => g \notin vec /\ Unseen(g)'
    BY <1>6, <1>9 DEF Unseen
  <1>14. HeldTags'
    <2>1. \A u \in Threads : HasTag(u)' <=> HasTag(u)
      BY <1>5 DEF HasTag
    <2>2. \A u \in Threads : HasTag(u) =>
             /\ hook[u].tag \in Tags /\ Unseen(hook[u].tag)'
             /\ hook[u].tag \in busy' <=> hook[u].pc # "publish"
      <3> SUFFICES ASSUME NEW u \in Threads, HasTag(u)
                   PROVE  /\ hook[u].tag \in Tags /\ Unseen(hook[u].tag)'
                          /\ hook[u].tag \in busy' <=> hook[u].pc # "publish"
        OBVIOUS
      <3>1. /\ hook[u].tag \in Tags /\ Unseen(hook[u].tag)
            /\ hook[u].tag \in busy <=> hook[u].pc # "publish"
        BY DEF HeldTags
      <3>2. hook[u].tag \notin vec
        BY <1>13, <3>1
      <3>3. Unseen(hook[u].tag)'
        BY <1>5, <1>13, <3>1 DEF Unseen
      <3>4. QED  BY <1>6, <3>1, <3>2, <3>3
    <2>3. QED  BY <1>5, <2>1, <2>2 DEF HeldTags
  <1>15. PipeTags'
    <2>1. \A i \in 1 .. Len(app2sim) :
             app2sim[i].tag \in busy' /\ Unseen(app2sim[i].tag)'
      <3> TAKE i \in 1 .. Len(app2sim)
      <3>1. app2sim[i].tag \in busy /\ Unseen(app2sim[i].tag) /\ app2sim[i].tag \in Tags
        BY DEF PipeTags, TagType
      <3>2. app2sim[i].tag \notin vec
        BY <1>13, <3>1
      <3>3. Unseen(app2sim[i].tag)'
        BY <1>5, <1>13, <3>1 DEF Unseen
      <3>4. QED  BY <1>6, <3>1, <3>2, <3>3
    <2>2. QED  BY <1>5, <2>1 DEF PipeTags, IsHdr
  <1>16. OwedTags'
    <2> SUFFICES ASSUME NEW g \in Tags, pending'[g].left > 0
                 PROVE  /\ g \in busy'
                        /\ pending'[g].cc \in AfuCC /\ pending'[g].left <= pending'[g].cc
                        /\ IF state'[g].cc_expected = -1
                           THEN pending'[g].left = pending'[g].cc
                           ELSE /\ state'[g].cc_expected = pending'[g].cc
                                /\ state'[g].cc_received = pending'[g].cc - pending'[g].left
      BY DEF OwedTags
    <2>1. CASE g \notin vec
      BY <1>6, <2>1 DEF OwedTags
    <2>2. CASE g \in vec
      <3>1. pending[g].left \in Nat /\ pending[g].left > 0 /\ pending[g].left <= n
        BY <1>1, <2>2 DEF OwedTags, TagType
      <3>2. QED  BY <1>2, <1>7, <1>8, <2>2, <3>1
    <2>3. QED  BY <2>1, <2>2
  <1>17. QED
    BY <1>4, <1>10, <1>11, <1>12, <1>14, <1>15, <1>16

-----------------------------------------------------------------------------
(* The ages. *)

\* No tag has an age at the start.
LEMMA AgeInit == Init => AgeInv
  <1> SUFFICES ASSUME Init
               PROVE  AgeInv
    OBVIOUS
  <1>1. AgeType
    BY DEF Init, AgeType, IdleWatch, NotLoaded, NoTag, NotFailed, WatchPcs
  <1>2. Stamped
    BY DEF Init, Stamped
  <1>3. Loaded
    BY DEF Init, Loaded, LoadedOf, IdleWatch, NotLoaded
  <1>4. FalseTimeoutOnlyOnReuse
    BY DEF Init, FalseTimeoutOnlyOnReuse, NotFailed
  <1>5. QED  BY <1>1, <1>2, <1>3, <1>4 DEF AgeInv

\* A step of a hook outside itag_alloc, or of the simulator.
LEMMA AgeSame ==
    ASSUME AgeInv, UNCHANGED <<cycle, since, state, watch, failed>>, busy' \subseteq Tags
    PROVE  AgeInv'
  BY DEF AgeInv, AgeType, Stamped, Loaded, LoadedOf, FalseTimeoutOnlyOnReuse

\* A tag is stamped with the current cycle; a watcher that has it in its
\* snapshot of the busy vector now has it as one that was taken again.
LEMMA AgeAllocStamp ==
    ASSUME AgeInv, NEW t \in Threads, AllocStamp(t)
    PROVE  AgeInv'
  <1> USE DEF AgeInv
  <1>1. PICK tag \in Tags : tag = Min(Tags \ busy)
    <2>1. Tags \ busy # {}
      BY DEF AllocStamp, AgeType
    <2>2. Tags \ busy \in SUBSET Nat
      BY AtsAssumption DEF Tags
    <2>3. QED  BY <2>1, <2>2, MinInSet
  <1>2. /\ state' = [state EXCEPT ![tag] = Fresh(state[tag])]
        /\ since' = [since EXCEPT ![tag] = cycle]
        /\ watch' = [w \in Watchers |->
               [watch[w] EXCEPT !.reused = watch[w].reused \cup ({tag} \cap watch[w].vec)]]
        /\ UNCHANGED <<busy, cycle, failed>>
    BY <1>1 DEF AllocStamp
  <1>3. Fresh(state[tag]) \in [cc_expected : Int, cc_received : Int, set_cycle : Nat]
        /\ Fresh(state[tag]).set_cycle = cycle
    BY DEF Fresh, AgeType
  <1>4. \A w \in Watchers :
           /\ watch[w] \in [pc : WatchPcs, page : AtcPages \cup {NoTag}, vec : SUBSET Tags,
                            reused : SUBSET Tags, cyc : Int, set : Int]
           /\ watch'[w] \in [pc : WatchPcs, page : AtcPages \cup {NoTag}, vec : SUBSET Tags,
                             reused : SUBSET Tags, cyc : Int, set : Int]
           /\ watch'[w].pc = watch[w].pc /\ watch'[w].vec = watch[w].vec
           /\ watch'[w].cyc = watch[w].cyc /\ watch'[w].set = watch[w].set
           /\ watch'[w].reused = watch[w].reused \cup ({tag} \cap watch[w].vec)
    BY <1>2 DEF AgeType
  <1>5. AgeType'
    <2>1. state' \in [Tags -> [cc_expected : Int, cc_received : Int, set_cycle : Nat]]
      BY <1>2, <1>3 DEF AgeType
    <2>2. since' \in [Tags -> Nat]
      BY <1>2 DEF AgeType
    <2>3. watch' \in [Watchers -> [pc : WatchPcs, page : AtcPages \cup {NoTag},
                                   vec : SUBSET Tags, reused : SUBSET Tags,
                                   cyc : Int, set : Int]]
      BY <1>2, <1>4
    <2>4. QED  BY <1>2, <2>1, <2>2, <2>3 DEF AgeType
  <1>6. Stamped'
    BY <1>2, <1>3 DEF Stamped, AgeType
  <1>7. Loaded'
    <2> SUFFICES ASSUME NEW w \in Watchers
                 PROVE  LoadedOf(w)'
      BY DEF Loaded
    <2>1. LoadedOf(w)
      BY DEF Loaded
    <2>2. \A g \in watch'[w].vec \ watch'[w].reused :
             g \in watch[w].vec \ watch[w].reused /\ g # tag /\ since'[g] = since[g]
      BY <1>2, <1>4 DEF AgeType
    <2>3. watch'[w].set # NotLoaded /\ Min(watch'[w].vec) \notin watch'[w].reused =>
             watch'[w].set = since'[Min(watch'[w].vec)]
      <3> SUFFICES ASSUME watch'[w].set # NotLoaded, Min(watch'[w].vec) \notin watch'[w].reused
                   PROVE  watch'[w].set = since'[Min(watch'[w].vec)]
        OBVIOUS
      <3>1. watch[w].vec # {} /\ watch[w].vec \in SUBSET Nat
        BY <1>4, <2>1, AtsAssumption DEF LoadedOf, Tags
      <3>2. Min(watch[w].vec) \in watch[w].vec
        BY <3>1, MinInSet
      <3>3. watch[w].set = since[Min(watch[w].vec)]
        BY <1>4, <2>1 DEF LoadedOf
      <3>4. QED  BY <1>4, <2>2, <3>2, <3>3
    <2>4. QED  BY <1>2, <1>4, <2>1, <2>2, <2>3 DEF LoadedOf
  <1>8. FalseTimeoutOnlyOnReuse'
    BY <1>2 DEF FalseTimeoutOnlyOnReuse
  <1>9. QED  BY <1>5, <1>6, <1>7, <1>8

\* A completion keeps the stamps.
LEMMA AgeFreeTags ==
    ASSUME AgeInv, TagInv, NEW vec \in SUBSET Tags, FreeTags(vec)
    PROVE  AgeInv'
  <1>1. TagInv' /\ UNCHANGED failed
    BY TagFreeTags
  <1>2. UNCHANGED <<cycle, since, watch>> /\ busy' \subseteq Tags
    BY DEF FreeTags, AgeInv, AgeType
  <1>3. \A g \in Tags : state'[g].set_cycle = state[g].set_cycle
    <2>1. PICK n \in AfuCC :
             \/ UNCHANGED state
             \/ state' = [t \in Tags |-> IF t \in vec THEN Received(state[t], Count(n % MaxCC))
                                        ELSE state[t]]
      BY DEF FreeTags
    <2>2. Count(n % MaxCC) \in Nat
      BY CountKept
    <2>3. \A g \in Tags : state[g] \in [cc_expected : Int, cc_received : Int, set_cycle : Nat]
      BY DEF AgeInv, AgeType
    <2>4. QED  BY <2>1, <2>2, <2>3, ReceivedType
  <1>4. AgeType' /\ Stamped'
    BY <1>1, <1>2, <1>3 DEF AgeInv, AgeType, Stamped, TagInv, TagType
  <1>5. Loaded' /\ FalseTimeoutOnlyOnReuse'
    BY <1>1, <1>2 DEF AgeInv, Loaded, LoadedOf, FalseTimeoutOnlyOnReuse
  <1>6. QED  BY <1>4, <1>5 DEF AgeInv

\* A step of one watcher that keeps the stamps and does not lower the cycle:
\* the others keep what they have loaded.
LEMMA AgeWatch ==
    ASSUME AgeInv, NEW w \in Watchers, LoadedOf(w)',
           watch' = [watch EXCEPT ![w] = watch'[w]],
           watch'[w] \in [pc : WatchPcs, page : AtcPages \cup {NoTag}, vec : SUBSET Tags,
                          reused : SUBSET Tags, cyc : Int, set : Int],
           cycle' \in Nat, cycle <= cycle', UNCHANGED <<busy, state, since, failed>>
    PROVE  AgeInv'
  <1> USE DEF AgeInv
  <1>1. AgeType'
    BY DEF AgeType
  <1>2. Stamped'
    BY DEF Stamped, AgeType
  <1>3. Loaded'
    <2> SUFFICES ASSUME NEW v \in Watchers, v # w
                 PROVE  LoadedOf(v)'
      BY DEF Loaded
    <2>1. watch'[v] = watch[v] /\ LoadedOf(v) /\ watch[v].cyc \in Int
      BY DEF AgeType, Loaded
    <2>2. cycle \in Nat
      BY DEF AgeType
    <2>3. QED  BY <2>1, <2>2 DEF LoadedOf
  <1>4. FalseTimeoutOnlyOnReuse'
    BY DEF FalseTimeoutOnlyOnReuse
  <1>5. QED  BY <1>1, <1>2, <1>3, <1>4

\* membus_rd_watcher on a translation request.
LEMMA AgeTranslate ==
    ASSUME AgeInv, (\E p \in AtcPages : TranslateFlag(p)) \/ TranslateAnswer
    PROVE  AgeInv'
  <1> DEFINE w == RdWatcher
  <1>1. w \in Watchers
    BY AtsAssumption
  <1>2. watch[w] \in [pc : WatchPcs, page : AtcPages \cup {NoTag}, vec : SUBSET Tags,
                      reused : SUBSET Tags, cyc : Int, set : Int]
        /\ LoadedOf(w) /\ cycle \in Nat
    BY <1>1 DEF AgeInv, AgeType, Loaded
  <1>3. PICK pc \in {"answer", "snap"}, page \in AtcPages \cup {NoTag} :
           /\ watch[w].pc # "check"
           /\ watch' = [watch EXCEPT ![w].pc = pc, ![w].page = page]
           /\ UNCHANGED <<cycle, busy, state, since, failed>>
    BY DEF TranslateFlag, TranslateAnswer, tagvars
  <1>4. watch'[w] = [[watch[w] EXCEPT !.pc = pc] EXCEPT !.page = page]
        /\ watch' = [watch EXCEPT ![w] = watch'[w]]
    BY <1>1, <1>3 DEF AgeInv, AgeType
  <1>5. /\ watch'[w] \in [pc : WatchPcs, page : AtcPages \cup {NoTag}, vec : SUBSET Tags,
                          reused : SUBSET Tags, cyc : Int, set : Int]
        /\ watch'[w].pc = pc /\ watch'[w].vec = watch[w].vec
        /\ watch'[w].cyc = watch[w].cyc /\ watch'[w].set = watch[w].set
    <2>1. pc \in WatchPcs /\ page \in AtcPages \cup {NoTag}
      BY <1>3 DEF WatchPcs
    <2>2. watch'[w] = [pc |-> pc, page |-> page, vec |-> watch[w].vec,
                       reused |-> watch[w].reused, cyc |-> watch[w].cyc, set |-> watch[w].set]
      BY <1>2, <1>4
    <2>3. QED  BY <1>2, <2>1, <2>2
  <1>6. LoadedOf(w)'
    BY <1>2, <1>3, <1>5 DEF LoadedOf
  <1>7. cycle' \in Nat /\ cycle <= cycle'
    BY <1>2, <1>3
  <1>8. QED
    BY <1>1, <1>3, <1>4, <1>5, <1>6, <1>7, AgeWatch

\* ase_pcie_ats_itag_cycle up to the comparison.
LEMMA AgeCycle ==
    ASSUME AgeInv, NEW w \in Watchers, CycleSnapshot(w) \/ CycleAdd(w) \/ CycleLoad(w)
    PROVE  AgeInv'
  <1> DEFINE WatchRec == [pc : WatchPcs, page : AtcPages \cup {NoTag}, vec : SUBSET Tags,
                          reused : SUBSET Tags, cyc : Int, set : Int]
  <1>1. /\ watch \in [Watchers -> WatchRec] /\ watch[w] \in WatchRec
        /\ LoadedOf(w) /\ cycle \in Nat /\ busy \in SUBSET Tags
        /\ \A g \in Tags : /\ since[g] \in Nat /\ since[g] <= cycle
                           /\ state[g].set_cycle = since[g]
    BY DEF AgeInv, AgeType, Loaded, Stamped
  <1>2. CASE CycleSnapshot(w)
    <2>1. /\ watch[w].pc # "check"
          /\ watch' = [watch EXCEPT ![w].pc = "add", ![w].vec = busy]
          /\ UNCHANGED <<cycle, busy, state, since, failed>>
      BY <1>2 DEF CycleSnapshot, tagvars
    <2>2. watch'[w] = [[watch[w] EXCEPT !.pc = "add"] EXCEPT !.vec = busy]
          /\ watch' = [watch EXCEPT ![w] = watch'[w]]
      BY <1>1, <2>1
    <2>3. watch'[w] \in WatchRec
      BY <1>1, <2>2 DEF WatchPcs
    <2>4. LoadedOf(w)'
      BY <1>1, <2>1, <2>2 DEF LoadedOf
    <2>5. cycle' \in Nat /\ cycle <= cycle'
      BY <1>1, <2>1
    <2>6. QED  BY <2>1, <2>2, <2>3, <2>4, <2>5, AgeWatch
  <1>3. CASE CycleAdd(w)
    <2>1. /\ watch[w].pc = "add" /\ cycle' = cycle + 1
          /\ watch' = [watch EXCEPT ![w] = IF watch[w].vec = {} THEN IdleWatch
                                           ELSE [watch[w] EXCEPT !.pc = "check"]]
          /\ UNCHANGED <<busy, state, since, failed>>
      BY <1>3 DEF CycleAdd, tagvars
    <2>2. /\ watch'[w] = IF watch[w].vec = {} THEN IdleWatch
                           ELSE [watch[w] EXCEPT !.pc = "check"]
          /\ watch' = [watch EXCEPT ![w] = watch'[w]]
      BY <1>1, <2>1
    <2>3. watch'[w] \in WatchRec
      BY <1>1, <2>2 DEF WatchPcs, IdleWatch, NoTag, NotLoaded
    <2>4. LoadedOf(w)'
      BY <1>1, <2>1, <2>2 DEF LoadedOf, IdleWatch
    <2>5. cycle' \in Nat /\ cycle <= cycle'
      BY <1>1, <2>1
    <2>6. QED  BY <2>1, <2>2, <2>3, <2>4, <2>5, AgeWatch
  <1>4. CASE CycleLoad(w)
    <2>1. /\ watch[w].pc = "check" /\ watch[w].set = NotLoaded /\ watch[w].cyc = NotLoaded
          /\ UNCHANGED <<cycle, busy, state, since, failed>>
      BY <1>4 DEF CycleLoad, tagvars
    <2>2. Min(watch[w].vec) \in watch[w].vec /\ Min(watch[w].vec) \in Tags
      <3>1. watch[w].vec # {} /\ watch[w].vec \in SUBSET Tags
        BY <1>1, <2>1 DEF LoadedOf
      <3>2. watch[w].vec \in SUBSET Nat
        BY <3>1, AtsAssumption DEF Tags
      <3>3. QED  BY <3>1, <3>2, MinInSet
    <2>3. CASE watch' = [watch EXCEPT ![w].cyc = cycle]
      <3>1. watch'[w] = [watch[w] EXCEPT !.cyc = cycle]
            /\ watch' = [watch EXCEPT ![w] = watch'[w]]
        BY <1>1, <2>3
      <3>2. watch'[w] \in WatchRec
        BY <1>1, <3>1
      <3>3. LoadedOf(w)'
        BY <1>1, <2>1, <3>1 DEF LoadedOf
      <3>4. QED  BY <1>1, <2>1, <3>1, <3>2, <3>3, AgeWatch
    <2>4. CASE watch' = [watch EXCEPT ![w].set = state[Min(watch[w].vec)].set_cycle]
      <3>1. watch'[w] = [watch[w] EXCEPT !.set = since[Min(watch[w].vec)]]
            /\ watch' = [watch EXCEPT ![w] = watch'[w]]
        BY <1>1, <2>2, <2>4
      <3>2. watch'[w] \in WatchRec
        BY <1>1, <2>2, <3>1
      <3>3. LoadedOf(w)'
        BY <1>1, <2>1, <2>2, <3>1 DEF LoadedOf
      <3>4. QED  BY <1>1, <2>1, <3>1, <3>2, <3>3, AgeWatch
    <2>5. QED  BY <1>4, <2>3, <2>4 DEF CycleLoad
  <1>5. QED  BY <1>2, <1>3, <1>4

\* The comparison: a tag of the snapshot that was not taken again is found too
\* old only if it is.
LEMMA AgeCompare ==
    ASSUME AgeInv, NEW w \in Watchers, CycleCompare(w)
    PROVE  AgeInv'
  <1> DEFINE WatchRec == [pc : WatchPcs, page : AtcPages \cup {NoTag}, vec : SUBSET Tags,
                          reused : SUBSET Tags, cyc : Int, set : Int]
  <1>1. /\ watch \in [Watchers -> WatchRec] /\ watch[w] \in WatchRec
        /\ LoadedOf(w) /\ cycle \in Nat
        /\ \A g \in Tags : /\ since[g] \in Nat /\ since[g] <= cycle
                           /\ state[g].set_cycle = since[g]
    BY DEF AgeInv, AgeType, Loaded, Stamped
  <1>2. /\ watch[w].pc = "check"
        /\ UNCHANGED <<cycle, busy, state, since>>
    BY DEF CycleCompare, tagvars
  <1>3. PICK tag \in Tags : tag = Min(watch[w].vec) /\ tag \in watch[w].vec
    <2>1. watch[w].vec # {} /\ watch[w].vec \in SUBSET Tags
      BY <1>1, <1>2 DEF LoadedOf
    <2>2. watch[w].vec \in SUBSET Nat
      BY <2>1, AtsAssumption DEF Tags
    <2>3. QED  BY <2>1, <2>2, MinInSet
  <1>4. PICK now, set :
           /\ now = IF watch[w].cyc = NotLoaded THEN cycle ELSE watch[w].cyc
           /\ set = IF watch[w].set = NotLoaded THEN state[tag].set_cycle ELSE watch[w].set
    OBVIOUS
  <1>5. tag \notin watch[w].reused => set = since[tag] /\ now \in Nat /\ set <= now /\ now <= cycle
    <2> SUFFICES ASSUME tag \notin watch[w].reused
                 PROVE  set = since[tag] /\ now \in Nat /\ set <= now /\ now <= cycle
      OBVIOUS
    <2>1. set = since[tag]
      BY <1>1, <1>3, <1>4 DEF LoadedOf
    <2>2. CASE watch[w].cyc = NotLoaded
      BY <1>1, <1>4, <2>1, <2>2
    <2>3. CASE watch[w].cyc # NotLoaded
      <3>1. since[tag] <= watch[w].cyc /\ watch[w].cyc <= cycle /\ watch[w].cyc \in Int
        BY <1>1, <1>3, <2>3 DEF LoadedOf
      <3>2. QED  BY <1>1, <1>4, <2>1, <2>3, <3>1
    <2>4. QED  BY <2>2, <2>3
  <1>6. CASE TooOld(Age(now, set))
    <2>1. /\ failed' = [why |-> "abort", late |-> cycle - since[tag] > Limit,
                        reused |-> tag \in watch[w].reused]
          /\ UNCHANGED watch
      BY <1>3, <1>4, <1>6 DEF CycleCompare
    <2>2. tag \notin watch[w].reused => cycle - since[tag] > Limit
      <3> SUFFICES ASSUME tag \notin watch[w].reused
                   PROVE  cycle - since[tag] > Limit
        OBVIOUS
      <3>1. Age(now, set) \in Nat /\ Age(now, set) <= now - set
        BY <1>1, <1>5, AgeBound
      <3>2. Age(now, set) > Limit
        BY <1>6 DEF TooOld
      <3>3. QED  BY <1>1, <1>5, <3>1, <3>2, AtsAssumption
    <2>3. FalseTimeoutOnlyOnReuse'
      BY <2>1, <2>2 DEF FalseTimeoutOnlyOnReuse
    <2>4. failed' \in [why : {"no", "exit", "abort"}, late : BOOLEAN, reused : BOOLEAN]
      BY <2>1
    <2>5. QED
      BY <1>2, <2>1, <2>3, <2>4 DEF AgeInv, AgeType, Stamped, Loaded, LoadedOf
  <1>7. CASE ~TooOld(Age(now, set))
    <2>1. PICK cyc \in {watch[w].cyc, NotLoaded} :
             watch' = [watch EXCEPT ![w] =
                 IF watch[w].vec = {tag} THEN IdleWatch
                 ELSE [watch[w] EXCEPT !.vec = watch[w].vec \ {tag},
                                       !.reused = watch[w].reused \ {tag},
                                       !.cyc = cyc, !.set = NotLoaded]]
      BY <1>3, <1>4, <1>7 DEF CycleCompare
    <2>2. UNCHANGED failed
      BY <1>3, <1>4, <1>7 DEF CycleCompare
    <2>3. watch' = [watch EXCEPT ![w] = watch'[w]]
      BY <1>1, <2>1
    <2>4. cycle' \in Nat /\ cycle <= cycle'
      BY <1>1, <1>2
    <2>5. CASE watch[w].vec = {tag}
      <3>1. watch'[w] = IdleWatch
        BY <1>1, <2>1, <2>5
      <3>2. watch'[w] \in WatchRec
        BY <3>1 DEF IdleWatch, WatchPcs, NoTag, NotLoaded
      <3>3. LoadedOf(w)'
        BY <3>1 DEF LoadedOf, IdleWatch
      <3>4. QED  BY <1>2, <2>2, <2>3, <2>4, <3>2, <3>3, AgeWatch
    <2>6. CASE watch[w].vec # {tag}
      <3>1. watch'[w] = [pc |-> watch[w].pc, page |-> watch[w].page,
                         vec |-> watch[w].vec \ {tag}, reused |-> watch[w].reused \ {tag},
                         cyc |-> cyc, set |-> NotLoaded]
        BY <1>1, <2>1, <2>6
      <3>2. watch'[w] \in WatchRec
        BY <1>1, <3>1 DEF NotLoaded
      <3>3. /\ watch'[w].pc = "check" /\ watch'[w].vec = watch[w].vec \ {tag}
            /\ watch'[w].reused = watch[w].reused \ {tag}
            /\ watch'[w].cyc = cyc /\ watch'[w].set = NotLoaded
        BY <1>2, <3>1
      <3>4. watch'[w].vec # {}
        BY <1>3, <2>6, <3>3
      <3>5. watch'[w].vec \ watch'[w].reused \subseteq watch[w].vec \ watch[w].reused
        BY <3>3
      <3>6. LoadedOf(w)'
        BY <1>1, <1>2, <3>3, <3>4, <3>5 DEF LoadedOf
      <3>7. QED  BY <1>2, <2>2, <2>3, <2>4, <3>2, <3>6, AgeWatch
    <2>7. QED  BY <2>5, <2>6
  <1>8. QED  BY <1>6, <1>7

-----------------------------------------------------------------------------
(* The theorems. *)

AtsInv == TagInv /\ AgeInv /\ CompletionsAccepted

\* Every step keeps tags, ages and the acceptance of completions.
LEMMA AtsStep ==
    ASSUME AtsInv, [Next]_vars
    PROVE  AtsInv'
  <1> USE DEF AtsInv
  <1>1. ASSUME NEW t \in Threads, NEW r, HookStart(t, r)
        PROVE  AtsInv'
    <2>1. TagInv'
      BY <1>1, TagHookStart
    <2>2. UNCHANGED <<cycle, since, state, watch, failed>> /\ busy' \subseteq Tags
      BY <1>1, <2>1 DEF HookStart, tagvars, TagInv, TagType
    <2>3. QED  BY <2>1, <2>2, AgeSame DEF CompletionsAccepted
  <1>2. ASSUME NEW t \in Threads, HookStep(t)
        PROVE  AtsInv'
    <2>1. CASE AllocStamp(t)
      <3>1. cycle \in Nat /\ UNCHANGED failed
        BY <2>1 DEF AllocStamp, AgeInv, AgeType
      <3>2. QED  BY <2>1, <3>1, TagAllocStamp, AgeAllocStamp DEF CompletionsAccepted
    <2>2. CASE AllocPublish(t) \/ SendHdr(t) \/ SendPayload(t)
      <3>1. TagInv'
        BY <2>2, TagAllocPublish, TagSendHdr, TagSendPayload
      <3>2. UNCHANGED <<cycle, since, state, watch, failed>>
        BY <2>2 DEF AllocPublish, SendHdr, SendPayload, tagvars
      <3>3. busy' \subseteq Tags
        BY <3>1 DEF TagInv, TagType
      <3>4. QED  BY <3>1, <3>2, <3>3, AgeSame DEF CompletionsAccepted
    <2>3. QED  BY <1>2, <2>1, <2>2 DEF HookStep
  <1>3. ASSUME NEW w \in Watchers, WatchStep(w)
        PROVE  AtsInv'
    <2>1. AgeInv'
      BY <1>3, AgeCycle, AgeCompare DEF WatchStep
    <2>2. UNCHANGED tagside
      BY <1>3 DEF WatchStep, CycleSnapshot, CycleAdd, CycleLoad, CycleCompare, tagvars, locks,
                  afuvars, tagside
    <2>3. failed' = failed \/ failed'.why = "abort"
      BY <1>3 DEF WatchStep, CycleSnapshot, CycleAdd, CycleLoad, CycleCompare
    <2>4. QED  BY <2>1, <2>2, <2>3, TagSame DEF CompletionsAccepted
  <1>4. ASSUME (\E p \in AtcPages : TranslateFlag(p)) \/ TranslateAnswer
        PROVE  AtsInv'
    <2>1. UNCHANGED tagside /\ UNCHANGED failed
      BY <1>4 DEF TranslateFlag, TranslateAnswer, tagvars, locks, tagside
    <2>2. QED  BY <1>4, <2>1, TagSame, AgeTranslate DEF CompletionsAccepted
  <1>5. ASSUME NEW vec \in SUBSET Tags, FreeTags(vec)
        PROVE  AtsInv'
    BY <1>5, TagFreeTags, AgeFreeTags DEF CompletionsAccepted
  <1>6. ASSUME NEW cc \in AfuCC, H2aMsg(cc)
        PROVE  AtsInv'
    <2>1. TagInv'
      BY <1>6, TagH2aMsg
    <2>2. UNCHANGED <<cycle, since, state, watch, failed>> /\ busy' \subseteq Tags
      BY <1>6, <2>1 DEF H2aMsg, tagvars, TagInv, TagType
    <2>3. QED  BY <2>1, <2>2, AgeSame DEF CompletionsAccepted
  <1>7. CASE UNCHANGED vars
    <2>1. UNCHANGED tagside /\ UNCHANGED <<cycle, since, state, watch, failed>>
      BY <1>7 DEF vars, tagvars, locks, afuvars, tagside
    <2>2. TagInv'
      BY <2>1, TagSame
    <2>3. busy' \subseteq Tags
      BY <2>2 DEF TagInv, TagType
    <2>4. QED  BY <2>1, <2>2, <2>3, AgeSame DEF CompletionsAccepted
  <1>8. QED
    BY <1>1, <1>2, <1>3, <1>4, <1>5, <1>6, <1>7 DEF Next, Finished

\* Tags and ages in every reachable state.
LEMMA AtsInvariance == Spec => []AtsInv
  <1>1. Init => AtsInv
    BY TagInit, AgeInit DEF AtsInv, Init, CompletionsAccepted, NotFailed
  <1>2. AtsInv /\ [Next]_vars => AtsInv'
    BY AtsStep
  <1>3. QED  BY <1>1, <1>2, PTL DEF Spec

\* However completions are combined and tags reused, an AFU that completes each
\* invalidation as announced never meets an error of ase_pcie_ats_itag_free.
THEOREM CompletionsAlwaysAccepted == Spec => []CompletionsAccepted
  <1>1. AtsInv => CompletionsAccepted
    BY DEF AtsInv
  <1>2. QED  BY <1>1, AtsInvariance, PTL

\* For any number of unmapping threads, pcie_msg_tx_lock keeps each payload
\* behind its own header, so that pcie_tlp_h2a_msg reads what it expects.
THEOREM MessagesFramed == Spec => []MsgFramed
  <1>1. AtsInv => MsgFramed
    <2> SUFFICES ASSUME AtsInv
                 PROVE  MsgFramed
      OBVIOUS
    <2>1. app2sim \in Seq(Hdrs \cup Payloads) /\ Len(app2sim) \in Nat
      BY DEF AtsInv, TagInv, TagType
    <2>2. IsHdr(1) /\ ~IsHdr(2)
      BY DEF IsHdr
    <2>3. app2sim # <<>> => 1 \in 1 .. Len(app2sim)
      BY <2>1
    <2>4. Len(app2sim) > 1 => 2 \in 1 .. Len(app2sim)
      BY <2>1
    <2>5. Len(app2sim) > 1 => app2sim[2].tag = app2sim[2 - 1].tag
      BY <2>2, <2>4 DEF AtsInv, TagInv, Paired
    <2>6. QED
      BY <2>2, <2>3, <2>4, <2>5 DEF AtsInv, TagInv, Paired, MsgFramed
  <1>2. QED  BY <1>1, AtsInvariance, PTL

\* Although itag_cycle reads the busy vector, the cycle and the stamps without
\* a lock and in any order, it aborts the application only for a tag that is
\* late, or for one released and taken again after the vector was read.  The
\* bound holds for every Limit and every Wrap, 2^64 in the code.
THEOREM FalseTimeoutsExplained == Spec => []FalseTimeoutOnlyOnReuse
  <1>1. AtsInv => FalseTimeoutOnlyOnReuse
    BY DEF AtsInv, AgeInv
  <1>2. QED  BY <1>1, AtsInvariance, PTL

-----------------------------------------------------------------------------
(* Translations that were given out before a hook. *)

\* A whole number of chunks, and each begins at a multiple of its size.
LEMMA Multiple ==
    ASSUME NEW a \in Nat, NEW b \in Nat, b > 0
    PROVE  /\ a \div b \in Nat
           /\ (a \div b) * b \in Nat /\ (a \div b) * b <= a /\ a < (a \div b) * b + b
           /\ (a * b) \div b = a
  <1>1. a \div b \in Nat
    BY SMT
  <1>2. (a \div b) * b <= a
    BY SMTT(30)
  <1>3. a < (a \div b) * b + b
    BY SMTT(30)
  <1>4. (a * b) \div b = a
    BY SMTT(30)
  <1>5. (a \div b) * b \in Nat
    BY <1>1
  <1>6. QED  BY <1>1, <1>2, <1>3, <1>4, <1>5

\* The chunks that ase_mem_unmap_hook cuts a range into are chunks, there is at
\* least one, and as the AFU decodes them they cover the range.
LEMMA ChunksCover ==
    ASSUME NEW first \in Nat, NEW pages \in Nat, pages > 0,
           Pow2Ceil(pages) \in Nat, Pow2Ceil(pages) >= pages, first >= Pow2Ceil(pages)
    PROVE  /\ Chunks(first, pages) \in Seq(ChunkRecs) /\ Chunks(first, pages) # <<>>
           /\ \A p \in Pages(first, pages) :
                 \E k \in 1 .. Len(Chunks(first, pages)) : p \in Decoded(Chunks(first, pages)[k])
  <1>1. PICK size \in Nat : size = Pow2Ceil(pages) /\ size > 0 /\ size >= pages /\ first >= size
    OBVIOUS
  <1>2. PICK q \in Nat : q = first \div size /\ q * size <= first /\ first < q * size + size
    BY <1>1, Multiple
  <1>3. PICK e \in Nat : /\ e = (first + pages + size - 1) \div size
                         /\ first + pages + size - 1 < e * size + size
    <2>1. first + pages + size - 1 \in Nat
      BY <1>1
    <2>2. QED  BY <1>1, <2>1, Multiple
  <1>4. q >= 1
    <2>1. SUFFICES ASSUME q = 0
                   PROVE  FALSE
      BY <1>2
    <2>2. q * size = 0
      BY <1>1, <2>1
    <2>3. QED  BY <1>1, <1>2, <2>2
  <1>5. e > q
    <2>1. SUFFICES ASSUME e <= q
                   PROVE  FALSE
      BY <1>2, <1>3
    <2>2. e * size <= q * size
      BY <1>1, <1>2, <1>3, <2>1
    <2>3. e * size \in Nat /\ q * size \in Nat
      BY <1>1, <1>2, <1>3
    <2>4. QED  BY <1>1, <1>2, <1>3, <2>2, <2>3
  <1>6. PICK n \in Nat : n = e - q /\ n > 0
    <2>1. e \in Nat /\ q \in Nat
      OBVIOUS
    <2>2. e - q \in Nat /\ e - q > 0
      BY <1>5, <2>1
    <2>3. QED  BY <2>2
  <1>7. Chunks(first, pages) = [i \in 1 .. n |-> [first |-> q * size + (i - 1) * size,
                                                  pages |-> size]]
    <2>1. ChunksEnd(first, pages, size) = e * size
      BY <1>3 DEF ChunksEnd
    <2>2. e * size - q * size = n * size
      BY <1>1, <1>2, <1>3, <1>6
    <2>3. (e * size - q * size) \div size = n
      BY <1>1, <1>6, <2>2, Multiple
    <2>4. QED  BY <1>1, <1>2, <2>1, <2>3 DEF Chunks
  <1>8. \A i \in 1 .. n : /\ q + (i - 1) \in Nat /\ q + (i - 1) >= 1
                          /\ q * size + (i - 1) * size = (q + (i - 1)) * size
    BY <1>1, <1>2, <1>4, <1>6
  <1>9. \A i \in 1 .. n :
           /\ Chunks(first, pages)[i] = [first |-> (q + (i - 1)) * size, pages |-> size]
           /\ (q + (i - 1)) * size \in Nat
    <2> TAKE i \in 1 .. n
    <2>1. Chunks(first, pages)[i] = [first |-> q * size + (i - 1) * size, pages |-> size]
      BY <1>7
    <2>2. \A x \in Nat : x * size \in Nat
      BY <1>1
    <2>3. QED  BY <1>8, <2>1, <2>2
  <1>10. Chunks(first, pages) \in Seq(ChunkRecs) /\ Len(Chunks(first, pages)) = n
         /\ Chunks(first, pages) # <<>>
    <2>1. ASSUME NEW i \in 1 .. n
          PROVE  Chunks(first, pages)[i] \in ChunkRecs
      <3>1. PICK x \in Nat : x = (q + (i - 1)) * size
        BY <1>9
      <3>2. Chunks(first, pages)[i] = [first |-> x, pages |-> size]
        BY <1>9, <3>1
      <3>3. QED  BY <3>2 DEF ChunkRecs
    <2>2. Chunks(first, pages) \in [1 .. n -> ChunkRecs]
      BY <1>7, <2>1
    <2>3. Chunks(first, pages) \in Seq(ChunkRecs) /\ Len(Chunks(first, pages)) = n
      BY <1>6, <2>2, IsASeq, LenProperties
    <2>4. QED  BY <1>6, <2>3
  <1>11. ASSUME NEW p \in Pages(first, pages)
         PROVE  \E k \in 1 .. n : p \in Decoded(Chunks(first, pages)[k])
    <2>1. p \in Nat /\ first <= p /\ p < first + pages
      BY <1>11 DEF Pages
    <2>2. PICK m \in Nat : m = p \div size /\ m * size <= p /\ p < m * size + size
      BY <1>1, <2>1, Multiple
    <2>3. m >= q
      <3>1. SUFFICES ASSUME m + 1 <= q
                     PROVE  FALSE
        BY <1>2, <2>2
      <3>2. (m + 1) * size <= q * size
        BY <1>1, <1>2, <2>2, <3>1
      <3>3. (m + 1) * size = m * size + size
        BY <1>1, <2>2
      <3>4. m * size \in Nat /\ q * size \in Nat
        BY <1>1, <1>2, <2>2
      <3>5. QED  BY <1>1, <1>2, <2>1, <2>2, <3>2, <3>3, <3>4
    <2>4. m < e
      <3>1. SUFFICES ASSUME e <= m
                     PROVE  FALSE
        BY <1>3, <2>2
      <3>2. e * size <= m * size
        BY <1>1, <1>3, <2>2, <3>1
      <3>3. m * size \in Nat /\ e * size \in Nat
        BY <1>1, <1>3, <2>2
      <3>4. QED  BY <1>1, <1>3, <2>1, <2>2, <3>2, <3>3
    <2>5. PICK k \in 1 .. n : k = m - q + 1
      BY <1>2, <1>3, <1>6, <2>2, <2>3, <2>4
    <2>6. q + (k - 1) = m /\ m >= 1
      BY <1>2, <1>4, <2>2, <2>3, <2>5
    <2>7. Chunks(first, pages)[k] = [first |-> m * size, pages |-> size]
      BY <1>9, <2>6
    <2>8. m * size # 0 /\ (m * size) \div size = m
      <3>1. (m * size) \div size = m
        BY <1>1, <2>2, Multiple
      <3>2. m * size >= size
        BY <1>1, <2>2, <2>6
      <3>3. QED  BY <1>1, <3>1, <3>2
    <2>9. Decoded(Chunks(first, pages)[k]) = Pages(m * size, size)
      BY <2>7, <2>8 DEF Decoded
    <2>10. p \in Pages(m * size, size)
      <3>1. m * size \in Nat
        BY <1>1, <2>2
      <3>2. QED  BY <1>1, <2>1, <2>2, <3>1 DEF Pages
    <2>11. QED  BY <2>9, <2>10
  <1>12. QED  BY <1>10, <1>11

\* No translation has been given out at the start.
LEMMA StaleInit == Init => StaleInv
  <1> SUFFICES ASSUME Init
               PROVE  StaleInv
    OBVIOUS
  <1>1. StaleType
    BY DEF Init, StaleType
  <1>2. ChunksLeft
    <2>1. <<>> \in Seq(ChunkRecs)
      OBVIOUS
    <2>2. \A t \in Threads : hook[t].pc = "idle" /\ hook[t].chunks = <<>>
      BY DEF Init, IdleHook
    <2>3. QED  BY <2>1, <2>2 DEF ChunksLeft
  <1>3. FlagFirst
    BY AtsAssumption DEF Init, FlagFirst, IdleWatch
  <1>4. OldCarried
    BY DEF Init, OldCarried
  <1>5. QED  BY <1>1, <1>2, <1>3, <1>4 DEF StaleInv

\* A step of a watcher, or a completion.
LEMMA StaleSame ==
    ASSUME StaleInv, UNCHANGED <<xlat, owner, old, atc_active, hook, app2sim, dead>>,
           watch'[RdWatcher].pc # "answer" \/ watch'[RdWatcher] = watch[RdWatcher]
    PROVE  StaleInv'
  <1>1. \A t \in Threads : old'[t] = old[t]
        /\ \A p \in AtcPages : Carried(t, p)' <=> Carried(t, p)
    BY DEF Carried
  <1>2. OldCarried'
    BY <1>1 DEF StaleInv, OldCarried
  <1>3. QED  BY <1>2 DEF StaleInv, StaleType, ChunksLeft, FlagFirst

\* A new hook has the range in its chunks, or nothing was given out.
LEMMA StaleHookStart ==
    ASSUME RangesHigh, TagInv, StaleInv, NEW t \in Threads, NEW r \in RangesOf[t],
           HookStart(t, r)
    PROVE  StaleInv'
  <1> USE DEF StaleInv
  <1>1. PICK pages \in Nat : pages = PagesOf(r[2])
    <2>1. r[2] \in Nat /\ PageBytes \in Nat \ {0}
      BY AtsAssumption DEF RangesHigh
    <2>2. r[2] + PageBytes - 1 \in Nat
      BY <2>1
    <2>3. (r[2] + PageBytes - 1) \div PageBytes \in Nat
      BY <2>1, <2>2, Multiple
    <2>4. QED  BY <2>3 DEF PagesOf
  <1>2. r[1] \in Nat
        /\ (pages > 0 => /\ Pow2Ceil(pages) \in Nat /\ Pow2Ceil(pages) >= pages
                         /\ r[1] >= Pow2Ceil(pages))
    BY <1>1 DEF RangesHigh
  <1>3. /\ old' = [old EXCEPT ![t] = {p \in Pages(r[1], pages) :
                                        p \in AtcPages /\ xlat[p] = "answered"}]
        /\ hook' = [hook EXCEPT ![t] =
               IF atc_active /\ pages > 0
               THEN [IdleHook EXCEPT !.pc = "alloc", !.chunks = Chunks(r[1], pages)]
               ELSE [IdleHook EXCEPT !.pc = "done"]]
        /\ UNCHANGED <<xlat, owner, atc_active, watch, app2sim, dead>>
    BY <1>1 DEF HookStart, tagvars, afuvars
  <1>4. /\ old'[t] = {p \in Pages(r[1], pages) : p \in AtcPages /\ xlat[p] = "answered"}
        /\ \A u \in Threads : u # t => old'[u] = old[u] /\ hook'[u] = hook[u]
    BY <1>3 DEF StaleType, TagInv, TagType
  <1>5. hook'[t] = IF atc_active /\ pages > 0
                   THEN [pc |-> "alloc", chunks |-> Chunks(r[1], pages), tag |-> NoTag]
                   ELSE [pc |-> "done", chunks |-> <<>>, tag |-> NoTag]
    <2>1. hook'[t] = IF atc_active /\ pages > 0
                     THEN [IdleHook EXCEPT !.pc = "alloc", !.chunks = Chunks(r[1], pages)]
                     ELSE [IdleHook EXCEPT !.pc = "done"]
      BY <1>3 DEF TagInv, TagType
    <2>2. \A c : [IdleHook EXCEPT !.pc = "alloc", !.chunks = c]
                   = [pc |-> "alloc", chunks |-> c, tag |-> NoTag]
      <3> TAKE c
      <3>1. PICK h : h = [IdleHook EXCEPT !.pc = "alloc"]
        OBVIOUS
      <3>2. h = [pc |-> "alloc", chunks |-> <<>>, tag |-> NoTag]
        BY <3>1 DEF IdleHook
      <3>3. [h EXCEPT !.chunks = c] = [pc |-> "alloc", chunks |-> c, tag |-> NoTag]
        BY <3>2
      <3>4. [IdleHook EXCEPT !.pc = "alloc", !.chunks = c] = [h EXCEPT !.chunks = c]
        BY <3>1
      <3>5. QED  BY <3>3, <3>4
    <2>3. [IdleHook EXCEPT !.pc = "done"] = [pc |-> "done", chunks |-> <<>>, tag |-> NoTag]
      BY DEF IdleHook
    <2>4. QED  BY <2>1, <2>2, <2>3
  <1>6. StaleType' /\ FlagFirst'
    BY <1>3 DEF StaleType, FlagFirst
  <1>7. \A u \in Threads : u # t => \A p \in AtcPages : Carried(u, p)' <=> Carried(u, p)
    BY <1>3, <1>4 DEF Carried
  <1>8. CASE atc_active /\ pages > 0
    <2>1. /\ hook'[t].pc = "alloc" /\ hook'[t].chunks = Chunks(r[1], pages)
          /\ Chunks(r[1], pages) \in Seq(ChunkRecs) /\ Chunks(r[1], pages) # <<>>
      BY <1>2, <1>5, <1>8, ChunksCover
    <2>2. ChunksLeft'
      BY <1>3, <1>4, <2>1 DEF ChunksLeft
    <2>3. \A p \in old'[t] : \E k \in 1 .. Len(hook'[t].chunks) : p \in Decoded(hook'[t].chunks[k])
      BY <1>2, <1>4, <1>8, <2>1, ChunksCover
    <2>4. \A p \in old'[t] : Carried(t, p)'
      BY <2>3 DEF Carried
    <2>5. OldCarried'
      BY <1>3, <1>4, <1>7, <2>4 DEF OldCarried
    <2>6. QED  BY <1>6, <2>2, <2>5
  <1>9. CASE ~(atc_active /\ pages > 0)
    <2>1. hook'[t].pc = "done" /\ hook'[t].chunks = <<>>
      BY <1>5, <1>9
    <2>2. ChunksLeft'
      <3>1. <<>> \in Seq(ChunkRecs)
        OBVIOUS
      <3>2. QED  BY <1>3, <1>4, <2>1, <3>1 DEF ChunksLeft
    <2>3. old'[t] = {}
      <3>1. CASE ~atc_active
        BY <1>4, <3>1 DEF FlagFirst
      <3>2. CASE pages = 0
        BY <1>2, <1>4, <3>2 DEF Pages
      <3>3. QED  BY <1>1, <1>9, <3>1, <3>2
    <2>4. OldCarried'
      BY <1>3, <1>4, <1>7, <2>3 DEF OldCarried
    <2>5. QED  BY <1>6, <2>2, <2>4
  <1>10. QED  BY <1>8, <1>9

\* itag_alloc gives a tag that is not in the pipe to the thread.
LEMMA StaleAlloc ==
    ASSUME TagInv, AgeInv, StaleInv, NEW t \in Threads, AllocStamp(t) \/ AllocPublish(t)
    PROVE  StaleInv'
  <1> USE DEF StaleInv
  <1>1. /\ UNCHANGED <<xlat, old, atc_active, app2sim, dead>>
        /\ watch'[RdWatcher].pc = watch[RdWatcher].pc
    <2>1. UNCHANGED <<xlat, old, atc_active, app2sim, dead>>
      BY DEF AllocStamp, AllocPublish, afuvars
    <2>2. watch'[RdWatcher].pc = watch[RdWatcher].pc
      BY AtsAssumption DEF AllocStamp, AllocPublish, AgeInv, AgeType
    <2>3. QED  BY <2>1, <2>2
  <1>2. /\ \A u \in Threads : hook'[u].chunks = hook[u].chunks
        /\ \A u \in Threads : u # t => hook'[u] = hook[u]
        /\ hook'[t].pc \in {"publish", "hdr"} /\ hook[t].pc \in {"alloc", "publish"}
    <2>1. /\ t \in DOMAIN hook /\ DOMAIN hook = Threads
          /\ hook[t] = [pc |-> hook[t].pc, chunks |-> hook[t].chunks, tag |-> hook[t].tag]
      BY DEF TagInv, TagType
    <2>2. CASE AllocStamp(t)
      <3>1. PICK tag : hook' = [hook EXCEPT ![t].pc = "publish", ![t].tag = tag]
        BY <2>2 DEF AllocStamp
      <3>2. hook'[t] = [[hook[t] EXCEPT !.pc = "publish"] EXCEPT !.tag = tag]
            /\ \A u \in Threads : u # t => hook'[u] = hook[u]
        BY <2>1, <3>1
      <3>3. hook'[t] = [pc |-> "publish", chunks |-> hook[t].chunks, tag |-> tag]
        BY <2>1, <3>2
      <3>4. \A u \in Threads : hook'[u].chunks = hook[u].chunks
        BY <3>2, <3>3
      <3>5. QED  BY <2>2, <3>2, <3>3, <3>4 DEF AllocStamp
    <2>3. CASE AllocPublish(t)
      BY <2>1, <2>3 DEF AllocPublish
    <2>4. QED  BY <2>2, <2>3
  <1>3. CASE AllocStamp(t)
    <2>1. UNCHANGED owner /\ hook'[t].pc = "publish" /\ hook[t].pc = "alloc"
      BY <1>3 DEF AllocStamp, TagInv, TagType
    <2>2. ChunksLeft'
      BY <1>2, <2>1 DEF ChunksLeft
    <2>3. \A u \in Threads : \A p \in AtcPages : Carried(u, p)' <=> Carried(u, p)
      BY <1>1, <1>2, <2>1 DEF Carried
    <2>4. OldCarried'
      BY <1>1, <2>3 DEF OldCarried
    <2>5. QED  BY <1>1, <2>1, <2>2, <2>4 DEF StaleType, FlagFirst
  <1>4. CASE AllocPublish(t)
    <2>1. PICK tag \in Tags : tag = hook[t].tag /\ tag \notin busy /\ hook[t].pc = "publish"
      BY <1>4 DEF AllocPublish, TagInv, HeldTags, HasTag
    <2>2. /\ owner' = [owner EXCEPT ![tag] = t]
          /\ hook'[t].pc = "hdr" /\ hook'[t].tag = tag
      BY <1>4, <2>1 DEF AllocPublish, TagInv, TagType
    <2>3. \A u \in Threads : u # t /\ hook[u].pc \in {"hdr", "payload"} =>
             hook[u].tag # tag /\ hook[u].tag \in Tags
      BY <2>1 DEF TagInv, HeldTags, HasTag
    <2>4. owner'[tag] = t /\ \A g \in Tags : g # tag => owner'[g] = owner[g]
      BY <2>1, <2>2 DEF StaleType
    <2>5. ChunksLeft'
      BY <1>2, <2>1, <2>2, <2>3, <2>4 DEF ChunksLeft
    <2>6. \A i \in 1 .. Len(app2sim) : owner'[app2sim[i].tag] = owner[app2sim[i].tag]
      BY <2>1, <2>4 DEF TagInv, PipeTags, TagType
    <2>7. \A u \in Threads : \A p \in AtcPages : Carried(u, p)' <=> Carried(u, p)
      BY <1>1, <1>2, <2>6 DEF Carried
    <2>8. OldCarried'
      BY <1>1, <2>7 DEF OldCarried
    <2>9. owner' \in [Tags -> Threads \cup {Free}]
      BY <2>2 DEF StaleType
    <2>10. QED  BY <1>1, <2>5, <2>8, <2>9 DEF StaleType, FlagFirst
  <1>5. QED  BY <1>3, <1>4

\* The header carries nothing; the payload takes the place of the first chunk.
LEMMA StaleSend ==
    ASSUME TagInv, StaleInv, NEW t \in Threads, SendHdr(t) \/ SendPayload(t)
    PROVE  StaleInv'
  <1> USE DEF StaleInv
  <1>1. UNCHANGED <<xlat, owner, old, atc_active, dead, watch>>
    BY DEF SendHdr, SendPayload, tagvars, afuvars
  <1>2. StaleType' /\ FlagFirst'
    BY <1>1 DEF StaleType, FlagFirst
  <1>3. PICK msg : app2sim' = Append(app2sim, msg) /\ msg.tag = hook[t].tag
                   /\ (SendPayload(t) => /\ msg.kind = "payload"
                                         /\ msg.pages = Decoded(Head(hook[t].chunks)))
    <2>1. CASE SendHdr(t)
      <3>1. ~SendPayload(t)
        BY <2>1 DEF SendHdr, SendPayload
      <3>2. QED  BY <2>1, <3>1 DEF SendHdr
    <2>2. CASE SendPayload(t)
      BY <2>2 DEF SendPayload
    <2>3. QED  BY <2>1, <2>2
  <1>4. /\ app2sim \in Seq(Hdrs \cup Payloads) /\ Len(app2sim) \in Nat
        /\ Len(app2sim') = Len(app2sim) + 1 /\ app2sim'[Len(app2sim) + 1] = msg
        /\ \A i \in 1 .. Len(app2sim) : i \in 1 .. Len(app2sim') /\ app2sim'[i] = app2sim[i]
    <2>1. app2sim \in Seq(Hdrs \cup Payloads) /\ Len(app2sim) \in Nat
      BY DEF TagInv, TagType
    <2>2. app2sim' \in Seq((Hdrs \cup Payloads) \cup {msg})
      BY <1>3, <2>1
    <2>3. QED  BY <1>3, <2>1, <2>2
  <1>5. \A u \in Threads : u # t => hook'[u] = hook[u]
    BY DEF SendHdr, SendPayload, TagInv, TagType
  <1>6. \A u \in Threads, p \in AtcPages : u # t /\ Carried(u, p) => Carried(u, p)'
    BY <1>1, <1>4, <1>5 DEF Carried
  <1>7. CASE SendHdr(t)
    <2>1. /\ hook[t].pc = "hdr" /\ hook'[t].pc = "payload"
          /\ hook'[t].chunks = hook[t].chunks /\ hook'[t].tag = hook[t].tag
      BY <1>7 DEF SendHdr, TagInv, TagType
    <2>2. ChunksLeft'
      BY <1>1, <1>5, <2>1 DEF ChunksLeft
    <2>3. \A p \in AtcPages : Carried(t, p) => Carried(t, p)'
      BY <1>1, <1>4, <2>1 DEF Carried
    <2>4. OldCarried'
      BY <1>1, <1>6, <2>3 DEF OldCarried
    <2>5. QED  BY <1>2, <2>2, <2>4
  <1>8. CASE SendPayload(t)
    <2>1. /\ hook[t].pc = "payload"
          /\ hook'[t].pc = IF Len(hook[t].chunks) > 1 THEN "alloc" ELSE "done"
          /\ hook'[t].chunks = Tail(hook[t].chunks)
      BY <1>8 DEF SendPayload, TagInv, TagType
    <2>2. /\ hook[t].chunks \in Seq(ChunkRecs) /\ hook[t].chunks # <<>>
          /\ owner[hook[t].tag] = t
      BY <2>1 DEF ChunksLeft
    <2>3. /\ Len(hook[t].chunks) \in Nat /\ Len(hook[t].chunks) > 0
          /\ Tail(hook[t].chunks) \in Seq(ChunkRecs)
          /\ Len(Tail(hook[t].chunks)) = Len(hook[t].chunks) - 1
          /\ Head(hook[t].chunks) = hook[t].chunks[1]
          /\ \A k \in 1 .. Len(hook[t].chunks) : k # 1 =>
                k - 1 \in 1 .. Len(Tail(hook[t].chunks))
                /\ Tail(hook[t].chunks)[k - 1] = hook[t].chunks[k]
      BY <2>2
    <2>4. ChunksLeft'
      <3>1. Tail(hook[t].chunks) = <<>> <=> ~(Len(hook[t].chunks) > 1)
        <4>1. Len(<<>>) = 0
          BY EmptySeq
        <4>2. Tail(hook[t].chunks) # <<>> => Len(Tail(hook[t].chunks)) \in Nat \ {0}
          BY <2>3, EmptySeq
        <4>3. PICK tl : tl = Tail(hook[t].chunks) /\ Len(tl) = Len(hook[t].chunks) - 1
          BY <2>3
        <4>4. tl = <<>> => Len(tl) = 0
          BY <4>1
        <4>5. tl # <<>> => Len(tl) \in Nat \ {0}
          BY <4>2, <4>3
        <4>6. \A m \in Nat : m > 0 => (m - 1 = 0 <=> ~(m > 1))
          OBVIOUS
        <4>7. Len(tl) = 0 <=> ~(Len(hook[t].chunks) > 1)
          BY <2>3, <4>3, <4>6
        <4>8. QED  BY <4>3, <4>4, <4>5, <4>7
      <3>3. hook'[t].pc \in {"idle", "done"} <=> ~(Len(hook[t].chunks) > 1)
        BY <2>1
      <3>4. hook'[t].pc \notin {"hdr", "payload"}
        BY <2>1
      <3>5. QED  BY <1>1, <1>5, <2>1, <2>3, <3>1, <3>3, <3>4 DEF ChunksLeft
    <2>5. ASSUME NEW p \in AtcPages, Carried(t, p)
          PROVE  Carried(t, p)'
      <3>1. CASE \E i \in 1 .. Len(app2sim) :
                    /\ app2sim[i].kind = "payload" /\ p \in app2sim[i].pages
                    /\ owner[app2sim[i].tag] = t
        BY <1>1, <1>4, <3>1 DEF Carried
      <3>2. ASSUME NEW k \in 1 .. Len(hook[t].chunks), p \in Decoded(hook[t].chunks[k])
            PROVE  Carried(t, p)'
        <4>1. CASE k = 1
          <5>1. Len(app2sim) + 1 \in 1 .. Len(app2sim')
            BY <1>4
          <5>2. QED  BY <1>1, <1>3, <1>4, <1>8, <2>2, <2>3, <3>2, <4>1, <5>1 DEF Carried
        <4>2. CASE k # 1
          BY <2>1, <2>3, <3>2, <4>2 DEF Carried
        <4>3. QED  BY <4>1, <4>2
      <3>3. QED  BY <2>5, <3>1, <3>2 DEF Carried
    <2>6. OldCarried'
      BY <1>1, <1>6, <2>5 DEF OldCarried
    <2>7. QED  BY <1>2, <2>4, <2>6
  <1>9. QED  BY <1>7, <1>8

\* The AFU drops the pages of the payload it takes out of the pipe.
LEMMA StaleH2aMsg ==
    ASSUME OneAfu, TagInv, StaleInv, NEW cc \in AfuCC, H2aMsg(cc)
    PROVE  StaleInv'
  <1> USE DEF StaleInv
  <1>1. /\ UNCHANGED <<xlat, owner, old, atc_active, hook, watch>>
        /\ app2sim' = SubSeq(app2sim, 3, Len(app2sim))
        /\ dead' = IF app2sim[2].kind # "payload" THEN dead
                   ELSE dead \cup {p \in app2sim[2].pages \cap AtcPages : xlat[p] # "none"}
    <2>1. {p \in app2sim[2].pages \cap AtcPages : AfuOfPage[p] = InvalAfu /\ xlat[p] # "none"}
          = {p \in app2sim[2].pages \cap AtcPages : xlat[p] # "none"}
      BY DEF OneAfu
    <2>2. QED  BY <2>1 DEF H2aMsg, tagvars
  <1>2. app2sim \in Seq(Hdrs \cup Payloads) /\ Len(app2sim) \in Nat /\ Len(app2sim) > 1
    BY DEF TagInv, TagType, H2aMsg
  <1>3. /\ app2sim[1].kind = "inval" /\ app2sim[2].kind = "payload"
    BY <1>2 DEF TagInv, Paired, IsHdr
  <1>4. \A i \in 3 .. Len(app2sim) : i - 2 \in 1 .. Len(app2sim') /\ app2sim'[i - 2] = app2sim[i]
    BY <1>1, <1>2
  <1>5. ASSUME NEW t \in Threads, NEW p \in old[t], p \notin dead'
        PROVE  Carried(t, p)'
    <2>1. p \in AtcPages /\ xlat[p] = "answered" /\ Carried(t, p)
      BY <1>1, <1>3, <1>5 DEF OldCarried
    <2>2. CASE \E k \in 1 .. Len(hook[t].chunks) : p \in Decoded(hook[t].chunks[k])
      BY <1>1, <2>2 DEF Carried
    <2>3. ASSUME NEW i \in 1 .. Len(app2sim), app2sim[i].kind = "payload",
                 p \in app2sim[i].pages, owner[app2sim[i].tag] = t
          PROVE  Carried(t, p)'
      <3>1. i # 1 /\ i # 2
        BY <1>1, <1>3, <1>5, <2>1, <2>3
      <3>2. i \in 3 .. Len(app2sim)
        BY <1>2, <3>1
      <3>3. /\ i - 2 \in 1 .. Len(app2sim') /\ app2sim'[i - 2].kind = "payload"
            /\ p \in app2sim'[i - 2].pages /\ owner'[app2sim'[i - 2].tag] = t
        BY <1>1, <1>4, <2>3, <3>2
      <3>4. QED  BY <3>3 DEF Carried
    <2>4. QED  BY <2>1, <2>2, <2>3 DEF Carried
  <1>6. OldCarried'
    BY <1>1, <1>5 DEF OldCarried
  <1>7. QED  BY <1>1, <1>6 DEF StaleType, ChunksLeft, FlagFirst

\* A translation is given out after the flag is set, and stays given out.
LEMMA StaleTranslate ==
    ASSUME AgeInv, StaleInv, (\E p \in AtcPages : TranslateFlag(p)) \/ TranslateAnswer
    PROVE  StaleInv'
  <1> USE DEF StaleInv
  <1>1. UNCHANGED <<owner, old, hook, app2sim, dead>>
    BY DEF TranslateFlag, TranslateAnswer, tagvars
  <1>2. atc_active'
    BY DEF TranslateFlag, TranslateAnswer, FlagFirst, StaleType
  <1>3. xlat' \in [AtcPages -> {"none", "asked", "answered"}]
        /\ \A p \in AtcPages : xlat[p] = "answered" => xlat'[p] = "answered"
    BY DEF TranslateFlag, TranslateAnswer, StaleType
  <1>4. \A t \in Threads, p \in AtcPages : Carried(t, p) => Carried(t, p)'
    BY <1>1 DEF Carried
  <1>5. OldCarried'
    BY <1>1, <1>3, <1>4 DEF OldCarried
  <1>6. atc_active' \in BOOLEAN
    BY DEF TranslateFlag, TranslateAnswer, StaleType
  <1>7. QED  BY <1>1, <1>2, <1>3, <1>5, <1>6 DEF StaleType, ChunksLeft, FlagFirst

\* Every step keeps what an unmap hook has still to invalidate.
LEMMA StaleStep ==
    ASSUME RangesHigh, OneAfu, AtsInv, StaleInv, [Next]_vars
    PROVE  StaleInv'
  <1> USE DEF AtsInv
  <1>1. ASSUME NEW w \in Watchers, WatchStep(w)
        PROVE  StaleInv'
    <2>1. UNCHANGED <<xlat, owner, old, atc_active, hook, app2sim, dead>>
      BY <1>1 DEF WatchStep, CycleSnapshot, CycleAdd, CycleLoad, CycleCompare, tagvars, afuvars
    <2>2. RdWatcher \in Watchers
          /\ watch \in [Watchers -> [pc : WatchPcs, page : AtcPages \cup {NoTag},
                                     vec : SUBSET Tags, reused : SUBSET Tags,
                                     cyc : Int, set : Int]]
      BY AtsAssumption DEF AgeInv, AgeType
    <2>3. watch'[RdWatcher].pc # "answer" \/ watch'[RdWatcher] = watch[RdWatcher]
      <3>1. CASE CycleSnapshot(w) \/ CycleAdd(w)
        BY <2>2, <3>1 DEF CycleSnapshot, CycleAdd, IdleWatch
      <3>2. CASE CycleLoad(w)
        BY <2>2, <3>2 DEF CycleLoad
      <3>3. CASE CycleCompare(w)
        <4>1. CASE UNCHANGED watch
          BY <4>1
        <4>2. CASE ~UNCHANGED watch
          <5>1. PICK cyc : watch' = [watch EXCEPT ![w] =
                   IF watch[w].vec = {Min(watch[w].vec)} THEN IdleWatch
                   ELSE [watch[w] EXCEPT !.vec = watch[w].vec \ {Min(watch[w].vec)},
                            !.reused = watch[w].reused \ {Min(watch[w].vec)},
                            !.cyc = cyc, !.set = NotLoaded]]
            BY <3>3, <4>2 DEF CycleCompare
          <5>2. watch[w].pc = "check"
            BY <3>3 DEF CycleCompare
          <5>3. watch'[w].pc # "answer" /\ (w # RdWatcher => watch'[RdWatcher] = watch[RdWatcher])
            <6>1. CASE watch[w].vec = {Min(watch[w].vec)}
              BY <2>2, <5>1, <6>1 DEF IdleWatch
            <6>2. CASE watch[w].vec # {Min(watch[w].vec)}
              BY <2>2, <5>1, <5>2, <6>2
            <6>3. QED  BY <6>1, <6>2
          <5>4. QED  BY <5>3
        <4>3. QED  BY <4>1, <4>2
      <3>4. QED  BY <1>1, <3>1, <3>2, <3>3 DEF WatchStep
    <2>4. QED  BY <2>1, <2>3, StaleSame
  <1>2. ASSUME NEW vec \in SUBSET Tags, FreeTags(vec)
        PROVE  StaleInv'
    <2>1. UNCHANGED <<xlat, owner, old, atc_active, hook, app2sim, dead, watch>>
      BY <1>2 DEF FreeTags
    <2>2. QED  BY <2>1, StaleSame
  <1>3. CASE UNCHANGED vars
    <2>1. UNCHANGED <<xlat, owner, old, atc_active, hook, app2sim, dead, watch>>
      BY <1>3 DEF vars, tagvars, afuvars
    <2>2. QED  BY <2>1, StaleSame
  <1>4. QED
    BY <1>1, <1>2, <1>3, StaleHookStart, StaleAlloc, StaleSend, StaleH2aMsg, StaleTranslate
       DEF Next, HookStep, Finished

\* When munmap's hook has returned and its invalidations are completed, the AFU
\* has no translation of the range from before the hook, for any number of
\* threads and chunks and any interleaving with the AFU's requests, if that AFU
\* is the one the messages go to.
THEOREM StaleTranslationsDropped == RangesHigh /\ OneAfu => (Spec => []StaleDropped)
  <1> SUFFICES ASSUME RangesHigh, OneAfu
               PROVE  Spec => []StaleDropped
    OBVIOUS
  <1>1. Init => StaleInv
    BY StaleInit
  <1>2. AtsInv /\ StaleInv /\ [Next]_vars => StaleInv'
    BY StaleStep
  <1>3. AtsInv /\ StaleInv => StaleDropped
    <2> SUFFICES ASSUME AtsInv, StaleInv, NEW t \in Threads, hook[t].pc = "done",
                        \A tag \in busy : owner[tag] # t, NEW p \in old[t], p \notin dead
                 PROVE  FALSE
      BY DEF StaleDropped
    <2>1. Carried(t, p)
      BY DEF StaleInv, OldCarried
    <2>2. hook[t].chunks = <<>>
      BY DEF StaleInv, ChunksLeft
    <2>3. PICK i \in 1 .. Len(app2sim) : owner[app2sim[i].tag] = t
      BY <2>1, <2>2 DEF Carried
    <2>4. app2sim[i].tag \in busy
      BY DEF AtsInv, TagInv, PipeTags
    <2>5. QED  BY <2>3, <2>4
  <1>4. QED  BY <1>1, <1>2, <1>3, AtsInvariance, PTL DEF Spec
=============================================================================

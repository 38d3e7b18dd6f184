----------------------------- MODULE HostMemory -----------------------------
(***************************************************************************)
(* Pinned host memory on the side of the application: the simulated page   *)
(* tables and the IOVA pool of sw/ase_host_memory.c, the calls of          *)
(* api/src/buffer.c that fill and empty them, the munmap hook of           *)
(* sw/preload/mmap_hooks.c, the two membus watchers that translate the     *)
(* AFU's addresses (sw/app_backend.c), and open and close.                 *)
(*                                                                         *)
(* One mutex, ase_pt_lock, protects the tables and the pool.  A function   *)
(* of ase_host_memory.c runs from lock to unlock without waiting for       *)
(* anything, so it is one step, possible when the mutex is free; only a    *)
(* watcher keeps the mutex between two steps, from the translation of an   *)
(* address to the end of its memory access.  Between two such functions    *)
(* an API call holds no more than the mutex of its handle, so calls on     *)
(* different handles interleave.                                           *)
(*                                                                         *)
(* A page table has four levels in the code; two of them are kept: a huge  *)
(* frame is either one huge page (level 1) or a table of 4KB pages         *)
(* (level 0).  An address is <<frame, index>>, and an index is the set of  *)
(* its bits that are 1, so that the | and ^ of the code are exact.         *)
(***************************************************************************)
EXTENDS Integers, FiniteSets

CONSTANTS
    Handles, Afus, AfuOf,   \* a handle is open on one AFU
    Bufs,        \* slots for buffers that exist at one time
    IdxBits,     \* the address bits between 4KB and a huge page
    PoolFrames,  \* huge frames of the IOVA pool
    UserFrames,  \* huge frames of IOVA that callers of PinBuffer use
    VaFrames,    \* huge frames of virtual memory, 0 .. n
    Levels,      \* sizes of buffers
    Kinds,       \* kinds of buffers
    Backing,     \* page sizes the kernel gives to a huge buffer
    Ats,         \* the AFU uses address translation; the preload library is in
    AtsIdx,      \* indices of the pages the AFU asks to translate
    BadLength,   \* some caller of UnpinBuffer passes a length that is no page
    NoMemory,    \* mmap of a page of a page table may fail
    CloseBusy,   \* the last close may come during a DMA access
    MaxOpens     \* calls of Open after the first ones

ASSUME AfuAssumption == AfuOf \in [Handles -> Afus]
ASSUME FrameAssumption ==
    /\ IsFiniteSet(VaFrames) /\ VaFrames = 0 .. Cardinality(VaFrames) - 1
    /\ PoolFrames \cap UserFrames = {}
ASSUME KindAssumption ==
    /\ Levels \subseteq {0, 1} /\ Backing \subseteq {"small", "huge"}
    /\ Kinds \subseteq {"prepare", "prealloc", "pin", "user"}
    /\ AtsIdx \subseteq SUBSET IdxBits
    /\ Ats \in BOOLEAN /\ BadLength \in BOOLEAN /\ CloseBusy \in BOOLEAN
    /\ NoMemory \in BOOLEAN /\ MaxOpens \in Nat

VARIABLES
    buf,         \* workspaces, other pinned or mapped regions, calls under way
    vm,          \* the process's memory: page size at every page, or "none"
    iova_mem_alloc, \* allocated parts of the IOVA pool
    ase_iova_pt_root, ase_pa_pt_root,
    ase_pt_lock,
    acc,         \* the access of the watcher that holds the lock
    pcie_atc_active,
    session,     \* membus_exist_status and the steps of session_deinit
    open,        \* handles that are open
    ase_open_afus_by_tok_idx,  \* one bit for the AFU, not for the handle
    opens,       \* number of reopened handles
    err          \* how the application died

tables == <<ase_iova_pt_root, ase_pa_pt_root>>
life   == <<session, open, ase_open_afus_by_tok_idx, opens>>
vars   == <<buf, vm, iova_mem_alloc, tables, ase_pt_lock, acc,
            pcie_atc_active, life, err>>

-----------------------------------------------------------------------------
(* Page tables. *)

RefMod   == 256                 \* the reference count has 8 bits
Idx      == SUBSET IdxBits
Va       == VaFrames \X Idx
NoVa     == <<-1, {}>>
Watchers == {"rd", "wr"}

NoLeaf   == [terminal |-> FALSE, ref |-> 0, va |-> NoVa]
NoLeaves == [i \in Idx |-> NoLeaf]
NoEntry  == [kind |-> "none", ref |-> 0, va |-> NoVa, leaf |-> NoLeaves]
EmptyPt(F) == [f \in F |-> NoEntry]
IovaFrames == PoolFrames \cup UserFrames

Leaves  == [terminal : BOOLEAN, ref : 0 .. RefMod - 1, va : Va \cup {NoVa}]
Entries == [kind : {"none", "table", "page"}, ref : 0 .. RefMod - 1,
            va : Va \cup {NoVa}, leaf : [Idx -> Leaves]]

\* The reference count at an address, as ase_pt_lookup_addr and the two
\* functions that change it see it.
RefAt(T, a, lv) == IF lv = 0 THEN T[a[1]].leaf[a[2]].ref ELSE T[a[1]].ref

\* ase_pt_lookup_addr and the last line of iova_to_va and pa_to_va: the
\* address of the entry OR the offset in its page.
Found(T, a) == T[a[1]].kind = "page" \/ T[a[1]].leaf[a[2]].ref > 0

Lookup(T, a) == IF T[a[1]].kind = "page"
                THEN <<T[a[1]].va[1], T[a[1]].va[2] \cup a[2]>>
                ELSE T[a[1]].leaf[a[2]].va

\* Faulty: a page that is pinned again keeps its first address.
PinSmall_keepVa(T, a, va) ==
    [T EXCEPT ![a[1]].kind = "table",
              ![a[1]].leaf[a[2]] = [terminal |-> TRUE,
                                    ref |-> (@.ref + 1) % RefMod,
                                    va |-> IF @.ref > 0 THEN @.va ELSE va]]

\* ase_pt_pin_page at level 0: a missing table is made on the way down.
PinSmall(T, a, va) ==
    [T EXCEPT ![a[1]].kind = "table",
              ![a[1]].leaf[a[2]] = [terminal |-> TRUE,
                                    ref |-> (@.ref + 1) % RefMod, va |-> va]]

\* ase_pt_pin_page at a higher level: a table in the way is deleted.
PinHuge(T, a, va) ==
    [T EXCEPT ![a[1]] = [kind |-> "page", ref |-> (@.ref + 1) % RefMod,
                         va |-> va, leaf |-> NoLeaves]]

PtPin(T, a, lv, va) == IF lv = 0 THEN PinSmall(T, a, va) ELSE PinHuge(T, a, va)
PinRefused(T, a, lv) == lv = 0 /\ T[a[1]].kind = "page"
PinDeletesTree(T, a, lv) == lv = 1 /\ T[a[1]].kind = "table"
PinOverflows(T, a, lv) == RefAt(T, a, lv) = RefMod - 1

\* A table on the way to the entry has to be made and cannot be; the same for
\* the root, which an AFU without entries is taken not to have yet.
TableFails(T, a) == NoMemory /\ T[a[1]].kind = "none"
RootFails(T)     == NoMemory /\ T = EmptyPt(IovaFrames)

\* Dropping a 4KB page leaves the terminal bit; the address of an entry whose
\* count is 0 is never read.

DropLeaf(l) == [l EXCEPT !.ref = (@ - 1) % RefMod,
                         !.va = IF l.ref = 1 THEN NoVa ELSE @]

\* Faulty: the page is dropped whatever its count.
UnpinSmall_clear(T, a) == [T EXCEPT ![a[1]].leaf[a[2]] = NoLeaf]

UnpinSmall(T, a) == [T EXCEPT ![a[1]].leaf[a[2]] = DropLeaf(@)]

\* Faulty: a huge page whose count drops to 0 is not cleared.
UnpinHuge_keep(T, a) == [T EXCEPT ![a[1]].ref = @ - 1]

UnpinHuge(T, a) ==
    LET e == T[a[1]]
    IN  [T EXCEPT ![a[1]] = IF e.ref = 1 THEN NoEntry
                            ELSE [e EXCEPT !.ref = e.ref - 1]]

UnpinMissing(T, a, lv) ==
    IF lv = 0 THEN /\ T[a[1]].kind # "page"
                   /\ ~T[a[1]].leaf[a[2]].terminal
              ELSE T[a[1]].kind # "page"

\* The walk to a 4KB page tests the table it is in, not the entry it follows,
\* and so follows the address of a huge page.
UnpinFaults(T, a, lv) == lv = 0 /\ T[a[1]].kind = "page"
UnpinUnderflows(T, a, lv) ==
    ~UnpinMissing(T, a, lv) /\ ~UnpinFaults(T, a, lv) /\ RefAt(T, a, lv) = 0

PtUnpin(T, a, lv) == IF UnpinMissing(T, a, lv) THEN T
                     ELSE IF lv = 0 THEN UnpinSmall(T, a) ELSE UnpinHuge(T, a)

UnpinOutcome(T, a, lv) == CASE UnpinFaults(T, a, lv) -> "segv"
                            [] UnpinUnderflows(T, a, lv) -> "assert"
                            [] OTHER -> "none"

\* va ^ ase_host_memory_gen_xor_mask(level)
Complement(f) == Cardinality(VaFrames) - 1 - f

Pa(v, lv) == <<Complement(v[1]), IF lv = 0 THEN IdxBits \ v[2] ELSE v[2]>>

-----------------------------------------------------------------------------
(* Buffers.  The state of a buffer is the place its API call has reached.   *)

NoBuf == [st |-> "none", kind |-> "none", h |-> "none", iova |-> NoVa,
          lv |-> 0, va |-> NoVa]
States == {"none", "iova", "mapped", "owned", "iova_free", "unpinned",
           "hooked"}
Bases(F, lv) == IF lv = 1 THEN F \X {{}} ELSE F \X Idx

Pages(a, lv) == IF lv = 1 THEN {a[1]} \X Idx ELSE {a}
BufPages(b)  == Pages(buf[b].va, buf[b].lv)

\* The access of a watcher: how it addresses the page, the page it uses and the
\* page that the AFU means.
NoAcc == [by |-> "none", va |-> NoVa, want |-> NoVa]

\* A handle's mutex is held for the whole of an API call.
Idle(h) == h \in open /\ \A b \in Bufs : buf[b].h = h => buf[b].st = "owned"
Slot(b) == buf[b].st = "none" /\ \A c \in Bufs : buf[c].st = "none" => b <= c
Alive   == err = "none" /\ session = "up"
Locked  == Alive /\ ase_pt_lock = "free"

\* Pages of the caller's own memory that fit a buffer of a level.
UserMemory(h, lv) == {buf[u].va : u \in {u \in Bufs :
    /\ buf[u].kind = "user" /\ buf[u].h = h
    /\ buf[u].st = "owned" /\ buf[u].lv = lv}}

Init ==
    /\ buf = [b \in Bufs |-> NoBuf]
    /\ vm = [v \in Va |-> "none"]
    /\ iova_mem_alloc = {}
    /\ ase_iova_pt_root = [a \in Afus |-> EmptyPt(IovaFrames)]
    /\ ase_pa_pt_root = EmptyPt(VaFrames)
    /\ ase_pt_lock = "free"
    /\ acc = NoAcc
    /\ pcie_atc_active = FALSE
    /\ session = "up" /\ open = Handles /\ opens = 0
    /\ ase_open_afus_by_tok_idx = {AfuOf[h] : h \in Handles}
    /\ err = "none"

-----------------------------------------------------------------------------
(* Steps that the API calls share. *)

\* buffer_allocate: the kernel picks the place; a huge buffer may get small
\* pages.
MmapNew(lv, v) ==
    /\ v \in Bases(VaFrames, lv)
    /\ \A p \in Pages(v, lv) : vm[p] = "none"
    /\ \E size \in IF lv = 1 THEN Backing ELSE {"small"} :
           vm' = [p \in Va |-> IF p \in Pages(v, lv) THEN size ELSE vm[p]]

HookActive == Ats /\ pcie_atc_active

\* ase_host_memory_pin of buffer b, whose state becomes `done' or, if the page
\* table refuses it, `refused'.  Deleting a table calls munmap, whose hook
\* wants ase_pt_lock again; without memory for the root the function returns
\* with the mutex held.
PinPage(x, b, done, refused) ==
    LET T == ase_iova_pt_root[AfuOf[x.h]]
    IN  \/ /\ PinRefused(T, x.iova, x.lv) \/ TableFails(T, x.iova)
           /\ buf' = [buf EXCEPT ![b] = refused]
           /\ UNCHANGED <<ase_iova_pt_root, ase_pt_lock, err>>
        \/ /\ RootFails(T) \/ (PinDeletesTree(T, x.iova, x.lv) /\ HookActive)
           /\ ase_pt_lock' = "stuck"
           /\ UNCHANGED <<buf, ase_iova_pt_root, err>>
        \/ /\ ~PinRefused(T, x.iova, x.lv)
           /\ ~(PinDeletesTree(T, x.iova, x.lv) /\ HookActive)
           /\ err' = IF PinOverflows(T, x.iova, x.lv) THEN "assert" ELSE err
           /\ ase_iova_pt_root' = [ase_iova_pt_root EXCEPT
                  ![AfuOf[x.h]] = PtPin(T, x.iova, x.lv, x.va)]
           /\ buf' = [buf EXCEPT ![b] = done]
           /\ UNCHANGED ase_pt_lock

\* ase_host_memory_unpin; its callers go on in the same way if it fails.
UnpinPage(x) ==
    LET T == ase_iova_pt_root[AfuOf[x.h]]
    IN  /\ err' = UnpinOutcome(T, x.iova, x.lv)
        /\ ase_iova_pt_root' =
               [ase_iova_pt_root EXCEPT ![AfuOf[x.h]] = PtUnpin(T, x.iova, x.lv)]

-----------------------------------------------------------------------------
(* ase_fpgaPrepareBuffer *)

AllocIova(h, b, k, lv, a) ==
    /\ Locked /\ Idle(h) /\ Slot(b)
    /\ a \in Bases(PoolFrames, lv)
    /\ \A r \in iova_mem_alloc : Pages(a, lv) \cap Pages(r.a, r.lv) = {}
    /\ iova_mem_alloc' = iova_mem_alloc \cup {[a |-> a, lv |-> lv]}
    /\ buf' = [buf EXCEPT ![b] = [st |-> "iova", kind |-> k, h |-> h,
                                  iova |-> a, lv |-> lv, va |-> NoVa]]
    /\ UNCHANGED <<vm, tables, ase_pt_lock, acc, pcie_atc_active, life, err>>

\* The pool has no room: FPGA_NO_MEMORY.
AllocIovaFails(h, lv) ==
    /\ Locked /\ Idle(h)
    /\ \A a \in Bases(PoolFrames, lv) : \E r \in iova_mem_alloc :
           Pages(a, lv) \cap Pages(r.a, r.lv) # {}
    /\ UNCHANGED vars

\* The page is mapped, and large enough.  (Of 4KB pages the code tests the first
\* 200 and then one in a hundred; the callers here pass mapped memory.)
check_mapped_page(v, lv) == vm[v] # "none" /\ (lv = 1 => vm[v] = "huge")

\* New memory, or the caller's.
GetMemory(b, v) ==
    /\ Alive /\ buf[b].st = "iova"
    /\ \/ buf[b].kind = "prepare" /\ MmapNew(buf[b].lv, v)
       \/ /\ buf[b].kind = "prealloc"
          /\ v \in UserMemory(buf[b].h, buf[b].lv)
          /\ check_mapped_page(v, buf[b].lv)
          /\ UNCHANGED vm
    /\ buf' = [buf EXCEPT ![b].st = "mapped", ![b].va = v]
    /\ UNCHANGED <<iova_mem_alloc, tables, ase_pt_lock, acc, pcie_atc_active,
                   life, err>>

\* No memory, or a check of the arguments fails: the IOVA is not given back.
GetMemoryFails(b) ==
    /\ Alive /\ buf[b].st = "iova"
    /\ buf' = [buf EXCEPT ![b] = NoBuf]
    /\ UNCHANGED <<vm, iova_mem_alloc, tables, ase_pt_lock, acc,
                   pcie_atc_active, life, err>>

\* Pin and add the workspace; a refused buffer is unmapped again.
PinStep(b) ==
    /\ Locked /\ buf[b].st = "mapped"
    /\ PinPage(buf[b], b, [buf[b] EXCEPT !.st = "owned"],
               IF buf[b].kind = "prepare" THEN [buf[b] EXCEPT !.st = "unpinned"]
               ELSE NoBuf)
    /\ UNCHANGED <<vm, iova_mem_alloc, ase_pa_pt_root, acc, pcie_atc_active,
                   life>>

(* ase_fpgaReleaseBuffer: the IOVA is free before the page is unpinned. *)

FreeIova(b) ==
    /\ Locked /\ buf[b].st = "owned" /\ buf[b].kind \in {"prepare", "prealloc"}
    /\ Idle(buf[b].h)
    /\ iova_mem_alloc' =
           iova_mem_alloc \ {[a |-> buf[b].iova, lv |-> buf[b].lv]}
    /\ buf' = [buf EXCEPT ![b].st = "iova_free"]
    /\ UNCHANGED <<vm, tables, ase_pt_lock, acc, pcie_atc_active, life, err>>

\* Faulty: the page is unpinned without taking ase_pt_lock.
UnpinStep_unlocked(b) ==
    /\ Alive /\ buf[b].st = "iova_free"
    /\ UnpinPage(buf[b])
    /\ buf' = [buf EXCEPT ![b] = IF @.kind = "prepare"
                                 THEN [@ EXCEPT !.st = "unpinned"] ELSE NoBuf]
    /\ UNCHANGED <<vm, iova_mem_alloc, ase_pa_pt_root, ase_pt_lock, acc,
                   pcie_atc_active, life>>

\* Memory of the caller stays mapped.
UnpinStep(b) ==
    /\ Locked /\ buf[b].st = "iova_free"
    /\ UnpinPage(buf[b])
    /\ buf' = [buf EXCEPT ![b] = IF @.kind = "prepare"
                                 THEN [@ EXCEPT !.st = "unpinned"] ELSE NoBuf]
    /\ UNCHANGED <<vm, iova_mem_alloc, ase_pa_pt_root, ase_pt_lock, acc,
                   pcie_atc_active, life>>

(* ase_fpgaPinBuffer, ase_fpgaUnpinBuffer: the caller chooses the IOVA, and *)
(* does not overlap what is pinned except to pin the same page again.       *)

PinBuffer(h, b, lv, a, v) ==
    LET x == [st |-> "owned", kind |-> "pin", h |-> h, iova |-> a, lv |-> lv,
              va |-> v]
    IN  /\ Locked /\ Idle(h) /\ Slot(b)
        /\ a \in Bases(UserFrames, lv) /\ v \in UserMemory(h, lv)
        /\ \A c \in {c \in Bufs : buf[c].kind = "pin"} :
               /\ AfuOf[buf[c].h] = AfuOf[h]
               /\ Pages(a, lv) \cap Pages(buf[c].iova, buf[c].lv) # {}
               => buf[c] = x
        /\ PinPage(x, b, x, NoBuf)
        /\ UNCHANGED <<vm, iova_mem_alloc, ase_pa_pt_root, acc,
                       pcie_atc_active, life>>

UnpinBuffer(b) ==
    /\ Locked /\ buf[b].st = "owned" /\ buf[b].kind = "pin"
    /\ Idle(buf[b].h)
    /\ UnpinPage(buf[b])
    /\ buf' = [buf EXCEPT ![b] = NoBuf]
    /\ UNCHANGED <<vm, iova_mem_alloc, ase_pa_pt_root, ase_pt_lock, acc,
                   pcie_atc_active, life>>

\* ase_host_memory_unpin with a length that is no page size returns with the
\* mutex held, once the AFU has a page table.
UnpinBadLength(h) ==
    /\ BadLength /\ Locked /\ Idle(h)
    /\ \E b \in Bufs : buf[b].h = h /\ buf[b].kind # "user"
    /\ ase_pt_lock' = "stuck"
    /\ UNCHANGED <<buf, vm, iova_mem_alloc, tables, acc, pcie_atc_active, life,
                   err>>

-----------------------------------------------------------------------------
(* The application's own memory, and munmap with its hook. *)

UserMmap(h, b, lv, v) ==
    /\ Alive /\ Idle(h) /\ Slot(b)
    /\ MmapNew(lv, v)
    /\ buf' = [buf EXCEPT ![b] = [st |-> "owned", kind |-> "user", h |-> h,
                                  iova |-> NoVa, lv |-> lv, va |-> v]]
    /\ UNCHANGED <<iova_mem_alloc, tables, ase_pt_lock, acc, pcie_atc_active,
                   life, err>>

\* The application unmaps nothing that it has pinned.
UserMunmap(b) ==
    /\ Alive /\ buf[b].st = "owned" /\ buf[b].kind = "user" /\ Idle(buf[b].h)
    /\ \A c \in Bufs : c # b /\ buf[c].st # "none" => buf[c].va # buf[b].va
    /\ buf' = [buf EXCEPT ![b].st = "unpinned"]
    /\ UNCHANGED <<vm, iova_mem_alloc, tables, ase_pt_lock, acc,
                   pcie_atc_active, life, err>>

\* ase_host_memory_inval_va_range: page by page, translated or not.
InvalRange(T, P) ==
    [f \in VaFrames |-> [T[f] EXCEPT !.leaf =
        [i \in Idx |-> IF <<f, i>> \in P /\ ~UnpinMissing(T, <<f, i>>, 0)
                       THEN DropLeaf(T[f].leaf[i]) ELSE T[f].leaf[i]]]]

\* ase_mem_unmap_hook: the invalidation sent to the AFU is not modelled.
MunmapHook(b) ==
    LET T  == ase_pa_pt_root
        v  == buf[b].va
        Ps == {Pa(p, 0) : p \in BufPages(b)}
    IN  /\ Alive /\ buf[b].st = "unpinned"
        /\ \/ /\ ~HookActive
              /\ UNCHANGED <<ase_pa_pt_root, err>>
           \/ /\ HookActive /\ Locked /\ vm[v] = "huge"
              /\ ase_pa_pt_root' = PtUnpin(T, Pa(v, 1), 1)
              /\ err' = UnpinOutcome(T, Pa(v, 1), 1)
           \/ /\ HookActive /\ Locked /\ vm[v] = "small"
              /\ ase_pa_pt_root' = InvalRange(T, Ps)
              /\ \E p \in Ps : /\ err' = UnpinOutcome(T, p, 0)
                               /\ err' = "none" => \A q \in Ps :
                                      UnpinOutcome(T, q, 0) = "none"
        /\ buf' = [buf EXCEPT ![b].st = "hooked"]
        /\ UNCHANGED <<vm, iova_mem_alloc, ase_iova_pt_root, ase_pt_lock, acc,
                       pcie_atc_active, life>>

\* The real munmap.
Munmap(b) ==
    /\ Alive /\ buf[b].st = "hooked"
    /\ vm' = [p \in Va |-> IF p \in BufPages(b) THEN "none" ELSE vm[p]]
    /\ buf' = [buf EXCEPT ![b] = NoBuf]
    /\ UNCHANGED <<iova_mem_alloc, tables, ase_pt_lock, acc, pcie_atc_active,
                   life, err>>

-----------------------------------------------------------------------------
(* The watchers. *)

\* Faulty: a page that is translated again is pinned again.
Translate_again(v) ==
    LET lv == IF vm[v] = "huge" THEN 1 ELSE 0
    IN  /\ Ats /\ Locked /\ vm[v] # "none"
        /\ pcie_atc_active' = TRUE
        /\ ase_pa_pt_root' = PtPin(ase_pa_pt_root, Pa(v, lv), lv, v)
        /\ UNCHANGED <<buf, vm, iova_mem_alloc, ase_iova_pt_root, ase_pt_lock,
                       acc, life, err>>

\* membus_rd_watcher, ATS request: ase_host_memory_va_to_pa.
Translate(v) ==
    LET T  == ase_pa_pt_root
        lv == IF vm[v] = "huge" THEN 1 ELSE 0
        a  == Pa(v, lv)
    IN  /\ Ats /\ Locked
        /\ pcie_atc_active' = TRUE
        /\ \/ /\ vm[v] = "none" \/ Found(T, a)
              /\ UNCHANGED <<ase_pa_pt_root, ase_pt_lock, err>>
           \/ /\ vm[v] # "none" /\ ~Found(T, a)
              /\ PinRefused(T, a, lv) \/ TableFails(T, a)
              /\ err' = "abort"
              /\ UNCHANGED <<ase_pa_pt_root, ase_pt_lock>>
           \/ /\ vm[v] # "none" /\ ~Found(T, a) /\ PinDeletesTree(T, a, lv)
              /\ ase_pt_lock' = "stuck"
              /\ UNCHANGED <<ase_pa_pt_root, err>>
           \/ /\ vm[v] # "none" /\ ~Found(T, a)
              /\ ~PinRefused(T, a, lv) /\ ~PinDeletesTree(T, a, lv)
              /\ ase_pa_pt_root' = PtPin(T, a, lv, v)
              /\ UNCHANGED <<ase_pt_lock, err>>
        /\ UNCHANGED <<buf, vm, iova_mem_alloc, ase_iova_pt_root, acc, life>>

\* A DMA request to page j of a buffer: iova_to_va, keeping the lock.  The
\* watcher aborts if the address is not mapped.  A request that is still under
\* way when the buffer is being released may come before the unpin, and gets
\* whatever page is there.
AccessIova(w, b, j) ==
    LET x == buf[b]
        T == ase_iova_pt_root[AfuOf[x.h]]
        a == <<x.iova[1], x.iova[2] \cup j>>
    IN  /\ Locked /\ x.kind # "user"
        /\ x.st = "owned" \/ (x.st = "iova_free" /\ Found(T, a))
        /\ x.lv = 0 => j = {}
        /\ ase_pt_lock' = IF Found(T, a) THEN w ELSE "free"
        /\ acc' = IF Found(T, a)
                  THEN [by |-> "iova", va |-> Lookup(T, a),
                        want |-> IF x.st = "owned"
                                 THEN <<x.va[1], x.va[2] \cup j>>
                                 ELSE Lookup(T, a)]
                  ELSE acc
        /\ err' = IF Found(T, a) THEN err ELSE "abort"
        /\ UNCHANGED <<buf, vm, iova_mem_alloc, tables, pcie_atc_active, life>>

\* A DMA request with a translated address: pa_to_va, keeping the lock.
AccessPa(w, v, lv) ==
    LET T == ase_pa_pt_root
        a == Pa(v, lv)
    IN  /\ Locked
        /\ Found(T, a) /\ (T[a[1]].kind = "page") = (lv = 1)
        /\ ase_pt_lock' = w
        /\ acc' = [by |-> IF lv = 0 THEN "pa_small" ELSE "pa_huge",
                   va |-> Lookup(T, a), want |-> v]
        /\ UNCHANGED <<buf, vm, iova_mem_alloc, tables, pcie_atc_active, life,
                       err>>

\* The memory is read or written and the lock is given back.
FinishAccess ==
    /\ Alive /\ ase_pt_lock \in Watchers
    /\ ase_pt_lock' = "free" /\ acc' = NoAcc
    /\ UNCHANGED <<buf, vm, iova_mem_alloc, tables, pcie_atc_active, life, err>>

-----------------------------------------------------------------------------
(* Open and close.  No call but close is made on a handle that is still open *)
(* when the session ends.                                                    *)

\* ase_fpgaClose: the session ends when the bits of all AFUs are clear, though
\* another handle may be open on this one; the table of the AFU goes without
\* the lock; workspaces are forgotten, their memory and IOVA are not.
Close(h) ==
    LET rest == ase_open_afus_by_tok_idx \ {AfuOf[h]}
        last == session = "up" /\ rest = {}
    IN  /\ err = "none" /\ session \in {"up", "down"}
        /\ Idle(h) /\ opens < MaxOpens
        /\ last /\ ~CloseBusy => ase_pt_lock = "free"
        /\ open' = open \ {h} /\ ase_open_afus_by_tok_idx' = rest
        /\ session' = IF last THEN "closing" ELSE session
        /\ ase_iova_pt_root' = IF last THEN ase_iova_pt_root
               ELSE [ase_iova_pt_root EXCEPT ![AfuOf[h]] = EmptyPt(IovaFrames)]
        /\ buf' = [b \in Bufs |-> IF buf[b].h = h /\ buf[b].kind # "user"
                                  THEN NoBuf ELSE buf[b]]
        /\ UNCHANGED <<vm, iova_mem_alloc, ase_pa_pt_root, ase_pt_lock, acc,
                       pcie_atc_active, opens, err>>

\* session_deinit cancels the watchers: the one that reads may be cancelled in
\* mqueue_send, with the lock; the other ends its access first.
CancelWatcher ==
    /\ session = "closing" /\ ase_pt_lock \in Watchers
    /\ ase_pt_lock' \in IF ase_pt_lock = "rd" THEN {"free", "stuck"} ELSE {"free"}
    /\ acc' = NoAcc
    /\ UNCHANGED <<buf, vm, iova_mem_alloc, tables, pcie_atc_active, life, err>>

\* Faulty: the page tables of the AFUs survive the session.
Terminate_keepIova ==
    /\ session = "closing" /\ ase_pt_lock = "free"
    /\ ase_pa_pt_root' = EmptyPt(VaFrames)
    /\ iova_mem_alloc' = {}
    /\ session' = "down"
    /\ UNCHANGED <<buf, vm, ase_iova_pt_root, ase_pt_lock, acc,
                   pcie_atc_active, open, ase_open_afus_by_tok_idx, opens, err>>

\* ase_host_memory_terminate, from free_buffers.
Terminate ==
    /\ session = "closing" /\ ase_pt_lock = "free"
    /\ ase_iova_pt_root' = [a \in Afus |-> EmptyPt(IovaFrames)]
    /\ ase_pa_pt_root' = EmptyPt(VaFrames)
    /\ iova_mem_alloc' = {}
    /\ session' = "down"
    /\ UNCHANGED <<buf, vm, ase_pt_lock, acc, pcie_atc_active, open,
                   ase_open_afus_by_tok_idx, opens, err>>

\* ase_fpgaOpen: the first handle starts a session and its watchers.
Open(h) ==
    /\ err = "none" /\ session \in {"up", "down"}
    /\ h \notin open /\ opens < MaxOpens
    /\ open' = open \cup {h} /\ opens' = opens + 1
    /\ ase_open_afus_by_tok_idx' = ase_open_afus_by_tok_idx \cup {AfuOf[h]}
    /\ session' = "up"
    /\ pcie_atc_active' = (session = "up" /\ pcie_atc_active)
    /\ UNCHANGED <<buf, vm, iova_mem_alloc, tables, ase_pt_lock, acc, err>>

Api(h, b) ==
    \/ \E k \in Kinds \cap {"prepare", "prealloc"}, lv \in Levels,
          a \in PoolFrames \X Idx : AllocIova(h, b, k, lv, a)
    \/ \E lv \in Levels : AllocIovaFails(h, lv)
    \/ \E lv \in Levels, a \in UserFrames \X Idx, v \in Va :
           "pin" \in Kinds /\ PinBuffer(h, b, lv, a, v)
    \/ \E lv \in Levels, v \in Va : "user" \in Kinds /\ UserMmap(h, b, lv, v)

Watch ==
    \/ \E v \in VaFrames \X AtsIdx : Translate(v)
    \/ \E w \in Watchers, b \in Bufs, j \in Idx : AccessIova(w, b, j)
    \/ \E w \in Watchers, v \in Va, lv \in {0, 1} : AccessPa(w, v, lv)
    \/ FinishAccess

Life ==
    \/ \E h \in Handles : Close(h) \/ Open(h) \/ UnpinBadLength(h)
    \/ CancelWatcher
    \/ Terminate

Next ==
    \/ \E h \in Handles, b \in Bufs : Api(h, b)
    \/ \E b \in Bufs :
           \/ \E v \in Va : GetMemory(b, v)
           \/ GetMemoryFails(b) \/ PinStep(b) \/ FreeIova(b) \/ UnpinStep(b)
           \/ UnpinBuffer(b) \/ UserMunmap(b) \/ MunmapHook(b) \/ Munmap(b)
    \/ Watch
    \/ Life

Spec == Init /\ [][Next]_vars

-----------------------------------------------------------------------------
(* Properties. *)

\* Types: in particular every reference count fits its 8 bits.
TypeOK ==
    /\ buf \in [Bufs -> [st : States, kind : Kinds \cup {"none"},
                         h : Handles \cup {"none"},
                         iova : (IovaFrames \X Idx) \cup {NoVa},
                         lv : {0, 1}, va : Va \cup {NoVa}]]
    /\ vm \in [Va -> {"none", "small", "huge"}]
    /\ iova_mem_alloc \subseteq [a : PoolFrames \X Idx, lv : Levels]
    /\ ase_iova_pt_root \in [Afus -> [IovaFrames -> Entries]]
    /\ ase_pa_pt_root \in [VaFrames -> Entries]
    /\ ase_pt_lock \in Watchers \cup {"free", "stuck"}
    /\ acc \in [by : {"none", "iova", "pa_small", "pa_huge"},
               va : Va \cup {NoVa}, want : Va \cup {NoVa}]
    /\ pcie_atc_active \in BOOLEAN
    /\ session \in {"up", "closing", "down"}
    /\ open \subseteq Handles /\ opens \in 0 .. MaxOpens
    /\ ase_open_afus_by_tok_idx \subseteq Afus
    /\ err \in {"none", "assert", "segv", "abort"}

Pinned(b) == buf[b].st \in {"owned", "iova_free"} /\ buf[b].kind # "user"

\* The reference count of a page table entry is the number of buffers that pin
\* it, at that size, on that AFU: no call forgets or repeats an unpin, and a
\* session leaves nothing pinned for the next one.
RefcountExact ==
    \A a \in Afus, f \in IovaFrames :
        LET pins(i, lv) == Cardinality({b \in Bufs :
                /\ Pinned(b) /\ AfuOf[buf[b].h] = a
                /\ buf[b].iova = <<f, i>> /\ buf[b].lv = lv})
            e == ase_iova_pt_root[a][f]
        IN  session = "up" => /\ e.ref = pins({}, 1)
                              /\ \A i \in Idx : e.leaf[i].ref = pins(i, 0)

\* A watcher reads or writes the page the AFU addressed: of the virtual address
\* that was translated, or of the buffer that owns the IOVA.
RightMemory == ase_pt_lock \in Watchers => acc.va = acc.want

\* The same for DMA by IOVA, also where the IOVA was pinned by its new owner
\* before its old one unpinned it, and for translated 4KB pages.
OwnerReached ==
    ase_pt_lock \in Watchers /\ acc.by # "pa_huge" => acc.va = acc.want

\* The IOVA of a buffer stays in the page table of its AFU from the pin to the
\* release, whatever other handles free, unpin and pin: no DMA request to it
\* makes the watcher abort.
OwnedReachable == session = "up" /\ err = "none" => \A b \in Bufs :
    buf[b].st = "owned" /\ buf[b].kind # "user" =>
        Found(ase_iova_pt_root[AfuOf[buf[b].h]], buf[b].iova)

\* The page a watcher reads or writes is mapped until it has finished, though
\* the owner may be releasing the buffer.
DmaMemoryMapped == ase_pt_lock \in Watchers => vm[acc.va] # "none"

\* No call and no DMA request ends the application: no access to an owned buffer
\* finds its IOVA unmapped, no assertion fails, no page table walk faults.
\* HostMemoryProofs says for which applications.
NoCrash == err = "none"

\* A page that PrepareBuffer has an IOVA and memory for is accepted by the page
\* table: no page of the other size that the handle had there is left.
AllocatedIovaPins ==
    [][\A b \in Bufs : buf[b].st = "mapped" => buf'[b].st \in {"mapped", "owned"}]_vars

\* While the application runs a translation is entered once, so that the one
\* unpin of the munmap hook removes it.
PaPinnedOnce == err = "none" => \A f \in VaFrames :
    /\ ase_pa_pt_root[f].ref <= 1
    /\ \A i \in Idx : ase_pa_pt_root[f].leaf[i].ref <= 1

\* assert(c != 0xff), assert(c != 0): reference counts do not wrap around.
AssertsHold == err # "assert"

\* Unpinning a 4KB page inside a huge page is an error that is returned.
UnpinReturns == err # "segv"

\* No function of ase_host_memory.c but the two translations leaves with the
\* mutex held.
NoLockLeft == ase_pt_lock # "stuck"

\* munmap drops the PA entries of what it unmaps.
PaEntryMapped == \A v \in Va, lv \in {0, 1} :
    LET e == ase_pa_pt_root[Pa(v, lv)[1]]
    IN  vm[v] = "none" =>
            /\ lv = 1 => e.ref = 0
            /\ lv = 0 => e.leaf[Pa(v, lv)[2]].ref = 0

\* ase_open_afus_by_tok_idx knows every AFU that a handle is open on.
OpenAfusTracked == \A h \in open : AfuOf[h] \in ase_open_afus_by_tok_idx
====

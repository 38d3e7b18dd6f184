-------------------------- MODULE HostMemoryProofs --------------------------
(***************************************************************************)
(* Proofs about HostMemory: for any number of handles, AFUs, buffers and   *)
(* frames, and any number of 4KB pages in a huge one.                      *)
(*                                                                         *)
(* The count of a page table entry is the number of buffers that pin it    *)
(* (CountInv) as long as no buffer of one size lies inside a buffer of     *)
(* the other size on the same AFU.  The IOVA of a buffer is given back     *)
(* before its page is unpinned, so this takes one handle per AFU, whose    *)
(* mutex covers both steps, or buffers of one size (Apart).  The regions   *)
(* of the pool are then disjoint where it matters (AllocInv).  Closing one *)
(* of several handles of an AFU takes the page table away from the others; *)
(* CloseAlone is the hypothesis that the application does not.             *)
(***************************************************************************)
EXTENDS HostMemory, FiniteSetTheorems, TLAPS

OneHandlePerAfu == \A g, h \in Handles : AfuOf[g] = AfuOf[h] => g = h
OneSize == \E lv \in {0, 1} : Levels \subseteq {lv}
Apart   == OneHandlePerAfu \/ OneSize

\* The application closes a handle only when it has no other on the same AFU:
\* the bit of the AFU, its page table and perhaps the session go with the first
\* one that is closed.
ClosesAlone == \A h \in Handles : h \in open /\ h \notin open' =>
                   \A g \in open : AfuOf[g] = AfuOf[h] => g = h
CloseAlone  == [][ClosesAlone]_vars

\* Fewer buffers at one time than a reference count has values.
FewBufs == IsFiniteSet(Bufs) /\ Cardinality(Bufs) < RefMod

\* A buffer that has memory; one that has an IOVA, given back or not.
Mapped(x)  == x.st \in {"mapped", "owned", "iova_free", "unpinned", "hooked"}
HasIova(x) == x.st \in {"iova", "mapped", "owned", "iova_free"} /\ x.kind # "user"
Pooled(x)  == HasIova(x) /\ x.kind # "pin"
Entry(x)   == ase_iova_pt_root[AfuOf[x.h]][x.iova[1]]

\* What is known of a buffer from the place its call has reached.
BufOK(x, o) ==
    /\ Mapped(x) => x.va \in Va
    /\ x.st \in {"iova", "mapped", "iova_free"} => x.kind # "user"
    /\ HasIova(x) =>
         /\ x.kind \in {"prepare", "prealloc", "pin"}
         /\ x.h \in o /\ x.lv \in Levels
         /\ x.kind = "pin" => x.st = "owned" /\ x.iova \in Bases(UserFrames, x.lv)
         /\ x.kind # "pin" => x.iova \in Bases(PoolFrames, x.lv)
BufInv == \A b \in Bufs : BufOK(buf[b], open)

\* The bits tell which AFUs are open, and a session ends with its last handle.
OpenInv ==
    /\ ase_open_afus_by_tok_idx = {AfuOf[g] : g \in open}
    /\ session # "up" => open = {}

\* An entry is a page as long as it is pinned, until a count wraps around and
\* the assertion ends the application.
GoodPt(T, F) ==
    /\ T \in [F -> Entries]
    /\ \A f \in F : /\ T[f].kind = "page" <=> T[f].ref > 0
                    /\ T[f].kind = "page" => T[f].va \in Va
TabInv == err = "none" => /\ \A a \in Afus : GoodPt(ase_iova_pt_root[a], IovaFrames)
                          /\ GoodPt(ase_pa_pt_root, VaFrames)

BaseInv == TypeOK /\ BufInv /\ TabInv

\* Two buffers have disjoint IOVAs while neither has been given back, and on
\* one handle until they are unpinned.
AllocInv ==
    /\ \A b \in Bufs : Pooled(buf[b]) /\ buf[b].st # "iova_free" =>
           [a |-> buf[b].iova, lv |-> buf[b].lv] \in iova_mem_alloc
    /\ \A b, c \in Bufs :
           /\ b # c /\ Pooled(buf[b]) /\ Pooled(buf[c])
           /\ \/ buf[b].st # "iova_free" /\ buf[c].st # "iova_free"
              \/ buf[b].h = buf[c].h /\ OneHandlePerAfu
           => Pages(buf[b].iova, buf[b].lv) \cap Pages(buf[c].iova, buf[c].lv) = {}

\* What callers pin themselves overlaps only if it is the same.
PinInv ==
    \A b, c \in Bufs :
        /\ HasIova(buf[b]) /\ HasIova(buf[c])
        /\ buf[b].kind = "pin" /\ buf[c].kind = "pin"
        /\ AfuOf[buf[b].h] = AfuOf[buf[c].h]
        /\ Pages(buf[b].iova, buf[b].lv) \cap Pages(buf[c].iova, buf[c].lv) # {}
        => buf[b] = buf[c]

\* The buffers that pin an entry.
PinsOf(x, a, f, i, lv) ==
    /\ x.st \in {"owned", "iova_free"} /\ x.kind # "user"
    /\ AfuOf[x.h] = a /\ x.iova = <<f, i>> /\ x.lv = lv
PinSet(B, a, f, i, lv) == {b \in Bufs : PinsOf(B[b], a, f, i, lv)}

\* An entry agrees with the sets of buffers that pin the frame and its pages.
EntryOK(e, B, a, f) ==
    /\ e.ref = Cardinality(PinSet(B, a, f, {}, 1))
    /\ e.kind = "page" <=> e.ref > 0
    /\ \A i \in Idx : /\ e.leaf[i].ref = Cardinality(PinSet(B, a, f, i, 0))
                      /\ e.leaf[i].ref > 0 => e.leaf[i].terminal

CountInv == session # "closing" =>
    \A a \in Afus, f \in IovaFrames : EntryOK(ase_iova_pt_root[a][f], buf, a, f)

\* An entry leads to the memory of the buffer that owns its IOVA.
VaInv == session # "closing" => \A b \in Bufs :
    /\ Pinned(b) /\ (buf[b].st = "owned" \/ OneHandlePerAfu)
    => IF buf[b].lv = 1 THEN Entry(buf[b]).va = buf[b].va
       ELSE Entry(buf[b]).leaf[buf[b].iova[2]].va = buf[b].va

MemInv == BaseInv /\ OpenInv /\ AllocInv /\ PinInv /\ CountInv /\ VaInv

\* The simulated physical addresses lead to the addresses they were made from.
PageVa(e, f) == e.kind = "page" => /\ e.va \in VaFrames \X AtsIdx
                                   /\ Complement(e.va[1]) = f
LeafVa(l, f, i) == l.ref > 0 => l.va \in Va /\ Pa(l.va, 0) = <<f, i>>
PaVaInv == \A f \in VaFrames :
    /\ PageVa(ase_pa_pt_root[f], f)
    /\ err = "none" => \A i \in Idx : LeafVa(ase_pa_pt_root[f].leaf[i], f, i)

\* Memory is mapped as long as a buffer has it.  The library's own buffers and
\* the caller's regions are apart; a caller's region is not unmapped while a
\* buffer is made of it.
Own(x)     == Mapped(x) /\ x.kind \in {"prepare", "user"}
Guest(x)   == Mapped(x) /\ x.kind \in {"prealloc", "pin"}
Leaving(x) == x.st \in {"unpinned", "hooked"}
Pins(x)    == x.st \in {"owned", "iova_free"} /\ x.kind # "user"
PagesOf(x) == Pages(x.va, x.lv)
HostOf(x, u) == /\ u.kind = "user" /\ u.st = "owned"
                /\ u.va = x.va /\ u.lv = x.lv
MapOK(B, V) ==
    /\ \A b \in Bufs : Mapped(B[b]) =>
         /\ B[b].va \in Bases(VaFrames, B[b].lv)
         /\ Own(B[b]) \/ (Guest(B[b]) /\ ~Leaving(B[b]))
         /\ \A p \in PagesOf(B[b]) : V[p] # "none"
    /\ \A b, c \in Bufs : b # c /\ Own(B[b]) /\ Own(B[c]) =>
         PagesOf(B[b]) \cap PagesOf(B[c]) = {}
    /\ \A b \in Bufs : Guest(B[b]) => \E u \in Bufs : HostOf(B[b], B[u])

\* A watcher's page is mapped and no buffer that is being unmapped has it: a
\* pinned buffer does, unless its handle was closed meanwhile.
InUse(p, B, V) == /\ p \in Va /\ V[p] # "none"
                  /\ \A b \in Bufs : Leaving(B[b]) => p \notin PagesOf(B[b])
Holder(p, B)   == \E c \in Bufs : Pins(B[c]) /\ p \in PagesOf(B[c])
MapInv ==
    /\ MapOK(buf, vm)
    /\ ase_pt_lock \in Watchers =>
         /\ InUse(acc.va, buf, vm) /\ session # "down"
         /\ session = "up" /\ "user" \in Kinds => Holder(acc.va, buf)
    /\ \A f \in VaFrames : ase_pa_pt_root[f] = NoEntry

\* A handle that is closed during an access is not opened again to unmap the
\* memory: there is one handle, or handles stay open, or callers have no
\* memory of their own in use.
Steady == \/ "user" \notin Kinds
          \/ MaxOpens = 0
          \/ \A g, h \in Handles : g = h

-----------------------------------------------------------------------------

(* Page table entries. *)

LEMMA RefArith ==
    ASSUME NEW n \in 0 .. RefMod - 1
    PROVE  /\ (n + 1) % RefMod \in 0 .. RefMod - 1
           /\ n # RefMod - 1 => (n + 1) % RefMod = n + 1
           /\ (n - 1) % RefMod \in 0 .. RefMod - 1
           /\ n # 0 => (n - 1) % RefMod = n - 1
  <1>1. n \in 0 .. 255 /\ RefMod = 256
    BY DEF RefMod
  <1>2. (n + 1) % 256 \in 0 .. 255
    BY ONLY <1>1
  <1>3. n # 255 => (n + 1) % 256 = n + 1
    BY ONLY <1>1
  <1>4. (n - 1) % 256 \in 0 .. 255
    BY ONLY <1>1
  <1>5. ASSUME n # 0
        PROVE  (n - 1) % 256 = n - 1
    <2>1. n \in 1 .. 255
      BY ONLY <1>1, <1>5
    <2> QED
      BY ONLY <2>1
  <1> QED
    BY ONLY <1>1, <1>2, <1>3, <1>4, <1>5

LEMMA EmptyFacts ==
    /\ NoLeaf \in Leaves /\ NoLeaves \in [Idx -> Leaves] /\ NoEntry \in Entries
    /\ \A i \in Idx : NoLeaves[i] = NoLeaf
    /\ NoEntry.ref = 0 /\ NoEntry.kind = "none" /\ NoEntry.leaf = NoLeaves
    /\ NoLeaf.ref = 0 /\ NoLeaf.terminal = FALSE
  <1>1. NoLeaf \in Leaves /\ NoLeaf.ref = 0 /\ NoLeaf.terminal = FALSE
    BY DEF NoLeaf, Leaves, RefMod
  <1>2. NoLeaves \in [Idx -> Leaves] /\ \A i \in Idx : NoLeaves[i] = NoLeaf
    BY <1>1 DEF NoLeaves
  <1>3. /\ NoEntry \in Entries
        /\ NoEntry.ref = 0 /\ NoEntry.kind = "none" /\ NoEntry.leaf = NoLeaves
    BY <1>2 DEF NoEntry, Entries, RefMod
  <1> QED
    BY <1>1, <1>2, <1>3

\* A 4KB page is pinned.
LEMMA PinSmallFacts ==
    ASSUME NEW F, NEW T \in [F -> Entries], NEW f \in F, NEW i \in Idx,
           NEW v \in Va, NEW U, U = PinSmall(T, <<f, i>>, v)
    PROVE  /\ U \in [F -> Entries]
           /\ \A g \in F : g # f => U[g] = T[g]
           /\ U[f].kind = "table" /\ U[f].ref = T[f].ref
           /\ U[f].leaf[i].terminal /\ U[f].leaf[i].va = v
           /\ U[f].leaf[i].ref = (T[f].leaf[i].ref + 1) % RefMod
           /\ \A k \in Idx : k # i => U[f].leaf[k] = T[f].leaf[k]
  <1>1. PICK e \in Entries : e = T[f]
    OBVIOUS
  <1>2. PICK l \in Leaves : l = e.leaf[i]
    BY DEF Entries
  <1>3. PICK m : m = [terminal |-> TRUE, ref |-> (l.ref + 1) % RefMod, va |-> v]
    OBVIOUS
  <1>4. m \in Leaves /\ m.terminal = TRUE /\ m.va = v /\ m.ref = (l.ref + 1) % RefMod
    BY <1>3, RefArith DEF Leaves
  <1>5. PICK e1 : e1 = [e EXCEPT !.kind = "table"]
    OBVIOUS
  <1>6. e1 \in Entries /\ e1.kind = "table" /\ e1.ref = e.ref /\ e1.leaf = e.leaf
    BY <1>5 DEF Entries
  <1>7. PICK L : L = [e.leaf EXCEPT ![i] = m]
    OBVIOUS
  <1>8. /\ L \in [Idx -> Leaves] /\ L[i] = m
        /\ \A k \in Idx : k # i => L[k] = e.leaf[k]
    BY <1>4, <1>7 DEF Entries
  <1>9. PICK e2 : e2 = [e1 EXCEPT !.leaf = L]
    OBVIOUS
  <1>10. e2 \in Entries /\ e2.kind = "table" /\ e2.ref = e.ref /\ e2.leaf = L
    BY <1>6, <1>8, <1>9 DEF Entries
  <1>11. U = [T EXCEPT ![f] = e2]
    BY <1>1, <1>2, <1>3, <1>5, <1>6, <1>7, <1>9, ZenonT(60) DEF PinSmall
  <1>12. U[f] = e2 /\ U \in [F -> Entries] /\ \A g \in F : g # f => U[g] = T[g]
    BY <1>10, <1>11
  <1> QED
    BY <1>1, <1>2, <1>4, <1>8, <1>10, <1>12

\* A huge page is pinned.
LEMMA PinHugeFacts ==
    ASSUME NEW F, NEW T \in [F -> Entries], NEW f \in F, NEW i,
           NEW v \in Va, NEW U, U = PinHuge(T, <<f, i>>, v)
    PROVE  /\ U \in [F -> Entries]
           /\ \A g \in F : g # f => U[g] = T[g]
           /\ U[f].kind = "page" /\ U[f].ref = (T[f].ref + 1) % RefMod
           /\ U[f].va = v /\ U[f].leaf = NoLeaves
  <1>1. PICK e \in Entries : e = T[f]
    OBVIOUS
  <1>2. PICK m : m = [kind |-> "page", ref |-> (e.ref + 1) % RefMod,
                      va |-> v, leaf |-> NoLeaves]
    OBVIOUS
  <1>3. e.ref \in 0 .. RefMod - 1
    BY DEF Entries
  <1>4. /\ m \in Entries /\ m.kind = "page" /\ m.ref = (e.ref + 1) % RefMod
        /\ m.va = v /\ m.leaf = NoLeaves
    BY <1>2, <1>3, RefArith, EmptyFacts DEF Entries
  <1>5. U = [T EXCEPT ![f] = m]
    BY <1>1, <1>2 DEF PinHuge
  <1> QED
    BY <1>1, <1>4, <1>5

\* A pin of the 4KB page of a leaf is dropped.
LEMMA DropLeafFacts ==
    ASSUME NEW l \in Leaves
    PROVE  /\ DropLeaf(l) \in Leaves
           /\ DropLeaf(l).ref = (l.ref - 1) % RefMod
           /\ DropLeaf(l).terminal = l.terminal
           /\ l.ref # 1 => DropLeaf(l).va = l.va
  <1>1. PICK n \in 0 .. RefMod - 1 : n = (l.ref - 1) % RefMod
    BY RefArith DEF Leaves
  <1>2. PICK w \in Va \cup {NoVa} : w = IF l.ref = 1 THEN NoVa ELSE l.va
    BY DEF Leaves
  <1>3. PICK m : m = [l EXCEPT !.ref = n]
    OBVIOUS
  <1>4. m \in Leaves /\ m.ref = n /\ m.terminal = l.terminal /\ m.va = l.va
    BY <1>3 DEF Leaves
  <1>5. DropLeaf(l) = [m EXCEPT !.va = w]
    BY <1>1, <1>2, <1>3, <1>4 DEF DropLeaf
  <1> QED
    BY <1>1, <1>2, <1>4, <1>5 DEF Leaves

LEMMA UnpinSmallFacts ==
    ASSUME NEW F, NEW T \in [F -> Entries], NEW f \in F, NEW i \in Idx,
           NEW U, U = UnpinSmall(T, <<f, i>>)
    PROVE  /\ U \in [F -> Entries]
           /\ \A g \in F : g # f => U[g] = T[g]
           /\ U[f].kind = T[f].kind /\ U[f].ref = T[f].ref /\ U[f].va = T[f].va
           /\ U[f].leaf[i].terminal = T[f].leaf[i].terminal
           /\ U[f].leaf[i].ref = (T[f].leaf[i].ref - 1) % RefMod
           /\ T[f].leaf[i].ref # 1 => U[f].leaf[i].va = T[f].leaf[i].va
           /\ \A k \in Idx : k # i => U[f].leaf[k] = T[f].leaf[k]
  <1>1. PICK e \in Entries : e = T[f]
    OBVIOUS
  <1>2. PICK l \in Leaves : l = e.leaf[i]
    BY DEF Entries
  <1>3. PICK m \in Leaves :
            /\ m = DropLeaf(l)
            /\ m.ref = (l.ref - 1) % RefMod /\ m.terminal = l.terminal
            /\ l.ref # 1 => m.va = l.va
    BY DropLeafFacts
  <1>4. PICK L : L = [e.leaf EXCEPT ![i] = m]
    OBVIOUS
  <1>5. /\ L \in [Idx -> Leaves] /\ L[i] = m
        /\ \A k \in Idx : k # i => L[k] = e.leaf[k]
    BY <1>3, <1>4 DEF Entries
  <1>6. PICK e2 : e2 = [e EXCEPT !.leaf = L]
    OBVIOUS
  <1>7. /\ e2 \in Entries /\ e2.kind = e.kind /\ e2.ref = e.ref /\ e2.va = e.va
        /\ e2.leaf = L
    BY <1>5, <1>6 DEF Entries
  <1>8. U = [T EXCEPT ![f] = e2]
    BY <1>1, <1>2, <1>3, <1>4, <1>6 DEF UnpinSmall
  <1>9. U[f] = e2 /\ U \in [F -> Entries] /\ \A g \in F : g # f => U[g] = T[g]
    BY <1>7, <1>8
  <1> QED
    BY <1>1, <1>2, <1>3, <1>5, <1>7, <1>9

LEMMA UnpinHugeFacts ==
    ASSUME NEW F, NEW T \in [F -> Entries], NEW f \in F, NEW i,
           T[f].ref > 0,
           NEW U, U = UnpinHuge(T, <<f, i>>)
    PROVE  /\ U \in [F -> Entries]
           /\ \A g \in F : g # f => U[g] = T[g]
           /\ U[f].ref = T[f].ref - 1
           /\ T[f].ref = 1 => U[f] = NoEntry
           /\ T[f].ref # 1 => /\ U[f].kind = T[f].kind /\ U[f].va = T[f].va
                              /\ U[f].leaf = T[f].leaf
  <1>1. PICK e \in Entries : e = T[f]
    OBVIOUS
  <1>2. e.ref \in 1 .. RefMod - 1
    BY <1>1 DEF Entries, RefMod
  <1>3. PICK m : m = IF e.ref = 1 THEN NoEntry ELSE [e EXCEPT !.ref = e.ref - 1]
    OBVIOUS
  <1>4. U = [T EXCEPT ![f] = m]
    BY <1>1, <1>3 DEF UnpinHuge
  <1>5. CASE e.ref = 1
    BY <1>1, <1>3, <1>4, <1>5, EmptyFacts
  <1>6. CASE e.ref # 1
    <2>1. PICK n \in 0 .. RefMod - 1 : n = e.ref - 1
      BY <1>2 DEF RefMod
    <2>2. m = [e EXCEPT !.ref = n]
      BY <2>1, <1>3, <1>6
    <2>3. /\ m \in Entries /\ m.ref = n /\ m.kind = e.kind /\ m.va = e.va
          /\ m.leaf = e.leaf
      BY <2>2 DEF Entries
    <2> QED
      BY <1>1, <1>4, <1>6, <2>1, <2>3
  <1> QED
    BY <1>5, <1>6

\* Pinning and unpinning keep a table good.
LEMMA PtPinGood ==
    ASSUME NEW F, NEW T, GoodPt(T, F), NEW a \in F \X Idx, NEW v \in Va,
           NEW lv \in {0, 1}, ~PinRefused(T, a, lv)
    PROVE  /\ PtPin(T, a, lv, v) \in [F -> Entries]
           /\ ~PinOverflows(T, a, lv) => GoodPt(PtPin(T, a, lv, v), F)
  <1>1. PICK f \in F, i \in Idx : a = <<f, i>>
    OBVIOUS
  <1>2. PICK U : U = PtPin(T, a, lv, v)
    OBVIOUS
  <1>3. T \in [F -> Entries] /\ T[f].ref \in 0 .. RefMod - 1
    BY DEF GoodPt, Entries
  <1>4. CASE lv = 0
    <2>1. U = PinSmall(T, <<f, i>>, v)
      BY <1>1, <1>2, <1>4 DEF PtPin
    <2>2. /\ U \in [F -> Entries] /\ \A g \in F : g # f => U[g] = T[g]
          /\ U[f].kind = "table" /\ U[f].ref = T[f].ref
      BY <1>3, <2>1, PinSmallFacts
    <2>3. T[f].kind # "page"
      BY <1>1, <1>4 DEF PinRefused
    <2> QED
      BY <1>2, <2>2, <2>3 DEF GoodPt
  <1>5. CASE lv = 1
    <2>1. U = PinHuge(T, <<f, i>>, v)
      BY <1>1, <1>2, <1>5 DEF PtPin
    <2>2. /\ U \in [F -> Entries] /\ \A g \in F : g # f => U[g] = T[g]
          /\ U[f].kind = "page" /\ U[f].ref = (T[f].ref + 1) % RefMod
          /\ U[f].va = v
      BY <1>3, <2>1, PinHugeFacts
    <2>3. ~PinOverflows(T, a, lv) => U[f].ref > 0
      <3>1. PinOverflows(T, a, lv) <=> T[f].ref = RefMod - 1
        BY <1>1, <1>5 DEF PinOverflows, RefAt
      <3> QED
        BY <3>1, <1>3, <2>2, RefArith DEF RefMod
    <2> QED
      BY <1>2, <2>2, <2>3 DEF GoodPt
  <1> QED
    BY <1>4, <1>5

LEMMA PtUnpinGood ==
    ASSUME NEW F, NEW T, GoodPt(T, F), NEW a \in F \X Idx, NEW lv \in {0, 1}
    PROVE  GoodPt(PtUnpin(T, a, lv), F)
  <1>1. PICK f \in F, i \in Idx : a = <<f, i>>
    OBVIOUS
  <1>2. PICK U : U = PtUnpin(T, a, lv)
    OBVIOUS
  <1>3. T \in [F -> Entries] /\ T[f].ref \in 0 .. RefMod - 1
    BY DEF GoodPt, Entries
  <1>4. CASE UnpinMissing(T, a, lv)
    BY <1>4 DEF PtUnpin
  <1>5. CASE ~UnpinMissing(T, a, lv) /\ lv = 0
    <2>1. U = UnpinSmall(T, <<f, i>>)
      BY <1>1, <1>2, <1>5 DEF PtUnpin
    <2>2. /\ U \in [F -> Entries] /\ \A g \in F : g # f => U[g] = T[g]
          /\ U[f].kind = T[f].kind /\ U[f].ref = T[f].ref /\ U[f].va = T[f].va
      BY <1>3, <2>1, UnpinSmallFacts
    <2> QED
      BY <1>2, <2>2 DEF GoodPt
  <1>6. CASE ~UnpinMissing(T, a, lv) /\ lv = 1
    <2>1. U = UnpinHuge(T, <<f, i>>)
      BY <1>1, <1>2, <1>6 DEF PtUnpin
    <2>2. T[f].kind = "page" /\ T[f].ref > 0
      BY <1>1, <1>6 DEF UnpinMissing, GoodPt
    <2>3. /\ U \in [F -> Entries] /\ \A g \in F : g # f => U[g] = T[g]
          /\ U[f].ref = T[f].ref - 1
          /\ T[f].ref = 1 => U[f] = NoEntry
          /\ T[f].ref # 1 => U[f].kind = T[f].kind /\ U[f].va = T[f].va
      BY <1>3, <2>1, <2>2, UnpinHugeFacts
    <2>4. U[f].kind = "page" <=> U[f].ref > 0
      BY <1>3, <2>2, <2>3, EmptyFacts
    <2>5. U[f].kind = "page" => U[f].va \in Va
      BY <1>3, <2>2, <2>3, EmptyFacts DEF GoodPt
    <2> QED
      BY <1>2, <2>3, <2>4, <2>5 DEF GoodPt
  <1> QED
    BY <1>4, <1>5, <1>6

LEMMA InvalGood ==
    ASSUME NEW T, GoodPt(T, VaFrames), NEW P, NEW U, U = InvalRange(T, P)
    PROVE  /\ GoodPt(U, VaFrames)
           /\ \A f \in VaFrames :
                /\ U[f].kind = T[f].kind /\ U[f].ref = T[f].ref
                /\ U[f].va = T[f].va
                /\ \A i \in Idx :
                     U[f].leaf[i] = IF <<f, i>> \in P /\ ~UnpinMissing(T, <<f, i>>, 0)
                                    THEN DropLeaf(T[f].leaf[i]) ELSE T[f].leaf[i]
  <1>1. ASSUME NEW f \in VaFrames
        PROVE  /\ U[f] \in Entries
               /\ U[f].kind = T[f].kind /\ U[f].ref = T[f].ref
               /\ U[f].va = T[f].va
               /\ \A i \in Idx :
                     U[f].leaf[i] = IF <<f, i>> \in P /\ ~UnpinMissing(T, <<f, i>>, 0)
                                    THEN DropLeaf(T[f].leaf[i]) ELSE T[f].leaf[i]
    <2>1. PICK e \in Entries : e = T[f]
      BY DEF GoodPt
    <2>2. PICK L : L = [i \in Idx |->
                          IF <<f, i>> \in P /\ ~UnpinMissing(T, <<f, i>>, 0)
                          THEN DropLeaf(T[f].leaf[i]) ELSE T[f].leaf[i]]
      OBVIOUS
    <2>3. L \in [Idx -> Leaves]
      <3>1. \A i \in Idx : T[f].leaf[i] \in Leaves
        BY <2>1 DEF Entries
      <3>2. \A i \in Idx : DropLeaf(T[f].leaf[i]) \in Leaves
        BY <3>1, DropLeafFacts
      <3> QED
        BY <2>2, <3>1, <3>2
    <2>4. U[f] = [e EXCEPT !.leaf = L]
      BY <2>1, <2>2 DEF InvalRange
    <2>5. /\ U[f] \in Entries /\ U[f].kind = e.kind /\ U[f].ref = e.ref
          /\ U[f].va = e.va /\ U[f].leaf = L
      BY <2>3, <2>4 DEF Entries
    <2>6. \A i \in Idx : L[i] = IF <<f, i>> \in P /\ ~UnpinMissing(T, <<f, i>>, 0)
                                THEN DropLeaf(T[f].leaf[i]) ELSE T[f].leaf[i]
      BY <2>2
    <2> QED
      BY <2>1, <2>5, <2>6
  <1>2. U \in [VaFrames -> Entries]
    <2>1. U = [f \in VaFrames |-> U[f]]
      BY DEF InvalRange
    <2> QED
      BY <1>1, <2>1
  <1> QED
    BY <1>1, <1>2 DEF GoodPt

LEMMA EmptyGood == \A F : GoodPt(EmptyPt(F), F) /\ \A f \in F : EmptyPt(F)[f] = NoEntry
  BY EmptyFacts DEF GoodPt, EmptyPt

\* ase_host_memory_gen_xor_mask gives an address of the same width.
LEMMA PaType ==
    ASSUME NEW v \in Va, NEW lv \in {0, 1}
    PROVE  /\ Pa(v, lv) \in VaFrames \X Idx
           /\ Complement(v[1]) \in VaFrames /\ Complement(Complement(v[1])) = v[1]
  <1>1. PICK n \in Nat : n = Cardinality(VaFrames)
    BY FrameAssumption, FS_CardinalityType
  <1>2. VaFrames = 0 .. n - 1 /\ v[1] \in VaFrames /\ v[2] \in Idx
    BY <1>1, FrameAssumption DEF Va
  <1>3. PICK w \in 0 .. n - 1 : w = v[1]
    BY <1>2
  <1>4. Complement(v[1]) \in VaFrames /\ Complement(Complement(v[1])) = v[1]
    <2>1. Complement(w) = n - 1 - w /\ Complement(n - 1 - w) = n - 1 - (n - 1 - w)
      BY <1>1 DEF Complement
    <2> QED
      BY <1>2, <1>3, <2>1
  <1>5. (IF lv = 0 THEN IdxBits \ v[2] ELSE v[2]) \in Idx
    BY <1>2 DEF Idx
  <1> QED
    BY <1>4, <1>5 DEF Pa

\* An address that is found leads to a page of memory.
LEMMA LookupType ==
    ASSUME NEW F, NEW T, GoodPt(T, F), NEW a \in F \X Idx, Found(T, a)
    PROVE  Lookup(T, a) \in Va \cup {NoVa}
  <1>1. PICK f \in F, i \in Idx : a = <<f, i>>
    OBVIOUS
  <1>2. PICK e \in Entries : e = T[f]
    BY DEF GoodPt
  <1>3. e.kind = "page" => e.va \in Va
    BY <1>2 DEF GoodPt
  <1>4. e.leaf[i].va \in Va \cup {NoVa}
    BY DEF Entries, Leaves
  <1>5. CASE e.kind = "page"
    <2>1. <<e.va[1], e.va[2] \cup i>> \in Va
      BY <1>3, <1>5 DEF Va, Idx
    <2> QED
      BY <1>1, <1>2, <1>5, <2>1 DEF Lookup
  <1>6. CASE e.kind # "page"
    BY <1>1, <1>2, <1>4, <1>6 DEF Lookup
  <1> QED
    BY <1>5, <1>6

-----------------------------------------------------------------------------
(* What the calls do to a buffer. *)

AccRecs == [by : {"none", "iova", "pa_small", "pa_huge"},
            va : Va \cup {NoVa}, want : Va \cup {NoVa}]
BufRecs == [st : States, kind : Kinds \cup {"none"}, h : Handles \cup {"none"},
            iova : (IovaFrames \X Idx) \cup {NoVa}, lv : {0, 1}, va : Va \cup {NoVa}]

LEMMA NoBufFacts == NoBuf \in BufRecs /\ NoBuf.st = "none" /\ ~HasIova(NoBuf)
  BY DEF NoBuf, BufRecs, States, HasIova

LEMMA BasesType ==
    ASSUME NEW F, NEW lv, NEW a \in Bases(F, lv)
    PROVE  a \in F \X Idx /\ (lv = 1 => a[2] = {})
  BY DEF Bases, Idx

\* A new state of a buffer, the rest of it kept.
LEMMA SetSt ==
    ASSUME NEW x \in BufRecs, NEW s \in States, NEW y, y = [x EXCEPT !.st = s]
    PROVE  /\ y \in BufRecs /\ y.st = s /\ y.kind = x.kind /\ y.h = x.h
           /\ y.iova = x.iova /\ y.lv = x.lv /\ y.va = x.va
  BY DEF BufRecs

LEMMA AllocIovaShape ==
    ASSUME TypeOK, NEW h \in Handles, NEW b \in Bufs,
           NEW k \in Kinds \cap {"prepare", "prealloc"}, NEW lv \in Levels,
           NEW a \in PoolFrames \X Idx, AllocIova(h, b, k, lv, a)
    PROVE  \E y \in BufRecs :
             /\ buf' = [buf EXCEPT ![b] = y]
             /\ y.st = "iova" /\ y.kind = k /\ y.h = h /\ y.iova = a /\ y.lv = lv
             /\ y.va = NoVa /\ a \in Bases(PoolFrames, lv) /\ h \in open
  <1>1. PICK y : y = [st |-> "iova", kind |-> k, h |-> h, iova |-> a, lv |-> lv,
                      va |-> NoVa]
    OBVIOUS
  <1>2. a \in IovaFrames \X Idx /\ lv \in {0, 1}
    BY KindAssumption DEF IovaFrames
  <1>3. /\ y \in BufRecs /\ y.st = "iova" /\ y.kind = k /\ y.h = h /\ y.iova = a
        /\ y.lv = lv /\ y.va = NoVa
    BY <1>1, <1>2 DEF BufRecs, States
  <1>4. /\ buf' = [buf EXCEPT ![b] = y]
        /\ a \in Bases(PoolFrames, lv) /\ h \in open
    BY <1>1 DEF AllocIova, Idle
  <1> QED
    BY <1>3, <1>4

LEMMA GetMemoryShape ==
    ASSUME TypeOK, NEW b \in Bufs, NEW v \in Va, GetMemory(b, v)
    PROVE  \E y \in BufRecs :
             /\ buf' = [buf EXCEPT ![b] = y] /\ buf[b].st = "iova"
             /\ y.st = "mapped" /\ y.kind = buf[b].kind /\ y.h = buf[b].h
             /\ y.iova = buf[b].iova /\ y.lv = buf[b].lv /\ y.va = v
  <1>1. PICK x \in BufRecs : x = buf[b]
    BY DEF TypeOK, BufRecs
  <1>2. PICK z : z = [x EXCEPT !.st = "mapped"]
    OBVIOUS
  <1>3. /\ z \in BufRecs /\ z.st = "mapped" /\ z.kind = x.kind /\ z.h = x.h
        /\ z.iova = x.iova /\ z.lv = x.lv
    BY <1>2, SetSt DEF States
  <1>4. PICK y : y = [z EXCEPT !.va = v]
    OBVIOUS
  <1>5. /\ y \in BufRecs /\ y.st = "mapped" /\ y.kind = x.kind /\ y.h = x.h
        /\ y.iova = x.iova /\ y.lv = x.lv /\ y.va = v
    BY <1>3, <1>4 DEF BufRecs
  <1>6. buf' = [buf EXCEPT ![b] = y] /\ buf[b].st = "iova"
    BY <1>1, <1>2, <1>4 DEF GetMemory, TypeOK
  <1> QED
    BY <1>1, <1>5, <1>6

\* A step that changes only the state of a buffer.
LEMMA StShape ==
    ASSUME TypeOK, NEW b \in Bufs, NEW s \in States,
           buf' = [buf EXCEPT ![b].st = s]
    PROVE  \E y \in BufRecs :
             /\ buf' = [buf EXCEPT ![b] = y]
             /\ y.st = s /\ y.kind = buf[b].kind /\ y.h = buf[b].h
             /\ y.iova = buf[b].iova /\ y.lv = buf[b].lv /\ y.va = buf[b].va
  <1>1. PICK x \in BufRecs : x = buf[b]
    BY DEF TypeOK, BufRecs
  <1>2. PICK y : y = [x EXCEPT !.st = s]
    OBVIOUS
  <1>3. buf' = [buf EXCEPT ![b] = [buf[b] EXCEPT !.st = s]]
    OBVIOUS
  <1>4. buf' = [buf EXCEPT ![b] = y]
    BY <1>1, <1>2, <1>3
  <1> QED
    <2>1. /\ y \in BufRecs /\ y.st = s /\ y.kind = x.kind /\ y.h = x.h
          /\ y.iova = x.iova /\ y.lv = x.lv /\ y.va = x.va
      BY <1>2, SetSt
    <2> QED
      BY <1>1, <1>4, <2>1

LEMMA UserMmapShape ==
    ASSUME TypeOK, NEW h \in Handles, NEW b \in Bufs, NEW lv \in Levels,
           NEW v \in Va, "user" \in Kinds, UserMmap(h, b, lv, v)
    PROVE  \E y \in BufRecs :
             /\ buf' = [buf EXCEPT ![b] = y]
             /\ y.st = "owned" /\ y.kind = "user" /\ y.h = h /\ y.iova = NoVa
             /\ y.lv = lv /\ y.va = v
  <1>1. PICK y : y = [st |-> "owned", kind |-> "user", h |-> h,
                      iova |-> NoVa, lv |-> lv, va |-> v]
    OBVIOUS
  <1>2. /\ y \in BufRecs /\ y.st = "owned" /\ y.kind = "user" /\ y.h = h
        /\ y.iova = NoVa /\ y.lv = lv /\ y.va = v
    BY <1>1, KindAssumption DEF BufRecs, States
  <1>3. buf' = [buf EXCEPT ![b] = y]
    BY <1>1 DEF UserMmap
  <1> QED
    BY <1>2, <1>3

\* The outcomes of a pin: of a prepared buffer, or of the caller's memory.
LEMMA PinStepShape ==
    ASSUME TypeOK, NEW b \in Bufs, PinStep(b)
    PROVE  \E y, z \in BufRecs :
             /\ PinPage(buf[b], b, y, z) /\ buf[b].st = "mapped"
             /\ y.st = "owned" /\ y.kind = buf[b].kind /\ y.h = buf[b].h
             /\ y.iova = buf[b].iova /\ y.lv = buf[b].lv /\ y.va = buf[b].va
             /\ ~HasIova(z) /\ (buf[b].kind # "prepare" => z = NoBuf)
             /\ buf[b].kind = "prepare" =>
                  /\ z.st = "unpinned" /\ z.kind = "prepare"
                  /\ z.lv = buf[b].lv /\ z.va = buf[b].va
  <1>1. PICK x \in BufRecs : x = buf[b]
    BY DEF TypeOK, BufRecs
  <1>2. PICK y : y = [x EXCEPT !.st = "owned"]
    OBVIOUS
  <1>3. PICK u : u = [x EXCEPT !.st = "unpinned"]
    OBVIOUS
  <1>4. /\ y \in BufRecs /\ y.st = "owned" /\ y.kind = x.kind /\ y.h = x.h
        /\ y.iova = x.iova /\ y.lv = x.lv /\ y.va = x.va
    BY <1>2, SetSt DEF States
  <1>5. /\ u \in BufRecs /\ u.st = "unpinned" /\ u.kind = x.kind
        /\ u.lv = x.lv /\ u.va = x.va
    BY <1>3, SetSt DEF States
  <1>6. PICK z : z = IF x.kind = "prepare" THEN u ELSE NoBuf
    OBVIOUS
  <1>7. PinPage(buf[b], b, y, z) /\ buf[b].st = "mapped"
    BY <1>1, <1>2, <1>3, <1>6, Zenon DEF PinStep
  <1>8. z \in BufRecs /\ ~HasIova(z)
    BY <1>5, <1>6, NoBufFacts DEF HasIova
  <1> QED
    BY <1>1, <1>4, <1>5, <1>6, <1>7, <1>8

LEMMA PinBufferShape ==
    ASSUME TypeOK, NEW h \in Handles, NEW b \in Bufs, NEW lv \in Levels,
           NEW a \in UserFrames \X Idx, NEW v \in Va, "pin" \in Kinds,
           PinBuffer(h, b, lv, a, v)
    PROVE  \E y \in BufRecs :
             /\ PinPage(y, b, y, NoBuf)
             /\ y.st = "owned" /\ y.kind = "pin" /\ y.h = h /\ y.iova = a
             /\ y.lv = lv /\ y.va = v
             /\ a \in Bases(UserFrames, lv) /\ h \in open /\ buf[b].st = "none"
             /\ \A c \in Bufs : /\ buf[c].kind = "pin"
                                /\ AfuOf[buf[c].h] = AfuOf[h]
                                /\ Pages(a, lv) \cap Pages(buf[c].iova, buf[c].lv) # {}
                                => buf[c] = y
  <1>1. PICK y : y = [st |-> "owned", kind |-> "pin", h |-> h, iova |-> a,
                      lv |-> lv, va |-> v]
    OBVIOUS
  <1>2. a \in IovaFrames \X Idx /\ lv \in {0, 1}
    BY KindAssumption DEF IovaFrames
  <1>3. /\ y \in BufRecs /\ y.st = "owned" /\ y.kind = "pin" /\ y.h = h
        /\ y.iova = a /\ y.lv = lv /\ y.va = v
    BY <1>1, <1>2 DEF BufRecs, States
  <1>4. /\ PinPage(y, b, y, NoBuf) /\ a \in Bases(UserFrames, lv)
        /\ h \in open /\ buf[b].st = "none"
        /\ \A c \in Bufs : /\ buf[c].kind = "pin"
                           /\ AfuOf[buf[c].h] = AfuOf[h]
                           /\ Pages(a, lv) \cap Pages(buf[c].iova, buf[c].lv) # {}
                           => buf[c] = y
    BY <1>1, Zenon DEF PinBuffer, Idle, Slot
  <1> QED
    BY <1>3, <1>4

LEMMA UnpinStepShape ==
    ASSUME TypeOK, NEW b \in Bufs, UnpinStep(b)
    PROVE  \E z \in BufRecs :
             /\ buf' = [buf EXCEPT ![b] = z] /\ buf[b].st = "iova_free"
             /\ UnpinPage(buf[b]) /\ ~HasIova(z)
             /\ buf[b].kind # "prepare" => z = NoBuf
             /\ buf[b].kind = "prepare" =>
                  /\ z.st = "unpinned" /\ z.kind = "prepare"
                  /\ z.lv = buf[b].lv /\ z.va = buf[b].va
  <1>1. PICK x \in BufRecs : x = buf[b]
    BY DEF TypeOK, BufRecs
  <1>3. PICK u : u = [x EXCEPT !.st = "unpinned"]
    OBVIOUS
  <1>5. /\ u \in BufRecs /\ u.st = "unpinned" /\ u.kind = x.kind
        /\ u.lv = x.lv /\ u.va = x.va
    BY <1>3, SetSt DEF States
  <1>6. PICK z : z = IF x.kind = "prepare" THEN u ELSE NoBuf
    OBVIOUS
  <1>7. /\ buf' = [buf EXCEPT ![b] = z] /\ buf[b].st = "iova_free"
        /\ UnpinPage(buf[b])
    BY <1>1, <1>3, <1>6 DEF UnpinStep
  <1>8. z \in BufRecs /\ ~HasIova(z)
    BY <1>5, <1>6, NoBufFacts DEF HasIova
  <1> QED
    BY <1>1, <1>5, <1>6, <1>7, <1>8

-----------------------------------------------------------------------------
(* Types, and what holds whoever shares an AFU. *)

\* One buffer changes.
LEMMA SetBuf ==
    ASSUME TypeOK, BufInv, NEW b \in Bufs, NEW y \in BufRecs,
           buf' = [buf EXCEPT ![b] = y], BufOK(y, open), UNCHANGED <<open, session>>
    PROVE  /\ buf' \in [Bufs -> BufRecs] /\ BufInv'
           /\ buf'[b] = y /\ \A c \in Bufs : c # b => buf'[c] = buf[c]
  <1>1. /\ buf' \in [Bufs -> BufRecs]
        /\ buf'[b] = y /\ \A c \in Bufs : c # b => buf'[c] = buf[c]
    BY DEF TypeOK, BufRecs
  <1>2. \A c \in Bufs : BufOK(buf'[c], open)
    BY <1>1 DEF BufInv
  <1> QED
    BY <1>1, <1>2 DEF BufInv, BufOK

\* The parts of TypeOK and TabInv.
TabType ==
    /\ ase_iova_pt_root \in [Afus -> [IovaFrames -> Entries]]
    /\ ase_pa_pt_root \in [VaFrames -> Entries]
RestType ==
    /\ vm \in [Va -> {"none", "small", "huge"}]
    /\ iova_mem_alloc \subseteq [a : PoolFrames \X Idx, lv : Levels]
    /\ ase_pt_lock \in Watchers \cup {"free", "stuck"}
    /\ acc \in AccRecs
    /\ pcie_atc_active \in BOOLEAN
    /\ session \in {"up", "closing", "down"}
    /\ open \subseteq Handles /\ opens \in 0 .. MaxOpens
    /\ ase_open_afus_by_tok_idx \subseteq Afus
    /\ err \in {"none", "assert", "segv", "abort"}

LEMMA TypeParts == TypeOK <=> buf \in [Bufs -> BufRecs] /\ TabType /\ RestType
  BY DEF TypeOK, BufRecs, TabType, RestType, AccRecs

LEMMA TypePartsNext ==
    TypeOK' <=> (buf \in [Bufs -> BufRecs])' /\ TabType' /\ RestType'
  BY DEF TypeOK, BufRecs, TabType, RestType, AccRecs

LEMMA UnpinOutcomes ==
    ASSUME NEW T, NEW a, NEW lv \in {0, 1}
    PROVE  UnpinOutcome(T, a, lv) \in {"none", "assert", "segv"}
  BY DEF UnpinOutcome

\* A buffer with an IOVA is in the page table of its AFU.
LEMMA IovaType ==
    ASSUME TypeOK, NEW x, BufOK(x, open), HasIova(x)
    PROVE  /\ x.h \in Handles /\ AfuOf[x.h] \in Afus
           /\ x.iova \in IovaFrames \X Idx /\ x.lv \in {0, 1}
           /\ x.lv = 1 => x.iova[2] = {}
  <1>1. x.h \in Handles /\ x.lv \in {0, 1}
    BY KindAssumption DEF TypeOK, BufOK
  <1>2. \/ x.iova \in Bases(UserFrames, x.lv)
        \/ x.iova \in Bases(PoolFrames, x.lv)
    BY DEF BufOK
  <1>3. x.iova \in IovaFrames \X Idx /\ (x.lv = 1 => x.iova[2] = {})
    BY <1>2, BasesType DEF IovaFrames
  <1> QED
    BY <1>1, <1>3, AfuAssumption

\* ase_host_memory_pin.
LEMMA PinPageTab ==
    ASSUME BaseInv, err = "none", NEW b \in Bufs, NEW x \in BufRecs,
           BufOK(x, open), HasIova(x), Mapped(x),
           NEW y, NEW z, PinPage(x, b, y, z), UNCHANGED ase_pa_pt_root
    PROVE  /\ TabType' /\ TabInv' /\ err' \in {"none", "assert"}
           /\ buf' = buf \/ buf' = [buf EXCEPT ![b] = y] \/ buf' = [buf EXCEPT ![b] = z]
           /\ ase_pt_lock' \in {ase_pt_lock, "stuck"}
  <1>1. /\ AfuOf[x.h] \in Afus /\ x.iova \in IovaFrames \X Idx /\ x.lv \in {0, 1}
        /\ x.va \in Va
    BY IovaType DEF BaseInv, BufOK
  <1>2. PICK T : T = ase_iova_pt_root[AfuOf[x.h]]
    OBVIOUS
  <1>3. GoodPt(T, IovaFrames) /\ TabType
    BY <1>1, <1>2, TypeParts DEF BaseInv, TabInv
  <1>4. CASE UNCHANGED <<ase_iova_pt_root, err>>
    BY <1>4 DEF PinPage, TabType, BaseInv, TypeOK, TabInv
  <1>5. CASE /\ ~PinRefused(T, x.iova, x.lv)
             /\ err' = IF PinOverflows(T, x.iova, x.lv) THEN "assert" ELSE err
             /\ ase_iova_pt_root' = [ase_iova_pt_root EXCEPT
                    ![AfuOf[x.h]] = PtPin(T, x.iova, x.lv, x.va)]
             /\ buf' = [buf EXCEPT ![b] = y]
             /\ UNCHANGED ase_pt_lock
    <2>1. PICK U : U = PtPin(T, x.iova, x.lv, x.va)
      OBVIOUS
    <2>2. /\ U \in [IovaFrames -> Entries]
          /\ ~PinOverflows(T, x.iova, x.lv) => GoodPt(U, IovaFrames)
      BY <1>1, <1>3, <1>5, <2>1, PtPinGood
    <2>3. ase_iova_pt_root' = [ase_iova_pt_root EXCEPT ![AfuOf[x.h]] = U]
      BY <1>5, <2>1
    <2>4. TabType'
      BY <1>3, <2>2, <2>3 DEF TabType
    <2>5. err' = "none" => \A a \in Afus : GoodPt(ase_iova_pt_root'[a], IovaFrames)
      BY <1>1, <1>3, <1>5, <2>2, <2>3 DEF BaseInv, TabInv, TabType
    <2>6. TabInv'
      BY <2>5 DEF BaseInv, TabInv, GoodPt
    <2> QED
      BY <1>5, <2>4, <2>6
  <1> QED
    BY <1>2, <1>4, <1>5 DEF PinPage

\* ase_host_memory_unpin.
LEMMA UnpinPageTab ==
    ASSUME BaseInv, err = "none", NEW x \in BufRecs, BufOK(x, open), HasIova(x),
           UnpinPage(x), UNCHANGED ase_pa_pt_root
    PROVE  TabType' /\ TabInv' /\ err' \in {"none", "assert", "segv"}
  <1>1. AfuOf[x.h] \in Afus /\ x.iova \in IovaFrames \X Idx /\ x.lv \in {0, 1}
    BY IovaType DEF BaseInv
  <1>2. PICK T : T = ase_iova_pt_root[AfuOf[x.h]]
    OBVIOUS
  <1>3. GoodPt(T, IovaFrames) /\ TabType
    BY <1>1, <1>2, TypeParts DEF BaseInv, TabInv
  <1>4. PICK U : U = PtUnpin(T, x.iova, x.lv)
    OBVIOUS
  <1>5. GoodPt(U, IovaFrames)
    BY <1>1, <1>3, <1>4, PtUnpinGood
  <1>6. ase_iova_pt_root' = [ase_iova_pt_root EXCEPT ![AfuOf[x.h]] = U]
    BY <1>2, <1>4 DEF UnpinPage
  <1>7. TabType'
    BY <1>3, <1>5, <1>6 DEF TabType, GoodPt
  <1>8. \A a \in Afus : GoodPt(ase_iova_pt_root'[a], IovaFrames)
    BY <1>1, <1>3, <1>5, <1>6 DEF BaseInv, TabInv, TabType
  <1>9. TabInv'
    BY <1>8 DEF BaseInv, TabInv, GoodPt
  <1> QED
    BY <1>1, <1>7, <1>9, UnpinOutcomes DEF UnpinPage

\* Every call and step keeps the types, the places of the buffers and the
\* agreement of kind and count of an entry.
LEMMA BaseStep ==
    ASSUME BaseInv, [Next]_vars
    PROVE  BaseInv'
  <1> USE DEF tables, life
  <1>t. TypeOK /\ BufInv /\ TabInv /\ TabType /\ RestType
    BY TypeParts DEF BaseInv
  <1>b. \A b \in Bufs : buf[b] \in BufRecs /\ BufOK(buf[b], open)
    BY <1>t, TypeParts DEF BufInv
  <1>1. ASSUME (buf \in [Bufs -> BufRecs])', TabType', RestType', BufInv', TabInv'
        PROVE  BaseInv'
    BY <1>1, TypePartsNext DEF BaseInv
  <1>2. ASSUME UNCHANGED <<tables, err>>
        PROVE  TabType' /\ TabInv'
    BY <1>2, <1>t DEF TabType, TabInv
  <1>3. ASSUME UNCHANGED <<buf, open, session>>
        PROVE  (buf \in [Bufs -> BufRecs])' /\ BufInv'
    BY <1>3, <1>t, TypeParts DEF BufInv
  <1>4. ASSUME NEW h \in Handles, NEW b \in Bufs,
               NEW k \in Kinds \cap {"prepare", "prealloc"}, NEW lv \in Levels,
               NEW a \in PoolFrames \X Idx, AllocIova(h, b, k, lv, a)
        PROVE  BaseInv'
    <2>1. PICK y \in BufRecs :
             /\ buf' = [buf EXCEPT ![b] = y]
             /\ y.st = "iova" /\ y.kind = k /\ y.h = h /\ y.iova = a /\ y.lv = lv
             /\ a \in Bases(PoolFrames, lv) /\ h \in open
      BY <1>4, <1>t, AllocIovaShape
    <2>2. BufOK(y, open)
      BY <2>1 DEF BufOK, Mapped
    <2>3. (buf \in [Bufs -> BufRecs])' /\ BufInv'
      BY <1>t, <2>1, <2>2, <1>4, SetBuf DEF AllocIova
    <2>4. RestType'
      BY <1>4, <1>t DEF AllocIova, RestType
    <2>5. TabType' /\ TabInv'
      BY <1>2, <1>4 DEF AllocIova
    <2> QED
      BY <1>1, <2>3, <2>4, <2>5
  <1>5. ASSUME NEW b \in Bufs, NEW v \in Va, GetMemory(b, v)
        PROVE  BaseInv'
    <2>1. PICK y \in BufRecs :
             /\ buf' = [buf EXCEPT ![b] = y] /\ buf[b].st = "iova"
             /\ y.st = "mapped" /\ y.kind = buf[b].kind /\ y.h = buf[b].h
             /\ y.iova = buf[b].iova /\ y.lv = buf[b].lv /\ y.va = v
      BY <1>5, <1>t, GetMemoryShape
    <2>2. BufOK(y, open)
      BY <2>1, <1>5, <1>b DEF BufOK, HasIova, GetMemory
    <2>3. (buf \in [Bufs -> BufRecs])' /\ BufInv'
      BY <1>t, <2>1, <2>2, <1>5, SetBuf DEF GetMemory
    <2>4. vm' \in [Va -> {"none", "small", "huge"}]
      BY <1>5, <1>t, KindAssumption DEF GetMemory, MmapNew, RestType
    <2>5. RestType'
      BY <1>5, <1>t, <2>4 DEF GetMemory, RestType
    <2>6. TabType' /\ TabInv'
      BY <1>2, <1>5 DEF GetMemory
    <2> QED
      BY <1>1, <2>3, <2>5, <2>6
  <1>6. ASSUME NEW b \in Bufs, GetMemoryFails(b) \/ Munmap(b)
        PROVE  BaseInv'
    <2>1. buf' = [buf EXCEPT ![b] = NoBuf] /\ UNCHANGED <<open, session>>
      BY <1>6 DEF GetMemoryFails, Munmap
    <2>2. BufOK(NoBuf, open)
      BY NoBufFacts DEF BufOK, Mapped
    <2>3. (buf \in [Bufs -> BufRecs])' /\ BufInv'
      BY <1>t, <2>1, <2>2, NoBufFacts, SetBuf
    <2>4. RestType'
      BY <1>6, <1>t DEF GetMemoryFails, Munmap, RestType
    <2>5. TabType' /\ TabInv'
      BY <1>2, <1>6 DEF GetMemoryFails, Munmap
    <2> QED
      BY <1>1, <2>3, <2>4, <2>5
  <1>7. ASSUME NEW b \in Bufs, PinStep(b)
        PROVE  BaseInv'
    <2>1. PICK y, z \in BufRecs :
             /\ PinPage(buf[b], b, y, z) /\ buf[b].st = "mapped"
             /\ y.st = "owned" /\ y.kind = buf[b].kind /\ y.h = buf[b].h
             /\ y.iova = buf[b].iova /\ y.lv = buf[b].lv /\ y.va = buf[b].va
             /\ ~HasIova(z) /\ (buf[b].kind # "prepare" => z = NoBuf)
             /\ buf[b].kind = "prepare" => z.st = "unpinned" /\ z.va = buf[b].va
      BY <1>7, <1>t, PinStepShape
    <2>2. Mapped(buf[b]) /\ buf[b].va \in Va
      BY <2>1, <1>b DEF Mapped, BufOK
    <2>3. HasIova(buf[b])
      BY <2>1, <1>b DEF HasIova, BufOK
    <2>4. BufOK(y, open)
      BY <2>1, <2>2, <2>3, <1>b DEF BufOK, HasIova
    <2>5. BufOK(z, open)
      BY <2>1, <2>2, NoBufFacts DEF BufOK, HasIova, Mapped
    <2>6. err = "none" /\ UNCHANGED <<vm, iova_mem_alloc, ase_pa_pt_root, acc,
                                     pcie_atc_active, life>>
      BY <1>7 DEF PinStep, Locked, Alive
    <2>7. /\ TabType' /\ TabInv' /\ err' \in {"none", "assert"}
          /\ buf' = buf \/ buf' = [buf EXCEPT ![b] = y] \/ buf' = [buf EXCEPT ![b] = z]
          /\ ase_pt_lock' \in {ase_pt_lock, "stuck"}
      BY <1>b, <2>1, <2>2, <2>3, <2>6, PinPageTab
    <2>8. (buf \in [Bufs -> BufRecs])' /\ BufInv'
      BY <1>t, <1>3, <2>4, <2>5, <2>6, <2>7, SetBuf
    <2>9. RestType'
      BY <1>t, <2>6, <2>7 DEF RestType
    <2> QED
      BY <1>1, <2>7, <2>8, <2>9
  <1>8. ASSUME NEW h \in Handles, NEW b \in Bufs, NEW lv \in Levels,
               NEW a \in UserFrames \X Idx, NEW v \in Va, "pin" \in Kinds,
               PinBuffer(h, b, lv, a, v)
        PROVE  BaseInv'
    <2>1. PICK y \in BufRecs :
             /\ PinPage(y, b, y, NoBuf)
             /\ y.st = "owned" /\ y.kind = "pin" /\ y.h = h /\ y.iova = a
             /\ y.lv = lv /\ y.va = v
             /\ a \in Bases(UserFrames, lv) /\ h \in open
      BY <1>8, <1>t, PinBufferShape
    <2>2. Mapped(y) /\ HasIova(y) /\ BufOK(y, open)
      BY <2>1 DEF BufOK, HasIova, Mapped
    <2>3. BufOK(NoBuf, open)
      BY NoBufFacts DEF BufOK, Mapped
    <2>6. err = "none" /\ UNCHANGED <<vm, iova_mem_alloc, ase_pa_pt_root, acc,
                                     pcie_atc_active, life>>
      BY <1>8 DEF PinBuffer, Locked, Alive
    <2>7. /\ TabType' /\ TabInv' /\ err' \in {"none", "assert"}
          /\ buf' = buf \/ buf' = [buf EXCEPT ![b] = y] \/ buf' = [buf EXCEPT ![b] = NoBuf]
          /\ ase_pt_lock' \in {ase_pt_lock, "stuck"}
      BY <2>1, <2>2, <2>6, PinPageTab
    <2>8. (buf \in [Bufs -> BufRecs])' /\ BufInv'
      BY <1>t, <1>3, <2>2, <2>3, <2>6, <2>7, NoBufFacts, SetBuf
    <2>9. RestType'
      BY <1>t, <2>6, <2>7 DEF RestType
    <2> QED
      BY <1>1, <2>7, <2>8, <2>9
  <1>9. ASSUME NEW b \in Bufs, UnpinStep(b)
        PROVE  BaseInv'
    <2>1. PICK z \in BufRecs :
             /\ buf' = [buf EXCEPT ![b] = z] /\ buf[b].st = "iova_free"
             /\ UnpinPage(buf[b]) /\ ~HasIova(z)
             /\ buf[b].kind # "prepare" => z = NoBuf
             /\ buf[b].kind = "prepare" =>
                  /\ z.st = "unpinned" /\ z.kind = "prepare" /\ z.va = buf[b].va
      BY <1>9, <1>t, UnpinStepShape
    <2>2. HasIova(buf[b]) /\ buf[b].va \in Va
      BY <2>1, <1>b DEF HasIova, BufOK, Mapped
    <2>3. BufOK(z, open)
      BY <2>1, <2>2, NoBufFacts DEF BufOK, HasIova, Mapped
    <2>4. err = "none" /\ UNCHANGED <<vm, iova_mem_alloc, ase_pa_pt_root, ase_pt_lock,
                                     acc, pcie_atc_active, life>>
      BY <1>9 DEF UnpinStep, Locked, Alive
    <2>5. TabType' /\ TabInv' /\ err' \in {"none", "assert", "segv"}
      BY <1>b, <2>1, <2>2, <2>4, UnpinPageTab
    <2>6. (buf \in [Bufs -> BufRecs])' /\ BufInv'
      BY <1>t, <2>1, <2>3, <2>4, SetBuf
    <2>7. RestType'
      BY <1>t, <2>4, <2>5 DEF RestType
    <2> QED
      BY <1>1, <2>5, <2>6, <2>7
  <1>10. ASSUME NEW b \in Bufs, UnpinBuffer(b)
         PROVE  BaseInv'
    <2>1. /\ buf' = [buf EXCEPT ![b] = NoBuf] /\ UnpinPage(buf[b])
          /\ err = "none" /\ UNCHANGED <<vm, iova_mem_alloc, ase_pa_pt_root,
                                         ase_pt_lock, acc, pcie_atc_active, life>>
      BY <1>10 DEF UnpinBuffer, Locked, Alive
    <2>2. HasIova(buf[b])
      BY <1>10 DEF HasIova, UnpinBuffer
    <2>3. BufOK(NoBuf, open)
      BY NoBufFacts DEF BufOK, Mapped
    <2>5. TabType' /\ TabInv' /\ err' \in {"none", "assert", "segv"}
      BY <1>b, <2>1, <2>2, UnpinPageTab
    <2>6. (buf \in [Bufs -> BufRecs])' /\ BufInv'
      BY <1>t, <2>1, <2>3, NoBufFacts, SetBuf
    <2>7. RestType'
      BY <1>t, <2>1, <2>5 DEF RestType
    <2> QED
      BY <1>1, <2>5, <2>6, <2>7
  <1>11. ASSUME NEW b \in Bufs, FreeIova(b) \/ UserMunmap(b) \/ MunmapHook(b),
                TabType', TabInv', err' \in {"none", "assert", "segv"}
         PROVE  BaseInv'
    <2>1. PICK s \in {"iova_free", "unpinned", "hooked"} :
            /\ buf' = [buf EXCEPT ![b].st = s] /\ Mapped(buf[b])
            /\ s = "iova_free" => buf[b].kind \in {"prepare", "prealloc"} /\ HasIova(buf[b])
      BY <1>11 DEF FreeIova, UserMunmap, MunmapHook, Mapped, HasIova
    <2>2. PICK y \in BufRecs :
             /\ buf' = [buf EXCEPT ![b] = y]
             /\ y.st = s /\ y.kind = buf[b].kind /\ y.h = buf[b].h
             /\ y.iova = buf[b].iova /\ y.lv = buf[b].lv /\ y.va = buf[b].va
      <3>1. s \in States
        BY DEF States
      <3> QED
        BY <2>1, <3>1, <1>t, StShape
    <2>3. BufOK(y, open)
      BY <2>1, <2>2, <1>b DEF BufOK, HasIova
    <2>4. UNCHANGED <<open, session>>
      BY <1>11 DEF FreeIova, UserMunmap, MunmapHook
    <2>5. (buf \in [Bufs -> BufRecs])' /\ BufInv'
      BY <1>t, <2>2, <2>3, <2>4, SetBuf
    <2>6. RestType'
      BY <1>t, <1>11 DEF RestType, FreeIova, UserMunmap, MunmapHook
    <2> QED
      BY <1>1, <1>11, <2>5, <2>6
  <1>12. ASSUME NEW b \in Bufs, FreeIova(b) \/ UserMunmap(b)
         PROVE  BaseInv'
    <2>1. UNCHANGED <<tables, err>> /\ err = "none"
      BY <1>12 DEF FreeIova, UserMunmap, Locked, Alive
    <2> QED
      BY <1>2, <1>11, <1>12, <2>1
  <1>13. ASSUME NEW b \in Bufs, MunmapHook(b)
         PROVE  BaseInv'
    <2>1. err = "none" /\ UNCHANGED ase_iova_pt_root /\ Mapped(buf[b])
      BY <1>13 DEF MunmapHook, Alive, Mapped
    <2>2. PICK T : T = ase_pa_pt_root
      OBVIOUS
    <2>3. GoodPt(T, VaFrames) /\ \A a \in Afus : GoodPt(ase_iova_pt_root[a], IovaFrames)
      BY <1>t, <2>1, <2>2 DEF TabInv
    <2>4. /\ GoodPt(ase_pa_pt_root', VaFrames)
          /\ err' \in {"none", "assert", "segv"}
      <3>1. CASE UNCHANGED <<ase_pa_pt_root, err>>
        BY <2>1, <2>2, <2>3, <3>1
      <3>2. CASE /\ ase_pa_pt_root' = PtUnpin(T, Pa(buf[b].va, 1), 1)
                 /\ err' = UnpinOutcome(T, Pa(buf[b].va, 1), 1)
        <4>1. Pa(buf[b].va, 1) \in VaFrames \X Idx
          BY <1>b, <2>1, PaType DEF BufOK
        <4> QED
          BY <2>3, <3>2, <4>1, PtUnpinGood, UnpinOutcomes
      <3>3. ASSUME NEW Ps, ase_pa_pt_root' = InvalRange(T, Ps),
                   \E p \in Ps : err' = UnpinOutcome(T, p, 0)
            PROVE  /\ GoodPt(ase_pa_pt_root', VaFrames)
                   /\ err' \in {"none", "assert", "segv"}
        <4>1. GoodPt(ase_pa_pt_root', VaFrames)
          BY <2>3, <3>3, InvalGood
        <4>2. err' \in {"none", "assert", "segv"}
          BY <3>3, UnpinOutcomes
        <4> QED
          BY <4>1, <4>2
      <3> QED
        BY <1>13, <2>2, <3>1, <3>2, <3>3 DEF MunmapHook
    <2>5. TabType' /\ TabInv'
      BY <1>t, <2>1, <2>3, <2>4 DEF TabType, TabInv, GoodPt
    <2> QED
      BY <1>11, <1>13, <2>4, <2>5
  <1>14. ASSUME NEW v \in VaFrames \X AtsIdx, Translate(v)
         PROVE  BaseInv'
    <2>1. v \in Va /\ err = "none"
      BY <1>14, KindAssumption DEF Va, Idx, Translate, Locked, Alive
    <2>2. PICK lv \in {0, 1} : lv = IF vm[v] = "huge" THEN 1 ELSE 0
      OBVIOUS
    <2>3. PICK T, a : T = ase_pa_pt_root /\ a = Pa(v, lv)
      OBVIOUS
    <2>4. GoodPt(T, VaFrames) /\ a \in VaFrames \X Idx
      BY <1>t, <2>1, <2>3, PaType DEF TabInv
    <2>5. TabType' /\ TabInv'
      <3>1. CASE UNCHANGED ase_pa_pt_root
        BY <1>14, <1>t, <2>1, <3>1 DEF Translate, TabType, TabInv
      <3>2. CASE /\ ~PinRefused(T, a, lv) /\ ~Found(T, a) /\ UNCHANGED err
                 /\ ase_pa_pt_root' = PtPin(T, a, lv, v)
        <4>1. ~PinOverflows(T, a, lv)
          <5>0. PICK f \in VaFrames, i \in Idx : a = <<f, i>>
            BY <2>4
          <5>1. PICK e \in Entries : e = T[f]
            BY <2>4 DEF GoodPt
          <5>2. PICK l \in Leaves : l = e.leaf[i]
            BY DEF Entries
          <5>3. e.ref \in Nat /\ l.ref \in Nat
            BY DEF Entries, Leaves
          <5>4. e.kind # "page" /\ ~(l.ref > 0)
            BY <5>0, <5>1, <5>2, <3>2 DEF Found
          <5>5. e.ref = 0 /\ l.ref = 0
            BY <2>4, <5>1, <5>3, <5>4 DEF GoodPt
          <5> QED
            BY <5>0, <5>1, <5>2, <5>5 DEF PinOverflows, RefAt, RefMod
        <4>2. GoodPt(ase_pa_pt_root', VaFrames)
          BY <2>1, <2>4, <3>2, <4>1, PtPinGood
        <4> QED
          BY <1>14, <1>t, <2>1, <4>2 DEF Translate, TabType, TabInv, GoodPt
      <3> QED
        BY <1>14, <2>2, <2>3, <3>1, <3>2 DEF Translate
    <2>6. (buf \in [Bufs -> BufRecs])' /\ BufInv'
      BY <1>3, <1>14 DEF Translate
    <2>7. RestType'
      BY <1>14, <1>t DEF Translate, RestType
    <2> QED
      BY <1>1, <2>5, <2>6, <2>7
  <1>15. ASSUME NEW w \in Watchers, NEW b \in Bufs, NEW j \in Idx, AccessIova(w, b, j)
         PROVE  BaseInv'
    <2>1. err = "none" /\ HasIova(buf[b])
      BY <1>15 DEF AccessIova, Locked, Alive, HasIova
    <2>2. PICK T : T = ase_iova_pt_root[AfuOf[buf[b].h]]
      OBVIOUS
    <2>3. PICK a : a = <<buf[b].iova[1], buf[b].iova[2] \cup j>>
      OBVIOUS
    <2>4. T \in [IovaFrames -> Entries] /\ a \in IovaFrames \X Idx
      BY <1>b, <1>t, <2>1, <2>2, <2>3, IovaType DEF TabType, Idx
    <2>5. GoodPt(T, IovaFrames)
      BY <1>b, <1>t, <2>1, <2>2, IovaType DEF TabInv
    <2>6. Found(T, a) => Lookup(T, a) \in Va \cup {NoVa}
      BY <2>4, <2>5, LookupType
    <2>7. /\ acc' \in {acc, [by |-> "iova", va |-> Lookup(T, a),
                             want |-> IF buf[b].st = "owned"
                                      THEN <<buf[b].va[1], buf[b].va[2] \cup j>>
                                      ELSE Lookup(T, a)]}
          /\ ~Found(T, a) => acc' = acc
          /\ err' \in {err, "abort"} /\ (err' = "none" => err' = err)
          /\ ase_pt_lock' \in Watchers \cup {"free"}
          /\ UNCHANGED <<buf, vm, iova_mem_alloc, tables, pcie_atc_active, life>>
      BY <1>15, <2>2, <2>3, Zenon DEF AccessIova
    <2>8. buf[b].st = "owned" => <<buf[b].va[1], buf[b].va[2] \cup j>> \in Va
      BY <1>b, <1>15 DEF BufOK, Mapped, Va, Idx
    <2>9. acc' \in AccRecs
      <3>1. CASE acc' = acc
        BY <1>t, <3>1 DEF RestType
      <3>2. CASE Found(T, a) /\ acc' # acc
        <4>1. PICK l \in Va \cup {NoVa} : l = Lookup(T, a)
          BY <2>6, <3>2
        <4>2. PICK m \in Va \cup {NoVa} :
                 m = IF buf[b].st = "owned"
                     THEN <<buf[b].va[1], buf[b].va[2] \cup j>> ELSE Lookup(T, a)
          BY <2>8, <4>1
        <4>3. acc' = [by |-> "iova", va |-> l, want |-> m]
          BY <2>7, <3>2, <4>1, <4>2
        <4> QED
          BY <4>3 DEF AccRecs
      <3> QED
        BY <2>7, <3>1, <3>2
    <2>10. RestType'
      BY <1>t, <2>1, <2>7, <2>9 DEF RestType
    <2>11. TabType' /\ TabInv'
      BY <1>t, <2>1, <2>7 DEF TabType, TabInv
    <2> QED
      BY <1>1, <1>3, <2>7, <2>10, <2>11
  <1>16. ASSUME NEW w \in Watchers, NEW v \in Va, NEW lv \in {0, 1}, AccessPa(w, v, lv)
         PROVE  BaseInv'
    <2>1. PICK T, a : T = ase_pa_pt_root /\ a = Pa(v, lv)
      OBVIOUS
    <2>2. /\ err = "none" /\ Found(T, a)
          /\ acc' = [by |-> IF lv = 0 THEN "pa_small" ELSE "pa_huge",
                     va |-> Lookup(T, a), want |-> v]
      BY <1>16, <2>1 DEF AccessPa, Locked, Alive
    <2>3. GoodPt(T, VaFrames) /\ a \in VaFrames \X Idx
      BY <1>t, <2>1, <2>2, PaType DEF TabInv
    <2>4. Lookup(T, a) \in Va \cup {NoVa}
      BY <2>2, <2>3, LookupType
    <2>5. acc' \in AccRecs
      BY <2>2, <2>4 DEF AccRecs
    <2>6. RestType'
      BY <1>t, <1>16, <2>5 DEF RestType, AccessPa
    <2> QED
      BY <1>1, <1>2, <1>3, <1>16, <2>6 DEF AccessPa
  <1>17. ASSUME NEW h \in Handles, NEW b \in Bufs, NEW lv \in Levels, NEW v \in Va,
                "user" \in Kinds, UserMmap(h, b, lv, v)
         PROVE  BaseInv'
    <2>1. PICK y \in BufRecs :
             /\ buf' = [buf EXCEPT ![b] = y]
             /\ y.st = "owned" /\ y.kind = "user" /\ y.va = v
      BY <1>17, <1>t, UserMmapShape
    <2>2. BufOK(y, open)
      BY <2>1 DEF BufOK, HasIova
    <2>3. (buf \in [Bufs -> BufRecs])' /\ BufInv'
      BY <1>t, <2>1, <2>2, <1>17, SetBuf DEF UserMmap
    <2>4. vm' \in [Va -> {"none", "small", "huge"}]
      BY <1>17, <1>t, KindAssumption DEF UserMmap, MmapNew, RestType
    <2>5. RestType'
      BY <1>17, <1>t, <2>4 DEF UserMmap, RestType
    <2>6. TabType' /\ TabInv'
      BY <1>2, <1>17 DEF UserMmap
    <2> QED
      BY <1>1, <2>3, <2>5, <2>6
  <1>18. ASSUME NEW h \in Handles, UnpinBadLength(h)
         PROVE  BaseInv'
    <2>1. RestType'
      BY <1>18, <1>t DEF UnpinBadLength, RestType
    <2> QED
      BY <1>1, <1>2, <1>3, <1>18, <2>1 DEF UnpinBadLength
  <1>19. CASE FinishAccess \/ CancelWatcher
    <2>1. ase_pt_lock' \in {"free", "stuck"} /\ acc' = NoAcc
      BY <1>19 DEF FinishAccess, CancelWatcher
    <2>2. UNCHANGED <<buf, vm, iova_mem_alloc, tables, pcie_atc_active, life, err>>
      BY <1>19 DEF FinishAccess, CancelWatcher
    <2>3. RestType'
      BY <1>t, <2>1, <2>2 DEF RestType, NoAcc, AccRecs
    <2> QED
      BY <1>1, <1>2, <1>3, <2>2, <2>3
  <1>20. ASSUME NEW h \in Handles, Close(h)
         PROVE  BaseInv'
    <2>1. /\ open' = open \ {h} /\ err = "none"
          /\ session' \in {session, "closing"}
          /\ ase_open_afus_by_tok_idx' = ase_open_afus_by_tok_idx \ {AfuOf[h]}
          /\ buf' = [b \in Bufs |-> IF buf[b].h = h /\ buf[b].kind # "user"
                                    THEN NoBuf ELSE buf[b]]
          /\ UNCHANGED <<vm, iova_mem_alloc, ase_pa_pt_root, ase_pt_lock, acc,
                         pcie_atc_active, opens, err>>
      BY <1>20 DEF Close
    <2>2. (buf \in [Bufs -> BufRecs])'
      BY <1>b, <2>1, NoBufFacts
    <2>3. ASSUME NEW b \in Bufs
          PROVE  BufOK(buf'[b], open')
      <3>1. CASE buf'[b] = NoBuf
        BY <3>1, NoBufFacts DEF BufOK, Mapped
      <3>2. CASE buf'[b] = buf[b] /\ (buf[b].h # h \/ buf[b].kind = "user")
        BY <1>b, <2>1, <3>2 DEF BufOK, HasIova
      <3> QED
        BY <2>1, <3>1, <3>2
    <2>4. BufInv'
      BY <2>1, <2>3 DEF BufInv, BufOK
    <2>5. RestType'
      BY <1>t, <2>1 DEF RestType
    <2>6. CASE UNCHANGED ase_iova_pt_root
      BY <1>1, <1>2, <2>1, <2>2, <2>4, <2>5, <2>6
    <2>7. CASE ase_iova_pt_root' = [ase_iova_pt_root EXCEPT
                                      ![AfuOf[h]] = EmptyPt(IovaFrames)]
      <3>1. PICK U : U = EmptyPt(IovaFrames)
        OBVIOUS
      <3>2. GoodPt(U, IovaFrames) /\ U \in [IovaFrames -> Entries]
        BY <3>1, EmptyGood DEF GoodPt
      <3>3. ase_iova_pt_root' = [ase_iova_pt_root EXCEPT ![AfuOf[h]] = U]
        BY <3>1, <2>7
      <3>4. TabType'
        BY <1>t, <2>1, <3>2, <3>3 DEF TabType
      <3>5. \A a \in Afus : GoodPt(ase_iova_pt_root'[a], IovaFrames)
        BY <1>t, <2>1, <3>2, <3>3 DEF TabType, TabInv
      <3>6. TabInv'
        BY <1>t, <2>1, <3>5 DEF TabInv, GoodPt
      <3> QED
        BY <1>1, <2>2, <2>4, <2>5, <3>4, <3>6
    <2> QED
      BY <1>20, <2>6, <2>7 DEF Close
  <1>21. CASE Terminate
    <2>1. GoodPt(EmptyPt(IovaFrames), IovaFrames) /\ GoodPt(EmptyPt(VaFrames), VaFrames)
      BY EmptyGood
    <2>2. TabType' /\ TabInv'
      BY <1>21, <2>1 DEF Terminate, TabType, TabInv, GoodPt
    <2>3. (buf \in [Bufs -> BufRecs])' /\ BufInv'
      BY <1>21, <1>t, TypeParts DEF Terminate, BufInv
    <2>4. RestType'
      BY <1>21, <1>t DEF Terminate, RestType
    <2> QED
      BY <1>1, <2>2, <2>3, <2>4
  <1>22. ASSUME NEW h \in Handles, Open(h)
         PROVE  BaseInv'
    <2>1. TabType' /\ TabInv'
      BY <1>2, <1>22 DEF Open
    <2>2. (buf \in [Bufs -> BufRecs])'
      BY <1>22, <1>t, TypeParts DEF Open
    <2>3. \A b \in Bufs : BufOK(buf[b], open')
      BY <1>22, <1>b DEF Open, BufOK
    <2>4. BufInv'
      BY <1>22, <2>3 DEF Open, BufInv, BufOK
    <2>5. RestType'
      BY <1>22, <1>t, KindAssumption, AfuAssumption DEF Open, RestType
    <2> QED
      BY <1>1, <2>1, <2>2, <2>4, <2>5
  <1>23. CASE UNCHANGED vars
    <2>1. RestType'
      BY <1>23, <1>t DEF vars, RestType
    <2> QED
      BY <1>1, <1>2, <1>3, <1>23, <2>1 DEF vars
  <1>24. ASSUME NEW h \in Handles, NEW b \in Bufs, Api(h, b)
         PROVE  BaseInv'
    BY <1>4, <1>8, <1>17, <1>23, <1>24 DEF Api, AllocIovaFails
  <1>25. CASE Watch
    BY <1>14, <1>15, <1>16, <1>19, <1>25 DEF Watch
  <1>26. CASE Life
    BY <1>18, <1>19, <1>20, <1>21, <1>22, <1>26 DEF Life
  <1> QED
    BY <1>5, <1>6, <1>7, <1>9, <1>10, <1>12, <1>13, <1>23, <1>24, <1>25, <1>26
    DEF Next

LEMMA BaseInit == Init => BaseInv
  <1> SUFFICES ASSUME Init
               PROVE  BaseInv
    OBVIOUS
  <1>1. GoodPt(EmptyPt(IovaFrames), IovaFrames) /\ GoodPt(EmptyPt(VaFrames), VaFrames)
    BY EmptyGood
  <1>2. TabType /\ TabInv
    BY <1>1 DEF Init, TabType, TabInv, GoodPt
  <1>3. buf \in [Bufs -> BufRecs] /\ \A b \in Bufs : BufOK(buf[b], open)
    BY NoBufFacts DEF Init, BufOK, Mapped
  <1>4. RestType
    <2>1. acc \in AccRecs
      BY DEF Init, NoAcc, AccRecs
    <2>2. opens \in 0 .. MaxOpens
      BY KindAssumption DEF Init
    <2>3. vm \in [Va -> {"none", "small", "huge"}]
      BY DEF Init
    <2> QED
      BY <2>1, <2>2, <2>3, AfuAssumption DEF Init, RestType
  <1> QED
    BY <1>2, <1>3, <1>4, TypeParts DEF BaseInv, BufInv, Init

\* The types hold whatever the calls do and whoever shares an AFU: in
\* particular no reference count of a page table leaves its 8 bits (the
\* assertions stop it at 255 and at 0).
THEOREM TypeInvariance == Spec => []TypeOK
  <1>1. BaseInv => TypeOK
    BY DEF BaseInv
  <1> QED
    BY <1>1, BaseInit, BaseStep, PTL DEF Spec

LEMMA BaseInvariance == Spec => []BaseInv
  BY BaseInit, BaseStep, PTL DEF Spec

-----------------------------------------------------------------------------
(* Translations. *)

\* Every step enters a translation at most once: it is looked up first, and the
\* count of a page is the one reference it has.
LEMMA PaStep ==
    ASSUME BaseInv, PaPinnedOnce, [Next]_vars
    PROVE  PaPinnedOnce'
  <1> USE DEF tables, life
  <1>1. ASSUME UNCHANGED ase_pa_pt_root, err = "none" \/ UNCHANGED err
        PROVE  PaPinnedOnce'
    BY <1>1 DEF PaPinnedOnce
  <1>2. ASSUME NEW b \in Bufs, MunmapHook(b)
        PROVE  PaPinnedOnce'
    <2>1. err = "none" /\ Mapped(buf[b])
      BY <1>2 DEF MunmapHook, Alive, Mapped
    <2>2. PICK T : T = ase_pa_pt_root
      OBVIOUS
    <2>3. PICK U : U = ase_pa_pt_root'
      OBVIOUS
    <2>4. GoodPt(T, VaFrames) /\ buf[b].va \in Va
      BY <2>1, <2>2 DEF BaseInv, TabInv, BufInv, BufOK
    <2>5. \A f \in VaFrames : T[f].ref <= 1 /\ \A i \in Idx : T[f].leaf[i].ref <= 1
      BY <2>1, <2>2 DEF PaPinnedOnce
    <2>6. \A f \in VaFrames : /\ T[f] \in Entries /\ T[f].ref \in Nat
                              /\ \A i \in Idx : T[f].leaf[i] \in Leaves /\ T[f].leaf[i].ref \in Nat
      BY <2>4 DEF GoodPt, Entries, Leaves
    <2>7. CASE UNCHANGED <<ase_pa_pt_root, err>>
      BY <1>1, <2>1, <2>7
    <2>8. CASE U = PtUnpin(T, Pa(buf[b].va, 1), 1)
      <3>1. PICK f \in VaFrames, i \in Idx : Pa(buf[b].va, 1) = <<f, i>>
        BY <2>4, PaType
      <3>2. CASE U = T
        BY <1>1, <2>1, <2>2, <2>3, <3>2
      <3>3. CASE T[f].kind = "page" /\ U = UnpinHuge(T, <<f, i>>)
        <4>1. T[f].ref = 1
          BY <2>4, <2>5, <2>6, <3>3 DEF GoodPt
        <4>2. U[f] = NoEntry /\ \A g \in VaFrames : g # f => U[g] = T[g]
          <5>1. T \in [VaFrames -> Entries] /\ T[f].ref > 0
            BY <2>4, <4>1 DEF GoodPt
          <5> QED
            BY <5>1, <3>3, <4>1, UnpinHugeFacts
        <4>3. \A g \in VaFrames : U[g].ref <= 1 /\ \A k \in Idx : U[g].leaf[k].ref <= 1
          BY <2>5, <4>2, EmptyFacts
        <4> QED
          BY <2>3, <4>3 DEF PaPinnedOnce
      <3> QED
        BY <2>8, <3>1, <3>2, <3>3 DEF PtUnpin, UnpinMissing
    <2>9. ASSUME NEW Ps, U = InvalRange(T, Ps),
                 err' = "none" => \A q \in Ps : UnpinOutcome(T, q, 0) = "none"
          PROVE  PaPinnedOnce'
      <3> SUFFICES ASSUME err' = "none", NEW f \in VaFrames
                   PROVE  U[f].ref <= 1 /\ \A i \in Idx : U[f].leaf[i].ref <= 1
        BY <2>3 DEF PaPinnedOnce
      <3>1. U[f].ref = T[f].ref
        BY <2>4, <2>9, InvalGood
      <3>2. ASSUME NEW i \in Idx
            PROVE  U[f].leaf[i].ref <= 1
        <4>1. U[f].leaf[i] = IF <<f, i>> \in Ps /\ ~UnpinMissing(T, <<f, i>>, 0)
                             THEN DropLeaf(T[f].leaf[i]) ELSE T[f].leaf[i]
          BY <2>4, <2>9, InvalGood
        <4>2. CASE <<f, i>> \in Ps /\ ~UnpinMissing(T, <<f, i>>, 0)
          <5>1. UnpinOutcome(T, <<f, i>>, 0) = "none"
            BY <2>9, <4>2
          <5>2. ~UnpinUnderflows(T, <<f, i>>, 0) /\ ~UnpinFaults(T, <<f, i>>, 0)
            BY <5>1 DEF UnpinOutcome
          <5>3. T[f].leaf[i].ref # 0
            BY <4>2, <5>2 DEF UnpinUnderflows, RefAt
          <5>4. T[f].leaf[i].ref = 1
            BY <2>5, <2>6, <5>3
          <5>5. U[f].leaf[i].ref = (T[f].leaf[i].ref - 1) % RefMod
            BY <2>6, <4>1, <4>2, DropLeafFacts
          <5> QED
            BY <5>4, <5>5 DEF RefMod
        <4> QED
          BY <2>5, <4>1, <4>2
      <3> QED
        BY <2>5, <3>1, <3>2
    <2> QED
      BY <1>2, <2>2, <2>3, <2>7, <2>8, <2>9 DEF MunmapHook
  <1>3. ASSUME NEW v \in VaFrames \X AtsIdx, Translate(v)
        PROVE  PaPinnedOnce'
    <2>1. v \in Va /\ err = "none"
      BY <1>3, KindAssumption DEF Va, Idx, Translate, Locked, Alive
    <2>2. PICK lv \in {0, 1} : lv = IF vm[v] = "huge" THEN 1 ELSE 0
      OBVIOUS
    <2>3. PICK T, a : T = ase_pa_pt_root /\ a = Pa(v, lv)
      OBVIOUS
    <2>4. GoodPt(T, VaFrames) /\ T \in [VaFrames -> Entries]
      BY <2>1, <2>3 DEF BaseInv, TabInv, GoodPt
    <2>5. PICK f \in VaFrames, i \in Idx : a = <<f, i>>
      BY <2>1, <2>3, PaType
    <2>6. CASE UNCHANGED ase_pa_pt_root
      BY <1>1, <2>1, <2>6
    <2>7. CASE ~Found(T, a) /\ ase_pa_pt_root' = PtPin(T, a, lv, v)
      <3>1. \A g \in VaFrames : T[g].ref <= 1 /\ \A k \in Idx : T[g].leaf[k].ref <= 1
        BY <2>1, <2>3 DEF PaPinnedOnce
      <3>2. T[f].ref = 0 /\ T[f].leaf[i].ref = 0
        <4>1. T[f].ref \in Nat /\ T[f].leaf[i].ref \in Nat
          BY <2>4 DEF Entries, Leaves
        <4> QED
          BY <4>1, <2>4, <2>5, <2>7 DEF Found, GoodPt
      <3>3. PICK U : U = PtPin(T, a, lv, v)
        OBVIOUS
      <3>4. CASE lv = 0
        <4>1. /\ \A g \in VaFrames : g # f => U[g] = T[g]
              /\ U[f].ref = T[f].ref
              /\ U[f].leaf[i].ref = (T[f].leaf[i].ref + 1) % RefMod
              /\ \A k \in Idx : k # i => U[f].leaf[k] = T[f].leaf[k]
          BY <2>1, <2>4, <2>5, <3>3, <3>4, PinSmallFacts DEF PtPin
        <4>2. U[f].leaf[i].ref = 1
          BY <3>2, <4>1 DEF RefMod
        <4>3. \A g \in VaFrames : U[g].ref <= 1 /\ \A k \in Idx : U[g].leaf[k].ref <= 1
          BY <3>1, <4>1, <4>2
        <4> QED
          BY <2>7, <3>3, <4>3 DEF PaPinnedOnce
      <3>5. CASE lv = 1
        <4>1. /\ \A g \in VaFrames : g # f => U[g] = T[g]
              /\ U[f].ref = (T[f].ref + 1) % RefMod /\ U[f].leaf = NoLeaves
          BY <2>1, <2>4, <2>5, <3>3, <3>5, PinHugeFacts DEF PtPin
        <4>2. U[f].ref = 1
          BY <3>2, <4>1 DEF RefMod
        <4>3. \A g \in VaFrames : U[g].ref <= 1 /\ \A k \in Idx : U[g].leaf[k].ref <= 1
          BY <3>1, <4>1, <4>2, EmptyFacts
        <4> QED
          BY <2>7, <3>3, <4>3 DEF PaPinnedOnce
      <3> QED
        BY <3>4, <3>5
    <2> QED
      BY <1>3, <2>2, <2>3, <2>6, <2>7 DEF Translate
  <1>4. CASE Terminate
    BY <1>4, EmptyGood, EmptyFacts DEF Terminate, PaPinnedOnce
  <1>5. ASSUME NEW h \in Handles, NEW b \in Bufs, Api(h, b)
        PROVE  PaPinnedOnce'
    BY <1>1, <1>5 DEF Api, AllocIova, AllocIovaFails, PinBuffer, UserMmap, vars,
                      Locked, Alive
  <1>6. ASSUME NEW b \in Bufs,
               \/ \E v \in Va : GetMemory(b, v)
               \/ GetMemoryFails(b) \/ PinStep(b) \/ FreeIova(b) \/ UnpinStep(b)
               \/ UnpinBuffer(b) \/ UserMunmap(b) \/ Munmap(b)
        PROVE  PaPinnedOnce'
    BY <1>1, <1>6 DEF GetMemory, GetMemoryFails, PinStep, FreeIova, UnpinStep,
                      UnpinBuffer, UserMunmap, Munmap, Locked, Alive
  <1>7. CASE Watch
    BY <1>1, <1>3, <1>7 DEF Watch, AccessIova, AccessPa, FinishAccess, Locked, Alive
  <1>8. CASE Life
    BY <1>1, <1>4, <1>8 DEF Life, Close, Open, UnpinBadLength, CancelWatcher
  <1>9. CASE UNCHANGED vars
    BY <1>1, <1>9 DEF vars
  <1> QED
    BY <1>2, <1>5, <1>6, <1>7, <1>8, <1>9 DEF Next

\* While the application runs, a translation is entered once, whatever pages
\* the AFU asks for and however munmap, translations and sessions interleave:
\* the one unpin of the munmap hook removes it (ase_host_memory_va_to_pa,
\* ase_host_memory_inval_va_range).
THEOREM TranslationsEnteredOnce == Spec => []PaPinnedOnce
  <1>1. Init => PaPinnedOnce
    BY EmptyGood, EmptyFacts DEF Init, PaPinnedOnce
  <1> QED
    BY <1>1, PaStep, BaseInvariance, PTL DEF Spec

-----------------------------------------------------------------------------
(* The IOVAs of the buffers. *)

LEMMA PagesSelf ==
    ASSUME NEW F, NEW a \in F \X Idx, NEW lv \in {0, 1}
    PROVE  a \in Pages(a, lv)
  BY DEF Pages

LEMMA SetOne ==
    ASSUME TypeOK, NEW b \in Bufs, NEW y, buf' = [buf EXCEPT ![b] = y]
    PROVE  buf'[b] = y /\ \A c \in Bufs : c # b => buf'[c] = buf[c]
  BY DEF TypeOK

\* The steps that give no buffer an IOVA and take none from the pool.
Kept(c) == HasIova(buf'[c]) =>
    /\ HasIova(buf[c]) /\ buf'[c].kind = buf[c].kind /\ buf'[c].h = buf[c].h
    /\ buf'[c].iova = buf[c].iova /\ buf'[c].lv = buf[c].lv
    /\ buf'[c].st # "iova_free" => buf[c].st # "iova_free"
    /\ buf[c].kind = "pin" => buf'[c] = buf[c]
IovasKept == UNCHANGED iova_mem_alloc /\ \A c \in Bufs : Kept(c)

LEMMA KeptOne ==
    ASSUME TypeOK, UNCHANGED iova_mem_alloc, NEW b \in Bufs, NEW y,
           buf' = [buf EXCEPT ![b] = y],
           HasIova(y) =>
             /\ HasIova(buf[b]) /\ y.kind = buf[b].kind /\ y.h = buf[b].h
             /\ y.iova = buf[b].iova /\ y.lv = buf[b].lv
             /\ y.st # "iova_free" /\ buf[b].st # "iova_free" /\ y.kind # "pin"
    PROVE  IovasKept
  BY SetOne DEF IovasKept, Kept

LEMMA KeptSame ==
    ASSUME UNCHANGED <<buf, iova_mem_alloc>>
    PROVE  IovasKept
  BY DEF IovasKept, Kept

LEMMA IovaSteps ==
    ASSUME BaseInv, [Next]_vars
    PROVE  \/ IovasKept
           \/ Terminate
           \/ \E b \in Bufs : FreeIova(b)
           \/ \E h \in Handles, b \in Bufs, k \in Kinds \cap {"prepare", "prealloc"},
                 lv \in Levels, a \in PoolFrames \X Idx : AllocIova(h, b, k, lv, a)
           \/ \E h \in Handles, b \in Bufs, lv \in Levels, a \in UserFrames \X Idx,
                 v \in Va : "pin" \in Kinds /\ PinBuffer(h, b, lv, a, v)
  <1> USE DEF tables, life
  <1>t. TypeOK /\ \A b \in Bufs : buf[b] \in BufRecs /\ BufOK(buf[b], open)
    BY TypeParts DEF BaseInv, BufInv
  <1>1. ASSUME NEW b \in Bufs, NEW v \in Va, GetMemory(b, v)
        PROVE  IovasKept
    <2>1. PICK y \in BufRecs :
             /\ buf' = [buf EXCEPT ![b] = y] /\ buf[b].st = "iova"
             /\ y.st = "mapped" /\ y.kind = buf[b].kind /\ y.h = buf[b].h
             /\ y.iova = buf[b].iova /\ y.lv = buf[b].lv /\ y.va = v
      BY <1>1, <1>t, GetMemoryShape
    <2>2. HasIova(buf[b]) /\ y.kind # "pin"
      BY <1>t, <2>1 DEF BufOK, HasIova
    <2> QED
      BY <1>1, <1>t, <2>1, <2>2, KeptOne DEF GetMemory
  <1>2. ASSUME NEW b \in Bufs, GetMemoryFails(b) \/ Munmap(b) \/ UnpinBuffer(b)
        PROVE  IovasKept
    BY <1>2, <1>t, NoBufFacts, KeptOne DEF GetMemoryFails, Munmap, UnpinBuffer
  <1>3. ASSUME NEW b \in Bufs, PinStep(b)
        PROVE  IovasKept
    <2>1. PICK y, z \in BufRecs :
             /\ PinPage(buf[b], b, y, z) /\ buf[b].st = "mapped"
             /\ y.st = "owned" /\ y.kind = buf[b].kind /\ y.h = buf[b].h
             /\ y.iova = buf[b].iova /\ y.lv = buf[b].lv /\ y.va = buf[b].va
             /\ ~HasIova(z)
      BY <1>3, <1>t, PinStepShape
    <2>2. HasIova(buf[b]) /\ y.kind # "pin"
      BY <1>t, <2>1 DEF BufOK, HasIova
    <2>3. \/ buf' = buf \/ buf' = [buf EXCEPT ![b] = y] \/ buf' = [buf EXCEPT ![b] = z]
      BY <2>1 DEF PinPage
    <2>4. UNCHANGED iova_mem_alloc
      BY <1>3 DEF PinStep
    <2>5. CASE buf' = [buf EXCEPT ![b] = y]
      BY <1>t, <2>1, <2>2, <2>4, <2>5, KeptOne
    <2>6. CASE buf' = [buf EXCEPT ![b] = z]
      BY <1>t, <2>1, <2>4, <2>6, KeptOne
    <2> QED
      BY <2>3, <2>4, <2>5, <2>6, KeptSame
  <1>4. ASSUME NEW b \in Bufs, UnpinStep(b)
        PROVE  IovasKept
    <2>1. PICK z \in BufRecs : buf' = [buf EXCEPT ![b] = z] /\ ~HasIova(z)
      BY <1>4, <1>t, UnpinStepShape
    <2> QED
      BY <1>4, <1>t, <2>1, KeptOne DEF UnpinStep
  <1>5. ASSUME NEW b \in Bufs, UserMunmap(b) \/ MunmapHook(b)
        PROVE  IovasKept
    <2>1. PICK s \in {"unpinned", "hooked"} : buf' = [buf EXCEPT ![b].st = s]
      BY <1>5 DEF UserMunmap, MunmapHook
    <2>2. s \in States
      BY DEF States
    <2>3. PICK y \in BufRecs :
             /\ buf' = [buf EXCEPT ![b] = y]
             /\ y.st = s /\ y.kind = buf[b].kind /\ y.h = buf[b].h
             /\ y.iova = buf[b].iova /\ y.lv = buf[b].lv /\ y.va = buf[b].va
      BY <1>t, <2>1, <2>2, StShape
    <2>4. ~HasIova(y)
      BY <2>3 DEF HasIova
    <2> QED
      BY <1>5, <1>t, <2>3, <2>4, KeptOne DEF UserMunmap, MunmapHook
  <1>6. ASSUME NEW h \in Handles, NEW b \in Bufs, NEW lv \in Levels, NEW v \in Va,
               "user" \in Kinds, UserMmap(h, b, lv, v)
        PROVE  IovasKept
    <2>1. PICK y \in BufRecs : buf' = [buf EXCEPT ![b] = y] /\ y.kind = "user"
      BY <1>6, <1>t, UserMmapShape
    <2>2. ~HasIova(y)
      BY <2>1 DEF HasIova
    <2> QED
      BY <1>6, <1>t, <2>1, <2>2, KeptOne DEF UserMmap
  <1>7. ASSUME NEW h \in Handles, Close(h)
        PROVE  IovasKept
    <2>1. /\ buf' = [b \in Bufs |-> IF buf[b].h = h /\ buf[b].kind # "user"
                                    THEN NoBuf ELSE buf[b]]
          /\ UNCHANGED iova_mem_alloc
      BY <1>7 DEF Close
    <2> QED
      BY <2>1, NoBufFacts DEF IovasKept, Kept
  <1>8. CASE Watch
    BY <1>8, KeptSame DEF Watch, Translate, AccessIova, AccessPa, FinishAccess
  <1>9. CASE Life
    BY <1>7, <1>9, KeptSame DEF Life, Open, UnpinBadLength, CancelWatcher
  <1>10. CASE UNCHANGED vars
    BY <1>10, KeptSame DEF vars
  <1>11. ASSUME NEW h \in Handles, NEW lv \in Levels, AllocIovaFails(h, lv)
         PROVE  IovasKept
    BY <1>11, KeptSame DEF AllocIovaFails, vars
  <1>12. CASE \E b \in Bufs :
               \/ \E v \in Va : GetMemory(b, v)
               \/ GetMemoryFails(b) \/ PinStep(b) \/ FreeIova(b) \/ UnpinStep(b)
               \/ UnpinBuffer(b) \/ UserMunmap(b) \/ MunmapHook(b) \/ Munmap(b)
    BY <1>1, <1>2, <1>3, <1>4, <1>5, <1>12
  <1>13. CASE \E h \in Handles, b \in Bufs : Api(h, b)
    <2>1. PICK h \in Handles, b \in Bufs : Api(h, b)
      BY <1>13
    <2> QED
      BY <1>6, <1>11, <2>1 DEF Api
  <1> QED
    BY <1>8, <1>9, <1>10, <1>12, <1>13 DEF Next

\* The pool never hands out what a buffer still has, and on one handle not even
\* what is given back and still pinned: its mutex is held until the unpin.
LEMMA AllocStep ==
    ASSUME BaseInv, OpenInv, AllocInv, [Next]_vars
    PROVE  AllocInv'
  <1>t. TypeOK /\ \A b \in Bufs : BufOK(buf[b], open)
    BY DEF BaseInv, BufInv
  <1>1. CASE IovasKept
    <2>1. \A c \in Bufs : Pooled(buf'[c]) =>
             /\ Pooled(buf[c]) /\ buf'[c].h = buf[c].h
             /\ buf'[c].iova = buf[c].iova /\ buf'[c].lv = buf[c].lv
             /\ buf'[c].st # "iova_free" => buf[c].st # "iova_free"
      BY <1>1 DEF IovasKept, Kept, Pooled
    <2> QED
      BY <1>1, <2>1 DEF AllocInv, IovasKept
  <1>2. CASE Terminate
    <2>1. open = {} /\ buf' = buf
      BY <1>2 DEF Terminate, OpenInv
    <2>2. \A b \in Bufs : ~Pooled(buf'[b])
      BY <1>t, <2>1 DEF Pooled, BufOK
    <2> QED
      BY <2>2 DEF AllocInv
  <1>3. ASSUME NEW b \in Bufs, FreeIova(b)
        PROVE  AllocInv'
    <2>1. /\ buf' = [buf EXCEPT ![b].st = "iova_free"] /\ buf[b].st = "owned"
          /\ iova_mem_alloc' = iova_mem_alloc \ {[a |-> buf[b].iova, lv |-> buf[b].lv]}
          /\ buf[b].kind \in {"prepare", "prealloc"}
      BY <1>3 DEF FreeIova
    <2>2. PICK y \in BufRecs :
             /\ buf' = [buf EXCEPT ![b] = y]
             /\ y.st = "iova_free" /\ y.kind = buf[b].kind /\ y.h = buf[b].h
             /\ y.iova = buf[b].iova /\ y.lv = buf[b].lv
      <3>1. /\ TypeOK /\ "iova_free" \in States
            /\ buf' = [buf EXCEPT ![b].st = "iova_free"]
        BY <1>t, <2>1 DEF States
      <3>2. \E y \in BufRecs :
             /\ buf' = [buf EXCEPT ![b] = y]
             /\ y.st = "iova_free" /\ y.kind = buf[b].kind /\ y.h = buf[b].h
             /\ y.iova = buf[b].iova /\ y.lv = buf[b].lv /\ y.va = buf[b].va
        BY <3>1, StShape
      <3> QED
        BY ONLY <3>2
    <2>3. buf'[b] = y /\ \A c \in Bufs : c # b => buf'[c] = buf[c]
      BY <1>t, <2>2, SetOne
    <2>4. Pooled(buf[b]) /\ Pooled(y)
      BY <2>1, <2>2 DEF Pooled, HasIova
    <2>5. ASSUME NEW c \in Bufs, c # b, Pooled(buf[c]), buf[c].st # "iova_free"
          PROVE  [a |-> buf[c].iova, lv |-> buf[c].lv] \in iova_mem_alloc'
      <3>1. Pages(buf[b].iova, buf[b].lv) \cap Pages(buf[c].iova, buf[c].lv) = {}
        BY <2>1, <2>4, <2>5 DEF AllocInv
      <3>2. buf[b].iova \in IovaFrames \X Idx /\ buf[b].lv \in {0, 1}
        BY <1>t, <2>4, IovaType DEF Pooled
      <3>3. buf[b].iova \in Pages(buf[b].iova, buf[b].lv)
        BY <3>2, PagesSelf
      <3>4. ~(buf[c].iova = buf[b].iova /\ buf[c].lv = buf[b].lv)
        BY <3>1, <3>3
      <3>5. [a |-> buf[c].iova, lv |-> buf[c].lv] # [a |-> buf[b].iova, lv |-> buf[b].lv]
        <4>1. PICK p, q, u, w : /\ p = buf[c].iova /\ q = buf[c].lv
                                /\ u = buf[b].iova /\ w = buf[b].lv
          OBVIOUS
        <4>2. ~(p = u /\ q = w)
          BY <3>4, <4>1
        <4>3. [a |-> p, lv |-> q] # [a |-> u, lv |-> w]
          BY ONLY <4>2
        <4> QED
          BY <4>1, <4>3
      <3> QED
        BY <2>1, <2>5, <3>5 DEF AllocInv
    <2>6. ASSUME NEW c \in Bufs
          PROVE  /\ Pooled(buf'[c]) <=> Pooled(buf[c])
                 /\ buf'[c].iova = buf[c].iova /\ buf'[c].lv = buf[c].lv
                 /\ buf'[c].h = buf[c].h
                 /\ buf'[c].st # "iova_free" => c # b /\ buf[c].st # "iova_free"
      BY <2>2, <2>3, <2>4
    <2>7. ASSUME NEW c \in Bufs, Pooled(buf'[c]), buf'[c].st # "iova_free"
          PROVE  [a |-> buf'[c].iova, lv |-> buf'[c].lv] \in iova_mem_alloc'
      BY <2>5, <2>6, <2>7
    <2>8. ASSUME NEW c \in Bufs, NEW d \in Bufs,
                 c # d, Pooled(buf'[c]), Pooled(buf'[d]),
                 \/ buf'[c].st # "iova_free" /\ buf'[d].st # "iova_free"
                 \/ buf'[c].h = buf'[d].h /\ OneHandlePerAfu
          PROVE  Pages(buf'[c].iova, buf'[c].lv) \cap Pages(buf'[d].iova, buf'[d].lv) = {}
      <3>1. Pages(buf[c].iova, buf[c].lv) \cap Pages(buf[d].iova, buf[d].lv) = {}
        BY <2>6, <2>8 DEF AllocInv
      <3> QED
        BY <3>1, <2>6
    <2> QED
      BY <2>7, <2>8 DEF AllocInv
  <1>4. ASSUME NEW h \in Handles, NEW b \in Bufs,
               NEW k \in Kinds \cap {"prepare", "prealloc"},
               NEW lv \in Levels, NEW a \in PoolFrames \X Idx, AllocIova(h, b, k, lv, a)
        PROVE  AllocInv'
    <2>1. PICK y \in BufRecs :
             /\ buf' = [buf EXCEPT ![b] = y]
             /\ y.st = "iova" /\ y.kind = k /\ y.h = h /\ y.iova = a /\ y.lv = lv
      BY <1>4, <1>t, AllocIovaShape
    <2>2. buf'[b] = y /\ \A c \in Bufs : c # b => buf'[c] = buf[c]
      BY <1>t, <2>1, SetOne
    <2>3. iova_mem_alloc' = iova_mem_alloc \cup {[a |-> a, lv |-> lv]}
      BY <1>4 DEF AllocIova
    <2>4. ASSUME NEW c \in Bufs, c # b, Pooled(buf[c]),
                 buf[c].st # "iova_free" \/ buf[c].h = h
          PROVE  Pages(a, lv) \cap Pages(buf[c].iova, buf[c].lv) = {}
      <3>1. buf[c].st # "iova_free"
        BY <1>4, <2>4 DEF AllocIova, Idle
      <3>2. PICK r : r = [a |-> buf[c].iova, lv |-> buf[c].lv]
        OBVIOUS
      <3>3. r \in iova_mem_alloc /\ r.a = buf[c].iova /\ r.lv = buf[c].lv
        BY <2>4, <3>1, <3>2 DEF AllocInv
      <3> QED
        BY <1>4, <3>3 DEF AllocIova
    <2>5. \A c, d \in Bufs :
           /\ c # d /\ Pooled(buf'[c]) /\ Pooled(buf'[d])
           /\ \/ buf'[c].st # "iova_free" /\ buf'[d].st # "iova_free"
              \/ buf'[c].h = buf'[d].h /\ OneHandlePerAfu
           => Pages(buf'[c].iova, buf'[c].lv) \cap Pages(buf'[d].iova, buf'[d].lv) = {}
      <3>1. ASSUME NEW c \in Bufs, NEW d \in Bufs, c # d,
                   Pooled(buf'[c]), Pooled(buf'[d]),
                   \/ buf'[c].st # "iova_free" /\ buf'[d].st # "iova_free"
                   \/ buf'[c].h = buf'[d].h /\ OneHandlePerAfu
            PROVE  Pages(buf'[c].iova, buf'[c].lv) \cap Pages(buf'[d].iova, buf'[d].lv) = {}
        <4>1. CASE c = b
          BY <2>1, <2>2, <2>4, <3>1, <4>1
        <4>2. CASE d = b
          BY <2>1, <2>2, <2>4, <3>1, <4>2
        <4>3. CASE c # b /\ d # b
          BY <2>2, <3>1, <4>3 DEF AllocInv
        <4> QED
          BY <4>1, <4>2, <4>3
      <3> QED
        BY <3>1
    <2>6. \A c \in Bufs : Pooled(buf'[c]) /\ buf'[c].st # "iova_free" =>
             [a |-> buf'[c].iova, lv |-> buf'[c].lv] \in iova_mem_alloc'
      BY <2>1, <2>2, <2>3 DEF AllocInv
    <2> QED
      BY <2>5, <2>6 DEF AllocInv
  <1>5. ASSUME NEW h \in Handles, NEW b \in Bufs, NEW lv \in Levels,
               NEW a \in UserFrames \X Idx, NEW v \in Va, "pin" \in Kinds,
               PinBuffer(h, b, lv, a, v)
        PROVE  AllocInv'
    <2>1. PICK y \in BufRecs : PinPage(y, b, y, NoBuf) /\ y.kind = "pin"
      BY <1>5, <1>t, PinBufferShape
    <2>2. \/ buf' = buf \/ buf' = [buf EXCEPT ![b] = y] \/ buf' = [buf EXCEPT ![b] = NoBuf]
      BY <2>1 DEF PinPage
    <2>3. ~Pooled(y) /\ ~Pooled(NoBuf)
      BY <2>1, NoBufFacts DEF Pooled
    <2>4. \A c \in Bufs : Pooled(buf'[c]) => buf'[c] = buf[c]
      BY <1>t, <2>2, <2>3, SetOne
    <2>5. iova_mem_alloc' = iova_mem_alloc
      BY <1>5 DEF PinBuffer
    <2> QED
      BY <2>4, <2>5 DEF AllocInv
  <1> QED
    BY <1>1, <1>2, <1>3, <1>4, <1>5, IovaSteps

\* Callers who overlap only what is the same keep it so.
LEMMA PinInvStep ==
    ASSUME BaseInv, PinInv, [Next]_vars
    PROVE  PinInv'
  <1>t. TypeOK /\ \A b \in Bufs : BufOK(buf[b], open)
    BY DEF BaseInv, BufInv
  <1>1. ASSUME \A c \in Bufs : HasIova(buf'[c]) /\ buf'[c].kind = "pin" =>
                   buf'[c] = buf[c]
        PROVE  PinInv'
    BY <1>1 DEF PinInv
  <1>2. CASE IovasKept
    BY <1>1, <1>2 DEF IovasKept, Kept
  <1>3. CASE Terminate
    BY <1>1, <1>3 DEF Terminate
  <1>4. ASSUME NEW b \in Bufs, FreeIova(b)
        PROVE  PinInv'
    <2>0. buf' = [buf EXCEPT ![b].st = "iova_free"] /\ "iova_free" \in States
      BY <1>4 DEF States, FreeIova
    <2>1. PICK y \in BufRecs :
             /\ buf' = [buf EXCEPT ![b] = y]
             /\ y.st = "iova_free" /\ y.kind = buf[b].kind /\ y.h = buf[b].h
             /\ y.iova = buf[b].iova /\ y.lv = buf[b].lv /\ y.va = buf[b].va
      BY <1>t, <2>0, StShape
    <2>2. y.kind # "pin"
      BY <1>4, <2>1 DEF FreeIova
    <2> QED
      BY <1>1, <1>t, <2>1, <2>2, SetOne
  <1>5. ASSUME NEW h \in Handles, NEW b \in Bufs,
               NEW k \in Kinds \cap {"prepare", "prealloc"},
               NEW lv \in Levels, NEW a \in PoolFrames \X Idx, AllocIova(h, b, k, lv, a)
        PROVE  PinInv'
    <2>1. PICK y \in BufRecs : buf' = [buf EXCEPT ![b] = y] /\ y.kind = k
      BY <1>5, <1>t, AllocIovaShape
    <2> QED
      BY <1>1, <1>t, <2>1, SetOne
  <1>6. ASSUME NEW h \in Handles, NEW b \in Bufs, NEW lv \in Levels,
               NEW a \in UserFrames \X Idx, NEW v \in Va, "pin" \in Kinds,
               PinBuffer(h, b, lv, a, v)
        PROVE  PinInv'
    <2>1. PICK y \in BufRecs :
             /\ PinPage(y, b, y, NoBuf)
             /\ y.kind = "pin" /\ y.h = h /\ y.iova = a /\ y.lv = lv
             /\ \A c \in Bufs : /\ buf[c].kind = "pin"
                                /\ AfuOf[buf[c].h] = AfuOf[h]
                                /\ Pages(a, lv) \cap Pages(buf[c].iova, buf[c].lv) # {}
                                => buf[c] = y
      BY <1>6, <1>t, PinBufferShape
    <2>2. CASE buf' = buf \/ buf' = [buf EXCEPT ![b] = NoBuf]
      BY <1>1, <1>t, <2>2, NoBufFacts, SetOne
    <2>3. CASE buf' = [buf EXCEPT ![b] = y]
      <3>1. buf'[b] = y /\ \A c \in Bufs : c # b => buf'[c] = buf[c]
        BY <1>t, <2>3, SetOne
      <3> SUFFICES ASSUME NEW c \in Bufs, NEW d \in Bufs,
                          HasIova(buf'[c]), HasIova(buf'[d]),
                          buf'[c].kind = "pin", buf'[d].kind = "pin",
                          AfuOf[buf'[c].h] = AfuOf[buf'[d].h],
                          Pages(buf'[c].iova, buf'[c].lv)
                              \cap Pages(buf'[d].iova, buf'[d].lv) # {}
                   PROVE  buf'[c] = buf'[d]
        BY DEF PinInv
      <3>2. CASE c = b /\ d # b
        BY <2>1, <3>1, <3>2
      <3>3. CASE d = b /\ c # b
        BY <2>1, <3>1, <3>3
      <3>4. CASE c # b /\ d # b
        BY <3>1, <3>4 DEF PinInv
      <3> QED
        BY <3>2, <3>3, <3>4
    <2> QED
      BY <2>1, <2>2, <2>3 DEF PinPage
  <1> QED
    BY <1>2, <1>3, <1>4, <1>5, <1>6, IovaSteps

-----------------------------------------------------------------------------
(* Reference counts. *)

LEMMA PinCounts ==
    ASSUME FewBufs, NEW P \in SUBSET Bufs
    PROVE  /\ IsFiniteSet(P) /\ Cardinality(P) \in 0 .. RefMod - 1
           /\ Cardinality(P) > 0 <=> P # {}
           /\ \A b \in Bufs : b \notin P =>
                /\ Cardinality(P \cup {b}) = Cardinality(P) + 1
                /\ Cardinality(P) # RefMod - 1
           /\ \A b \in P : Cardinality(P \ {b}) = Cardinality(P) - 1
  <1>1. PICK n \in Nat : n = Cardinality(Bufs) /\ n < RefMod
    BY FS_CardinalityType DEF FewBufs
  <1>2. \A Q \in SUBSET Bufs : IsFiniteSet(Q) /\ Cardinality(Q) \in Nat /\ Cardinality(Q) <= n
    BY <1>1, FS_Subset, FS_CardinalityType DEF FewBufs
  <1>3. \A b \in Bufs : b \notin P => Cardinality(P \cup {b}) = Cardinality(P) + 1
    BY <1>2, FS_AddElement
  <1>4. \A b \in Bufs : b \notin P => Cardinality(P) + 1 <= n
    <2>1. \A b \in Bufs : P \cup {b} \in SUBSET Bufs
      OBVIOUS
    <2> QED
      BY <1>2, <1>3, <2>1
  <1>5. \A b \in P : Cardinality(P \ {b}) = Cardinality(P) - 1
    BY <1>2, FS_RemoveElement
  <1>6. Cardinality(P) > 0 <=> P # {}
    BY <1>2, FS_EmptySet
  <1> QED
    BY <1>1, <1>2, <1>3, <1>4, <1>5, <1>6 DEF RefMod

\* Pinning and unpinning an entry follow the set of its buffers.
LEMMA EntryPinSmall ==
    ASSUME FewBufs, NEW e \in Entries, NEW d \in Entries, NEW B, NEW C, NEW b \in Bufs,
           NEW a, NEW f, NEW i \in Idx, EntryOK(e, B, a, f), e.kind # "page",
           b \notin PinSet(B, a, f, i, 0),
           \A k \in Idx : PinSet(C, a, f, k, 0) =
               IF k = i THEN PinSet(B, a, f, k, 0) \cup {b} ELSE PinSet(B, a, f, k, 0),
           PinSet(C, a, f, {}, 1) = PinSet(B, a, f, {}, 1),
           d.kind = "table", d.ref = e.ref, d.leaf[i].terminal,
           d.leaf[i].ref = (e.leaf[i].ref + 1) % RefMod,
           \A k \in Idx : k # i => d.leaf[k] = e.leaf[k]
    PROVE  EntryOK(d, C, a, f) /\ e.leaf[i].ref # RefMod - 1
  <1>1. PICK P \in SUBSET Bufs : P = PinSet(B, a, f, i, 0)
    BY DEF PinSet
  <1>2. PICK n \in 0 .. RefMod - 1 : n = Cardinality(P)
    BY PinCounts
  <1>3. Cardinality(P \cup {b}) = n + 1 /\ n # RefMod - 1
    BY <1>1, <1>2, PinCounts
  <1>4. e.leaf[i].ref = n
    BY <1>1, <1>2 DEF EntryOK
  <1>5. (n + 1) % RefMod = n + 1
    BY <1>3, RefArith
  <1>6. d.leaf[i].ref = Cardinality(PinSet(C, a, f, i, 0))
    BY <1>1, <1>3, <1>4, <1>5
  <1>7. \A k \in Idx : /\ d.leaf[k].ref = Cardinality(PinSet(C, a, f, k, 0))
                       /\ d.leaf[k].ref > 0 => d.leaf[k].terminal
    BY <1>6 DEF EntryOK
  <1>8. d.ref = Cardinality(PinSet(C, a, f, {}, 1)) /\ (d.kind = "page" <=> d.ref > 0)
    BY DEF EntryOK
  <1> QED
    BY <1>3, <1>4, <1>7, <1>8 DEF EntryOK

LEMMA EntryPinHuge ==
    ASSUME FewBufs, NEW e \in Entries, NEW d \in Entries, NEW B, NEW C, NEW b \in Bufs,
           NEW a, NEW f, EntryOK(e, B, a, f),
           b \notin PinSet(B, a, f, {}, 1),
           \A k \in Idx : PinSet(C, a, f, k, 0) = {},
           PinSet(C, a, f, {}, 1) = PinSet(B, a, f, {}, 1) \cup {b},
           d.kind = "page", d.ref = (e.ref + 1) % RefMod, d.leaf = NoLeaves
    PROVE  EntryOK(d, C, a, f) /\ e.ref # RefMod - 1
  <1>1. PICK P \in SUBSET Bufs : P = PinSet(B, a, f, {}, 1)
    BY DEF PinSet
  <1>2. PICK n \in 0 .. RefMod - 1 : n = Cardinality(P)
    BY PinCounts
  <1>3. Cardinality(P \cup {b}) = n + 1 /\ n # RefMod - 1
    BY <1>1, <1>2, PinCounts
  <1>4. e.ref = n
    BY <1>1, <1>2 DEF EntryOK
  <1>5. (n + 1) % RefMod = n + 1
    BY <1>3, RefArith
  <1>6. d.ref = n + 1 /\ d.ref = Cardinality(PinSet(C, a, f, {}, 1)) /\ d.ref > 0
    <2>1. d.ref = n + 1
      BY <1>4, <1>5
    <2>2. Cardinality(PinSet(C, a, f, {}, 1)) = n + 1
      BY <1>1, <1>3
    <2> QED
      BY <2>1, <2>2
  <1>7. \A k \in Idx : d.leaf[k].ref = 0 /\ Cardinality(PinSet(C, a, f, k, 0)) = 0
    <2>1. \A k \in Idx : Cardinality(PinSet(C, a, f, k, 0)) = 0
      BY FS_EmptySet
    <2> QED
      BY <2>1, EmptyFacts
  <1> QED
    BY <1>3, <1>4, <1>6, <1>7 DEF EntryOK

LEMMA EntryUnpinSmall ==
    ASSUME FewBufs, NEW e \in Entries, NEW d \in Entries, NEW B, NEW C, NEW b,
           NEW a, NEW f, NEW i \in Idx, EntryOK(e, B, a, f),
           b \in PinSet(B, a, f, i, 0),
           \A k \in Idx : PinSet(C, a, f, k, 0) =
               IF k = i THEN PinSet(B, a, f, k, 0) \ {b} ELSE PinSet(B, a, f, k, 0),
           PinSet(C, a, f, {}, 1) = PinSet(B, a, f, {}, 1),
           d.kind = e.kind, d.ref = e.ref,
           d.leaf[i].terminal = e.leaf[i].terminal,
           d.leaf[i].ref = (e.leaf[i].ref - 1) % RefMod,
           \A k \in Idx : k # i => d.leaf[k] = e.leaf[k]
    PROVE  EntryOK(d, C, a, f)
  <1>1. PICK P \in SUBSET Bufs : P = PinSet(B, a, f, i, 0)
    BY DEF PinSet
  <1>2. PICK n \in 0 .. RefMod - 1 : n = Cardinality(P)
    BY PinCounts
  <1>3. Cardinality(P \ {b}) = n - 1 /\ n # 0
    BY <1>1, <1>2, PinCounts
  <1>4. e.leaf[i].ref = n
    BY <1>1, <1>2 DEF EntryOK
  <1>5. (n - 1) % RefMod = n - 1
    BY <1>3, RefArith
  <1>6. d.leaf[i].ref = Cardinality(PinSet(C, a, f, i, 0))
    BY <1>1, <1>3, <1>4, <1>5
  <1>7. e.leaf[i].terminal
    BY <1>2, <1>3, <1>4 DEF EntryOK
  <1>8. \A k \in Idx : /\ d.leaf[k].ref = Cardinality(PinSet(C, a, f, k, 0))
                       /\ d.leaf[k].ref > 0 => d.leaf[k].terminal
    BY <1>6, <1>7 DEF EntryOK
  <1>9. d.ref = Cardinality(PinSet(C, a, f, {}, 1)) /\ (d.kind = "page" <=> d.ref > 0)
    BY DEF EntryOK
  <1> QED
    BY <1>8, <1>9 DEF EntryOK

LEMMA EntryUnpinHuge ==
    ASSUME FewBufs, NEW e \in Entries, NEW d \in Entries, NEW B, NEW C, NEW b,
           NEW a, NEW f, EntryOK(e, B, a, f),
           b \in PinSet(B, a, f, {}, 1),
           \A k \in Idx : PinSet(C, a, f, k, 0) = {} /\ PinSet(B, a, f, k, 0) = {},
           PinSet(C, a, f, {}, 1) = PinSet(B, a, f, {}, 1) \ {b},
           d.ref = e.ref - 1, e.ref = 1 => d = NoEntry,
           e.ref # 1 => d.kind = e.kind /\ d.leaf = e.leaf
    PROVE  EntryOK(d, C, a, f)
  <1>1. PICK P \in SUBSET Bufs : P = PinSet(B, a, f, {}, 1)
    BY DEF PinSet
  <1>2. PICK n \in 0 .. RefMod - 1 : n = Cardinality(P)
    BY PinCounts
  <1>3. Cardinality(P \ {b}) = n - 1 /\ n > 0
    BY <1>1, <1>2, PinCounts
  <1>4. e.ref = n /\ e.kind = "page"
    BY <1>1, <1>2, <1>3 DEF EntryOK
  <1>5. d.ref = n - 1 /\ d.ref = Cardinality(PinSet(C, a, f, {}, 1))
    BY <1>1, <1>3, <1>4
  <1>6. d.kind = "page" <=> d.ref > 0
    BY <1>2, <1>3, <1>4, <1>5, EmptyFacts
  <1>7. \A k \in Idx : d.leaf[k].ref = 0 /\ Cardinality(PinSet(C, a, f, k, 0)) = 0
    <2>1. \A k \in Idx : Cardinality(PinSet(C, a, f, k, 0)) = 0
      BY FS_EmptySet
    <2>2. \A k \in Idx : e.leaf[k].ref = 0
      BY FS_EmptySet DEF EntryOK
    <2> QED
      BY <1>4, <2>1, <2>2, EmptyFacts
  <1> QED
    BY <1>5, <1>6, <1>7 DEF EntryOK

\* No buffer of the other size on the AFU shares the frame.
Clear(x) == \A c \in Bufs :
    /\ HasIova(buf[c]) /\ AfuOf[buf[c].h] = AfuOf[x.h] /\ buf[c].lv # x.lv
    => buf[c].iova[1] # x.iova[1]

\* Who owns the entry already, has the same memory.
SameVa(x, b) == \A c \in Bufs :
    /\ c # b /\ Pinned(c) /\ (buf[c].st = "owned" \/ OneHandlePerAfu)
    /\ AfuOf[buf[c].h] = AfuOf[x.h] /\ buf[c].iova = x.iova /\ buf[c].lv = x.lv
    => buf[c].va = x.va

\* Two buffers with a frame in common and different sizes overlap.
LEMMA FrameOverlap ==
    ASSUME NEW F, NEW a \in F \X Idx, NEW c \in F \X Idx, NEW k \in {0, 1},
           NEW lv \in {0, 1}, k # lv, a[1] = c[1]
    PROVE  Pages(a, k) \cap Pages(c, lv) # {}
  <1>1. CASE k = 0
    BY <1>1 DEF Pages
  <1>2. CASE k = 1
    BY <1>2 DEF Pages
  <1> QED
    BY <1>1, <1>2

LEMMA PoolOrUser ==
    ASSUME NEW x, NEW y, BufOK(x, open), BufOK(y, open), HasIova(x), HasIova(y),
           x.kind = "pin", y.kind # "pin"
    PROVE  x.iova[1] # y.iova[1]
  <1>1. x.iova \in Bases(UserFrames, x.lv) /\ y.iova \in Bases(PoolFrames, y.lv)
    BY DEF BufOK
  <1>2. x.iova \in UserFrames \X Idx /\ y.iova \in PoolFrames \X Idx
    BY <1>1, BasesType
  <1>3. x.iova[1] \in UserFrames /\ y.iova[1] \in PoolFrames
    BY <1>2
  <1> QED
    BY <1>3, FrameAssumption

LEMMA ClearOwn ==
    ASSUME BaseInv, AllocInv, PinInv, Apart, NEW b \in Bufs, HasIova(buf[b])
    PROVE  Clear(buf[b])
  <1> SUFFICES ASSUME NEW c \in Bufs, HasIova(buf[c]),
                      AfuOf[buf[c].h] = AfuOf[buf[b].h], buf[c].lv # buf[b].lv,
                      buf[c].iova[1] = buf[b].iova[1]
               PROVE  FALSE
    BY DEF Clear
  <1>1. /\ BufOK(buf[b], open) /\ BufOK(buf[c], open)
        /\ buf[b].h \in Handles /\ buf[c].h \in Handles
        /\ buf[b].iova \in IovaFrames \X Idx /\ buf[c].iova \in IovaFrames \X Idx
        /\ buf[b].lv \in {0, 1} /\ buf[c].lv \in {0, 1}
    BY IovaType DEF BaseInv, BufInv
  <1>2. OneHandlePerAfu
    BY <1>1 DEF Apart, OneSize, BufOK
  <1>3. buf[b].h = buf[c].h
    BY <1>1, <1>2 DEF OneHandlePerAfu
  <1>4. Pages(buf[b].iova, buf[b].lv) \cap Pages(buf[c].iova, buf[c].lv) # {}
    BY <1>1, FrameOverlap
  <1>5. CASE buf[b].kind = "pin" /\ buf[c].kind = "pin"
    <2>1. buf[b] = buf[c]
      BY <1>3, <1>4, <1>5 DEF PinInv
    <2> QED
      BY <2>1
  <1>6. CASE buf[b].kind # "pin" /\ buf[c].kind # "pin"
    BY <1>2, <1>3, <1>4, <1>6 DEF AllocInv, Pooled
  <1> QED
    BY <1>1, <1>5, <1>6, PoolOrUser

LEMMA SameVaOwn ==
    ASSUME BaseInv, AllocInv, NEW b \in Bufs, buf[b].st = "mapped"
    PROVE  SameVa(buf[b], b)
  <1> SUFFICES ASSUME NEW c \in Bufs, c # b, Pinned(c),
                      buf[c].st = "owned" \/ OneHandlePerAfu,
                      AfuOf[buf[c].h] = AfuOf[buf[b].h], buf[c].iova = buf[b].iova,
                      buf[c].lv = buf[b].lv
               PROVE  FALSE
    BY DEF SameVa
  <1>1. BufOK(buf[b], open) /\ BufOK(buf[c], open)
    BY DEF BaseInv, BufInv
  <1>2. HasIova(buf[b]) /\ HasIova(buf[c]) /\ buf[b].kind # "pin"
    BY <1>1 DEF Pinned, HasIova, BufOK
  <1>3. buf[c].kind # "pin"
    BY <1>1, <1>2, PoolOrUser
  <1>4. /\ buf[b].h \in Handles /\ buf[c].h \in Handles
        /\ buf[b].iova \in IovaFrames \X Idx /\ buf[b].lv \in {0, 1}
    BY <1>1, <1>2, IovaType DEF BaseInv
  <1>5. buf[b].iova \in Pages(buf[b].iova, buf[b].lv)
    BY <1>4, PagesSelf
  <1>6. OneHandlePerAfu => buf[b].h = buf[c].h
    BY <1>4 DEF OneHandlePerAfu
  <1> QED
    BY <1>2, <1>3, <1>5, <1>6 DEF AllocInv, Pooled

\* A caller's new pin, by the rule callers follow.
LEMMA ClearNew ==
    ASSUME BaseInv, Apart, NEW b \in Bufs, NEW y \in BufRecs, BufOK(y, open),
           HasIova(y), y.kind = "pin",
           \A c \in Bufs : /\ buf[c].kind = "pin" /\ AfuOf[buf[c].h] = AfuOf[y.h]
                           /\ Pages(y.iova, y.lv) \cap Pages(buf[c].iova, buf[c].lv) # {}
                           => buf[c] = y
    PROVE  Clear(y) /\ SameVa(y, b)
  <1>1. /\ y.h \in Handles /\ y.iova \in IovaFrames \X Idx /\ y.lv \in {0, 1}
    BY IovaType DEF BaseInv
  <1>2. \A c \in Bufs : HasIova(buf[c]) =>
          /\ BufOK(buf[c], open)
          /\ buf[c].iova \in IovaFrames \X Idx /\ buf[c].lv \in {0, 1}
    BY IovaType DEF BaseInv, BufInv
  <1>3. ASSUME NEW c \in Bufs, HasIova(buf[c]), buf[c].iova[1] = y.iova[1]
        PROVE  buf[c].kind = "pin"
    BY <1>2, <1>3, PoolOrUser
  <1>4. Clear(y)
    <2> SUFFICES ASSUME NEW c \in Bufs, HasIova(buf[c]),
                        AfuOf[buf[c].h] = AfuOf[y.h], buf[c].lv # y.lv,
                        buf[c].iova[1] = y.iova[1]
                 PROVE  FALSE
      BY DEF Clear
    <2>1. Pages(y.iova, y.lv) \cap Pages(buf[c].iova, buf[c].lv) # {}
      BY <1>1, <1>2, FrameOverlap
    <2>2. buf[c] = y
      BY <1>3, <2>1
    <2> QED
      BY <2>2
  <1>5. SameVa(y, b)
    <2> SUFFICES ASSUME NEW c \in Bufs, Pinned(c),
                        AfuOf[buf[c].h] = AfuOf[y.h], buf[c].iova = y.iova,
                        buf[c].lv = y.lv
                 PROVE  buf[c].va = y.va
      BY DEF SameVa
    <2>1. HasIova(buf[c])
      BY DEF Pinned, HasIova
    <2>2. y.iova \in Pages(y.iova, y.lv)
      BY <1>1, PagesSelf
    <2>3. buf[c].kind = "pin"
      BY <1>3, <2>1
    <2>4. buf[c] = y
      BY <2>2, <2>3
    <2> QED
      BY <2>4
  <1> QED
    BY <1>4, <1>5

\* A page that is counted is pinned by some buffer.
LEMMA SomePin ==
    ASSUME FewBufs, NEW B, NEW a, NEW f, NEW i, NEW lv,
           Cardinality(PinSet(B, a, f, i, lv)) > 0
    PROVE  \E c \in Bufs : PinsOf(B[c], a, f, i, lv)
  <1>1. PinSet(B, a, f, i, lv) \in SUBSET Bufs
    BY DEF PinSet
  <1>2. PinSet(B, a, f, i, lv) # {}
    BY <1>1, PinCounts
  <1> QED
    BY <1>2 DEF PinSet

\* ase_pt_pin_page does not refuse a page that is clear.
LEMMA NotRefused ==
    ASSUME BaseInv, CountInv, FewBufs, session = "up", NEW x, BufOK(x, open),
           HasIova(x), Clear(x)
    PROVE  ~PinRefused(ase_iova_pt_root[AfuOf[x.h]], x.iova, x.lv)
  <1> SUFFICES ASSUME x.lv = 0,
                      ase_iova_pt_root[AfuOf[x.h]][x.iova[1]].kind = "page"
               PROVE  FALSE
    BY DEF PinRefused
  <1>1. PICK a \in Afus, f \in IovaFrames : a = AfuOf[x.h] /\ f = x.iova[1]
    BY IovaType DEF BaseInv
  <1>2. EntryOK(ase_iova_pt_root[a][f], buf, a, f)
    BY DEF CountInv
  <1>3. Cardinality(PinSet(buf, a, f, {}, 1)) > 0
    BY <1>1, <1>2 DEF EntryOK
  <1>4. PICK c \in Bufs : PinsOf(buf[c], a, f, {}, 1)
    BY <1>3, SomePin
  <1>5. /\ HasIova(buf[c]) /\ AfuOf[buf[c].h] = a /\ buf[c].lv = 1
        /\ buf[c].iova[1] = f
    BY <1>4 DEF PinsOf, HasIova
  <1> QED
    BY <1>1, <1>5 DEF Clear

\* The pin of a clear page counts the buffer and leads to its memory.
LEMMA TablePin ==
    ASSUME MemInv, FewBufs, session = "up", UNCHANGED session,
           NEW b \in Bufs, NEW x \in BufRecs, NEW y, BufOK(x, open), HasIova(x),
           Mapped(x), Clear(x), SameVa(x, b),
           buf[b].st \notin {"owned", "iova_free"},
           y.st = "owned", y.kind = x.kind, y.h = x.h, y.iova = x.iova,
           y.lv = x.lv, y.va = x.va,
           buf' = [buf EXCEPT ![b] = y],
           ase_iova_pt_root' = [ase_iova_pt_root EXCEPT ![AfuOf[x.h]] =
               PtPin(ase_iova_pt_root[AfuOf[x.h]], x.iova, x.lv, x.va)]
    PROVE  /\ CountInv' /\ VaInv'
           /\ ~PinOverflows(ase_iova_pt_root[AfuOf[x.h]], x.iova, x.lv)
  <1>1. PICK a0 \in Afus, f0 \in IovaFrames, i0 \in Idx, lv \in {0, 1} :
            /\ a0 = AfuOf[x.h] /\ x.iova = <<f0, i0>> /\ lv = x.lv
            /\ lv = 1 => i0 = {}
    <2>1. /\ AfuOf[x.h] \in Afus /\ x.iova \in IovaFrames \X Idx /\ x.lv \in {0, 1}
          /\ x.lv = 1 => x.iova[2] = {}
      BY IovaType DEF MemInv, BaseInv
    <2>2. PICK f \in IovaFrames, i \in Idx : x.iova = <<f, i>>
      BY <2>1
    <2> QED
      BY <2>1, <2>2
  <1>2. PICK T \in [IovaFrames -> Entries] : T = ase_iova_pt_root[a0]
    BY DEF MemInv, BaseInv, TypeOK
  <1>3. PICK U : U = PtPin(T, x.iova, lv, x.va)
    OBVIOUS
  <1>4. x.va \in Va
    BY DEF BufOK
  <1>r. PICK B, C, R, S : /\ B = buf /\ C = buf'
                          /\ R = ase_iova_pt_root /\ S = ase_iova_pt_root'
    OBVIOUS
  <1>5. S[a0] = U /\ R[a0] = T /\ \A a \in Afus : a # a0 => S[a] = R[a]
    BY <1>1, <1>2, <1>3, <1>r DEF MemInv, BaseInv, TypeOK
  <1>6. C[b] = y /\ \A c \in Bufs : c # b => C[c] = B[c]
    BY <1>r, SetOne DEF MemInv, BaseInv
  <1>7. \A a, f, i, k : /\ ~PinsOf(B[b], a, f, i, k)
                        /\ PinsOf(y, a, f, i, k) <=>
                             a = a0 /\ <<f, i>> = <<f0, i0>> /\ k = lv
    BY <1>1, <1>r DEF PinsOf, HasIova
  <1>8. \A a, f, i, k : PinSet(C, a, f, i, k) =
            IF a = a0 /\ f = f0 /\ i = i0 /\ k = lv
            THEN PinSet(B, a, f, i, k) \cup {b} ELSE PinSet(B, a, f, i, k)
    <2>1. ASSUME NEW a, NEW f, NEW i, NEW k
          PROVE  PinSet(C, a, f, i, k) =
                   IF a = a0 /\ f = f0 /\ i = i0 /\ k = lv
                   THEN PinSet(B, a, f, i, k) \cup {b} ELSE PinSet(B, a, f, i, k)
      <3>1. CASE a = a0 /\ f = f0 /\ i = i0 /\ k = lv
        <4>1. PinsOf(C[b], a, f, i, k)
          BY <1>6, <1>7, <3>1
        <4> QED
          BY <1>6, <3>1, <4>1 DEF PinSet
      <3>2. CASE ~(a = a0 /\ f = f0 /\ i = i0 /\ k = lv)
        <4>1. ~PinsOf(C[b], a, f, i, k) /\ ~PinsOf(B[b], a, f, i, k)
          BY <1>6, <1>7, <3>2
        <4> QED
          BY <1>6, <3>2, <4>1 DEF PinSet
      <3> QED
        BY <3>1, <3>2
    <2> QED
      BY <2>1
  <1>9. \A a \in Afus, f \in IovaFrames : EntryOK(R[a][f], B, a, f)
    BY <1>r DEF MemInv, CountInv
  <1>10. \A i, k : b \notin PinSet(B, a0, f0, i, k)
    BY <1>7 DEF PinSet
  <1>11. \A c \in Bufs : \A i : ~PinsOf(B[c], a0, f0, i, 1 - lv)
    <2>1. ASSUME NEW c \in Bufs, NEW i, PinsOf(B[c], a0, f0, i, 1 - lv)
          PROVE  FALSE
      <3>1. /\ HasIova(B[c]) /\ AfuOf[B[c].h] = a0 /\ B[c].lv # lv
            /\ B[c].iova[1] = f0
        BY <2>1 DEF PinsOf, HasIova
      <3> QED
        BY <1>1, <1>r, <3>1 DEF Clear
    <2> QED
      BY <2>1
  <1>12. T[f0].kind # "page" \/ lv = 1
    BY <1>1, <1>2, NotRefused DEF MemInv, PinRefused
  <1>13. /\ U \in [IovaFrames -> Entries] /\ \A f \in IovaFrames : f # f0 => U[f] = T[f]
         /\ EntryOK(U[f0], C, a0, f0)
         /\ ~PinOverflows(T, x.iova, lv)
         /\ lv = 1 => U[f0].va = x.va
         /\ lv = 0 => /\ U[f0].leaf[i0].va = x.va
                      /\ \A k \in Idx : k # i0 => U[f0].leaf[k] = T[f0].leaf[k]
    <2>0. PICK e \in Entries : e = T[f0] /\ EntryOK(e, B, a0, f0)
      <3>1. R[a0][f0] = T[f0] /\ T[f0] \in Entries
        BY <1>5
      <3>2. EntryOK(R[a0][f0], B, a0, f0)
        BY <1>9
      <3> QED
        BY <3>1, <3>2
    <2>1. CASE lv = 0
      <3>1. U = PinSmall(T, <<f0, i0>>, x.va)
        BY <1>1, <1>3, <2>1 DEF PtPin
      <3>2. /\ U \in [IovaFrames -> Entries]
            /\ \A f \in IovaFrames : f # f0 => U[f] = T[f]
            /\ U[f0].kind = "table" /\ U[f0].ref = T[f0].ref
            /\ U[f0].leaf[i0].terminal /\ U[f0].leaf[i0].va = x.va
            /\ U[f0].leaf[i0].ref = (T[f0].leaf[i0].ref + 1) % RefMod
            /\ \A k \in Idx : k # i0 => U[f0].leaf[k] = T[f0].leaf[k]
        BY <1>4, <3>1, PinSmallFacts
      <3>3. /\ \A k \in Idx : PinSet(C, a0, f0, k, 0) =
                 IF k = i0 THEN PinSet(B, a0, f0, k, 0) \cup {b}
                 ELSE PinSet(B, a0, f0, k, 0)
            /\ PinSet(C, a0, f0, {}, 1) = PinSet(B, a0, f0, {}, 1)
        BY <1>8, <2>1
      <3>4. T[f0] \in Entries /\ U[f0] \in Entries /\ T[f0].kind # "page"
        BY <1>12, <2>1, <3>2
      <3>d. PICK d \in Entries : d = U[f0]
        BY <3>4
      <3>k. /\ e.kind # "page" /\ b \notin PinSet(B, a0, f0, i0, 0)
            /\ d.kind = "table" /\ d.ref = e.ref /\ d.leaf[i0].terminal
            /\ d.leaf[i0].ref = (e.leaf[i0].ref + 1) % RefMod
            /\ \A k \in Idx : k # i0 => d.leaf[k] = e.leaf[k]
        BY <1>10, <2>0, <3>2, <3>4, <3>d
      <3>p. EntryOK(d, C, a0, f0) /\ e.leaf[i0].ref # RefMod - 1
        BY <2>0, <3>3, <3>k, EntryPinSmall
      <3>5. EntryOK(U[f0], C, a0, f0) /\ T[f0].leaf[i0].ref # RefMod - 1
        BY <2>0, <3>d, <3>p
      <3> QED
        BY <1>1, <2>1, <3>2, <3>5 DEF PinOverflows, RefAt
    <2>2. CASE lv = 1
      <3>1. U = PinHuge(T, <<f0, i0>>, x.va)
        BY <1>1, <1>3, <2>2 DEF PtPin
      <3>2. /\ U \in [IovaFrames -> Entries]
            /\ \A f \in IovaFrames : f # f0 => U[f] = T[f]
            /\ U[f0].kind = "page" /\ U[f0].ref = (T[f0].ref + 1) % RefMod
            /\ U[f0].va = x.va /\ U[f0].leaf = NoLeaves
        BY <1>4, <3>1, PinHugeFacts
      <3>3. \A k \in Idx : PinSet(C, a0, f0, k, 0) = {}
        <4>1. \A k \in Idx : PinSet(C, a0, f0, k, 0) = PinSet(B, a0, f0, k, 0)
          BY <1>8, <2>2
        <4>2. \A k \in Idx : PinSet(B, a0, f0, k, 0) = {}
          BY <1>11, <2>2 DEF PinSet
        <4> QED
          BY <4>1, <4>2
      <3>4. PinSet(C, a0, f0, {}, 1) = PinSet(B, a0, f0, {}, 1) \cup {b}
        BY <1>1, <1>8, <2>2
      <3>5. T[f0] \in Entries /\ U[f0] \in Entries
        BY <3>2
      <3>d. PICK d \in Entries : d = U[f0]
        BY <3>5
      <3>k. /\ b \notin PinSet(B, a0, f0, {}, 1)
            /\ d.kind = "page" /\ d.ref = (e.ref + 1) % RefMod /\ d.leaf = NoLeaves
        BY <1>10, <2>0, <3>2, <3>d
      <3>p. EntryOK(d, C, a0, f0) /\ e.ref # RefMod - 1
        BY <2>0, <3>3, <3>4, <3>k, EntryPinHuge
      <3>6. EntryOK(U[f0], C, a0, f0) /\ T[f0].ref # RefMod - 1
        BY <2>0, <3>d, <3>p
      <3> QED
        BY <1>1, <2>2, <3>2, <3>6 DEF PinOverflows, RefAt
    <2> QED
      BY <2>1, <2>2
  <1>14. ASSUME NEW a \in Afus, NEW f \in IovaFrames
         PROVE  EntryOK(S[a][f], C, a, f)
    <2>1. CASE a = a0 /\ f = f0
      BY <1>5, <1>13, <2>1
    <2>2. CASE ~(a = a0 /\ f = f0)
      <3>1. S[a][f] = R[a][f]
        BY <1>2, <1>5, <1>13, <2>2
      <3>2. \A i, k : PinSet(C, a, f, i, k) = PinSet(B, a, f, i, k)
        BY <1>8, <2>2
      <3> QED
        BY <1>9, <3>1, <3>2 DEF EntryOK
    <2> QED
      BY <2>1, <2>2
  <1>15. CountInv'
    BY <1>r, <1>14 DEF CountInv
  <1>16. ASSUME NEW c \in Bufs, C[c].st \in {"owned", "iova_free"}, C[c].kind # "user",
                C[c].st = "owned" \/ OneHandlePerAfu
         PROVE  /\ C[c].lv = 1 => S[AfuOf[C[c].h]][C[c].iova[1]].va = C[c].va
                /\ C[c].lv # 1 =>
                     S[AfuOf[C[c].h]][C[c].iova[1]].leaf[C[c].iova[2]].va = C[c].va
    <2>1. CASE c = b
      <3>1. AfuOf[y.h] = a0 /\ y.iova[1] = f0 /\ y.iova[2] = i0 /\ y.lv = lv
        BY <1>1
      <3> QED
        BY <1>5, <1>6, <1>13, <2>1, <3>1
    <2>2. CASE c # b
      <3>1. /\ C[c] = B[c] /\ B[c] = buf[c] /\ Pinned(c) /\ HasIova(B[c])
            /\ buf[c].st = "owned" \/ OneHandlePerAfu
        BY <1>r, <1>6, <1>16, <2>2 DEF Pinned, HasIova
      <3>2. PICK a \in Afus, f \in IovaFrames, i \in Idx, k \in {0, 1} :
              /\ a = AfuOf[B[c].h] /\ B[c].iova = <<f, i>> /\ k = B[c].lv
              /\ k = 1 => i = {}
        <4>1. /\ AfuOf[B[c].h] \in Afus /\ B[c].iova \in IovaFrames \X Idx
              /\ B[c].lv \in {0, 1} /\ (B[c].lv = 1 => B[c].iova[2] = {})
          BY <3>1, IovaType DEF MemInv, BaseInv, BufInv
        <4>2. PICK f \in IovaFrames, i \in Idx : B[c].iova = <<f, i>>
          BY <4>1
        <4> QED
          BY <4>1, <4>2
      <3>3. IF buf[c].lv = 1 THEN Entry(buf[c]).va = buf[c].va
            ELSE Entry(buf[c]).leaf[buf[c].iova[2]].va = buf[c].va
        BY <3>1 DEF MemInv, VaInv
      <3>4. Entry(buf[c]) = R[a][f] /\ buf[c].iova[2] = i /\ buf[c].iova[1] = f
        BY <1>r, <3>1, <3>2 DEF Entry
      <3>5. /\ k = 1 => R[a][f].va = B[c].va
            /\ k = 0 => R[a][f].leaf[i].va = B[c].va
        BY <3>1, <3>2, <3>3, <3>4
      <3>6. SUFFICES /\ k = 1 => S[a][f].va = B[c].va
                     /\ k = 0 => S[a][f].leaf[i].va = B[c].va
        BY <3>1, <3>2, <3>4
      <3>7. CASE ~(a = a0 /\ f = f0)
        <4>1. S[a][f] = R[a][f]
          BY <1>5, <1>13, <3>7
        <4> QED
          BY <3>5, <4>1
      <3>8. CASE a = a0 /\ f = f0 /\ k = lv /\ i = i0
        <4>1. AfuOf[buf[c].h] = AfuOf[x.h] /\ buf[c].iova = x.iova /\ buf[c].lv = x.lv
          BY <1>1, <3>1, <3>2, <3>8
        <4>2. buf[c].va = x.va
          BY <2>2, <3>1, <4>1 DEF SameVa
        <4> QED
          BY <1>5, <1>13, <3>1, <3>8, <4>2
      <3>9. CASE a = a0 /\ f = f0 /\ k # lv
        <4>1. AfuOf[buf[c].h] = AfuOf[x.h] /\ buf[c].lv # x.lv /\ buf[c].iova[1] = x.iova[1]
          BY <1>1, <3>1, <3>2, <3>9
        <4> QED
          BY <3>1, <4>1 DEF Clear
      <3>10. CASE a = a0 /\ f = f0 /\ k = lv /\ i # i0
        <4>1. lv = 0
          BY <1>1, <3>2, <3>10
        <4>2. S[a][f].leaf[i] = R[a][f].leaf[i]
          BY <1>5, <1>13, <3>10, <4>1
        <4> QED
          BY <3>5, <3>10, <4>1, <4>2
      <3> QED
        BY <3>7, <3>8, <3>9, <3>10
    <2> QED
      BY <2>1, <2>2
  <1>17. VaInv'
    BY <1>r, <1>16 DEF VaInv, Entry, Pinned
  <1> QED
    BY <1>1, <1>2, <1>13, <1>15, <1>17

\* Two buffers that pin an entry count more than one.
LEMMA TwoPins ==
    ASSUME FewBufs, NEW P \in SUBSET Bufs, NEW b \in P, NEW c \in P, b # c
    PROVE  Cardinality(P) # 1
  <1>1. PICK n \in 0 .. RefMod - 1 : n = Cardinality(P)
    BY PinCounts
  <1>2. PICK Q \in SUBSET Bufs : Q = P \ {b} /\ c \in Q
    OBVIOUS
  <1>3. Cardinality(Q) = n - 1 /\ Cardinality(Q) > 0
    BY <1>1, <1>2, PinCounts
  <1> QED
    BY <1>1, <1>3

\* The unpin of a buffer drops its reference, and leaves the memory of another
\* buffer with the same entry.
LEMMA TableUnpin ==
    ASSUME MemInv, Apart, FewBufs, session = "up", UNCHANGED session,
           NEW b \in Bufs, Pinned(b), NEW y, y.st \notin {"owned", "iova_free"},
           buf' = [buf EXCEPT ![b] = y],
           ase_iova_pt_root' = [ase_iova_pt_root EXCEPT ![AfuOf[buf[b].h]] =
               PtUnpin(ase_iova_pt_root[AfuOf[buf[b].h]], buf[b].iova, buf[b].lv)]
    PROVE  /\ CountInv' /\ VaInv'
           /\ UnpinOutcome(ase_iova_pt_root[AfuOf[buf[b].h]], buf[b].iova, buf[b].lv)
                = "none"
  <1>r. PICK B, C, R, S, x : /\ B = buf /\ C = buf' /\ x = B[b]
                             /\ R = ase_iova_pt_root /\ S = ase_iova_pt_root'
    OBVIOUS
  <1>h. HasIova(x) /\ BufOK(x, open)
    BY <1>r DEF Pinned, HasIova, MemInv, BaseInv, BufInv
  <1>1. PICK a0 \in Afus, f0 \in IovaFrames, i0 \in Idx, lv \in {0, 1} :
            /\ a0 = AfuOf[x.h] /\ x.iova = <<f0, i0>> /\ lv = x.lv
            /\ lv = 1 => i0 = {}
    <2>1. /\ AfuOf[x.h] \in Afus /\ x.iova \in IovaFrames \X Idx /\ x.lv \in {0, 1}
          /\ x.lv = 1 => x.iova[2] = {}
      BY <1>h, IovaType DEF MemInv, BaseInv
    <2>2. PICK f \in IovaFrames, i \in Idx : x.iova = <<f, i>>
      BY <2>1
    <2> QED
      BY <2>1, <2>2
  <1>2. PICK T \in [IovaFrames -> Entries] : T = R[a0]
    BY <1>r DEF MemInv, BaseInv, TypeOK
  <1>3. PICK U : U = PtUnpin(T, x.iova, lv)
    OBVIOUS
  <1>5. S[a0] = U /\ R[a0] = T /\ \A a \in Afus : a # a0 => S[a] = R[a]
    BY <1>1, <1>2, <1>3, <1>r DEF MemInv, BaseInv, TypeOK
  <1>6. C[b] = y /\ \A c \in Bufs : c # b => C[c] = B[c]
    BY <1>r, SetOne DEF MemInv, BaseInv
  <1>7. \A a, f, i, k : /\ ~PinsOf(y, a, f, i, k)
                        /\ PinsOf(x, a, f, i, k) <=>
                             a = a0 /\ <<f, i>> = <<f0, i0>> /\ k = lv
    BY <1>1, <1>r DEF PinsOf, Pinned
  <1>8. \A a, f, i, k : PinSet(C, a, f, i, k) =
            IF a = a0 /\ f = f0 /\ i = i0 /\ k = lv
            THEN PinSet(B, a, f, i, k) \ {b} ELSE PinSet(B, a, f, i, k)
    <2>1. ASSUME NEW a, NEW f, NEW i, NEW k
          PROVE  PinSet(C, a, f, i, k) =
                   IF a = a0 /\ f = f0 /\ i = i0 /\ k = lv
                   THEN PinSet(B, a, f, i, k) \ {b} ELSE PinSet(B, a, f, i, k)
      <3>0. ~PinsOf(C[b], a, f, i, k)
        BY <1>6, <1>7
      <3>1. CASE a = a0 /\ f = f0 /\ i = i0 /\ k = lv
        BY <1>6, <3>0, <3>1 DEF PinSet
      <3>2. CASE ~(a = a0 /\ f = f0 /\ i = i0 /\ k = lv)
        <4>1. ~PinsOf(B[b], a, f, i, k)
          BY <1>r, <1>7, <3>2
        <4> QED
          BY <1>6, <3>0, <3>2, <4>1 DEF PinSet
      <3> QED
        BY <3>1, <3>2
    <2> QED
      BY <2>1
  <1>9. \A a \in Afus, f \in IovaFrames : EntryOK(R[a][f], B, a, f)
    BY <1>r DEF MemInv, CountInv
  <1>10. b \in PinSet(B, a0, f0, i0, lv)
    BY <1>r, <1>7 DEF PinSet
  <1>c. Clear(buf[b]) /\ x = buf[b]
    BY <1>r, <1>h, ClearOwn DEF MemInv
  <1>11. \A c \in Bufs : \A i : ~PinsOf(B[c], a0, f0, i, 1 - lv)
    <2>1. ASSUME NEW c \in Bufs, NEW i, PinsOf(B[c], a0, f0, i, 1 - lv)
          PROVE  FALSE
      <3>1. /\ HasIova(B[c]) /\ AfuOf[B[c].h] = a0 /\ B[c].lv # lv
            /\ B[c].iova[1] = f0
        BY <2>1 DEF PinsOf, HasIova
      <3> QED
        BY <1>1, <1>r, <1>c, <3>1 DEF Clear
    <2> QED
      BY <2>1
  <1>12. PICK e \in Entries : e = T[f0] /\ EntryOK(e, B, a0, f0)
    <2>1. R[a0][f0] = T[f0] /\ T[f0] \in Entries
      BY <1>5
    <2>2. EntryOK(R[a0][f0], B, a0, f0)
      BY <1>9
    <2> QED
      BY <2>1, <2>2
  <1>13. /\ U \in [IovaFrames -> Entries] /\ \A f \in IovaFrames : f # f0 => U[f] = T[f]
         /\ EntryOK(U[f0], C, a0, f0)
         /\ UnpinOutcome(T, x.iova, lv) = "none"
         /\ lv = 1 /\ e.ref # 1 => U[f0].va = e.va
         /\ lv = 0 => /\ e.leaf[i0].ref # 1 => U[f0].leaf[i0].va = e.leaf[i0].va
                      /\ \A k \in Idx : k # i0 => U[f0].leaf[k] = e.leaf[k]
    <2>1. CASE lv = 0
      <3>1. PICK P \in SUBSET Bufs : P = PinSet(B, a0, f0, i0, 0) /\ b \in P
        BY <1>10, <2>1 DEF PinSet
      <3>2. e.leaf[i0].ref > 0 /\ e.leaf[i0].terminal
        <4>1. Cardinality(P) > 0
          BY <3>1, PinCounts
        <4> QED
          BY <1>12, <3>1, <4>1 DEF EntryOK
      <3>3. e.kind # "page"
        <4>1. PinSet(B, a0, f0, {}, 1) = {}
          BY <1>11, <2>1 DEF PinSet
        <4>2. e.ref = 0
          BY <1>12, <4>1, FS_EmptySet DEF EntryOK
        <4> QED
          BY <1>12, <4>2 DEF EntryOK
      <3>4. /\ ~UnpinMissing(T, x.iova, lv) /\ UnpinOutcome(T, x.iova, lv) = "none"
            /\ U = UnpinSmall(T, <<f0, i0>>)
        <4>1. /\ T[x.iova[1]] = e /\ T[x.iova[1]].leaf[x.iova[2]] = e.leaf[i0]
              /\ e.leaf[i0].ref # 0
          BY <1>1, <1>12, <3>2
        <4>2. ~UnpinMissing(T, x.iova, lv) /\ ~UnpinFaults(T, x.iova, lv)
          BY <2>1, <3>2, <3>3, <4>1 DEF UnpinMissing, UnpinFaults
        <4>3. ~UnpinUnderflows(T, x.iova, lv)
          BY <2>1, <4>1 DEF UnpinUnderflows, RefAt
        <4>4. U = UnpinSmall(T, x.iova)
          BY <1>3, <2>1, <4>2 DEF PtUnpin
        <4> QED
          BY <1>1, <4>2, <4>3, <4>4 DEF UnpinOutcome
      <3>5. /\ U \in [IovaFrames -> Entries]
            /\ \A f \in IovaFrames : f # f0 => U[f] = T[f]
            /\ U[f0].kind = T[f0].kind /\ U[f0].ref = T[f0].ref /\ U[f0].va = T[f0].va
            /\ U[f0].leaf[i0].terminal = T[f0].leaf[i0].terminal
            /\ U[f0].leaf[i0].ref = (T[f0].leaf[i0].ref - 1) % RefMod
            /\ T[f0].leaf[i0].ref # 1 => U[f0].leaf[i0].va = T[f0].leaf[i0].va
            /\ \A k \in Idx : k # i0 => U[f0].leaf[k] = T[f0].leaf[k]
        BY <3>4, UnpinSmallFacts
      <3>6. PICK d \in Entries : d = U[f0]
        BY <3>5
      <3>7. /\ d.kind = e.kind /\ d.ref = e.ref
            /\ d.leaf[i0].terminal = e.leaf[i0].terminal
            /\ d.leaf[i0].ref = (e.leaf[i0].ref - 1) % RefMod
            /\ \A k \in Idx : k # i0 => d.leaf[k] = e.leaf[k]
        BY <1>12, <3>5, <3>6
      <3>8. /\ \A k \in Idx : PinSet(C, a0, f0, k, 0) =
                 IF k = i0 THEN PinSet(B, a0, f0, k, 0) \ {b}
                 ELSE PinSet(B, a0, f0, k, 0)
            /\ PinSet(C, a0, f0, {}, 1) = PinSet(B, a0, f0, {}, 1)
            /\ b \in PinSet(B, a0, f0, i0, 0)
        BY <1>8, <1>10, <2>1
      <3>9. EntryOK(d, C, a0, f0)
        BY <1>12, <3>7, <3>8, EntryUnpinSmall
      <3> QED
        BY <1>12, <2>1, <3>4, <3>5, <3>6, <3>9
    <2>2. CASE lv = 1
      <3>1. PICK P \in SUBSET Bufs : P = PinSet(B, a0, f0, {}, 1) /\ b \in P
        BY <1>1, <1>10, <2>2 DEF PinSet
      <3>2. e.ref > 0 /\ e.kind = "page"
        <4>1. Cardinality(P) > 0
          BY <3>1, PinCounts
        <4> QED
          BY <1>12, <3>1, <4>1 DEF EntryOK
      <3>4. /\ UnpinOutcome(T, x.iova, lv) = "none"
            /\ U = UnpinHuge(T, <<f0, i0>>)
        <4>1. T[x.iova[1]] = e /\ e.ref # 0
          BY <1>1, <1>12, <3>2
        <4>2. ~UnpinMissing(T, x.iova, lv) /\ ~UnpinFaults(T, x.iova, lv)
          BY <2>2, <3>2, <4>1 DEF UnpinMissing, UnpinFaults
        <4>3. ~UnpinUnderflows(T, x.iova, lv)
          BY <2>2, <4>1 DEF UnpinUnderflows, RefAt
        <4>4. U = UnpinHuge(T, x.iova)
          BY <1>3, <2>2, <4>2 DEF PtUnpin
        <4> QED
          BY <1>1, <4>2, <4>3, <4>4 DEF UnpinOutcome
      <3>5. /\ U \in [IovaFrames -> Entries]
            /\ \A f \in IovaFrames : f # f0 => U[f] = T[f]
            /\ U[f0].ref = T[f0].ref - 1
            /\ T[f0].ref = 1 => U[f0] = NoEntry
            /\ T[f0].ref # 1 => /\ U[f0].kind = T[f0].kind /\ U[f0].va = T[f0].va
                                /\ U[f0].leaf = T[f0].leaf
        <4>1. T[f0].ref > 0
          BY <1>12, <3>2
        <4> QED
          BY <3>4, <4>1, UnpinHugeFacts
      <3>6. PICK d \in Entries : d = U[f0]
        BY <3>5
      <3>7. /\ d.ref = e.ref - 1 /\ (e.ref = 1 => d = NoEntry)
            /\ e.ref # 1 => d.kind = e.kind /\ d.leaf = e.leaf
        BY <1>12, <3>5, <3>6
      <3>8. /\ \A k \in Idx : PinSet(C, a0, f0, k, 0) = {} /\ PinSet(B, a0, f0, k, 0) = {}
            /\ PinSet(C, a0, f0, {}, 1) = PinSet(B, a0, f0, {}, 1) \ {b}
            /\ b \in PinSet(B, a0, f0, {}, 1)
        <4>1. \A k \in Idx : PinSet(C, a0, f0, k, 0) = PinSet(B, a0, f0, k, 0)
          BY <1>8, <2>2
        <4>2. \A k \in Idx : PinSet(B, a0, f0, k, 0) = {}
          BY <1>11, <2>2 DEF PinSet
        <4>3. PinSet(C, a0, f0, {}, 1) = PinSet(B, a0, f0, {}, 1) \ {b}
          BY <1>1, <1>8, <2>2
        <4> QED
          BY <3>1, <4>1, <4>2, <4>3
      <3>9. EntryOK(d, C, a0, f0)
        BY <1>12, <3>7, <3>8, EntryUnpinHuge
      <3> QED
        BY <1>12, <2>2, <3>4, <3>5, <3>6, <3>9
    <2> QED
      BY <2>1, <2>2
  <1>14. ASSUME NEW a \in Afus, NEW f \in IovaFrames
         PROVE  EntryOK(S[a][f], C, a, f)
    <2>1. CASE a = a0 /\ f = f0
      BY <1>5, <1>13, <2>1
    <2>2. CASE ~(a = a0 /\ f = f0)
      <3>1. S[a][f] = R[a][f]
        BY <1>2, <1>5, <1>13, <2>2
      <3>2. \A i, k : PinSet(C, a, f, i, k) = PinSet(B, a, f, i, k)
        BY <1>8, <2>2
      <3> QED
        BY <1>9, <3>1, <3>2 DEF EntryOK
    <2> QED
      BY <2>1, <2>2
  <1>15. CountInv'
    BY <1>r, <1>14 DEF CountInv
  <1>16. ASSUME NEW c \in Bufs, C[c].st \in {"owned", "iova_free"}, C[c].kind # "user",
                C[c].st = "owned" \/ OneHandlePerAfu
         PROVE  /\ C[c].lv = 1 => S[AfuOf[C[c].h]][C[c].iova[1]].va = C[c].va
                /\ C[c].lv # 1 =>
                     S[AfuOf[C[c].h]][C[c].iova[1]].leaf[C[c].iova[2]].va = C[c].va
    <2>0. c # b
      BY <1>6, <1>16
    <2>1. /\ C[c] = B[c] /\ B[c] = buf[c] /\ Pinned(c) /\ HasIova(B[c])
          /\ buf[c].st = "owned" \/ OneHandlePerAfu
      BY <1>r, <1>6, <1>16, <2>0 DEF Pinned, HasIova
    <2>2. PICK a \in Afus, f \in IovaFrames, i \in Idx, k \in {0, 1} :
            /\ a = AfuOf[B[c].h] /\ B[c].iova = <<f, i>> /\ k = B[c].lv
            /\ k = 1 => i = {}
      <3>1. /\ AfuOf[B[c].h] \in Afus /\ B[c].iova \in IovaFrames \X Idx
            /\ B[c].lv \in {0, 1} /\ (B[c].lv = 1 => B[c].iova[2] = {})
        BY <2>1, IovaType DEF MemInv, BaseInv, BufInv
      <3>2. PICK f \in IovaFrames, i \in Idx : B[c].iova = <<f, i>>
        BY <3>1
      <3> QED
        BY <3>1, <3>2
    <2>3. IF buf[c].lv = 1 THEN Entry(buf[c]).va = buf[c].va
          ELSE Entry(buf[c]).leaf[buf[c].iova[2]].va = buf[c].va
      BY <2>1 DEF MemInv, VaInv
    <2>4. Entry(buf[c]) = R[a][f] /\ buf[c].iova[2] = i /\ buf[c].iova[1] = f
      BY <1>r, <2>1, <2>2 DEF Entry
    <2>5. /\ k = 1 => R[a][f].va = B[c].va
          /\ k = 0 => R[a][f].leaf[i].va = B[c].va
      BY <2>1, <2>2, <2>3, <2>4
    <2>6. SUFFICES /\ k = 1 => S[a][f].va = B[c].va
                   /\ k = 0 => S[a][f].leaf[i].va = B[c].va
      BY <2>1, <2>2, <2>4
    <2>7. CASE ~(a = a0 /\ f = f0)
      <3>1. S[a][f] = R[a][f]
        BY <1>5, <1>13, <2>7
      <3> QED
        BY <2>5, <3>1
    <2>8. CASE a = a0 /\ f = f0 /\ k = lv /\ i = i0
      <3>1. PICK P \in SUBSET Bufs : P = PinSet(B, a0, f0, i0, lv) /\ b \in P
        BY <1>10 DEF PinSet
      <3>2. PinsOf(B[c], a0, f0, i0, lv)
        BY <2>1, <2>2, <2>8 DEF PinsOf, Pinned
      <3>3. c \in P
        BY <3>1, <3>2 DEF PinSet
      <3>4. Cardinality(P) # 1
        BY <2>0, <3>1, <3>3, TwoPins
      <3>5. /\ lv = 1 => e.ref # 1
            /\ lv = 0 => e.leaf[i0].ref # 1
        BY <1>1, <1>12, <3>1, <3>4 DEF EntryOK
      <3>6. R[a][f] = e /\ S[a][f] = U[f0]
        BY <1>5, <1>12, <2>8
      <3> QED
        BY <1>13, <2>5, <2>8, <3>5, <3>6
    <2>9. CASE a = a0 /\ f = f0 /\ k # lv
      <3>1. AfuOf[buf[c].h] = AfuOf[x.h] /\ buf[c].lv # x.lv /\ buf[c].iova[1] = x.iova[1]
        BY <1>1, <2>1, <2>2, <2>9
      <3> QED
        BY <1>c, <2>1, <3>1 DEF Clear
    <2>10. CASE a = a0 /\ f = f0 /\ k = lv /\ i # i0
      <3>1. lv = 0
        BY <1>1, <2>2, <2>10
      <3>2. S[a][f].leaf[i] = R[a][f].leaf[i]
        BY <1>5, <1>12, <1>13, <2>10, <3>1
      <3> QED
        BY <2>5, <2>10, <3>1, <3>2
    <2> QED
      BY <2>7, <2>8, <2>9, <2>10
  <1>17. VaInv'
    BY <1>r, <1>16 DEF VaInv, Entry, Pinned
  <1>18. UnpinOutcome(R[AfuOf[x.h]], x.iova, x.lv) = "none"
    BY <1>1, <1>2, <1>13
  <1> QED
    BY <1>r, <1>15, <1>17, <1>18

\* The other steps pin and unpin nothing.
SamePins(x, y) ==
    /\ Pins(y) <=> Pins(x)
    /\ Pins(y) => /\ y.h = x.h /\ y.iova = x.iova /\ y.lv = x.lv /\ y.va = x.va
                  /\ y.st = "owned" => x.st = "owned"

LEMMA PinsKept ==
    ASSUME CountInv, VaInv, UNCHANGED ase_iova_pt_root,
           session' # "closing" => session # "closing",
           \A c \in Bufs : SamePins(buf[c], buf'[c])
    PROVE  CountInv' /\ VaInv'
  <1>r. PICK B, C : B = buf /\ C = buf'
    OBVIOUS
  <1>1. \A c \in Bufs : \A a, f, i, lv : PinsOf(C[c], a, f, i, lv) <=> PinsOf(B[c], a, f, i, lv)
    BY <1>r DEF SamePins, Pins, PinsOf
  <1>2. \A a, f, i, lv : PinSet(C, a, f, i, lv) = PinSet(B, a, f, i, lv)
    BY <1>1 DEF PinSet
  <1>3. CountInv'
    <2> SUFFICES ASSUME session' # "closing", NEW a \in Afus, NEW f \in IovaFrames
                 PROVE  EntryOK(ase_iova_pt_root[a][f], C, a, f)
      BY <1>r DEF CountInv
    <2>1. EntryOK(ase_iova_pt_root[a][f], B, a, f)
      BY <1>r DEF CountInv
    <2> QED
      BY <1>2, <2>1 DEF EntryOK
  <1>4. VaInv'
    BY DEF VaInv, Entry, Pinned, SamePins, Pins
  <1> QED
    BY <1>3, <1>4

LEMMA PinsKeptOne ==
    ASSUME TypeOK, CountInv, VaInv, UNCHANGED <<ase_iova_pt_root, session>>,
           NEW b \in Bufs, NEW y, buf' = [buf EXCEPT ![b] = y], SamePins(buf[b], y)
    PROVE  CountInv' /\ VaInv'
  <1>1. \A c \in Bufs : SamePins(buf[c], buf'[c])
    BY SetOne DEF SamePins
  <1> QED
    BY <1>1, PinsKept

LEMMA PinsKeptSame ==
    ASSUME CountInv, VaInv, UNCHANGED <<ase_iova_pt_root, buf>>,
           session' # "closing" => session # "closing"
    PROVE  CountInv' /\ VaInv'
  <1>1. \A c \in Bufs : SamePins(buf[c], buf'[c])
    BY DEF SamePins
  <1> QED
    BY <1>1, PinsKept

\* An empty table for an AFU with no buffers.
LEMMA EmptyEntryOK ==
    ASSUME NEW B, NEW a, NEW f,
           \A c \in Bufs : Pins(B[c]) => AfuOf[B[c].h] # a
    PROVE  EntryOK(NoEntry, B, a, f)
  <1>1. \A i, lv : PinSet(B, a, f, i, lv) = {}
    BY DEF PinSet, PinsOf, Pins
  <1>2. Cardinality({}) = 0
    BY FS_EmptySet
  <1> QED
    BY <1>1, <1>2, EmptyFacts DEF EntryOK

\* The last close of an AFU's handles clears its bit, and the last bit ends the
\* session.
LEMMA CloseOpen ==
    ASSUME TypeOK, OpenInv, [ClosesAlone]_vars, NEW h \in Handles, Close(h)
    PROVE  /\ OpenInv' /\ session = "up"
           /\ session' = IF open = {h} THEN "closing" ELSE "up"
           /\ \A g \in open \ {h} : AfuOf[g] # AfuOf[h]
  <1>1. /\ h \in open /\ open' = open \ {h} /\ open \subseteq Handles
        /\ ase_open_afus_by_tok_idx' = ase_open_afus_by_tok_idx \ {AfuOf[h]}
        /\ session' = IF session = "up" /\ ase_open_afus_by_tok_idx' = {}
                      THEN "closing" ELSE session
    BY DEF Close, Idle, TypeOK
  <1>2. session = "up" /\ ase_open_afus_by_tok_idx = {AfuOf[g] : g \in open}
    BY <1>1 DEF OpenInv
  <1>3. \A g \in open \ {h} : AfuOf[g] # AfuOf[h]
    BY <1>1 DEF ClosesAlone, vars, life
  <1>4. ase_open_afus_by_tok_idx' = {AfuOf[g] : g \in open'}
    BY <1>1, <1>2, <1>3
  <1>5. ase_open_afus_by_tok_idx' = {} <=> open = {h}
    BY <1>1, <1>4
  <1> QED
    BY <1>1, <1>2, <1>3, <1>4, <1>5 DEF OpenInv

LEMMA OpenStep ==
    ASSUME TypeOK, OpenInv, [Next]_vars, [ClosesAlone]_vars
    PROVE  OpenInv'
  <1> USE DEF tables, life
  <1>1. ASSUME UNCHANGED life
        PROVE  OpenInv'
    BY <1>1 DEF OpenInv
  <1>2. ASSUME NEW h \in Handles, Open(h)
        PROVE  OpenInv'
    BY <1>2 DEF Open, OpenInv
  <1>3. CASE Terminate
    BY <1>3 DEF Terminate, OpenInv
  <1>4. CASE Life
    BY <1>1, <1>2, <1>3, <1>4, CloseOpen DEF Life, UnpinBadLength, CancelWatcher
  <1>5. ASSUME NEW h \in Handles, NEW b \in Bufs, Api(h, b)
        PROVE  OpenInv'
    BY <1>1, <1>5 DEF Api, AllocIova, AllocIovaFails, PinBuffer, UserMmap, vars
  <1>6. ASSUME NEW b \in Bufs,
               \/ \E v \in Va : GetMemory(b, v)
               \/ GetMemoryFails(b) \/ PinStep(b) \/ FreeIova(b) \/ UnpinStep(b)
               \/ UnpinBuffer(b) \/ UserMunmap(b) \/ MunmapHook(b) \/ Munmap(b)
        PROVE  OpenInv'
    BY <1>1, <1>6 DEF GetMemory, GetMemoryFails, PinStep, FreeIova, UnpinStep,
                      UnpinBuffer, UserMunmap, MunmapHook, Munmap
  <1>7. CASE Watch
    BY <1>1, <1>7 DEF Watch, Translate, AccessIova, AccessPa, FinishAccess
  <1>8. CASE UNCHANGED vars
    BY <1>1, <1>8 DEF vars
  <1> QED
    BY <1>4, <1>5, <1>6, <1>7, <1>8 DEF Next

\* terminate_afu drops the table of the handle whose workspaces are forgotten,
\* and no other handle is open on its AFU.
LEMMA CloseTables ==
    ASSUME MemInv, [ClosesAlone]_vars, NEW h \in Handles, Close(h)
    PROVE  CountInv' /\ VaInv'
  <1>1. CASE session' = "closing"
    BY <1>1 DEF CountInv, VaInv
  <1>2. CASE session' # "closing"
    <2>r. PICK B, C, R, S : /\ B = buf /\ C = buf'
                            /\ R = ase_iova_pt_root /\ S = ase_iova_pt_root'
      OBVIOUS
    <2>1. /\ S = [R EXCEPT ![AfuOf[h]] = EmptyPt(IovaFrames)] /\ session = "up"
          /\ \A g \in open \ {h} : AfuOf[g] # AfuOf[h]
          /\ C = [b \in Bufs |-> IF B[b].h = h /\ B[b].kind # "user" THEN NoBuf ELSE B[b]]
      <3>1. /\ session = "up" /\ session' = IF open = {h} THEN "closing" ELSE "up"
            /\ \A g \in open \ {h} : AfuOf[g] # AfuOf[h]
        BY CloseOpen DEF MemInv, BaseInv
      <3>2. ~(session = "up" /\ ase_open_afus_by_tok_idx \ {AfuOf[h]} = {})
        BY <1>2, <3>1 DEF Close
      <3> QED
        BY <2>r, <3>1, <3>2 DEF Close
    <2>2. \A c \in Bufs : Pins(C[c]) => C[c] = B[c] /\ Pins(B[c]) /\ B[c].h # h
      BY <2>1, NoBufFacts DEF Pins
    <2>3. \A c \in Bufs : Pins(B[c]) /\ B[c].h # h => C[c] = B[c] /\ AfuOf[B[c].h] # AfuOf[h]
      <3>1. ASSUME NEW c \in Bufs, Pins(B[c]), B[c].h # h
            PROVE  C[c] = B[c] /\ AfuOf[B[c].h] # AfuOf[h]
        <4>1. HasIova(B[c]) /\ BufOK(B[c], open)
          BY <2>r, <3>1 DEF HasIova, Pins, MemInv, BaseInv, BufInv
        <4>2. B[c].h \in open
          BY <4>1 DEF BufOK
        <4> QED
          BY <2>1, <3>1, <4>2
      <3> QED
        BY <3>1
    <2>4. /\ AfuOf[h] \in Afus /\ S[AfuOf[h]] = EmptyPt(IovaFrames)
          /\ \A a \in Afus : a # AfuOf[h] => S[a] = R[a]
      BY <2>1, <2>r, AfuAssumption DEF MemInv, BaseInv, TypeOK
    <2>5. ASSUME NEW a \in Afus, NEW f \in IovaFrames
          PROVE  EntryOK(S[a][f], C, a, f)
      <3>1. CASE a = AfuOf[h]
        <4>1. S[a][f] = NoEntry
          BY <2>4, <3>1, EmptyGood
        <4>2. \A c \in Bufs : Pins(C[c]) => AfuOf[C[c].h] # a
          BY <2>2, <2>3, <3>1
        <4> QED
          BY <4>1, <4>2, EmptyEntryOK
      <3>2. CASE a # AfuOf[h]
        <4>1. S[a][f] = R[a][f] /\ EntryOK(R[a][f], B, a, f)
          BY <2>1, <2>r, <2>4, <3>2 DEF MemInv, CountInv
        <4>2. \A c \in Bufs : \A i, lv :
                 PinsOf(C[c], a, f, i, lv) <=> PinsOf(B[c], a, f, i, lv)
          BY <2>2, <2>3, <3>2 DEF Pins, PinsOf
        <4>3. \A i, lv : PinSet(C, a, f, i, lv) = PinSet(B, a, f, i, lv)
          BY <4>2 DEF PinSet
        <4> QED
          BY <4>1, <4>3 DEF EntryOK
      <3> QED
        BY <3>1, <3>2
    <2>6. CountInv'
      BY <2>r, <2>5 DEF CountInv
    <2>7. VaInv'
      <3> SUFFICES ASSUME NEW c \in Bufs, Pins(C[c]), C[c].st = "owned" \/ OneHandlePerAfu
                   PROVE  IF C[c].lv = 1 THEN S[AfuOf[C[c].h]][C[c].iova[1]].va = C[c].va
                          ELSE S[AfuOf[C[c].h]][C[c].iova[1]].leaf[C[c].iova[2]].va = C[c].va
        BY <2>r DEF VaInv, Entry, Pinned, Pins
      <3>1. C[c] = buf[c] /\ Pinned(c) /\ AfuOf[buf[c].h] # AfuOf[h]
        BY <2>r, <2>2, <2>3 DEF Pinned, Pins
      <3>2. AfuOf[buf[c].h] \in Afus
        <4>1. HasIova(buf[c]) /\ BufOK(buf[c], open)
          BY <3>1 DEF HasIova, Pinned, MemInv, BaseInv, BufInv
        <4> QED
          BY <4>1, IovaType DEF MemInv, BaseInv
      <3>3. S[AfuOf[buf[c].h]] = ase_iova_pt_root[AfuOf[buf[c].h]]
        BY <2>r, <2>4, <3>1, <3>2
      <3>4. IF buf[c].lv = 1 THEN Entry(buf[c]).va = buf[c].va
            ELSE Entry(buf[c]).leaf[buf[c].iova[2]].va = buf[c].va
        BY <2>1, <3>1 DEF MemInv, VaInv
      <3> QED
        BY <3>1, <3>3, <3>4 DEF Entry
    <2> QED
      BY <2>6, <2>7
  <1> QED
    BY <1>1, <1>2

\* The page tables follow every step of the calls.
LEMMA TableStep ==
    ASSUME MemInv, Apart, FewBufs, [Next]_vars, [ClosesAlone]_vars
    PROVE  CountInv' /\ VaInv'
  <1> USE DEF tables, life
  <1>t. TypeOK /\ CountInv /\ VaInv /\ \A b \in Bufs : BufOK(buf[b], open)
    BY DEF MemInv, BaseInv, BufInv
  <1>1. ASSUME NEW b \in Bufs, PinStep(b)
        PROVE  CountInv' /\ VaInv'
    <2>1. PICK y, z \in BufRecs :
             /\ PinPage(buf[b], b, y, z) /\ buf[b].st = "mapped"
             /\ y.st = "owned" /\ y.kind = buf[b].kind /\ y.h = buf[b].h
             /\ y.iova = buf[b].iova /\ y.lv = buf[b].lv /\ y.va = buf[b].va
             /\ ~HasIova(z) /\ (buf[b].kind # "prepare" => z = NoBuf)
             /\ buf[b].kind = "prepare" =>
                  /\ z.st = "unpinned" /\ z.kind = "prepare"
                  /\ z.lv = buf[b].lv /\ z.va = buf[b].va
      BY <1>1, <1>t, PinStepShape
    <2>2. /\ session = "up" /\ UNCHANGED session
          /\ buf[b] \in BufRecs /\ HasIova(buf[b]) /\ Mapped(buf[b])
      BY <1>1, <1>t, <2>1, TypeParts DEF PinStep, Locked, Alive, HasIova, Mapped, BufOK
    <2>3. Clear(buf[b]) /\ SameVa(buf[b], b)
      BY <2>1, <2>2, ClearOwn, SameVaOwn DEF MemInv
    <2>4. CASE buf' = [buf EXCEPT ![b] = z] /\ UNCHANGED ase_iova_pt_root
      <3>1. SamePins(buf[b], z)
        BY <2>1, NoBufFacts DEF SamePins, Pins
      <3> QED
        BY <1>t, <2>2, <2>4, <3>1, PinsKeptOne
    <2>5. CASE UNCHANGED <<buf, ase_iova_pt_root>>
      BY <1>t, <2>2, <2>5, PinsKeptSame
    <2>6. CASE /\ buf' = [buf EXCEPT ![b] = y]
               /\ ase_iova_pt_root' = [ase_iova_pt_root EXCEPT ![AfuOf[buf[b].h]] =
                    PtPin(ase_iova_pt_root[AfuOf[buf[b].h]], buf[b].iova, buf[b].lv,
                          buf[b].va)]
      BY <1>t, <2>1, <2>2, <2>3, <2>6, TablePin
    <2> QED
      BY <2>1, <2>4, <2>5, <2>6 DEF PinPage
  <1>2. ASSUME NEW h \in Handles, NEW b \in Bufs, NEW lv \in Levels,
               NEW a \in UserFrames \X Idx, NEW v \in Va, "pin" \in Kinds,
               PinBuffer(h, b, lv, a, v)
        PROVE  CountInv' /\ VaInv'
    <2>1. PICK y \in BufRecs :
             /\ PinPage(y, b, y, NoBuf)
             /\ y.st = "owned" /\ y.kind = "pin" /\ y.h = h /\ y.iova = a
             /\ y.lv = lv /\ y.va = v
             /\ a \in Bases(UserFrames, lv) /\ h \in open /\ buf[b].st = "none"
             /\ \A c \in Bufs : /\ buf[c].kind = "pin"
                                /\ AfuOf[buf[c].h] = AfuOf[h]
                                /\ Pages(a, lv) \cap Pages(buf[c].iova, buf[c].lv) # {}
                                => buf[c] = y
      BY <1>2, <1>t, PinBufferShape
    <2>2. /\ session = "up" /\ UNCHANGED session
          /\ HasIova(y) /\ Mapped(y) /\ BufOK(y, open)
      BY <1>2, <2>1 DEF PinBuffer, Locked, Alive, HasIova, Mapped, BufOK
    <2>3. Clear(y) /\ SameVa(y, b)
      BY <2>1, <2>2, ClearNew DEF MemInv
    <2>4. CASE buf' = [buf EXCEPT ![b] = NoBuf] /\ UNCHANGED ase_iova_pt_root
      <3>1. SamePins(buf[b], NoBuf)
        BY <2>1, NoBufFacts DEF SamePins, Pins
      <3> QED
        BY <1>t, <2>2, <2>4, <3>1, PinsKeptOne
    <2>5. CASE UNCHANGED <<buf, ase_iova_pt_root>>
      BY <1>t, <2>2, <2>5, PinsKeptSame
    <2>6. CASE /\ buf' = [buf EXCEPT ![b] = y]
               /\ ase_iova_pt_root' = [ase_iova_pt_root EXCEPT ![AfuOf[y.h]] =
                    PtPin(ase_iova_pt_root[AfuOf[y.h]], y.iova, y.lv, y.va)]
      BY <2>1, <2>2, <2>3, <2>6, TablePin
    <2> QED
      BY <2>1, <2>4, <2>5, <2>6 DEF PinPage
  <1>3. ASSUME NEW b \in Bufs, UnpinStep(b)
        PROVE  CountInv' /\ VaInv'
    <2>1. PICK z \in BufRecs :
             /\ buf' = [buf EXCEPT ![b] = z] /\ buf[b].st = "iova_free"
             /\ UnpinPage(buf[b]) /\ ~HasIova(z)
             /\ buf[b].kind # "prepare" => z = NoBuf
             /\ buf[b].kind = "prepare" =>
                  /\ z.st = "unpinned" /\ z.kind = "prepare"
                  /\ z.lv = buf[b].lv /\ z.va = buf[b].va
      BY <1>3, <1>t, UnpinStepShape
    <2>2. session = "up" /\ UNCHANGED session /\ Pinned(b)
      BY <1>3, <1>t, <2>1 DEF UnpinStep, Locked, Alive, Pinned, BufOK
    <2>3. z.st \notin {"owned", "iova_free"}
      BY <2>1, NoBufFacts
    <2>4. ase_iova_pt_root' = [ase_iova_pt_root EXCEPT ![AfuOf[buf[b].h]] =
              PtUnpin(ase_iova_pt_root[AfuOf[buf[b].h]], buf[b].iova, buf[b].lv)]
      BY <2>1 DEF UnpinPage
    <2> QED
      BY <2>1, <2>2, <2>3, <2>4, TableUnpin
  <1>4. ASSUME NEW b \in Bufs, UnpinBuffer(b)
        PROVE  CountInv' /\ VaInv'
    <2>2. /\ session = "up" /\ UNCHANGED session /\ Pinned(b)
          /\ buf' = [buf EXCEPT ![b] = NoBuf] /\ UnpinPage(buf[b])
      BY <1>4 DEF UnpinBuffer, Locked, Alive, Pinned
    <2>3. NoBuf.st \notin {"owned", "iova_free"}
      BY NoBufFacts
    <2>4. ase_iova_pt_root' = [ase_iova_pt_root EXCEPT ![AfuOf[buf[b].h]] =
              PtUnpin(ase_iova_pt_root[AfuOf[buf[b].h]], buf[b].iova, buf[b].lv)]
      BY <2>2 DEF UnpinPage
    <2> QED
      BY <2>2, <2>3, <2>4, TableUnpin
  <1>5. ASSUME NEW h \in Handles, NEW b \in Bufs,
               NEW k \in Kinds \cap {"prepare", "prealloc"}, NEW lv \in Levels,
               NEW a \in PoolFrames \X Idx, AllocIova(h, b, k, lv, a)
        PROVE  CountInv' /\ VaInv'
    <2>1. PICK y \in BufRecs :
             /\ buf' = [buf EXCEPT ![b] = y]
             /\ y.st = "iova" /\ y.kind = k /\ y.h = h /\ y.iova = a /\ y.lv = lv
             /\ a \in Bases(PoolFrames, lv) /\ h \in open
      BY <1>5, <1>t, AllocIovaShape
    <2>2. buf[b].st = "none" /\ UNCHANGED <<ase_iova_pt_root, session>>
      BY <1>5 DEF AllocIova, Slot
    <2>3. SamePins(buf[b], y)
      BY <2>1, <2>2 DEF SamePins, Pins
    <2> QED
      BY <1>t, <2>1, <2>2, <2>3, PinsKeptOne
  <1>6. ASSUME NEW b \in Bufs, NEW v \in Va, GetMemory(b, v)
        PROVE  CountInv' /\ VaInv'
    <2>1. PICK y \in BufRecs :
             /\ buf' = [buf EXCEPT ![b] = y] /\ buf[b].st = "iova"
             /\ y.st = "mapped" /\ y.kind = buf[b].kind /\ y.h = buf[b].h
             /\ y.iova = buf[b].iova /\ y.lv = buf[b].lv /\ y.va = v
      BY <1>6, <1>t, GetMemoryShape
    <2>2. UNCHANGED <<ase_iova_pt_root, session>> /\ SamePins(buf[b], y)
      BY <1>6, <2>1 DEF GetMemory, SamePins, Pins
    <2> QED
      BY <1>t, <2>1, <2>2, PinsKeptOne
  <1>7. ASSUME NEW b \in Bufs, GetMemoryFails(b) \/ Munmap(b)
        PROVE  CountInv' /\ VaInv'
    <2>1. /\ buf' = [buf EXCEPT ![b] = NoBuf] /\ UNCHANGED <<ase_iova_pt_root, session>>
          /\ buf[b].st \in {"iova", "hooked"}
      BY <1>7 DEF GetMemoryFails, Munmap
    <2>2. SamePins(buf[b], NoBuf)
      BY <2>1, NoBufFacts DEF SamePins, Pins
    <2> QED
      BY <1>t, <2>1, <2>2, PinsKeptOne
  <1>8. ASSUME NEW b \in Bufs, FreeIova(b) \/ UserMunmap(b) \/ MunmapHook(b)
        PROVE  CountInv' /\ VaInv'
    <2>1. PICK s \in States :
            /\ buf' = [buf EXCEPT ![b].st = s] /\ UNCHANGED <<ase_iova_pt_root, session>>
            /\ \/ s = "iova_free" /\ buf[b].st = "owned" /\ buf[b].kind # "user"
               \/ s = "unpinned" /\ buf[b].kind = "user"
               \/ s = "hooked" /\ buf[b].st = "unpinned"
      BY <1>8 DEF FreeIova, UserMunmap, MunmapHook, States
    <2>2. PICK y \in BufRecs :
             /\ buf' = [buf EXCEPT ![b] = y]
             /\ y.st = s /\ y.kind = buf[b].kind /\ y.h = buf[b].h
             /\ y.iova = buf[b].iova /\ y.lv = buf[b].lv /\ y.va = buf[b].va
      BY <2>1, <1>t, StShape
    <2>3. SamePins(buf[b], y)
      BY <2>1, <2>2 DEF SamePins, Pins
    <2> QED
      BY <1>t, <2>1, <2>2, <2>3, PinsKeptOne
  <1>9. ASSUME NEW h \in Handles, NEW b \in Bufs, NEW lv \in Levels, NEW v \in Va,
               "user" \in Kinds, UserMmap(h, b, lv, v)
        PROVE  CountInv' /\ VaInv'
    <2>1. PICK y \in BufRecs :
             /\ buf' = [buf EXCEPT ![b] = y]
             /\ y.st = "owned" /\ y.kind = "user" /\ y.va = v
      BY <1>9, <1>t, UserMmapShape
    <2>2. buf[b].st = "none" /\ UNCHANGED <<ase_iova_pt_root, session>>
      BY <1>9 DEF UserMmap, Slot
    <2>3. SamePins(buf[b], y)
      BY <2>1, <2>2 DEF SamePins, Pins
    <2> QED
      BY <1>t, <2>1, <2>2, <2>3, PinsKeptOne
  <1>10. CASE Watch
    <2>1. UNCHANGED <<ase_iova_pt_root, buf, session>>
      BY <1>10 DEF Watch, Translate, AccessIova, AccessPa, FinishAccess
    <2> QED
      BY <1>t, <2>1, PinsKeptSame
  <1>11. CASE Terminate
    <2>1. /\ open = {} /\ buf' = buf
          /\ ase_iova_pt_root' = [a \in Afus |-> EmptyPt(IovaFrames)]
      BY <1>11 DEF Terminate, MemInv, OpenInv
    <2>2. \A c \in Bufs : ~Pins(buf[c])
      BY <1>t, <2>1 DEF Pins, BufOK, HasIova
    <2>3. ASSUME NEW a \in Afus, NEW f \in IovaFrames
          PROVE  EntryOK(ase_iova_pt_root'[a][f], buf, a, f)
      <3>1. ase_iova_pt_root'[a][f] = NoEntry
        BY <2>1, EmptyGood
      <3> QED
        BY <2>2, <3>1, EmptyEntryOK
    <2>4. CountInv'
      BY <2>1, <2>3 DEF CountInv
    <2>5. VaInv'
      BY <2>1, <2>2 DEF VaInv, Pinned, Pins
    <2> QED
      BY <2>4, <2>5
  <1>12. CASE Life
    <2>1. ASSUME NEW h \in Handles, Open(h) \/ UnpinBadLength(h)
          PROVE  CountInv' /\ VaInv'
      <3>1. UNCHANGED <<ase_iova_pt_root, buf>> /\ session # "closing"
        BY <2>1 DEF Open, UnpinBadLength, Locked, Alive
      <3> QED
        BY <1>t, <3>1, PinsKeptSame
    <2>2. CASE CancelWatcher
      BY <1>t, <2>2, PinsKeptSame DEF CancelWatcher
    <2> QED
      BY <1>11, <1>12, <2>1, <2>2, CloseTables DEF Life
  <1>13. CASE UNCHANGED vars
    BY <1>t, <1>13, PinsKeptSame DEF vars
  <1>14. ASSUME NEW h \in Handles, NEW b \in Bufs, Api(h, b)
         PROVE  CountInv' /\ VaInv'
    BY <1>2, <1>5, <1>9, <1>13, <1>14 DEF Api, AllocIovaFails
  <1> QED
    BY <1>1, <1>3, <1>4, <1>6, <1>7, <1>8, <1>10, <1>12, <1>13, <1>14 DEF Next

LEMMA MemInit == Init => MemInv
  <1> SUFFICES ASSUME Init
               PROVE  MemInv
    OBVIOUS
  <1>1. \A b \in Bufs : buf[b] = NoBuf
    BY DEF Init
  <1>2. \A b \in Bufs : ~HasIova(buf[b]) /\ ~Pins(buf[b])
    BY <1>1, NoBufFacts DEF Pins
  <1>3. AllocInv /\ PinInv /\ VaInv
    BY <1>2 DEF AllocInv, PinInv, VaInv, Pooled, Pinned, Pins
  <1>4. CountInv
    <2>1. ASSUME NEW a \in Afus, NEW f \in IovaFrames
          PROVE  EntryOK(ase_iova_pt_root[a][f], buf, a, f)
      <3>1. ase_iova_pt_root[a][f] = NoEntry
        BY EmptyGood DEF Init
      <3> QED
        BY <1>2, <3>1, EmptyEntryOK
    <2> QED
      BY <2>1 DEF CountInv
  <1> QED
    BY <1>3, <1>4, BaseInit DEF MemInv, OpenInv, Init

LEMMA MemStep ==
    ASSUME MemInv, Apart, FewBufs, [Next]_vars, [ClosesAlone]_vars
    PROVE  MemInv'
  BY BaseStep, OpenStep, AllocStep, PinInvStep, TableStep DEF MemInv, BaseInv

LEMMA MemInvariance == Apart /\ FewBufs => (Spec /\ CloseAlone => []MemInv)
  <1> SUFFICES ASSUME Apart, FewBufs
               PROVE  Spec /\ CloseAlone => []MemInv
    OBVIOUS
  <1>1. MemInv /\ [Next]_vars /\ [ClosesAlone]_vars => MemInv'
    BY MemStep
  <1> QED
    BY <1>1, MemInit, PTL DEF Spec, CloseAlone

\* With one handle on each AFU every close is alone.
LEMMA OneHandleCloses == OneHandlePerAfu => (Spec => CloseAlone)
  <1> SUFFICES ASSUME OneHandlePerAfu
               PROVE  Spec => CloseAlone
    OBVIOUS
  <1>1. BaseInv => [ClosesAlone]_vars
    BY DEF BaseInv, TypeOK, ClosesAlone, OneHandlePerAfu
  <1> QED
    BY <1>1, BaseInvariance, PTL DEF CloseAlone

\* Reference counts are exact: no call forgets or repeats an unpin, for any
\* number of handles, AFUs and buffers, if AFUs have one handle or buffers one
\* size and no handle is closed under another one of its AFU (ase_pt_pin_page,
\* ase_pt_unpin_page, ase_fpgaClose).
THEOREM ReferenceCounts ==
    Apart /\ FewBufs => (Spec /\ CloseAlone => []RefcountExact)
  <1> SUFFICES ASSUME Apart, FewBufs
               PROVE  Spec /\ CloseAlone => []RefcountExact
    OBVIOUS
  <1>1. MemInv => RefcountExact
    <2> SUFFICES ASSUME MemInv, session = "up", NEW a \in Afus, NEW f \in IovaFrames
                 PROVE  /\ ase_iova_pt_root[a][f].ref = Cardinality({b \in Bufs :
                             /\ Pinned(b) /\ AfuOf[buf[b].h] = a
                             /\ buf[b].iova = <<f, {}>> /\ buf[b].lv = 1})
                        /\ \A i \in Idx : ase_iova_pt_root[a][f].leaf[i].ref =
                             Cardinality({b \in Bufs :
                               /\ Pinned(b) /\ AfuOf[buf[b].h] = a
                               /\ buf[b].iova = <<f, i>> /\ buf[b].lv = 0})
      BY DEF RefcountExact
    <2>1. PinSet(buf, a, f, {}, 1) = {b \in Bufs :
               /\ Pinned(b) /\ AfuOf[buf[b].h] = a
               /\ buf[b].iova = <<f, {}>> /\ buf[b].lv = 1}
      BY DEF PinSet, PinsOf, Pinned
    <2>2. ASSUME NEW i \in Idx
          PROVE  PinSet(buf, a, f, i, 0) = {b \in Bufs :
                   /\ Pinned(b) /\ AfuOf[buf[b].h] = a
                   /\ buf[b].iova = <<f, i>> /\ buf[b].lv = 0}
      BY DEF PinSet, PinsOf, Pinned
    <2>3. EntryOK(ase_iova_pt_root[a][f], buf, a, f)
      BY DEF MemInv, CountInv
    <2>4. /\ ase_iova_pt_root[a][f].ref = Cardinality(PinSet(buf, a, f, {}, 1))
          /\ \A i \in Idx : ase_iova_pt_root[a][f].leaf[i].ref =
                            Cardinality(PinSet(buf, a, f, i, 0))
      BY <2>3 DEF EntryOK
    <2>5. ASSUME NEW i \in Idx
          PROVE  ase_iova_pt_root[a][f].leaf[i].ref = Cardinality({b \in Bufs :
                   /\ Pinned(b) /\ AfuOf[buf[b].h] = a
                   /\ buf[b].iova = <<f, i>> /\ buf[b].lv = 0})
      BY <2>2, <2>4
    <2>6. ase_iova_pt_root[a][f].ref = Cardinality({b \in Bufs :
               /\ Pinned(b) /\ AfuOf[buf[b].h] = a
               /\ buf[b].iova = <<f, {}>> /\ buf[b].lv = 1})
      BY <2>1, <2>4
    <2> QED
      BY <2>5, <2>6
  <1> QED
    BY <1>1, MemInvariance, PTL

\* ase_pt_pin_page takes the page of every buffer with an IOVA and memory, and
\* nothing else ends its state "mapped".
LEMMA AllocatedStep ==
    ASSUME MemInv, Apart, FewBufs, ~NoMemory, [Next]_vars,
           NEW c \in Bufs, buf[c].st = "mapped"
    PROVE  buf'[c].st \in {"mapped", "owned"}
  <1> USE DEF tables, life
  <1>t. TypeOK /\ \A b \in Bufs : BufOK(buf[b], open)
    BY DEF MemInv, BaseInv, BufInv
  <1>1. ASSUME NEW b \in Bufs, NEW y, buf' = [buf EXCEPT ![b] = y],
               b = c => y.st \in {"mapped", "owned"}
        PROVE  buf'[c].st \in {"mapped", "owned"}
    BY <1>1, <1>t, SetOne
  <1>2. CASE UNCHANGED buf
    BY <1>2
  <1>3. ASSUME NEW b \in Bufs, PinStep(b)
        PROVE  buf'[c].st \in {"mapped", "owned"}
    <2>1. PICK y, z \in BufRecs :
             /\ PinPage(buf[b], b, y, z) /\ buf[b].st = "mapped"
             /\ y.st = "owned" /\ y.kind = buf[b].kind /\ y.h = buf[b].h
             /\ y.iova = buf[b].iova /\ y.lv = buf[b].lv /\ y.va = buf[b].va
             /\ ~HasIova(z) /\ (buf[b].kind # "prepare" => z = NoBuf)
             /\ buf[b].kind = "prepare" =>
                  /\ z.st = "unpinned" /\ z.kind = "prepare"
                  /\ z.lv = buf[b].lv /\ z.va = buf[b].va
      BY <1>3, <1>t, PinStepShape
    <2>2. HasIova(buf[b]) /\ session = "up"
      BY <1>3, <1>t, <2>1 DEF PinStep, Locked, Alive, HasIova, BufOK
    <2>3. ~PinRefused(ase_iova_pt_root[AfuOf[buf[b].h]], buf[b].iova, buf[b].lv)
      BY <1>t, <2>2, ClearOwn, NotRefused DEF MemInv
    <2>4. buf' = buf \/ buf' = [buf EXCEPT ![b] = y]
      BY <2>1, <2>3 DEF PinPage, TableFails
    <2> QED
      BY <1>1, <1>2, <2>1, <2>4
  <1>4. ASSUME NEW h \in Handles, NEW b \in Bufs, Api(h, b)
        PROVE  buf'[c].st \in {"mapped", "owned"}
    <2>1. ASSUME NEW k \in Kinds \cap {"prepare", "prealloc"}, NEW lv \in Levels,
                 NEW a \in PoolFrames \X Idx, AllocIova(h, b, k, lv, a)
          PROVE  buf'[c].st \in {"mapped", "owned"}
      BY <1>1, <2>1 DEF AllocIova, Slot
    <2>2. ASSUME NEW lv \in Levels, NEW v \in Va, UserMmap(h, b, lv, v)
          PROVE  buf'[c].st \in {"mapped", "owned"}
      BY <1>1, <2>2 DEF UserMmap, Slot
    <2>3. ASSUME NEW lv \in Levels, NEW a \in UserFrames \X Idx, NEW v \in Va,
                 "pin" \in Kinds, PinBuffer(h, b, lv, a, v)
          PROVE  buf'[c].st \in {"mapped", "owned"}
      <3>1. PICK y \in BufRecs : PinPage(y, b, y, NoBuf) /\ buf[b].st = "none"
        BY <1>t, <2>3, PinBufferShape
      <3>2. \/ buf' = buf \/ buf' = [buf EXCEPT ![b] = y]
            \/ buf' = [buf EXCEPT ![b] = NoBuf]
        BY <3>1 DEF PinPage
      <3> QED
        BY <1>1, <1>2, <3>1, <3>2
    <2> QED
      BY <1>2, <1>4, <2>1, <2>2, <2>3 DEF Api, AllocIovaFails, vars
  <1>5. ASSUME NEW b \in Bufs, NEW v \in Va, GetMemory(b, v)
        PROVE  buf'[c].st \in {"mapped", "owned"}
    <2>1. PICK y \in BufRecs : buf' = [buf EXCEPT ![b] = y] /\ buf[b].st = "iova"
      BY <1>5, <1>t, GetMemoryShape
    <2> QED
      BY <1>1, <2>1
  <1>6. ASSUME NEW b \in Bufs, FreeIova(b) \/ UserMunmap(b) \/ MunmapHook(b)
        PROVE  buf'[c].st \in {"mapped", "owned"}
    <2>1. PICK s \in States : buf' = [buf EXCEPT ![b].st = s] /\ buf[b].st # "mapped"
      BY <1>6 DEF FreeIova, UserMunmap, MunmapHook, States
    <2>2. PICK y \in BufRecs : buf' = [buf EXCEPT ![b] = y]
      <3>1. TypeOK /\ buf' = [buf EXCEPT ![b].st = s]
        BY <2>1, <1>t
      <3>2. \E y \in BufRecs :
             /\ buf' = [buf EXCEPT ![b] = y]
             /\ y.st = s /\ y.kind = buf[b].kind /\ y.h = buf[b].h
             /\ y.iova = buf[b].iova /\ y.lv = buf[b].lv /\ y.va = buf[b].va
        BY <3>1, StShape
      <3> QED
        BY ONLY <3>2
    <2> QED
      BY <1>1, <2>1, <2>2
  <1>7. ASSUME NEW b \in Bufs,
               GetMemoryFails(b) \/ UnpinStep(b) \/ UnpinBuffer(b) \/ Munmap(b)
        PROVE  buf'[c].st \in {"mapped", "owned"}
    <2>1. buf[b].st # "mapped" /\ \E y : buf' = [buf EXCEPT ![b] = y]
      BY <1>7 DEF GetMemoryFails, UnpinStep, UnpinBuffer, Munmap
    <2> QED
      BY <1>1, <2>1
  <1>8. CASE Watch
    BY <1>2, <1>8 DEF Watch, Translate, AccessIova, AccessPa, FinishAccess
  <1>9. ASSUME NEW h \in Handles, Close(h)
        PROVE  buf'[c].st \in {"mapped", "owned"}
    BY <1>9 DEF Close, Idle
  <1>10. CASE Life
    BY <1>2, <1>9, <1>10 DEF Life, Open, UnpinBadLength, CancelWatcher, Terminate
  <1>11. CASE UNCHANGED vars
    BY <1>2, <1>11 DEF vars
  <1> QED
    BY <1>3, <1>4, <1>5, <1>6, <1>7, <1>8, <1>10, <1>11 DEF Next

\* Where every AFU has one handle (or all buffers have one size), PrepareBuffer's
\* page is always accepted: a huge page that was there is unpinned before the
\* IOVA can be allocated again, because the mutex of the handle covers the free
\* and the unpin (ase_fpgaReleaseBuffer).  Two handles of one AFU that use both
\* sizes are not covered, and there the page may be refused.
THEOREM AllocatedPagesPin ==
    Apart /\ FewBufs /\ ~NoMemory => (Spec /\ CloseAlone => AllocatedIovaPins)
  <1> SUFFICES ASSUME Apart, FewBufs, ~NoMemory
               PROVE  Spec /\ CloseAlone => AllocatedIovaPins
    OBVIOUS
  <1>1. MemInv /\ [Next]_vars =>
          [\A b \in Bufs : buf[b].st = "mapped" => buf'[b].st \in {"mapped", "owned"}]_vars
    BY AllocatedStep
  <1> QED
    BY <1>1, MemInvariance, PTL DEF AllocatedIovaPins, Spec

\* The AFU's address of an owned buffer is in the table, and leads to the page of
\* the buffer that the AFU means.
LEMMA OwnedFound ==
    ASSUME MemInv, Apart, FewBufs, session = "up", NEW b \in Bufs, NEW j \in Idx,
           NEW x, x = buf[b], x.st = "owned" \/ (x.st = "iova_free" /\ OneHandlePerAfu),
           x.kind # "user", x.lv = 0 => j = {},
           NEW T, T = ase_iova_pt_root[AfuOf[x.h]],
           NEW a, a = <<x.iova[1], x.iova[2] \cup j>>
    PROVE  Found(T, a) /\ Lookup(T, a) = <<x.va[1], x.va[2] \cup j>>
  <1>1. HasIova(x) /\ BufOK(x, open) /\ Pinned(b) /\ x.va \in Va
    BY DEF HasIova, MemInv, BaseInv, BufInv, Pinned, BufOK, Mapped
  <1>2. PICK a0 \in Afus, f0 \in IovaFrames, i0 \in Idx, lv \in {0, 1} :
            /\ a0 = AfuOf[x.h] /\ x.iova = <<f0, i0>> /\ lv = x.lv
            /\ lv = 1 => i0 = {}
    <2>1. /\ AfuOf[x.h] \in Afus /\ x.iova \in IovaFrames \X Idx /\ x.lv \in {0, 1}
          /\ x.lv = 1 => x.iova[2] = {}
      BY <1>1, IovaType DEF MemInv, BaseInv
    <2>2. PICK f \in IovaFrames, i \in Idx : x.iova = <<f, i>>
      BY <2>1
    <2> QED
      BY <2>1, <2>2
  <1>3. PICK vf, vi : x.va = <<vf, vi>> /\ x.va[1] = vf /\ x.va[2] = vi
    BY <1>1 DEF Va
  <1>4. /\ EntryOK(T[f0], buf, a0, f0) /\ a[1] = f0 /\ a[2] = i0 \cup j
        /\ lv = 1 => T[f0].va = x.va
        /\ lv = 0 => T[f0].leaf[i0].va = x.va
    <2>1. T = ase_iova_pt_root[a0] /\ a[1] = f0 /\ a[2] = i0 \cup j
      BY <1>2
    <2>2. EntryOK(ase_iova_pt_root[a0][f0], buf, a0, f0)
      BY DEF MemInv, CountInv
    <2>3. Entry(x) = T[f0] /\ x.iova[2] = i0
      BY <1>2, <2>1 DEF Entry
    <2>4. IF x.lv = 1 THEN Entry(x).va = x.va ELSE Entry(x).leaf[x.iova[2]].va = x.va
      BY <1>1 DEF MemInv, VaInv
    <2>5. EntryOK(T[f0], buf, a0, f0)
      BY <2>1, <2>2
    <2>6. IF lv = 1 THEN T[f0].va = x.va ELSE T[f0].leaf[i0].va = x.va
      BY <1>2, <2>3, <2>4
    <2> QED
      BY <2>1, <2>5, <2>6
  <1>5. b \in PinSet(buf, a0, f0, i0, lv)
    BY <1>1, <1>2 DEF PinSet, PinsOf, Pinned
  <1>6. PICK P \in SUBSET Bufs : P = PinSet(buf, a0, f0, i0, lv) /\ b \in P
    BY <1>5 DEF PinSet
  <1>7. Cardinality(P) > 0
    BY <1>6, PinCounts
  <1>8. CASE lv = 1
    <2>a. T[f0].ref = Cardinality(P) /\ (T[f0].kind = "page" <=> T[f0].ref > 0)
      <3>1. i0 = {}
        BY <1>2, <1>8
      <3>2. P = PinSet(buf, a0, f0, {}, 1)
        BY <3>1, <1>6, <1>8
      <3> QED
        BY <3>2, <1>4 DEF EntryOK
    <2>1. T[f0].kind = "page" /\ T[f0].va = <<vf, vi>>
      BY <2>a, <1>3, <1>4, <1>7, <1>8
    <2>2. a[2] = j
      BY <1>2, <1>4, <1>8
    <2> QED
      BY <1>3, <1>4, <2>1, <2>2 DEF Found, Lookup
  <1>9. CASE lv = 0
    <2>1. T[f0].leaf[i0].ref > 0
      BY <1>4, <1>6, <1>7, <1>9 DEF EntryOK
    <2>3. a[2] = i0 /\ vi \cup j = vi
      BY <1>2, <1>4, <1>9
    <2>2. T[f0].kind # "page"
      <3>1. ~PinRefused(T, x.iova, x.lv)
        BY <1>1, ClearOwn, NotRefused DEF MemInv
      <3> QED
        BY <1>2, <1>9, <3>1 DEF PinRefused
    <2> QED
      BY <1>3, <1>4, <1>9, <2>1, <2>2, <2>3 DEF Found, Lookup
  <1> QED
    BY <1>8, <1>9

\* Without address translation no step ends the application.
LEMMA CrashStep ==
    ASSUME MemInv, Apart, FewBufs, ~Ats, err = "none", [Next]_vars
    PROVE  err' = "none"
  <1> USE DEF tables, life
  <1>t. TypeOK /\ \A b \in Bufs : BufOK(buf[b], open)
    BY DEF MemInv, BaseInv, BufInv
  <1>0. ASSUME UNCHANGED err
        PROVE  err' = "none"
    BY <1>0
  <1>1. ASSUME NEW b \in Bufs, PinStep(b)
        PROVE  err' = "none"
    <2>1. PICK y, z \in BufRecs :
             /\ PinPage(buf[b], b, y, z) /\ buf[b].st = "mapped"
             /\ y.st = "owned" /\ y.kind = buf[b].kind /\ y.h = buf[b].h
             /\ y.iova = buf[b].iova /\ y.lv = buf[b].lv /\ y.va = buf[b].va
             /\ ~HasIova(z) /\ (buf[b].kind # "prepare" => z = NoBuf)
             /\ buf[b].kind = "prepare" =>
                  /\ z.st = "unpinned" /\ z.kind = "prepare"
                  /\ z.lv = buf[b].lv /\ z.va = buf[b].va
      BY <1>1, <1>t, PinStepShape
    <2>2. /\ session = "up" /\ UNCHANGED session
          /\ buf[b] \in BufRecs /\ HasIova(buf[b]) /\ Mapped(buf[b])
      BY <1>1, <1>t, <2>1, TypeParts DEF PinStep, Locked, Alive, HasIova, Mapped, BufOK
    <2>3. Clear(buf[b]) /\ SameVa(buf[b], b)
      BY <2>1, <2>2, ClearOwn, SameVaOwn DEF MemInv
    <2>4. CASE /\ buf' = [buf EXCEPT ![b] = y]
               /\ ase_iova_pt_root' = [ase_iova_pt_root EXCEPT ![AfuOf[buf[b].h]] =
                    PtPin(ase_iova_pt_root[AfuOf[buf[b].h]], buf[b].iova, buf[b].lv,
                          buf[b].va)]
               /\ err' = IF PinOverflows(ase_iova_pt_root[AfuOf[buf[b].h]],
                                         buf[b].iova, buf[b].lv)
                         THEN "assert" ELSE err
      BY <1>t, <2>1, <2>2, <2>3, <2>4, TablePin
    <2> QED
      BY <1>0, <2>1, <2>4 DEF PinPage
  <1>2. ASSUME NEW h \in Handles, NEW b \in Bufs, NEW lv \in Levels,
               NEW a \in UserFrames \X Idx, NEW v \in Va, "pin" \in Kinds,
               PinBuffer(h, b, lv, a, v)
        PROVE  err' = "none"
    <2>1. PICK y \in BufRecs :
             /\ PinPage(y, b, y, NoBuf)
             /\ y.st = "owned" /\ y.kind = "pin" /\ y.h = h /\ y.iova = a
             /\ y.lv = lv /\ y.va = v
             /\ a \in Bases(UserFrames, lv) /\ h \in open /\ buf[b].st = "none"
             /\ \A c \in Bufs : /\ buf[c].kind = "pin"
                                /\ AfuOf[buf[c].h] = AfuOf[h]
                                /\ Pages(a, lv) \cap Pages(buf[c].iova, buf[c].lv) # {}
                                => buf[c] = y
      BY <1>2, <1>t, PinBufferShape
    <2>2. /\ session = "up" /\ UNCHANGED session
          /\ HasIova(y) /\ Mapped(y) /\ BufOK(y, open)
      BY <1>2, <2>1 DEF PinBuffer, Locked, Alive, HasIova, Mapped, BufOK
    <2>3. Clear(y) /\ SameVa(y, b)
      BY <2>1, <2>2, ClearNew DEF MemInv
    <2>4. CASE /\ buf' = [buf EXCEPT ![b] = y]
               /\ ase_iova_pt_root' = [ase_iova_pt_root EXCEPT ![AfuOf[y.h]] =
                    PtPin(ase_iova_pt_root[AfuOf[y.h]], y.iova, y.lv, y.va)]
               /\ err' = IF PinOverflows(ase_iova_pt_root[AfuOf[y.h]], y.iova, y.lv)
                         THEN "assert" ELSE err
      BY <2>1, <2>2, <2>3, <2>4, TablePin
    <2> QED
      BY <1>0, <2>1, <2>4 DEF PinPage
  <1>3. ASSUME NEW b \in Bufs, UnpinStep(b) \/ UnpinBuffer(b)
        PROVE  err' = "none"
    <2>1. UnpinPage(buf[b]) /\ session = "up" /\ UNCHANGED session /\ Pinned(b)
      BY <1>3, <1>t DEF UnpinStep, UnpinBuffer, Locked, Alive, Pinned, BufOK
    <2>2. PICK y : buf' = [buf EXCEPT ![b] = y] /\ y.st \notin {"owned", "iova_free"}
      <3>1. CASE UnpinStep(b)
        BY <1>t, <3>1, UnpinStepShape, NoBufFacts
      <3>2. CASE UnpinBuffer(b)
        BY <3>2, NoBufFacts DEF UnpinBuffer
      <3> QED
        BY <1>3, <3>1, <3>2
    <2>3. /\ ase_iova_pt_root' = [ase_iova_pt_root EXCEPT ![AfuOf[buf[b].h]] =
               PtUnpin(ase_iova_pt_root[AfuOf[buf[b].h]], buf[b].iova, buf[b].lv)]
          /\ err' = UnpinOutcome(ase_iova_pt_root[AfuOf[buf[b].h]], buf[b].iova, buf[b].lv)
      BY <2>1 DEF UnpinPage
    <2> QED
      BY <2>1, <2>2, <2>3, TableUnpin
  <1>4. ASSUME NEW w \in Watchers, NEW b \in Bufs, NEW j \in Idx, AccessIova(w, b, j)
        PROVE  err' = "none"
    <2>1. PICK x, T, a : /\ x = buf[b] /\ T = ase_iova_pt_root[AfuOf[x.h]]
                         /\ a = <<x.iova[1], x.iova[2] \cup j>>
      OBVIOUS
    <2>2. /\ session = "up" /\ x.kind # "user" /\ (x.lv = 0 => j = {})
          /\ x.st = "owned" \/ Found(T, a)
          /\ err' = IF Found(T, a) THEN err ELSE "abort"
      BY <1>4, <2>1 DEF AccessIova, Locked, Alive
    <2>3. Found(T, a)
      BY <2>1, <2>2, OwnedFound
    <2> QED
      BY <2>2, <2>3
  <1>5. ASSUME NEW h \in Handles, NEW b \in Bufs, Api(h, b)
        PROVE  err' = "none"
    BY <1>0, <1>2, <1>5 DEF Api, AllocIova, AllocIovaFails, UserMmap, vars
  <1>6. ASSUME NEW b \in Bufs,
               \/ \E v \in Va : GetMemory(b, v)
               \/ GetMemoryFails(b) \/ FreeIova(b) \/ UserMunmap(b)
               \/ MunmapHook(b) \/ Munmap(b)
        PROVE  err' = "none"
    BY <1>0, <1>6 DEF GetMemory, GetMemoryFails, FreeIova, UserMunmap, MunmapHook,
                      Munmap, HookActive
  <1>7. CASE Watch
    BY <1>0, <1>4, <1>7 DEF Watch, Translate, AccessPa, FinishAccess
  <1>8. CASE Life
    BY <1>0, <1>8 DEF Life, Close, Open, UnpinBadLength, CancelWatcher, Terminate
  <1>9. CASE UNCHANGED vars
    BY <1>0, <1>9 DEF vars
  <1> QED
    BY <1>1, <1>3, <1>5, <1>6, <1>7, <1>8, <1>9 DEF Next

\* The IOVA of a buffer stays in the table from the pin to the release, whatever
\* other handles do, with address translation or without: DMA to it never makes
\* a watcher abort (ase_host_memory_iova_to_va).
THEOREM OwnedStayReachable ==
    Apart /\ FewBufs => (Spec /\ CloseAlone => []OwnedReachable)
  <1> SUFFICES ASSUME Apart, FewBufs
               PROVE  Spec /\ CloseAlone => []OwnedReachable
    OBVIOUS
  <1>1. MemInv => OwnedReachable
    <2> SUFFICES ASSUME MemInv, session = "up", NEW b \in Bufs,
                        buf[b].st = "owned", buf[b].kind # "user"
                 PROVE  Found(ase_iova_pt_root[AfuOf[buf[b].h]], buf[b].iova)
      BY DEF OwnedReachable
    <2>1. HasIova(buf[b]) /\ BufOK(buf[b], open) /\ TypeOK
      BY DEF HasIova, MemInv, BaseInv, BufInv
    <2>2. PICK f, i : buf[b].iova = <<f, i>> /\ i \in Idx
      BY <2>1, IovaType
    <2>3. <<buf[b].iova[1], buf[b].iova[2] \cup {}>> = buf[b].iova /\ {} \in Idx
      BY <2>2 DEF Idx
    <2>4. PICK x, T, a : /\ x = buf[b] /\ T = ase_iova_pt_root[AfuOf[x.h]]
                         /\ a = <<x.iova[1], x.iova[2] \cup {}>>
      OBVIOUS
    <2>5. Found(T, a)
      BY <2>3, <2>4, OwnedFound
    <2> QED
      BY <2>3, <2>4, <2>5
  <1> QED
    BY <1>1, MemInvariance, PTL

\* An application that uses no address translation, has one handle on each AFU
\* or buffers of one size, and closes no handle under another one of its AFU, is
\* not ended by a call or by a DMA request: every access to an owned buffer finds
\* its IOVA, no unpin misses, no count wraps around.
THEOREM NoCallCrashes ==
    Apart /\ FewBufs /\ ~Ats => (Spec /\ CloseAlone => []NoCrash)
  <1> SUFFICES ASSUME Apart, FewBufs, ~Ats
               PROVE  Spec /\ CloseAlone => []NoCrash
    OBVIOUS
  <1>1. Init => NoCrash
    BY DEF Init, NoCrash
  <1>2. MemInv /\ NoCrash /\ [Next]_vars => NoCrash'
    BY CrashStep DEF NoCrash
  <1> QED
    BY <1>1, <1>2, MemInvariance, PTL DEF Spec

-----------------------------------------------------------------------------
(* The memory of a translated address. *)

LEMMA PaVaStep ==
    ASSUME BaseInv, PaVaInv, [Next]_vars
    PROVE  PaVaInv'
  <1> USE DEF tables, life
  <1>1. ASSUME UNCHANGED ase_pa_pt_root, err = "none" \/ UNCHANGED err
        PROVE  PaVaInv'
    BY <1>1 DEF PaVaInv
  <1>2. ASSUME NEW b \in Bufs, MunmapHook(b)
        PROVE  PaVaInv'
    <2>1. err = "none" /\ Mapped(buf[b])
      BY <1>2 DEF MunmapHook, Alive, Mapped
    <2>2. PICK T, U : T = ase_pa_pt_root /\ U = ase_pa_pt_root'
      OBVIOUS
    <2>4. GoodPt(T, VaFrames) /\ buf[b].va \in Va
      BY <2>1, <2>2 DEF BaseInv, TabInv, BufInv, BufOK
    <2>5. \A f \in VaFrames : PageVa(T[f], f) /\ \A i \in Idx : LeafVa(T[f].leaf[i], f, i)
      BY <2>1, <2>2 DEF PaVaInv
    <2>7. CASE UNCHANGED <<ase_pa_pt_root, err>>
      BY <1>1, <2>1, <2>7
    <2>8. CASE U = PtUnpin(T, Pa(buf[b].va, 1), 1)
      <3>1. PICK f \in VaFrames, i \in Idx : Pa(buf[b].va, 1) = <<f, i>>
        BY <2>4, PaType
      <3>2. CASE U = T
        BY <1>1, <2>1, <2>2, <3>2
      <3>3. CASE T[f].kind = "page" /\ U = UnpinHuge(T, <<f, i>>)
        <4>1. T \in [VaFrames -> Entries] /\ T[f].ref > 0
          BY <2>4, <3>3 DEF GoodPt
        <4>2. /\ \A g \in VaFrames : g # f => U[g] = T[g]
              /\ T[f].ref = 1 => U[f] = NoEntry
              /\ T[f].ref # 1 => /\ U[f].kind = T[f].kind /\ U[f].va = T[f].va
                                 /\ U[f].leaf = T[f].leaf
          BY <3>3, <4>1, UnpinHugeFacts
        <4>3. PageVa(NoEntry, f) /\ \A k \in Idx : LeafVa(NoEntry.leaf[k], f, k)
          BY EmptyFacts DEF PageVa, LeafVa
        <4>4. PageVa(U[f], f) /\ \A k \in Idx : LeafVa(U[f].leaf[k], f, k)
          BY <2>5, <4>2, <4>3 DEF PageVa
        <4>5. \A g \in VaFrames : PageVa(U[g], g) /\ \A k \in Idx : LeafVa(U[g].leaf[k], g, k)
          BY <2>5, <4>2, <4>4
        <4> QED
          BY <2>2, <4>5 DEF PaVaInv
      <3> QED
        BY <2>8, <3>1, <3>2, <3>3 DEF PtUnpin, UnpinMissing
    <2>9. ASSUME NEW Ps, U = InvalRange(T, Ps),
                 err' = "none" => \A q \in Ps : UnpinOutcome(T, q, 0) = "none"
          PROVE  PaVaInv'
      <3>1. \A f \in VaFrames : U[f].kind = T[f].kind /\ U[f].va = T[f].va
        BY <2>4, <2>9, InvalGood
      <3>2. \A f \in VaFrames : PageVa(U[f], f)
        BY <2>5, <3>1 DEF PageVa
      <3>3. ASSUME err' = "none", NEW f \in VaFrames, NEW i \in Idx
            PROVE  LeafVa(U[f].leaf[i], f, i)
        <4>1. U[f].leaf[i] = IF <<f, i>> \in Ps /\ ~UnpinMissing(T, <<f, i>>, 0)
                             THEN DropLeaf(T[f].leaf[i]) ELSE T[f].leaf[i]
          BY <2>4, <2>9, InvalGood
        <4>2. CASE <<f, i>> \in Ps /\ ~UnpinMissing(T, <<f, i>>, 0)
          <5>1. UnpinOutcome(T, <<f, i>>, 0) = "none"
            BY <2>9, <3>3, <4>2
          <5>2. ~UnpinUnderflows(T, <<f, i>>, 0) /\ ~UnpinFaults(T, <<f, i>>, 0)
            BY <5>1 DEF UnpinOutcome
          <5>3. PICK l \in Leaves : l = T[f].leaf[i]
            BY <2>4 DEF GoodPt, Entries
          <5>4. PICK n \in 0 .. RefMod - 1 : n = l.ref /\ n # 0
            BY <4>2, <5>2, <5>3 DEF UnpinUnderflows, RefAt, Leaves
          <5>5. /\ DropLeaf(l).ref = (n - 1) % RefMod
                /\ l.ref # 1 => DropLeaf(l).va = l.va
            BY <5>4, DropLeafFacts
          <5>6. (n - 1) % RefMod = n - 1
            BY <5>4, RefArith
          <5>7. LeafVa(l, f, i) /\ U[f].leaf[i] = DropLeaf(l)
            BY <2>5, <4>1, <4>2, <5>3
          <5>8. CASE n = 1
            BY <5>5, <5>6, <5>7, <5>8 DEF LeafVa
          <5>9. CASE n # 1
            BY <5>4, <5>5, <5>7, <5>9 DEF LeafVa
          <5> QED
            BY <5>8, <5>9
        <4> QED
          BY <2>5, <4>1, <4>2
      <3> QED
        BY <2>2, <3>2, <3>3 DEF PaVaInv
    <2> QED
      BY <1>2, <2>2, <2>7, <2>8, <2>9 DEF MunmapHook
  <1>3. ASSUME NEW v \in VaFrames \X AtsIdx, Translate(v)
        PROVE  PaVaInv'
    <2>1. v \in Va /\ err = "none"
      BY <1>3, KindAssumption DEF Va, Idx, Translate, Locked, Alive
    <2>2. PICK lv \in {0, 1} : lv = IF vm[v] = "huge" THEN 1 ELSE 0
      OBVIOUS
    <2>3. PICK T, a : T = ase_pa_pt_root /\ a = Pa(v, lv)
      OBVIOUS
    <2>4. T \in [VaFrames -> Entries]
      BY <2>1, <2>3 DEF BaseInv, TabInv, GoodPt
    <2>5. PICK f \in VaFrames, i \in Idx : a = <<f, i>>
      BY <2>1, <2>3, PaType
    <2>6. CASE UNCHANGED ase_pa_pt_root
      BY <1>1, <2>1, <2>6
    <2>7. CASE ase_pa_pt_root' = PtPin(T, a, lv, v)
      <3>1. \A g \in VaFrames : PageVa(T[g], g) /\ \A k \in Idx : LeafVa(T[g].leaf[k], g, k)
        BY <2>1, <2>3 DEF PaVaInv
      <3>2. PICK U : U = PtPin(T, a, lv, v)
        OBVIOUS
      <3>3. Complement(v[1]) = f
        BY <2>3, <2>5 DEF Pa
      <3>4. CASE lv = 0
        <4>1. /\ \A g \in VaFrames : g # f => U[g] = T[g]
              /\ U[f].kind = "table" /\ U[f].leaf[i].va = v
              /\ \A k \in Idx : k # i => U[f].leaf[k] = T[f].leaf[k]
          BY <2>1, <2>4, <2>5, <3>2, <3>4, PinSmallFacts DEF PtPin
        <4>2. PageVa(U[f], f) /\ LeafVa(U[f].leaf[i], f, i)
          BY <2>1, <2>3, <2>5, <3>4, <4>1 DEF PageVa, LeafVa
        <4>3. \A g \in VaFrames : PageVa(U[g], g) /\ \A k \in Idx : LeafVa(U[g].leaf[k], g, k)
          BY <3>1, <4>1, <4>2
        <4> QED
          BY <2>7, <3>2, <4>3 DEF PaVaInv
      <3>5. CASE lv = 1
        <4>1. /\ \A g \in VaFrames : g # f => U[g] = T[g]
              /\ U[f].va = v /\ U[f].leaf = NoLeaves
          BY <2>1, <2>4, <2>5, <3>2, <3>5, PinHugeFacts DEF PtPin
        <4>2. PageVa(U[f], f) /\ \A k \in Idx : LeafVa(U[f].leaf[k], f, k)
          BY <3>3, <4>1, EmptyFacts DEF PageVa, LeafVa
        <4>3. \A g \in VaFrames : PageVa(U[g], g) /\ \A k \in Idx : LeafVa(U[g].leaf[k], g, k)
          BY <3>1, <4>1, <4>2
        <4> QED
          BY <2>7, <3>2, <4>3 DEF PaVaInv
      <3> QED
        BY <3>4, <3>5
    <2> QED
      BY <1>3, <2>2, <2>3, <2>6, <2>7 DEF Translate
  <1>4. CASE Terminate
    BY <1>4, EmptyGood, EmptyFacts DEF Terminate, PaVaInv, PageVa, LeafVa
  <1>5. ASSUME NEW h \in Handles, NEW b \in Bufs, Api(h, b)
        PROVE  PaVaInv'
    BY <1>1, <1>5 DEF Api, AllocIova, AllocIovaFails, PinBuffer, UserMmap, vars,
                      Locked, Alive
  <1>6. ASSUME NEW b \in Bufs,
               \/ \E v \in Va : GetMemory(b, v)
               \/ GetMemoryFails(b) \/ PinStep(b) \/ FreeIova(b) \/ UnpinStep(b)
               \/ UnpinBuffer(b) \/ UserMunmap(b) \/ Munmap(b)
        PROVE  PaVaInv'
    BY <1>1, <1>6 DEF GetMemory, GetMemoryFails, PinStep, FreeIova, UnpinStep,
                      UnpinBuffer, UserMunmap, Munmap, Locked, Alive
  <1>7. CASE Watch
    BY <1>1, <1>3, <1>7 DEF Watch, AccessIova, AccessPa, FinishAccess, Locked, Alive
  <1>8. CASE Life
    BY <1>1, <1>4, <1>8 DEF Life, Close, Open, UnpinBadLength, CancelWatcher
  <1>9. CASE UNCHANGED vars
    BY <1>1, <1>9 DEF vars
  <1> QED
    BY <1>2, <1>5, <1>6, <1>7, <1>8, <1>9 DEF Next

\* pa_to_va of a translated address: back to the virtual address.
LEMMA TranslatedFound ==
    ASSUME BaseInv, PaVaInv, err = "none",
           NEW v \in Va, NEW lv, lv = 0, NEW T, T = ase_pa_pt_root,
           NEW a, a = Pa(v, lv), Found(T, a), T[a[1]].kind # "page"
    PROVE  Lookup(T, a) = v
  <1>1. PICK vf \in VaFrames, vi \in Idx : v = <<vf, vi>>
    BY DEF Va
  <1>2. /\ a = <<Complement(vf), IF lv = 0 THEN IdxBits \ vi ELSE vi>>
        /\ Complement(vf) \in VaFrames /\ Complement(Complement(vf)) = vf
        /\ a \in VaFrames \X Idx
    BY <1>1, PaType DEF Pa
  <1>3. PICK f \in VaFrames, i \in Idx : a = <<f, i>> /\ f = Complement(vf)
    BY <1>2
  <1>4. PageVa(T[f], f) /\ LeafVa(T[f].leaf[i], f, i)
    BY DEF PaVaInv
  <1>6. CASE lv = 0
    <2>1. T[f].kind # "page"
      BY <1>3, <1>6
    <2>2. T[f].leaf[i].ref > 0 /\ Lookup(T, a) = T[f].leaf[i].va
      BY <1>3, <2>1 DEF Found, Lookup
    <2>3. PICK g \in VaFrames, k \in Idx : T[f].leaf[i].va = <<g, k>>
      BY <1>4, <2>2 DEF LeafVa, Va
    <2>4. Complement(g) = f /\ IdxBits \ k = i
      BY <1>4, <2>2, <2>3 DEF LeafVa, Pa
    <2>5. g = vf
      <3>1. <<g, k>> \in Va
        BY DEF Va
      <3>2. Complement(Complement(g)) = g
        BY <3>1, PaType
      <3> QED
        BY <1>2, <1>3, <2>4, <3>2
    <2>6. k = vi
      <3>1. IdxBits \ vi = IdxBits \ k /\ vi \subseteq IdxBits /\ k \subseteq IdxBits
        BY <1>2, <1>3, <1>6, <2>4 DEF Idx
      <3> QED
        BY <3>1
    <2> QED
      BY <1>1, <2>2, <2>3, <2>5, <2>6
  <1> QED
    BY <1>6

\* DMA by IOVA reaches the memory of the buffer that owns it, and DMA to a
\* translated 4KB page the address that was translated, whatever translations
\* the AFU asks for (ase_host_memory_iova_to_va, ase_host_memory_pa_to_va,
\* membus_rd_watcher, membus_wr_watcher).
THEOREM DmaReachesItsPage ==
    Apart /\ FewBufs => (Spec /\ CloseAlone => []OwnerReached)
  <1> SUFFICES ASSUME Apart, FewBufs
               PROVE  Spec /\ CloseAlone => []OwnerReached
    OBVIOUS
  <1> USE DEF tables, life
  <1>1. Init => OwnerReached /\ PaVaInv
    <2>1. Init => OwnerReached
      BY DEF Init, OwnerReached, Watchers
    <2>2. Init => PaVaInv
      BY EmptyGood, EmptyFacts DEF Init, PaVaInv, PageVa, LeafVa
    <2> QED
      BY <2>1, <2>2
  <1>2. MemInv /\ PaVaInv /\ OwnerReached /\ [Next]_vars => OwnerReached'
    <2> SUFFICES ASSUME MemInv, PaVaInv, OwnerReached, [Next]_vars
                 PROVE  OwnerReached'
      OBVIOUS
    <2>1. ASSUME ase_pt_lock' \notin Watchers \/ UNCHANGED <<ase_pt_lock, acc>>
          PROVE  OwnerReached'
      BY <2>1 DEF OwnerReached
    <2>2. ASSUME NEW w \in Watchers, NEW b \in Bufs, NEW j \in Idx, AccessIova(w, b, j)
          PROVE  OwnerReached'
      <3>1. PICK x, T, a : /\ x = buf[b] /\ T = ase_iova_pt_root[AfuOf[x.h]]
                           /\ a = <<x.iova[1], x.iova[2] \cup j>>
        OBVIOUS
      <3>2. /\ session = "up" /\ x.kind # "user" /\ (x.lv = 0 => j = {})
            /\ ase_pt_lock' = IF Found(T, a) THEN w ELSE "free"
            /\ Found(T, a) => acc' = [by |-> "iova", va |-> Lookup(T, a),
                                      want |-> IF x.st = "owned"
                                               THEN <<x.va[1], x.va[2] \cup j>>
                                               ELSE Lookup(T, a)]
        BY <2>2, <3>1 DEF AccessIova, Locked, Alive
      <3>3. x.st = "owned" => Lookup(T, a) = <<x.va[1], x.va[2] \cup j>>
        BY <3>1, <3>2, OwnedFound
      <3>4. CASE Found(T, a)
        <4>1. PICK l : l = Lookup(T, a)
          OBVIOUS
        <4>2. acc' = [by |-> "iova", va |-> l, want |-> l]
          BY <3>2, <3>3, <3>4, <4>1
        <4> QED
          BY <4>2 DEF OwnerReached
      <3>5. CASE ~Found(T, a)
        BY <2>1, <3>2, <3>5 DEF Watchers
      <3> QED
        BY <3>4, <3>5
    <2>3. ASSUME NEW w \in Watchers, NEW v \in Va, NEW lv \in {0, 1}, AccessPa(w, v, lv)
          PROVE  OwnerReached'
      <3>1. PICK T, a : T = ase_pa_pt_root /\ a = Pa(v, lv)
        OBVIOUS
      <3>2. /\ err = "none" /\ Found(T, a) /\ (T[a[1]].kind = "page") = (lv = 1)
            /\ acc' = [by |-> IF lv = 0 THEN "pa_small" ELSE "pa_huge",
                       va |-> Lookup(T, a), want |-> v]
        BY <2>3, <3>1 DEF AccessPa, Locked, Alive
      <3>3. lv = 0 => Lookup(T, a) = v
        BY <3>1, <3>2, TranslatedFound DEF MemInv
      <3> QED
        BY <3>2, <3>3 DEF OwnerReached
    <2>4. ASSUME NEW x, NEW b, NEW y, NEW z, PinPage(x, b, y, z), UNCHANGED acc
          PROVE  OwnerReached'
      BY <2>1, <2>4 DEF PinPage, Watchers
    <2>5. ASSUME NEW h \in Handles, NEW b \in Bufs, Api(h, b)
          PROVE  OwnerReached'
      BY <2>1, <2>4, <2>5 DEF Api, AllocIova, AllocIovaFails, PinBuffer, UserMmap, vars
    <2>6. ASSUME NEW b \in Bufs,
                 \/ \E v \in Va : GetMemory(b, v)
                 \/ GetMemoryFails(b) \/ PinStep(b) \/ FreeIova(b) \/ UnpinStep(b)
                 \/ UnpinBuffer(b) \/ UserMunmap(b) \/ MunmapHook(b) \/ Munmap(b)
          PROVE  OwnerReached'
      BY <2>1, <2>4, <2>6 DEF GetMemory, GetMemoryFails, PinStep, FreeIova, UnpinStep,
                              UnpinBuffer, UserMunmap, MunmapHook, Munmap
    <2>7. ASSUME NEW v \in VaFrames \X AtsIdx, Translate(v)
          PROVE  OwnerReached'
      BY <2>1, <2>7 DEF Translate, Watchers
    <2>8. CASE FinishAccess \/ Life
      BY <2>1, <2>8 DEF FinishAccess, Life, Close, Open, UnpinBadLength, CancelWatcher,
                        Terminate, Watchers
    <2>9. CASE UNCHANGED vars
      BY <2>1, <2>9 DEF vars
    <2> QED
      BY <2>2, <2>3, <2>5, <2>6, <2>7, <2>8, <2>9 DEF Next, Watch
  <1>3. MemInv /\ PaVaInv /\ [Next]_vars => PaVaInv'
    BY PaVaStep DEF MemInv
  <1> QED
    BY <1>1, <1>2, <1>3, MemInvariance, PTL DEF Spec

-----------------------------------------------------------------------------
(* The memory under an access is mapped. *)

\* Buffers that move on, or go, and leave the caller's regions alone.
LEMMA MapMoved ==
    ASSUME NEW B, NEW C, NEW V, MapOK(B, V),
           \A b \in Bufs :
             /\ Mapped(C[b]) => /\ Mapped(B[b]) /\ C[b].kind = B[b].kind
                                /\ C[b].va = B[b].va /\ C[b].lv = B[b].lv
                                /\ Leaving(C[b]) => C[b].kind \in {"prepare", "user"}
             /\ B[b].kind = "user" /\ B[b].st = "owned" => C[b] = B[b]
    PROVE  MapOK(C, V)
  <1>1. \A b \in Bufs : /\ Own(C[b]) => Own(B[b]) /\ PagesOf(C[b]) = PagesOf(B[b])
                        /\ Guest(C[b]) => Guest(B[b]) /\ PagesOf(C[b]) = PagesOf(B[b])
    BY DEF Own, Guest, PagesOf
  <1>2. ASSUME NEW b \in Bufs, Mapped(C[b])
        PROVE  /\ C[b].va \in Bases(VaFrames, C[b].lv)
               /\ Own(C[b]) \/ (Guest(C[b]) /\ ~Leaving(C[b]))
               /\ \A p \in PagesOf(C[b]) : V[p] # "none"
    <2>1. PagesOf(C[b]) = PagesOf(B[b])
      BY <1>2 DEF PagesOf
    <2> QED
      BY <1>2, <2>1 DEF MapOK, Own, Guest
  <1>3. \A b, c \in Bufs : b # c /\ Own(C[b]) /\ Own(C[c]) =>
            PagesOf(C[b]) \cap PagesOf(C[c]) = {}
    BY <1>1 DEF MapOK
  <1>4. ASSUME NEW b \in Bufs, Guest(C[b])
        PROVE  \E u \in Bufs : HostOf(C[b], C[u])
    <2>1. PICK u \in Bufs : HostOf(B[b], B[u])
      BY <1>1, <1>4 DEF MapOK
    <2>2. C[u] = B[u]
      BY <2>1 DEF HostOf
    <2>3. HostOf(C[b], C[u])
      BY <1>4, <2>1, <2>2 DEF HostOf, Guest
    <2> QED
      BY <2>3
  <1> QED
    BY <1>2, <1>3, <1>4 DEF MapOK

\* mmap finds a place that is free.
LEMMA MapAdded ==
    ASSUME NEW B, NEW C, NEW V, NEW W, MapOK(B, V), NEW b \in Bufs,
           NEW y, C[b] = y, \A c \in Bufs : c # b => C[c] = B[c], ~Mapped(B[b]),
           Own(y), ~Leaving(y), y.va \in Bases(VaFrames, y.lv),
           \A p \in PagesOf(y) : V[p] = "none" /\ W[p] # "none",
           \A p \in Va : V[p] # "none" => W[p] # "none",
           PagesOf(y) \subseteq Va,
           \A c \in Bufs : Mapped(B[c]) => PagesOf(B[c]) \subseteq Va
    PROVE  MapOK(C, W)
  <1>1. \A c \in Bufs : c # b /\ Mapped(B[c]) => PagesOf(y) \cap PagesOf(B[c]) = {}
    BY DEF MapOK
  <1>2. ASSUME NEW c \in Bufs, Mapped(C[c])
        PROVE  /\ C[c].va \in Bases(VaFrames, C[c].lv)
               /\ Own(C[c]) \/ (Guest(C[c]) /\ ~Leaving(C[c]))
               /\ \A p \in PagesOf(C[c]) : W[p] # "none"
    <2>1. CASE c = b
      BY <2>1
    <2>2. CASE c # b
      <3>1. Mapped(B[c]) /\ C[c] = B[c] /\ PagesOf(B[c]) \subseteq Va
        BY <1>2, <2>2
      <3> QED
        BY <3>1 DEF MapOK
    <2> QED
      BY <2>1, <2>2
  <1>3. ASSUME NEW c \in Bufs, NEW d \in Bufs, c # d, Own(C[c]), Own(C[d])
        PROVE  PagesOf(C[c]) \cap PagesOf(C[d]) = {}
    <2>1. CASE c = b
      BY <1>1, <1>3, <2>1 DEF Own
    <2>2. CASE d = b
      BY <1>1, <1>3, <2>2 DEF Own
    <2>3. CASE c # b /\ d # b
      BY <1>3, <2>3 DEF MapOK
    <2> QED
      BY <2>1, <2>2, <2>3
  <1>4. ASSUME NEW c \in Bufs, Guest(C[c])
        PROVE  \E u \in Bufs : HostOf(C[c], C[u])
    <2>1. c # b
      BY <1>4 DEF Own, Guest
    <2>2. PICK u \in Bufs : HostOf(B[c], B[u])
      BY <1>4, <2>1 DEF MapOK
    <2>3. u # b
      BY <2>2 DEF HostOf, Mapped
    <2> QED
      BY <2>1, <2>2, <2>3
  <1> QED
    BY <1>2, <1>3, <1>4 DEF MapOK

\* A buffer is made of a region of the caller.
LEMMA MapGuest ==
    ASSUME NEW B, NEW C, NEW V, MapOK(B, V), NEW b \in Bufs, NEW u \in Bufs,
           NEW y, C[b] = y, \A c \in Bufs : c # b => C[c] = B[c], ~Mapped(B[b]),
           Guest(y), ~Leaving(y), HostOf(y, B[u])
    PROVE  MapOK(C, V)
  <1>1. u # b /\ Mapped(B[u]) /\ C[u] = B[u] /\ PagesOf(y) = PagesOf(B[u])
    BY DEF HostOf, Mapped, PagesOf
  <1>2. ASSUME NEW c \in Bufs, Mapped(C[c])
        PROVE  /\ C[c].va \in Bases(VaFrames, C[c].lv)
               /\ Own(C[c]) \/ (Guest(C[c]) /\ ~Leaving(C[c]))
               /\ \A p \in PagesOf(C[c]) : V[p] # "none"
    <2>1. CASE c = b
      BY <1>1, <2>1 DEF MapOK, HostOf
    <2>2. CASE c # b
      BY <1>2, <2>2 DEF MapOK
    <2> QED
      BY <2>1, <2>2
  <1>3. ~Own(C[b])
    BY DEF Own, Guest
  <1>4. \A c, d \in Bufs : c # d /\ Own(C[c]) /\ Own(C[d]) =>
            PagesOf(C[c]) \cap PagesOf(C[d]) = {}
    BY <1>3 DEF MapOK
  <1>5. ASSUME NEW c \in Bufs, Guest(C[c])
        PROVE  \E w \in Bufs : HostOf(C[c], C[w])
    <2>1. CASE c = b
      BY <1>1, <2>1
    <2>2. CASE c # b
      <3>1. PICK w \in Bufs : HostOf(B[c], B[w])
        BY <1>5, <2>2 DEF MapOK
      <3>2. w # b
        BY <3>1 DEF HostOf, Mapped
      <3> QED
        BY <2>2, <3>1, <3>2
    <2> QED
      BY <2>1, <2>2
  <1> QED
    BY <1>2, <1>4, <1>5 DEF MapOK

\* The pages of a buffer that is not leaving are in no region that is.
LEMMA MapApart ==
    ASSUME NEW B, NEW V, MapOK(B, V), NEW b \in Bufs, NEW c \in Bufs, b # c,
           Mapped(B[c]), Own(B[b]),
           \A u \in Bufs : HostOf(B[c], B[u]) => u # b
    PROVE  PagesOf(B[b]) \cap PagesOf(B[c]) = {}
  <1>1. CASE Own(B[c])
    BY <1>1 DEF MapOK
  <1>2. CASE Guest(B[c])
    <2>1. PICK u \in Bufs : HostOf(B[c], B[u])
      BY <1>2 DEF MapOK
    <2>2. u # b /\ Own(B[u]) /\ PagesOf(B[u]) = PagesOf(B[c])
      BY <2>1 DEF HostOf, Own, Mapped, PagesOf
    <2>3. PagesOf(B[b]) \cap PagesOf(B[u]) = {}
      BY <2>2 DEF MapOK
    <2> QED
      BY <2>2, <2>3
  <1> QED
    BY <1>1, <1>2 DEF MapOK

LEMMA MapPages ==
    ASSUME NEW x, x.lv \in {0, 1}, x.va \in Bases(VaFrames, x.lv)
    PROVE  PagesOf(x) \subseteq Va
  <1>1. x.va \in VaFrames \X Idx
    BY BasesType
  <1>2. x.va[1] \in VaFrames
    BY <1>1
  <1> QED
    BY <1>1, <1>2 DEF PagesOf, Pages, Va

\* The real munmap takes no page from another buffer.
LEMMA MapRemoved ==
    ASSUME NEW B, NEW C, NEW V, NEW W, MapOK(B, V), NEW b \in Bufs,
           B[b].st = "hooked", ~Mapped(C[b]), \A c \in Bufs : c # b => C[c] = B[c],
           \A p \in Va : p \notin PagesOf(B[b]) => W[p] = V[p],
           \A c \in Bufs : Mapped(B[c]) => PagesOf(B[c]) \subseteq Va
    PROVE  MapOK(C, W)
  <1>1. Own(B[b])
    BY DEF MapOK, Mapped, Leaving
  <1>2. \A c \in Bufs : c # b /\ Mapped(B[c]) => PagesOf(B[b]) \cap PagesOf(B[c]) = {}
    <2>1. \A c, u \in Bufs : HostOf(B[c], B[u]) => u # b
      BY DEF HostOf
    <2> QED
      BY <1>1, <2>1, MapApart
  <1>3. ASSUME NEW c \in Bufs, Mapped(C[c])
        PROVE  /\ C[c].va \in Bases(VaFrames, C[c].lv)
               /\ Own(C[c]) \/ (Guest(C[c]) /\ ~Leaving(C[c]))
               /\ \A p \in PagesOf(C[c]) : W[p] # "none"
    <2>1. c # b /\ Mapped(B[c]) /\ C[c] = B[c]
      BY <1>3
    <2>2. \A p \in PagesOf(B[c]) : W[p] = V[p]
      BY <1>2, <2>1
    <2> QED
      BY <2>1, <2>2 DEF MapOK
  <1>4. \A c, d \in Bufs : c # d /\ Own(C[c]) /\ Own(C[d]) =>
            PagesOf(C[c]) \cap PagesOf(C[d]) = {}
    BY DEF MapOK, Own
  <1>5. ASSUME NEW c \in Bufs, Guest(C[c])
        PROVE  \E w \in Bufs : HostOf(C[c], C[w])
    <2>1. c # b /\ C[c] = B[c]
      BY <1>5 DEF Guest
    <2>2. PICK w \in Bufs : HostOf(B[c], B[w])
      BY <1>5, <2>1 DEF MapOK
    <2>3. w # b
      BY <2>2 DEF HostOf
    <2> QED
      BY <2>1, <2>2, <2>3
  <1> QED
    BY <1>3, <1>4, <1>5 DEF MapOK

\* A region of the caller that no buffer is made of starts to be unmapped.
LEMMA MapLeave ==
    ASSUME NEW B, NEW C, NEW V, MapOK(B, V), NEW b \in Bufs,
           B[b].st = "owned", B[b].kind = "user",
           NEW y, C[b] = y, y.st = "unpinned", y.kind = "user", y.va = B[b].va,
           y.lv = B[b].lv, \A c \in Bufs : c # b => C[c] = B[c],
           \A c \in Bufs : c # b /\ B[c].st # "none" => B[c].va # B[b].va
    PROVE  /\ MapOK(C, V)
           /\ \A c \in Bufs : Pins(B[c]) => PagesOf(B[b]) \cap PagesOf(B[c]) = {}
  <1>1. Own(B[b]) /\ Own(y) /\ PagesOf(y) = PagesOf(B[b])
    BY DEF Own, Mapped, PagesOf
  <1>2. \A c, u \in Bufs : c # b /\ B[c].st # "none" /\ HostOf(B[c], B[u]) => u # b
    BY DEF HostOf
  <1>3. \A c \in Bufs : Pins(B[c]) => PagesOf(B[b]) \cap PagesOf(B[c]) = {}
    <2>1. ASSUME NEW c \in Bufs, Pins(B[c])
          PROVE  PagesOf(B[b]) \cap PagesOf(B[c]) = {}
      <3>1. c # b /\ Mapped(B[c]) /\ B[c].st # "none"
        BY <2>1 DEF Pins, Mapped
      <3> QED
        BY <1>1, <1>2, <3>1, MapApart
    <2> QED
      BY <2>1
  <1>4. ASSUME NEW c \in Bufs, Mapped(C[c])
        PROVE  /\ C[c].va \in Bases(VaFrames, C[c].lv)
               /\ Own(C[c]) \/ (Guest(C[c]) /\ ~Leaving(C[c]))
               /\ \A p \in PagesOf(C[c]) : V[p] # "none"
    <2>1. CASE c = b
      BY <1>1, <2>1 DEF MapOK, Own
    <2>2. CASE c # b
      BY <1>4, <2>2 DEF MapOK
    <2> QED
      BY <2>1, <2>2
  <1>5. ASSUME NEW c \in Bufs, NEW d \in Bufs, c # d, Own(C[c]), Own(C[d])
        PROVE  PagesOf(C[c]) \cap PagesOf(C[d]) = {}
    <2>1. \A e \in Bufs : Own(C[e]) => Own(B[e]) /\ PagesOf(C[e]) = PagesOf(B[e])
      BY <1>1
    <2> QED
      BY <1>5, <2>1 DEF MapOK
  <1>6. ASSUME NEW c \in Bufs, Guest(C[c])
        PROVE  \E w \in Bufs : HostOf(C[c], C[w])
    <2>1. c # b /\ C[c] = B[c] /\ B[c].st # "none"
      BY <1>6 DEF Guest, Mapped
    <2>2. PICK w \in Bufs : HostOf(B[c], B[w])
      BY <1>6, <2>1 DEF MapOK
    <2>3. w # b
      BY <1>2, <2>1, <2>2
    <2> QED
      BY <2>1, <2>2, <2>3
  <1> QED
    BY <1>3, <1>4, <1>5, <1>6 DEF MapOK

\* Memory that the kernel picks.
LEMMA MmapNewMap ==
    ASSUME TypeOK, MapOK(buf, vm), NEW b \in Bufs, NEW y \in BufRecs,
           buf' = [buf EXCEPT ![b] = y], ~Mapped(buf[b]), Own(y), ~Leaving(y),
           MmapNew(y.lv, y.va)
    PROVE  MapOK(buf', vm') /\ \A p \in Va : vm[p] # "none" => vm'[p] # "none"
  <1>1. PICK B, C, V, W : B = buf /\ C = buf' /\ V = vm /\ W = vm'
    OBVIOUS
  <1>2. /\ y.va \in Bases(VaFrames, y.lv) /\ y.lv \in {0, 1}
        /\ \A p \in PagesOf(y) : V[p] = "none"
        /\ \E size \in {"small", "huge"} :
             W = [p \in Va |-> IF p \in PagesOf(y) THEN size ELSE V[p]]
    BY <1>1, KindAssumption DEF MmapNew, PagesOf, BufRecs
  <1>3. PagesOf(y) \subseteq Va
    BY <1>2, MapPages
  <1>4. /\ \A p \in PagesOf(y) : V[p] = "none" /\ W[p] # "none"
        /\ \A p \in Va : V[p] # "none" => W[p] # "none"
    BY <1>2, <1>3
  <1>5. \A c \in Bufs : Mapped(B[c]) => PagesOf(B[c]) \subseteq Va
    <2>1. \A c \in Bufs : B[c].lv \in {0, 1}
      BY <1>1 DEF TypeOK
    <2> QED
      BY <1>1, <2>1, MapPages DEF MapOK
  <1>6. C[b] = y /\ \A c \in Bufs : c # b => C[c] = B[c]
    BY <1>1, SetOne
  <1>m. MapOK(B, V) /\ ~Mapped(B[b])
    BY <1>1
  <1>7. MapOK(C, W)
    BY <1>m, <1>2, <1>3, <1>4, <1>5, <1>6, MapAdded
  <1> QED
    BY <1>1, <1>4, <1>7

\* Steps that touch the buffers while no watcher has the lock, and those that
\* may come during an access.
LEMMA MapFree ==
    ASSUME MapInv, ase_pt_lock' \notin Watchers, UNCHANGED ase_pa_pt_root,
           MapOK(buf', vm')
    PROVE  MapInv'
  BY DEF MapInv

LEMMA MapBusy ==
    ASSUME MapInv, UNCHANGED <<ase_pt_lock, acc, session, ase_pa_pt_root>>,
           MapOK(buf', vm'),
           ase_pt_lock \in Watchers => InUse(acc.va, buf', vm'),
           \A c \in Bufs : Pins(buf[c]) => /\ Pins(buf'[c])
                                           /\ PagesOf(buf'[c]) = PagesOf(buf[c])
    PROVE  MapInv'
  <1>1. ASSUME ase_pt_lock \in Watchers, session = "up", "user" \in Kinds
        PROVE  Holder(acc.va, buf')
    <2>1. PICK c \in Bufs : Pins(buf[c]) /\ acc.va \in PagesOf(buf[c])
      BY <1>1 DEF MapInv, Holder
    <2> QED
      BY <2>1 DEF Holder
  <1> QED
    BY <1>1 DEF MapInv

LEMMA InUseKept ==
    ASSUME NEW p, NEW B, NEW C, NEW V, NEW W, InUse(p, B, V), W[p] # "none",
           \A b \in Bufs : Leaving(C[b]) => /\ Leaving(B[b])
                                            /\ PagesOf(C[b]) = PagesOf(B[b])
    PROVE  InUse(p, C, W)
  BY DEF InUse

\* One buffer changes and takes no part in an access.
LEMMA MapBusyOne ==
    ASSUME TypeOK, MapInv, UNCHANGED <<ase_pt_lock, acc, session, ase_pa_pt_root>>,
           NEW b \in Bufs, NEW y, buf' = [buf EXCEPT ![b] = y], ~Pins(buf[b]),
           MapOK(buf', vm'),
           Leaving(y) => Leaving(buf[b]) /\ PagesOf(y) = PagesOf(buf[b]),
           \A p \in Va : vm[p] # "none" => vm'[p] # "none"
    PROVE  MapInv'
  <1>1. buf'[b] = y /\ \A c \in Bufs : c # b => buf'[c] = buf[c]
    BY SetOne
  <1>2. \A c \in Bufs : Leaving(buf'[c]) => /\ Leaving(buf[c])
                                            /\ PagesOf(buf'[c]) = PagesOf(buf[c])
    BY <1>1
  <1>3. ase_pt_lock \in Watchers => InUse(acc.va, buf', vm')
    <2>1. ase_pt_lock \in Watchers => InUse(acc.va, buf, vm) /\ vm'[acc.va] # "none"
      BY DEF MapInv, InUse
    <2> QED
      BY <1>2, <2>1, InUseKept
  <1>4. \A c \in Bufs : Pins(buf[c]) => /\ Pins(buf'[c])
                                        /\ PagesOf(buf'[c]) = PagesOf(buf[c])
    BY <1>1
  <1> QED
    BY <1>3, <1>4, MapBusy

\* Moves of one buffer.
LEMMA MapMovedOne ==
    ASSUME TypeOK, MapOK(buf, vm), NEW b \in Bufs, NEW y,
           buf' = [buf EXCEPT ![b] = y],
           ~(buf[b].kind = "user" /\ buf[b].st = "owned"),
           Mapped(y) => /\ Mapped(buf[b]) /\ y.kind = buf[b].kind
                        /\ y.va = buf[b].va /\ y.lv = buf[b].lv
                        /\ Leaving(y) => y.kind \in {"prepare", "user"}
    PROVE  MapOK(buf', vm)
  <1>1. PICK B, C : B = buf /\ C = buf'
    OBVIOUS
  <1>2. C[b] = y /\ \A c \in Bufs : c # b => C[c] = B[c]
    BY <1>1, SetOne
  <1>3. MapOK(B, vm)
    BY <1>1
  <1>4. ASSUME NEW c \in Bufs
        PROVE  /\ Mapped(C[c]) => /\ Mapped(B[c]) /\ C[c].kind = B[c].kind
                                  /\ C[c].va = B[c].va /\ C[c].lv = B[c].lv
                                  /\ Leaving(C[c]) => C[c].kind \in {"prepare", "user"}
               /\ B[c].kind = "user" /\ B[c].st = "owned" => C[c] = B[c]
    <2>1. CASE c = b
      BY <1>1, <1>2, <2>1
    <2>2. CASE c # b
      BY <1>2, <1>3, <2>2 DEF MapOK, Own, Guest
    <2> QED
      BY <2>1, <2>2
  <1>5. MapOK(C, vm)
    BY <1>3, <1>4, MapMoved
  <1> QED
    BY <1>1, <1>5

\* The caller's region that UserMemory finds.
LEMMA MapGuestOne ==
    ASSUME TypeOK, MapOK(buf, vm), NEW b \in Bufs, NEW y,
           buf' = [buf EXCEPT ![b] = y], ~Mapped(buf[b]), Guest(y), ~Leaving(y),
           y.va \in UserMemory(y.h, y.lv)
    PROVE  MapOK(buf', vm)
  <1>1. PICK B, C : B = buf /\ C = buf'
    OBVIOUS
  <1>2. C[b] = y /\ \A c \in Bufs : c # b => C[c] = B[c]
    BY <1>1, SetOne
  <1>3. PICK u \in Bufs : /\ buf[u].kind = "user" /\ buf[u].h = y.h
                          /\ buf[u].st = "owned" /\ buf[u].lv = y.lv /\ y.va = buf[u].va
    BY DEF UserMemory
  <1>4. MapOK(B, vm) /\ ~Mapped(B[b]) /\ HostOf(y, B[u])
    BY <1>1, <1>3 DEF HostOf
  <1>5. MapOK(C, vm)
    BY <1>2, <1>4, MapGuest
  <1> QED
    BY <1>1, <1>5

LEMMA MapStep ==
    ASSUME MemInv, MapInv, OneHandlePerAfu, FewBufs, ~Ats, Steady, [Next]_vars
    PROVE  MapInv'
  <1> USE DEF tables, life
  <1>t. /\ TypeOK /\ Apart /\ MapOK(buf, vm) /\ \A b \in Bufs : BufOK(buf[b], open)
        /\ buf \in [Bufs -> BufRecs]
    BY TypeParts DEF MemInv, BaseInv, BufInv, Apart, MapInv
  <1>1. ASSUME NEW h \in Handles, NEW b \in Bufs,
               NEW k \in Kinds \cap {"prepare", "prealloc"}, NEW lv \in Levels,
               NEW a \in PoolFrames \X Idx, AllocIova(h, b, k, lv, a)
        PROVE  MapInv'
    <2>1. PICK y \in BufRecs : /\ buf' = [buf EXCEPT ![b] = y]
                               /\ y.st = "iova" /\ y.kind = k /\ y.h = h
                               /\ y.iova = a /\ y.lv = lv
      BY <1>1, <1>t, AllocIovaShape
    <2>2. /\ ase_pt_lock = "free" /\ UNCHANGED <<ase_pt_lock, vm, ase_pa_pt_root>>
          /\ buf[b].st = "none"
      BY <1>1 DEF AllocIova, Locked, Slot
    <2>3. MapOK(buf', vm)
      BY <1>t, <2>1, <2>2, MapMovedOne DEF Mapped
    <2> QED
      BY <2>2, <2>3, MapFree DEF Watchers
  <1>2. ASSUME NEW b \in Bufs, NEW v \in Va, GetMemory(b, v)
        PROVE  MapInv'
    <2>1. PICK y \in BufRecs :
             /\ buf' = [buf EXCEPT ![b] = y] /\ buf[b].st = "iova"
             /\ y.st = "mapped" /\ y.kind = buf[b].kind /\ y.h = buf[b].h
             /\ y.iova = buf[b].iova /\ y.lv = buf[b].lv /\ y.va = v
      BY <1>2, <1>t, GetMemoryShape
    <2>2. /\ UNCHANGED <<ase_pt_lock, acc, session, ase_pa_pt_root>>
          /\ \/ y.kind = "prepare" /\ MmapNew(y.lv, y.va)
             \/ /\ y.kind = "prealloc" /\ UNCHANGED vm
                /\ y.va \in UserMemory(y.h, y.lv)
      BY <1>2, <2>1 DEF GetMemory
    <2>3. ~Mapped(buf[b]) /\ ~Pins(buf[b]) /\ Mapped(y) /\ ~Leaving(y)
      BY <2>1 DEF Mapped, Pins, Leaving
    <2>4. CASE y.kind = "prepare" /\ MmapNew(y.lv, y.va)
      <3>1. Own(y)
        BY <2>3, <2>4 DEF Own
      <3>2. MapOK(buf', vm') /\ \A p \in Va : vm[p] # "none" => vm'[p] # "none"
        BY <1>t, <2>1, <2>3, <2>4, <3>1, MmapNewMap
      <3> QED
        BY <1>t, <2>1, <2>2, <2>3, <3>2, MapBusyOne
    <2>5. CASE /\ y.kind = "prealloc" /\ UNCHANGED vm
               /\ y.va \in UserMemory(y.h, y.lv)
      <3>1. Guest(y)
        BY <2>3, <2>5 DEF Guest
      <3>2. MapOK(buf', vm)
        BY <1>t, <2>1, <2>3, <2>5, <3>1, MapGuestOne
      <3>3. MapOK(buf', vm') /\ \A p \in Va : vm[p] # "none" => vm'[p] # "none"
        BY <2>5, <3>2
      <3> QED
        BY <1>t, <2>1, <2>2, <2>3, <3>3, MapBusyOne
    <2> QED
      BY <2>2, <2>4, <2>5
  <1>3. ASSUME NEW b \in Bufs, GetMemoryFails(b)
        PROVE  MapInv'
    <2>1. /\ buf' = [buf EXCEPT ![b] = NoBuf] /\ buf[b].st = "iova"
          /\ UNCHANGED <<ase_pt_lock, acc, session, ase_pa_pt_root, vm>>
      BY <1>3 DEF GetMemoryFails
    <2>2. ~Pins(buf[b]) /\ ~Mapped(NoBuf) /\ ~Leaving(NoBuf) /\ NoBuf.st = "none"
      BY <2>1, NoBufFacts DEF Pins, Mapped, Leaving
    <2>3. MapOK(buf', vm)
      BY <1>t, <2>1, <2>2, MapMovedOne
    <2>4. MapOK(buf', vm') /\ \A p \in Va : vm[p] # "none" => vm'[p] # "none"
      BY <2>1, <2>3
    <2> QED
      BY <1>t, <2>1, <2>2, <2>4, MapBusyOne
  <1>4. ASSUME NEW b \in Bufs, PinStep(b)
        PROVE  MapInv'
    <2>1. PICK y, z \in BufRecs :
             /\ PinPage(buf[b], b, y, z) /\ buf[b].st = "mapped"
             /\ y.st = "owned" /\ y.kind = buf[b].kind /\ y.h = buf[b].h
             /\ y.iova = buf[b].iova /\ y.lv = buf[b].lv /\ y.va = buf[b].va
             /\ ~HasIova(z) /\ (buf[b].kind # "prepare" => z = NoBuf)
             /\ buf[b].kind = "prepare" =>
                  /\ z.st = "unpinned" /\ z.kind = "prepare"
                  /\ z.lv = buf[b].lv /\ z.va = buf[b].va
      BY <1>4, <1>t, PinStepShape
    <2>2. /\ ase_pt_lock = "free" /\ UNCHANGED <<vm, ase_pa_pt_root>>
          /\ ase_pt_lock' \in {ase_pt_lock, "stuck"}
          /\ buf' \in {buf, [buf EXCEPT ![b] = y], [buf EXCEPT ![b] = z]}
      BY <1>4, <2>1 DEF PinStep, PinPage, Locked
    <2>3. Mapped(buf[b]) /\ ~Leaving(y)
      BY <2>1 DEF Mapped, Leaving
    <2>4. MapOK(buf', vm)
      <3>1. CASE buf' = buf
        BY <1>t, <3>1
      <3>2. CASE buf' = [buf EXCEPT ![b] = y]
        BY <1>t, <2>1, <2>3, <3>2, MapMovedOne
      <3>3. CASE buf' = [buf EXCEPT ![b] = z]
        <4>1. Mapped(z) => z.kind = "prepare" /\ buf[b].kind = "prepare"
                           /\ z.va = buf[b].va /\ z.lv = buf[b].lv
          BY <2>1, NoBufFacts DEF Mapped
        <4> QED
          BY <1>t, <2>1, <2>3, <3>3, <4>1, MapMovedOne
      <3> QED
        BY <2>2, <3>1, <3>2, <3>3
    <2> QED
      BY <2>2, <2>4, MapFree DEF Watchers
  <1>5. ASSUME NEW h \in Handles, NEW b \in Bufs, NEW lv \in Levels,
               NEW a \in UserFrames \X Idx, NEW v \in Va, "pin" \in Kinds,
               PinBuffer(h, b, lv, a, v)
        PROVE  MapInv'
    <2>1. PICK y \in BufRecs :
             /\ PinPage(y, b, y, NoBuf)
             /\ y.st = "owned" /\ y.kind = "pin" /\ y.h = h /\ y.iova = a
             /\ y.lv = lv /\ y.va = v
             /\ a \in Bases(UserFrames, lv) /\ h \in open /\ buf[b].st = "none"
             /\ \A c \in Bufs : /\ buf[c].kind = "pin"
                                /\ AfuOf[buf[c].h] = AfuOf[h]
                                /\ Pages(a, lv) \cap Pages(buf[c].iova, buf[c].lv) # {}
                                => buf[c] = y
      BY <1>5, <1>t, PinBufferShape
    <2>2. /\ ase_pt_lock = "free" /\ UNCHANGED <<vm, ase_pa_pt_root>>
          /\ ase_pt_lock' \in {ase_pt_lock, "stuck"}
          /\ buf' \in {buf, [buf EXCEPT ![b] = y], [buf EXCEPT ![b] = NoBuf]}
          /\ y.va \in UserMemory(y.h, y.lv)
      BY <1>5, <2>1 DEF PinBuffer, PinPage, Locked
    <2>3. ~Mapped(buf[b]) /\ Guest(y) /\ ~Leaving(y) /\ ~Mapped(NoBuf)
      BY <2>1, NoBufFacts DEF Mapped, Leaving, Guest
    <2>4. MapOK(buf', vm)
      <3>1. CASE buf' = buf
        BY <1>t, <3>1
      <3>2. CASE buf' = [buf EXCEPT ![b] = y]
        BY <1>t, <2>2, <2>3, <3>2, MapGuestOne
      <3>3. CASE buf' = [buf EXCEPT ![b] = NoBuf]
        BY <1>t, <2>1, <2>3, <3>3, MapMovedOne
      <3> QED
        BY <2>2, <3>1, <3>2, <3>3
    <2> QED
      BY <2>2, <2>4, MapFree DEF Watchers
  <1>6. ASSUME NEW b \in Bufs, UnpinStep(b) \/ UnpinBuffer(b)
        PROVE  MapInv'
    <2>1. /\ ase_pt_lock = "free" /\ UNCHANGED <<ase_pt_lock, vm, ase_pa_pt_root>>
          /\ buf[b].st \in {"owned", "iova_free"} /\ buf[b].kind # "user"
      BY <1>6, <1>t DEF UnpinStep, UnpinBuffer, Locked, BufOK
    <2>2. PICK y : /\ buf' = [buf EXCEPT ![b] = y]
                   /\ Mapped(y) => /\ y.kind = "prepare" /\ buf[b].kind = "prepare"
                                   /\ y.va = buf[b].va /\ y.lv = buf[b].lv
      <3>1. CASE UnpinStep(b)
        <4>1. PICK z \in BufRecs :
                /\ buf' = [buf EXCEPT ![b] = z] /\ buf[b].st = "iova_free"
                /\ UnpinPage(buf[b]) /\ ~HasIova(z)
                /\ buf[b].kind # "prepare" => z = NoBuf
                /\ buf[b].kind = "prepare" =>
                     /\ z.st = "unpinned" /\ z.kind = "prepare"
                     /\ z.lv = buf[b].lv /\ z.va = buf[b].va
          BY <1>t, <3>1, UnpinStepShape
        <4> QED
          BY <4>1, NoBufFacts DEF Mapped
      <3>2. CASE UnpinBuffer(b)
        BY <3>2, NoBufFacts DEF UnpinBuffer, Mapped
      <3> QED
        BY <1>6, <3>1, <3>2
    <2>3. Mapped(buf[b])
      BY <2>1 DEF Mapped
    <2>4. MapOK(buf', vm)
      BY <1>t, <2>1, <2>2, <2>3, MapMovedOne
    <2> QED
      BY <2>1, <2>4, MapFree DEF Watchers
  <1>7. ASSUME NEW b \in Bufs, FreeIova(b)
        PROVE  MapInv'
    <2>1. /\ buf' = [buf EXCEPT ![b].st = "iova_free"] /\ "iova_free" \in States
          /\ buf[b].st = "owned" /\ buf[b].kind \in {"prepare", "prealloc"}
          /\ ase_pt_lock = "free" /\ UNCHANGED <<ase_pt_lock, vm, ase_pa_pt_root>>
      BY <1>7 DEF FreeIova, Locked, States
    <2>2. PICK y \in BufRecs :
             /\ buf' = [buf EXCEPT ![b] = y]
             /\ y.st = "iova_free" /\ y.kind = buf[b].kind /\ y.h = buf[b].h
             /\ y.iova = buf[b].iova /\ y.lv = buf[b].lv /\ y.va = buf[b].va
      <3>1. TypeOK /\ buf' = [buf EXCEPT ![b].st = "iova_free"]
        BY <2>1, <1>t
      <3> QED
        BY <2>1, <3>1, StShape
    <2>3. Mapped(buf[b]) /\ ~Leaving(y)
      BY <2>1, <2>2 DEF Mapped, Leaving
    <2>4. MapOK(buf', vm)
      BY <1>t, <2>1, <2>2, <2>3, MapMovedOne
    <2> QED
      BY <2>1, <2>4, MapFree DEF Watchers
  <1>8. ASSUME NEW h \in Handles, NEW b \in Bufs, NEW lv \in Levels, NEW v \in Va,
               "user" \in Kinds, UserMmap(h, b, lv, v)
        PROVE  MapInv'
    <2>1. PICK y \in BufRecs :
             /\ buf' = [buf EXCEPT ![b] = y]
             /\ y.st = "owned" /\ y.kind = "user" /\ y.h = h /\ y.iova = NoVa
             /\ y.lv = lv /\ y.va = v
      BY <1>8, <1>t, UserMmapShape
    <2>2. /\ UNCHANGED <<ase_pt_lock, acc, session, ase_pa_pt_root>>
          /\ MmapNew(y.lv, y.va) /\ buf[b].st = "none"
      BY <1>8, <2>1 DEF UserMmap, Slot
    <2>3. ~Mapped(buf[b]) /\ ~Pins(buf[b]) /\ Own(y) /\ ~Leaving(y)
      BY <2>1, <2>2 DEF Mapped, Pins, Leaving, Own
    <2>4. MapOK(buf', vm') /\ \A p \in Va : vm[p] # "none" => vm'[p] # "none"
      BY <1>t, <2>1, <2>2, <2>3, MmapNewMap
    <2> QED
      BY <1>t, <2>1, <2>2, <2>3, <2>4, MapBusyOne
  <1>9. ASSUME NEW b \in Bufs, UserMunmap(b)
        PROVE  MapInv'
    <2>1. /\ buf' = [buf EXCEPT ![b].st = "unpinned"] /\ "unpinned" \in States
          /\ buf[b].st = "owned" /\ buf[b].kind = "user" /\ session = "up"
          /\ \A c \in Bufs : c # b /\ buf[c].st # "none" => buf[c].va # buf[b].va
          /\ UNCHANGED <<ase_pt_lock, acc, session, ase_pa_pt_root, vm>>
      BY <1>9 DEF UserMunmap, Alive, States
    <2>2. PICK y \in BufRecs :
             /\ buf' = [buf EXCEPT ![b] = y]
             /\ y.st = "unpinned" /\ y.kind = buf[b].kind /\ y.h = buf[b].h
             /\ y.iova = buf[b].iova /\ y.lv = buf[b].lv /\ y.va = buf[b].va
      <3>1. /\ buf' = [buf EXCEPT ![b].st = "unpinned"] /\ "unpinned" \in States
            /\ TypeOK
        BY <2>1, <1>t
      <3> QED
        BY <3>1, StShape
    <2>3. PICK B, C : B = buf /\ C = buf'
      OBVIOUS
    <2>4. C[b] = y /\ \A c \in Bufs : c # b => C[c] = B[c]
      BY <1>t, <2>2, <2>3, SetOne
    <2>5. /\ MapOK(B, vm) /\ B[b].st = "owned" /\ B[b].kind = "user"
          /\ y.kind = "user" /\ y.va = B[b].va /\ y.lv = B[b].lv
          /\ \A c \in Bufs : c # b /\ B[c].st # "none" => B[c].va # B[b].va
      BY <1>t, <2>1, <2>2, <2>3
    <2>6. /\ MapOK(C, vm)
          /\ \A c \in Bufs : Pins(B[c]) => PagesOf(B[b]) \cap PagesOf(B[c]) = {}
      BY <2>2, <2>4, <2>5, MapLeave
    <2>7. "user" \in Kinds
      BY <1>t, <2>1 DEF BufRecs
    <2>8. ASSUME ase_pt_lock \in Watchers
          PROVE  InUse(acc.va, C, vm)
      <3>1. PICK c \in Bufs : Pins(B[c]) /\ acc.va \in PagesOf(B[c])
        BY <2>1, <2>3, <2>7, <2>8 DEF MapInv, Holder
      <3>2. acc.va \notin PagesOf(B[b])
        BY <2>6, <3>1
      <3>3. InUse(acc.va, B, vm) /\ PagesOf(y) = PagesOf(B[b])
        BY <2>3, <2>5, <2>8 DEF MapInv, PagesOf
      <3> QED
        BY <2>4, <3>2, <3>3 DEF InUse
    <2>9. \A c \in Bufs : Pins(buf[c]) => /\ Pins(buf'[c])
                                          /\ PagesOf(buf'[c]) = PagesOf(buf[c])
      <3>1. ~Pins(buf[b])
        BY <2>1 DEF Pins
      <3> QED
        BY <2>3, <2>4, <3>1
    <2>10. MapOK(buf', vm') /\ (ase_pt_lock \in Watchers => InUse(acc.va, buf', vm'))
      BY <2>1, <2>3, <2>6, <2>8
    <2> QED
      BY <2>1, <2>9, <2>10, MapBusy
  <1>10. ASSUME NEW b \in Bufs, MunmapHook(b)
         PROVE  MapInv'
    <2>1. /\ buf' = [buf EXCEPT ![b].st = "hooked"] /\ "hooked" \in States
          /\ buf[b].st = "unpinned"
          /\ UNCHANGED <<ase_pt_lock, acc, session, ase_pa_pt_root, vm>>
      BY <1>10 DEF MunmapHook, HookActive, States
    <2>2. PICK y \in BufRecs :
             /\ buf' = [buf EXCEPT ![b] = y]
             /\ y.st = "hooked" /\ y.kind = buf[b].kind /\ y.h = buf[b].h
             /\ y.iova = buf[b].iova /\ y.lv = buf[b].lv /\ y.va = buf[b].va
      <3>1. TypeOK /\ buf' = [buf EXCEPT ![b].st = "hooked"]
        BY <2>1, <1>t
      <3> QED
        BY <2>1, <3>1, StShape
    <2>3. /\ Mapped(buf[b]) /\ Leaving(buf[b]) /\ ~Pins(buf[b])
          /\ PagesOf(y) = PagesOf(buf[b])
      BY <2>1, <2>2 DEF Mapped, Leaving, Pins, PagesOf
    <2>4. y.kind \in {"prepare", "user"}
      BY <1>t, <2>2, <2>3 DEF MapOK, Own
    <2>5. MapOK(buf', vm)
      BY <1>t, <2>1, <2>2, <2>3, <2>4, MapMovedOne
    <2>6. MapOK(buf', vm') /\ \A p \in Va : vm[p] # "none" => vm'[p] # "none"
      BY <2>1, <2>5
    <2> QED
      BY <1>t, <2>1, <2>2, <2>3, <2>6, MapBusyOne
  <1>11. ASSUME NEW b \in Bufs, Munmap(b)
         PROVE  MapInv'
    <2>1. PICK B, C, V, W : B = buf /\ C = buf' /\ V = vm /\ W = vm'
      OBVIOUS
    <2>2. /\ B[b].st = "hooked" /\ buf' = [buf EXCEPT ![b] = NoBuf]
          /\ W = [p \in Va |-> IF p \in PagesOf(B[b]) THEN "none" ELSE V[p]]
          /\ UNCHANGED <<ase_pt_lock, acc, session, ase_pa_pt_root>>
      BY <1>11, <2>1 DEF Munmap, BufPages, PagesOf
    <2>3. C[b] = NoBuf /\ \A c \in Bufs : c # b => C[c] = B[c]
      BY <1>t, <2>1, <2>2, SetOne
    <2>4. \A c \in Bufs : Mapped(B[c]) => PagesOf(B[c]) \subseteq Va
      <3>1. \A c \in Bufs : B[c].lv \in {0, 1}
        BY <1>t, <2>1 DEF TypeOK
      <3> QED
        BY <1>t, <2>1, <3>1, MapPages DEF MapOK
    <2>5. /\ MapOK(B, V) /\ ~Mapped(C[b]) /\ ~Leaving(C[b])
          /\ \A p \in Va : p \notin PagesOf(B[b]) => W[p] = V[p]
      BY <1>t, <2>1, <2>2, <2>3, NoBufFacts DEF Mapped, Leaving
    <2>6. MapOK(C, W)
      BY <2>2, <2>3, <2>4, <2>5, MapRemoved
    <2>7. ASSUME ase_pt_lock \in Watchers
          PROVE  InUse(acc.va, C, W)
      <3>1. InUse(acc.va, B, V) /\ Leaving(B[b])
        BY <2>1, <2>2, <2>7 DEF MapInv, Leaving
      <3>2. W[acc.va] = V[acc.va]
        BY <2>5, <3>1 DEF InUse
      <3> QED
        BY <2>3, <2>5, <3>1, <3>2 DEF InUse
    <2>8. \A c \in Bufs : Pins(buf[c]) => /\ Pins(buf'[c])
                                          /\ PagesOf(buf'[c]) = PagesOf(buf[c])
      <3>1. ~Pins(buf[b])
        BY <2>1, <2>2 DEF Pins
      <3> QED
        BY <2>1, <2>3, <3>1
    <2> QED
      BY <2>1, <2>2, <2>6, <2>7, <2>8, MapBusy
  <1>12. ASSUME NEW w \in Watchers, NEW b \in Bufs, NEW j \in Idx, AccessIova(w, b, j)
         PROVE  MapInv'
    <2>1. PICK x, T, a : /\ x = buf[b] /\ T = ase_iova_pt_root[AfuOf[x.h]]
                         /\ a = <<x.iova[1], x.iova[2] \cup j>>
      OBVIOUS
    <2>2. /\ session = "up" /\ x.kind # "user" /\ (x.lv = 0 => j = {})
          /\ x.st \in {"owned", "iova_free"}
          /\ Found(T, a) => acc'.va = Lookup(T, a)
          /\ UNCHANGED <<buf, vm, ase_pa_pt_root, session>>
      BY <1>12, <2>1 DEF AccessIova, Locked, Alive
    <2>3. Found(T, a) /\ Lookup(T, a) = <<x.va[1], x.va[2] \cup j>>
      BY <1>t, <2>1, <2>2, OwnedFound
    <2>4. PICK p : p = Lookup(T, a) /\ p = acc'.va
      BY <2>2, <2>3
    <2>5. Pins(x) /\ Mapped(x) /\ x.va \in Va /\ x.lv \in {0, 1}
      BY <1>t, <2>1, <2>2 DEF Pins, Mapped, BufOK, BufRecs
    <2>6. p \in PagesOf(x) /\ p \in Va
      <3>1. PICK vf \in VaFrames, vi \in Idx : x.va = <<vf, vi>>
        BY <2>5 DEF Va
      <3>2. p = <<vf, vi \cup j>> /\ vi \cup j \in Idx
        BY <2>3, <2>4, <3>1 DEF Idx
      <3>3. x.lv = 0 => vi \cup j = vi
        BY <2>2
      <3>4. CASE x.lv = 0
        BY <2>5, <3>1, <3>2, <3>3, <3>4 DEF PagesOf, Pages, Va
      <3>5. CASE x.lv = 1
        <4>1. PagesOf(x) = {vf} \X Idx
          BY <3>1, <3>5 DEF PagesOf, Pages
        <4> QED
          BY <3>2, <4>1 DEF Va
      <3> QED
        BY <2>5, <3>4, <3>5
    <2>7. vm[p] # "none"
      BY <1>t, <2>1, <2>5, <2>6 DEF MapOK
    <2>8. ASSUME NEW c \in Bufs, Leaving(buf[c])
          PROVE  p \notin PagesOf(buf[c])
      <3>1. /\ c # b /\ Own(buf[c])
            /\ \A u \in Bufs : HostOf(buf[b], buf[u]) => u # c
        BY <1>t, <2>1, <2>2, <2>8 DEF Leaving, HostOf, MapOK, Mapped
      <3>2. PagesOf(buf[c]) \cap PagesOf(buf[b]) = {}
        BY <1>t, <2>1, <2>5, <3>1, MapApart
      <3> QED
        BY <2>1, <2>6, <3>2
    <2>9. InUse(acc'.va, buf', vm') /\ Holder(acc'.va, buf')
      BY <2>1, <2>2, <2>4, <2>5, <2>6, <2>7, <2>8 DEF InUse, Holder
    <2>10. MapOK(buf', vm') /\ session' # "down"
      BY <1>t, <2>2
    <2> QED
      BY <2>2, <2>9, <2>10 DEF MapInv
  <1>13. ASSUME NEW w \in Watchers, NEW v \in Va, NEW lv \in {0, 1}, AccessPa(w, v, lv)
         PROVE  FALSE
    <2>1. PICK f \in VaFrames, i \in Idx : Pa(v, lv) = <<f, i>>
      BY PaType
    <2>2. ase_pa_pt_root[f] = NoEntry /\ Found(ase_pa_pt_root, <<f, i>>)
      BY <1>13, <2>1 DEF MapInv, AccessPa
    <2> QED
      BY <2>2, EmptyFacts DEF Found
  <1>14. ASSUME UNCHANGED <<buf, vm, ase_pa_pt_root>>,
                ase_pt_lock' \notin Watchers
         PROVE  MapInv'
    BY <1>14, <1>t, MapFree
  <1>15. ASSUME UNCHANGED <<buf, vm, ase_pa_pt_root, ase_pt_lock, acc, session>>
         PROVE  MapInv'
    BY <1>15 DEF MapInv
  <1>16. CASE Watch
    BY <1>12, <1>13, <1>14, <1>16 DEF Watch, Translate, FinishAccess, Watchers
  <1>c. [ClosesAlone]_vars
    BY <1>t DEF TypeOK, ClosesAlone, OneHandlePerAfu
  <1>17. ASSUME NEW h \in Handles, Close(h)
         PROVE  MapInv'
    <2>1. PICK B, C : B = buf /\ C = buf'
      OBVIOUS
    <2>2. /\ C = [b \in Bufs |-> IF B[b].h = h /\ B[b].kind # "user" THEN NoBuf ELSE B[b]]
          /\ UNCHANGED <<vm, ase_pa_pt_root, ase_pt_lock, acc>>
          /\ session' = IF open = {h} THEN "closing" ELSE "up"
          /\ opens < MaxOpens /\ h \in open /\ session = "up"
      <3>1. session = "up" /\ session' = IF open = {h} THEN "closing" ELSE "up"
        BY <1>c, <1>t, <1>17, CloseOpen DEF MemInv
      <3> QED
        BY <1>17, <2>1, <3>1 DEF Close, Idle
    <2>3. \A b \in Bufs : C[b] = B[b] \/ (C[b] = NoBuf /\ B[b].kind # "user")
      BY <2>2
    <2>4. ~Mapped(NoBuf) /\ ~Leaving(NoBuf)
      BY NoBufFacts DEF Mapped, Leaving
    <2>5. MapOK(C, vm)
      <3>1. MapOK(B, vm)
        BY <1>t, <2>1
      <3>2. ASSUME NEW b \in Bufs
            PROVE  /\ Mapped(C[b]) => /\ Mapped(B[b]) /\ C[b].kind = B[b].kind
                                      /\ C[b].va = B[b].va /\ C[b].lv = B[b].lv
                                      /\ Leaving(C[b]) => C[b].kind \in {"prepare", "user"}
                   /\ B[b].kind = "user" /\ B[b].st = "owned" => C[b] = B[b]
        BY <2>3, <2>4, <3>1 DEF MapOK, Own
      <3> QED
        BY <3>1, <3>2, MapMoved
    <2>6. ASSUME ase_pt_lock \in Watchers
          PROVE  InUse(acc.va, C, vm)
      <3>1. InUse(acc.va, B, vm)
        BY <2>1, <2>6 DEF MapInv
      <3> QED
        BY <2>3, <2>4, <3>1 DEF InUse
    <2>7. session' = "up" => "user" \notin Kinds
      <3>1. MaxOpens # 0
        BY <1>t, <2>2, KindAssumption DEF TypeOK
      <3>2. (\A g, k \in Handles : g = k) => open = {h}
        BY <1>t, <2>2 DEF TypeOK
      <3> QED
        BY <2>2, <3>1, <3>2 DEF Steady
    <2> QED
      BY <2>1, <2>2, <2>5, <2>6, <2>7 DEF MapInv
  <1>18. ASSUME NEW h \in Handles, Open(h)
         PROVE  MapInv'
    <2>1. /\ session \in {"up", "down"} /\ session' = "up"
          /\ UNCHANGED <<buf, vm, ase_pa_pt_root, ase_pt_lock, acc>>
      BY <1>18 DEF Open
    <2> QED
      BY <2>1 DEF MapInv
  <1>19. CASE Terminate
    <2>1. /\ ase_pt_lock' \notin Watchers /\ UNCHANGED <<buf, vm>>
          /\ \A f \in VaFrames : ase_pa_pt_root'[f] = NoEntry
      BY <1>19, EmptyGood DEF Terminate, Watchers
    <2> QED
      BY <2>1 DEF MapInv
  <1>20. CASE Life
    BY <1>14, <1>17, <1>18, <1>19, <1>20 DEF Life, UnpinBadLength, CancelWatcher, Watchers
  <1>21. CASE UNCHANGED vars
    BY <1>15, <1>21 DEF vars
  <1>22. ASSUME NEW h \in Handles, NEW b \in Bufs, Api(h, b)
         PROVE  MapInv'
    BY <1>1, <1>5, <1>8, <1>21, <1>22 DEF Api, AllocIovaFails
  <1> QED
    BY <1>2, <1>3, <1>4, <1>6, <1>7, <1>9, <1>10, <1>11, <1>16, <1>20, <1>21, <1>22
    DEF Next

\* The page a watcher reads or writes stays mapped until it has finished, though
\* its owner may be releasing the buffer: ase_pt_lock, held during the access,
\* stands between the unpin and the munmap of ase_fpgaReleaseBuffer.  One handle
\* per AFU; no address translation.
THEOREM DmaPageMapped ==
    OneHandlePerAfu /\ FewBufs /\ ~Ats /\ Steady => (Spec => []DmaMemoryMapped)
  <1> SUFFICES ASSUME OneHandlePerAfu, FewBufs, ~Ats, Steady
               PROVE  Spec => []DmaMemoryMapped
    OBVIOUS
  <1>1. Apart
    BY DEF Apart
  <1>2. Init => MapInv
    <2> SUFFICES ASSUME Init
                 PROVE  MapInv
      OBVIOUS
    <2>1. \A b \in Bufs : buf[b] = NoBuf /\ ~Mapped(buf[b])
      BY NoBufFacts DEF Init, Mapped
    <2>2. MapOK(buf, vm)
      BY <2>1 DEF MapOK, Own, Guest
    <2>3. \A f \in VaFrames : ase_pa_pt_root[f] = NoEntry
      BY EmptyGood DEF Init
    <2> QED
      BY <2>2, <2>3 DEF MapInv, Init, Watchers
  <1>3. MemInv /\ MapInv /\ [Next]_vars => MapInv'
    BY MapStep
  <1>4. MapInv => DmaMemoryMapped
    BY DEF MapInv, InUse, DmaMemoryMapped
  <1> QED
    BY <1>1, <1>2, <1>3, <1>4, MemInvariance, OneHandleCloses, PTL DEF Spec

=============================================================================

------------------------ MODULE ProtectedModeProofs ------------------------
(***************************************************************************)
(* Proofs about the paged memory path and the task switches, for every set *)
(* of pages, directories, tasks and guests: the walk, the Mmu's operations *)
(* on its TLB, what every action of PagedCpu keeps, that switches are      *)
(* whole, and that ProtectedMode's accesses are PagedCpu's.                *)
(***************************************************************************)
EXTENDS ProtectedMode, SequenceTheorems, TLAPS

----------------------------------------------------------------------------
(* The walk.                                                                *)

(* Paging structures in which a directory's entry names a table.            *)
Structures(m) ==
  /\ m \in [EntryAddr -> Entry]
  /\ \A a \in Dirs \X Regions : m[a].base \in Tables

LEMMA WalkAddresses ==
  ASSUME NEW c \in PagingContext, NEW m, Structures(m), NEW p \in Page
  PROVE  /\ PdeAddr(c, p) \in EntryAddr /\ PteAddr(c, m, p) \in EntryAddr
         /\ FinalEntryAddr(c, m, p) \in EntryAddr
<1>1. PdeAddr(c, p) \in Dirs \X Regions
  BY DEF PdeAddr, PagingContext, Page
<1>2. m[PdeAddr(c, p)].base \in Tables
  BY <1>1 DEF Structures
<1>3. PteAddr(c, m, p) \in Tables \X Slots
  BY <1>2 DEF PteAddr, Page
<1> QED BY <1>1, <1>3 DEF EntryAddr, FinalEntryAddr

LEMMA WalkType ==
  ASSUME NEW c \in PagingContext, NEW m, Structures(m), NEW p \in Page
  PROVE  /\ Walk(c, m, p) \in Translation
         /\ WalkFault(c, m, p) \in {"none", "absent", "reserved"}
<1> DEFINE pde == PdeAddr(c, p)
           final == FinalEntryAddr(c, m, p)
<1>1. pde \in EntryAddr /\ final \in EntryAddr
  BY WalkAddresses
<1>2. m[pde] \in Entry /\ m[final] \in Entry
  BY <1>1 DEF Structures
<1>3. MapsLargePage(c, m[pde]) \in BOOLEAN
  BY <1>2 DEF MapsLargePage, PagingContext, Entry
<1>4. c.pge \in BOOLEAN
  BY DEF PagingContext
<1>5. /\ Walk(c, m, p).frame \in Tables \cup Frames
  BY <1>2 DEF Entry, Walk
<1> HIDE DEF pde, final
<1>6. Walk(c, m, p) \in Translation
  BY <1>1, <1>2, <1>3, <1>4 DEF Entry, Walk, Translation, pde, final
<1>7. WalkFault(c, m, p) \in {"none", "absent", "reserved"}
  BY DEF WalkFault
<1> QED BY <1>6, <1>7

(* Structures that differ in accessed and dirty flags only.                 *)
SameButMarks(m, n) ==
  \A a \in EntryAddr :
    /\ n[a].present = m[a].present /\ n[a].rw = m[a].rw /\ n[a].us = m[a].us
    /\ n[a].large = m[a].large /\ n[a].global = m[a].global
    /\ n[a].pat = m[a].pat /\ n[a].base = m[a].base

LEMMA MarksKeepWalk ==
  ASSUME NEW c \in PagingContext, NEW m, Structures(m), NEW n, SameButMarks(m, n),
         NEW p \in Page
  PROVE  /\ FinalEntryAddr(c, n, p) = FinalEntryAddr(c, m, p)
         /\ WalkFault(c, n, p) = WalkFault(c, m, p)
         /\ Walk(c, n, p) = Walk(c, m, p)
         /\ \A x : Refusal(c, n, p, x) = Refusal(c, m, p, x)
<1> DEFINE pde == PdeAddr(c, p)
           pte == PteAddr(c, m, p)
           final == FinalEntryAddr(c, m, p)
<1>1. pde \in EntryAddr /\ pte \in EntryAddr /\ final \in EntryAddr
  BY WalkAddresses
<1>2. n[pde].base = m[pde].base /\ n[pde].large = m[pde].large
  BY <1>1 DEF SameButMarks
<1>3. PteAddr(c, n, p) = pte
  BY <1>2 DEF PteAddr
<1>4. FinalEntryAddr(c, n, p) = final
  BY <1>2, <1>3 DEF FinalEntryAddr, MapsLargePage
<1>5. WalkFault(c, n, p) = WalkFault(c, m, p)
  BY <1>1, <1>3 DEF WalkFault, SameButMarks, PdeReserved, PteReserved, MapsLargePage
<1>6. Walk(c, n, p) = Walk(c, m, p)
  BY <1>1, <1>4 DEF Walk, SameButMarks, MapsLargePage
<1>7. \A x : Refusal(c, n, p, x) = Refusal(c, m, p, x)
  BY <1>5, <1>6 DEF Refusal
<1> QED BY <1>4, <1>5, <1>6, <1>7

LEMMA CommitMarks ==
  ASSUME NEW c \in PagingContext, NEW m, Structures(m), NEW p \in Page, NEW x \in Access
  PROVE  LET n == CommitAccessedDirty(c, m, p, x)
         IN  /\ Structures(n) /\ SameButMarks(m, n)
             /\ \A a \in EntryAddr : m[a].dirty => n[a].dirty
             /\ x.write => n[FinalEntryAddr(c, m, p)].dirty
<1> DEFINE n == CommitAccessedDirty(c, m, p, x)
           pde == PdeAddr(c, p)
           final == FinalEntryAddr(c, m, p)
           d(a) == m[a].dirty \/ (a = final /\ x.write)
<1>1. pde \in EntryAddr /\ final \in EntryAddr /\ DOMAIN m = EntryAddr
  BY WalkAddresses DEF Structures
<1>2. n = [a \in EntryAddr |-> IF a \in {pde, final}
                               THEN [m[a] EXCEPT !.accessed = TRUE, !.dirty = d(a)] ELSE m[a]]
  BY <1>1 DEF CommitAccessedDirty
<1> HIDE DEF n, pde, final, d
<1>3. ASSUME NEW a \in EntryAddr
      PROVE  /\ n[a] \in Entry
             /\ n[a].present = m[a].present /\ n[a].rw = m[a].rw /\ n[a].us = m[a].us
             /\ n[a].large = m[a].large /\ n[a].global = m[a].global
             /\ n[a].pat = m[a].pat /\ n[a].base = m[a].base
             /\ n[a].dirty = IF a \in {pde, final} THEN d(a) ELSE m[a].dirty
  <2>1. m[a] \in Entry
    BY DEF Structures
  <2>2. d(a) \in BOOLEAN
    BY <2>1 DEF d, Access, Entry
  <2>3. CASE a \in {pde, final}
    <3>1. n[a] = [m[a] EXCEPT !.accessed = TRUE, !.dirty = d(a)]
      BY <1>2, <2>3
    <3>2. /\ n[a] \in Entry
          /\ n[a].present = m[a].present /\ n[a].rw = m[a].rw /\ n[a].us = m[a].us
          /\ n[a].large = m[a].large /\ n[a].global = m[a].global
          /\ n[a].pat = m[a].pat /\ n[a].base = m[a].base
      BY <2>1, <2>2, <3>1 DEF Entry
    <3>3. n[a].dirty = d(a)
      BY <2>1, <2>2, <3>1 DEF Entry
    <3> QED BY <2>3, <3>2, <3>3
  <2>4. CASE a \notin {pde, final}
    BY <1>2, <2>1, <2>4
  <2> QED BY <2>3, <2>4
<1>4. Structures(n)
  <2>1. n \in [EntryAddr -> Entry]
    BY <1>2, <1>3
  <2>2. \A a \in Dirs \X Regions : n[a].base \in Tables
    BY <1>3 DEF Structures, EntryAddr
  <2> QED BY <2>1, <2>2 DEF Structures
<1>5. SameButMarks(m, n)
  BY <1>3 DEF SameButMarks
<1>6. \A a \in EntryAddr : m[a].dirty => n[a].dirty
  BY <1>3 DEF d
<1>7. x.write => n[final].dirty
  BY <1>1, <1>3 DEF d
<1> QED BY <1>4, <1>5, <1>6, <1>7 DEF n, final
----------------------------------------------------------------------------
(* The operations that drop entries.                                        *)

(* n caches no more than m.                                                 *)
Fewer(m, n) == \A k \in Page : n.tlb[k] \in {m.tlb[k], Uncached}

LEMMA RetainKeeps ==
  ASSUME NEW m \in Mmu, NEW keys
  PROVE  LET n == Retain(m, keys)
         IN  /\ n \in Mmu /\ Fewer(m, n)
             /\ n.seen = m.seen /\ n.last = m.last
             /\ \A k \in Page : n.tlb[k] = IF k \in keys THEN m.tlb[k] ELSE Uncached
<1> DEFINE t == [k \in Page |-> IF k \in keys THEN m.tlb[k] ELSE Uncached]
<1>1. t \in [Page -> TlbEntry \cup {Uncached}]
  BY DEF Mmu
<1> HIDE DEF t
<1>2. Retain(m, keys) = [m EXCEPT !.tlb = t]
  BY DEF Retain, t
<1>3. /\ Retain(m, keys) \in Mmu /\ Retain(m, keys).tlb = t
      /\ Retain(m, keys).seen = m.seen /\ Retain(m, keys).last = m.last
  BY <1>1, <1>2 DEF Mmu
<1> QED BY <1>3 DEF t, Fewer

LEMMA InvalidatePageDrops ==
  ASSUME NEW m \in Mmu, NEW p \in Page
  PROVE  LET n == InvalidatePage(m, p)
         IN  /\ n \in Mmu /\ Fewer(m, n) /\ n.last = m.last
             /\ \A k \in Page : n.tlb[k] # Uncached => ~Covers(m.tlb[k], k, p)
             /\ n.tlb[p] = Uncached
<1> DEFINE n == InvalidatePage(m, p)
           keys == {k \in CachedKeys(m) : ~Covers(m.tlb[k], k, p)}
<1>1. /\ n \in Mmu /\ Fewer(m, n) /\ n.last = m.last
      /\ \A k \in Page : n.tlb[k] = IF k \in keys THEN m.tlb[k] ELSE Uncached
  BY RetainKeeps DEF InvalidatePage
<1>2. \A k \in Page : n.tlb[k] # Uncached => ~Covers(m.tlb[k], k, p)
  BY <1>1
<1>3. Covers(m.tlb[p], p, p)
  BY DEF Covers
<1>4. n.tlb[p] = Uncached
  BY <1>2, <1>3
<1> QED BY <1>1, <1>2, <1>4

LEMMA OnMovToCr0Drops ==
  ASSUME NEW m \in Mmu, NEW old \in PagingContext, NEW new \in PagingContext
  PROVE  LET n == OnMovToCr0(m, old, new)
         IN  /\ n \in Mmu /\ Fewer(m, n)
             /\ old.pg /\ ~new.pg => \A k \in Page : n.tlb[k] = Uncached
<1> DEFINE f == IF old.pg /\ ~new.pg THEN FlushAll(m) ELSE m
<1>1. f \in Mmu /\ Fewer(m, f)
  BY RetainKeeps DEF FlushAll, Fewer
<1>2. old.pg /\ ~new.pg => \A k \in Page : f.tlb[k] = Uncached
  BY RetainKeeps DEF FlushAll
<1> HIDE DEF f
<1>3. OnMovToCr0(m, old, new) = [f EXCEPT !.last.pg = new.pg, !.last.wp = new.wp]
  BY DEF OnMovToCr0, f
<1>4. OnMovToCr0(m, old, new) \in Mmu /\ OnMovToCr0(m, old, new).tlb = f.tlb
  <2> DEFINE l == [f.last EXCEPT !.pg = new.pg, !.wp = new.wp]
  <2>1. f.last \in PagingContext
    BY <1>1 DEF Mmu
  <2>2. l \in PagingContext
    BY <2>1 DEF PagingContext
  <2>3. OnMovToCr0(m, old, new) = [f EXCEPT !.last = l]
    BY <1>1, <1>3 DEF Mmu
  <2> HIDE DEF l
  <2> QED BY <1>1, <2>2, <2>3 DEF Mmu
<1> QED BY <1>1, <1>2, <1>4 DEF Fewer

LEMMA OnMovToCr4Drops ==
  ASSUME NEW m \in Mmu, NEW old \in PagingContext, NEW new \in PagingContext
  PROVE  LET n == OnMovToCr4(m, old, new)
         IN  /\ n \in Mmu /\ Fewer(m, n)
             /\ old.pge # new.pge \/ old.pse # new.pse => \A k \in Page : n.tlb[k] = Uncached
<1> DEFINE f == IF old.pge # new.pge \/ old.pse # new.pse THEN FlushAll(m) ELSE m
<1>1. f \in Mmu /\ Fewer(m, f)
  BY RetainKeeps DEF FlushAll, Fewer
<1>2. old.pge # new.pge \/ old.pse # new.pse => \A k \in Page : f.tlb[k] = Uncached
  BY RetainKeeps DEF FlushAll
<1> HIDE DEF f
<1>3. OnMovToCr4(m, old, new) = [f EXCEPT !.last.pse = new.pse, !.last.pge = new.pge]
  BY DEF OnMovToCr4, f
<1>4. OnMovToCr4(m, old, new) \in Mmu /\ OnMovToCr4(m, old, new).tlb = f.tlb
  <2> DEFINE l == [f.last EXCEPT !.pse = new.pse, !.pge = new.pge]
  <2>1. f.last \in PagingContext
    BY <1>1 DEF Mmu
  <2>2. l \in PagingContext
    BY <2>1 DEF PagingContext
  <2>3. OnMovToCr4(m, old, new) = [f EXCEPT !.last = l]
    BY <1>1, <1>3 DEF Mmu
  <2> HIDE DEF l
  <2> QED BY <1>1, <2>2, <2>3 DEF Mmu
<1> QED BY <1>1, <1>2, <1>4 DEF Fewer

LEMMA OnMovToCr3Drops ==
  ASSUME NEW m \in Mmu, NEW new \in PagingContext
  PROVE  LET n == OnMovToCr3(m, new)
         IN  /\ n \in Mmu /\ Fewer(m, n)
             /\ \A k \in Page : n.tlb[k] # Uncached => m.tlb[k].global
<1> DEFINE f == FlushNonGlobal(m)
<1>1. f \in Mmu /\ Fewer(m, f)
  BY RetainKeeps DEF FlushNonGlobal
<1>2. \A k \in Page : f.tlb[k] # Uncached => m.tlb[k].global
  BY RetainKeeps DEF FlushNonGlobal
<1> HIDE DEF f
<1>3. OnMovToCr3(m, new) = [f EXCEPT !.last.dir = new.dir]
  BY DEF OnMovToCr3, f
<1>4. OnMovToCr3(m, new) \in Mmu /\ OnMovToCr3(m, new).tlb = f.tlb
  BY <1>1, <1>3 DEF Mmu, PagingContext
<1> QED BY <1>1, <1>2, <1>4 DEF Fewer

(* Nothing is dropped where the registers are those the Mmu saw last.       *)
LEMMA SyncDrops ==
  ASSUME NEW m \in Mmu, NEW c \in PagingContext
  PROVE  LET n == SyncControlRegisters(m, c)
         IN  /\ n \in Mmu /\ Fewer(m, n) /\ n.last = c
             /\ m.last = c => n.tlb = m.tlb
<1> DEFINE m0 == IF m.seen /\ <<m.last.pg, m.last.wp>> # <<c.pg, c.wp>>
                 THEN OnMovToCr0(m, m.last, c) ELSE m
           m4 == IF m.seen /\ <<m.last.pse, m.last.pge>> # <<c.pse, c.pge>>
                 THEN OnMovToCr4(m0, m.last, c) ELSE m0
           m3 == IF m.seen /\ m.last.dir # c.dir THEN OnMovToCr3(m4, c) ELSE m4
           n == SyncControlRegisters(m, c)
<1>1. m.last \in PagingContext
  BY DEF Mmu
<1>2. m0 \in Mmu /\ Fewer(m, m0) /\ (m.last = c => m0 = m)
  BY <1>1, OnMovToCr0Drops DEF Fewer
<1> HIDE DEF m0
<1>3. m4 \in Mmu /\ Fewer(m0, m4) /\ (m.last = c => m4 = m0)
  BY <1>1, <1>2, OnMovToCr4Drops DEF Fewer
<1> HIDE DEF m4
<1>4. m3 \in Mmu /\ Fewer(m4, m3) /\ (m.last = c => m3 = m4)
  BY <1>3, OnMovToCr3Drops DEF Fewer
<1> HIDE DEF m3
<1>5. n = [m3 EXCEPT !.seen = TRUE, !.last = c]
  BY DEF SyncControlRegisters, m0, m4, m3
<1> HIDE DEF n
<1>6. n \in Mmu /\ n.tlb = m3.tlb /\ n.last = c
  BY <1>4, <1>5 DEF Mmu
<1>7. Fewer(m, n)
  BY <1>2, <1>3, <1>4, <1>6 DEF Fewer
<1> QED BY <1>2, <1>3, <1>4, <1>6, <1>7 DEF n

----------------------------------------------------------------------------
(* Translations.                                                            *)

(* Why an access to a page is refused, or "none": what a cached entry says, *)
(* or else what the structures say.                                         *)
Why(m, c, s, p, x) ==
  IF m.tlb[p] = Uncached THEN Refusal(c, s, p, x)
  ELSE IF RightsPermit(c, m.tlb[p], x) THEN "none" ELSE "protection"

LEMMA CachedEntry ==
  ASSUME NEW e \in TlbEntry
  PROVE  CachedTranslation(e) =
           [frame |-> e.frame, large |-> e.large, writable |-> e.writable,
            user |-> e.user, global |-> e.global, final |-> e.final]
<1>1. DOMAIN e \ {"dirty"} = {"frame", "large", "writable", "user", "global", "final"}
  BY DEF TlbEntry
<1> QED BY <1>1 DEF CachedTranslation

LEMMA WhyReasons ==
  ASSUME NEW m \in Mmu, NEW c \in PagingContext, NEW s, Structures(s), NEW p \in Page, NEW x
  PROVE  Why(m, c, s, p, x) \in {"none"} \cup FaultReason
BY WalkType DEF Why, Refusal, FaultReason

LEMMA ProbeDoes ==
  ASSUME NEW m \in Mmu, NEW c, NEW s, NEW p \in Page, NEW x
  PROVE  LET r == Probe(m, c, s, p, x)
         IN  /\ r.why = Why(m, c, s, p, x) /\ r.page = p /\ r.mem = s
             /\ r.why # "none" => r.mmu = InvalidatePage(m, p)
             /\ r.why = "none" => r.mmu = m
BY DEF Probe, Why, Refused, Translated

LEMMA HitDoes ==
  ASSUME NEW m \in Mmu, NEW c \in PagingContext, NEW s, Structures(s), NEW p \in Page,
         NEW x \in Access, m.tlb[p] # Uncached
  PROVE  LET r == TranslateHit(m, c, s, p, x)
         IN  /\ r.why = Why(m, c, s, p, x) /\ r.page = p
             /\ r.why # "none" => r.mem = s /\ r.mmu = InvalidatePage(m, p)
             /\ r.why = "none" =>
                  /\ r.mmu \in Mmu /\ r.mmu.last = m.last
                  /\ Structures(r.mem) /\ SameButMarks(s, r.mem)
                  /\ \A a \in EntryAddr : s[a].dirty => r.mem[a].dirty
                  /\ \A k \in Page \ {p} : r.mmu.tlb[k] = m.tlb[k]
                  /\ r.mmu.tlb[p] \in TlbEntry
                  /\ CachedTranslation(r.mmu.tlb[p]) = CachedTranslation(m.tlb[p])
                  /\ x.write => r.mem[r.mmu.tlb[p].final].dirty \/ m.tlb[p].dirty
<1> DEFINE r == TranslateHit(m, c, s, p, x)
           e == m.tlb[p]
           marks == x.write /\ ~e.dirty
           f == [e EXCEPT !.dirty = @ \/ marks]
           t == [m.tlb EXCEPT ![p] = f]
           n == [m EXCEPT !.tlb = t]
           q == IF marks THEN [s EXCEPT ![e.final].dirty = TRUE] ELSE s
<1>1. e \in TlbEntry
  BY DEF Mmu
<1>2. CASE ~RightsPermit(c, e, x)
  BY <1>1, <1>2 DEF TranslateHit, Why, Refused, Translated
<1>3. CASE RightsPermit(c, e, x)
  <2>1. r = Translated(n, q, p, "none")
    BY <1>3 DEF TranslateHit, Mmu
  <2>2. marks \in BOOLEAN
    BY <1>1 DEF TlbEntry, Access
  <2>3. /\ f \in TlbEntry /\ f.frame = e.frame /\ f.large = e.large
        /\ f.writable = e.writable /\ f.user = e.user /\ f.global = e.global
        /\ f.final = e.final
    BY <1>1, <2>2 DEF TlbEntry
  <2>4. CachedTranslation(f) = CachedTranslation(e)
    BY <1>1, <2>3, CachedEntry
  <2>5. t \in [Page -> TlbEntry \cup {Uncached}] /\ t[p] = f
        /\ \A k \in Page \ {p} : t[k] = m.tlb[k]
    BY <2>3 DEF Mmu
  <2>6. n \in Mmu /\ n.tlb = t /\ n.last = m.last
    BY <2>5 DEF Mmu
  <2>7. e.final \in EntryAddr
    BY <1>1 DEF TlbEntry
  <2>8. /\ Structures(q) /\ SameButMarks(s, q)
        /\ \A a \in EntryAddr : s[a].dirty => q[a].dirty
        /\ x.write => q[e.final].dirty \/ e.dirty
    <3>1. CASE ~marks
      <4>1. q = s
        BY <3>1
      <4> QED BY <3>1, <4>1 DEF SameButMarks
    <3>2. CASE marks
      <4> DEFINE g == [s[e.final] EXCEPT !.dirty = TRUE]
      <4>1. q = [s EXCEPT ![e.final] = g]
        BY <3>2
      <4>2. s[e.final] \in Entry /\ s \in [EntryAddr -> Entry]
        BY <2>7 DEF Structures
      <4>3. /\ g \in Entry /\ g.present = s[e.final].present /\ g.rw = s[e.final].rw
            /\ g.us = s[e.final].us /\ g.large = s[e.final].large
            /\ g.global = s[e.final].global /\ g.pat = s[e.final].pat
            /\ g.base = s[e.final].base
        BY <4>2 DEF Entry
      <4>4. g.dirty
        BY <4>2 DEF Entry
      <4> HIDE DEF g
      <4>5. /\ q \in [EntryAddr -> Entry] /\ q[e.final] = g
            /\ \A a \in EntryAddr \ {e.final} : q[a] = s[a]
        BY <2>7, <4>1, <4>2, <4>3
      <4> HIDE DEF q
      <4>6. Structures(q)
        <5>1. \A a \in Dirs \X Regions : q[a].base = s[a].base
          BY <4>3, <4>5 DEF EntryAddr
        <5> QED BY <4>5, <5>1 DEF Structures
      <4>7. SameButMarks(s, q)
        BY <4>3, <4>5 DEF SameButMarks
      <4>8. \A a \in EntryAddr : s[a].dirty => q[a].dirty
        BY <4>4, <4>5
      <4> QED BY <4>4, <4>5, <4>6, <4>7, <4>8
    <3> QED BY <3>1, <3>2
  <2> HIDE DEF t, n, q, f
  <2> QED BY <1>1, <1>3, <2>1, <2>3, <2>4, <2>5, <2>6, <2>8 DEF Translated, Why
<1> QED BY <1>2, <1>3

LEMMA MissDoes ==
  ASSUME NEW m \in Mmu, NEW c \in PagingContext, NEW s, Structures(s), NEW p \in Page,
         NEW x \in Access, m.tlb[p] = Uncached
  PROVE  LET r == TranslateMiss(m, c, s, p, x)
         IN  /\ r.why = Why(m, c, s, p, x) /\ r.page = p
             /\ r.why # "none" => r.mem = s /\ r.mmu = InvalidatePage(m, p)
             /\ r.why = "none" =>
                  /\ r.mmu \in Mmu /\ r.mmu.last = m.last
                  /\ Structures(r.mem) /\ SameButMarks(s, r.mem)
                  /\ \A a \in EntryAddr : s[a].dirty => r.mem[a].dirty
                  /\ \A k \in Page \ {p} : r.mmu.tlb[k] = m.tlb[k]
                  /\ r.mmu.tlb[p] \in TlbEntry
                  /\ WalkFault(c, s, p) = "none"
                  /\ CachedTranslation(r.mmu.tlb[p]) = Walk(c, s, p)
                  /\ x.write => r.mem[r.mmu.tlb[p].final].dirty
<1> DEFINE r == TranslateMiss(m, c, s, p, x)
           why == Refusal(c, s, p, x)
           w == Walk(c, s, p)
           q == CommitAccessedDirty(c, s, p, x)
           e == [frame |-> w.frame, large |-> w.large, writable |-> w.writable,
                 user |-> w.user, global |-> w.global, final |-> w.final,
                 dirty |-> q[w.final].dirty]
           t == [m.tlb EXCEPT ![p] = e]
           n == [m EXCEPT !.tlb = t]
<1>1. CASE why # "none"
  BY <1>1 DEF TranslateMiss, Why, Refused, Translated
<1>2. CASE why = "none"
  <2>1. r = Translated(n, q, p, "none")
    BY <1>2 DEF TranslateMiss, Mmu
  <2>2. WalkFault(c, s, p) = "none"
    BY <1>2 DEF Refusal
  <2>3. w \in Translation /\ w.final = FinalEntryAddr(c, s, p)
    BY WalkType DEF Walk
  <2>4. /\ Structures(q) /\ SameButMarks(s, q)
        /\ \A a \in EntryAddr : s[a].dirty => q[a].dirty
        /\ x.write => q[w.final].dirty
    BY <2>3, CommitMarks
  <2>5. q[w.final].dirty \in BOOLEAN
    BY <2>3, <2>4 DEF Structures, Entry, Translation
  <2>6. w = [frame |-> w.frame, large |-> w.large, writable |-> w.writable,
             user |-> w.user, global |-> w.global, final |-> w.final]
    BY <2>3 DEF Translation
  <2> HIDE DEF w, q
  <2>7. e \in TlbEntry /\ e.final = w.final
    BY <2>3, <2>5 DEF TlbEntry, Translation
  <2>8. CachedTranslation(e) = w
    BY <2>6, <2>7, CachedEntry
  <2> HIDE DEF e
  <2>9. t \in [Page -> TlbEntry \cup {Uncached}] /\ t[p] = e
        /\ \A k \in Page \ {p} : t[k] = m.tlb[k]
    BY <2>7 DEF Mmu
  <2>10. n \in Mmu /\ n.tlb = t /\ n.last = m.last
    BY <2>9 DEF Mmu
  <2> HIDE DEF t, n
  <2>11. r.why = "none" /\ r.page = p /\ r.mmu = n /\ r.mem = q
    BY <2>1 DEF Translated
  <2> HIDE DEF r
  <2>12. Why(m, c, s, p, x) = "none"
    BY <1>2 DEF Why
  <2> QED BY <2>2, <2>4, <2>7, <2>8, <2>9, <2>10, <2>11, <2>12 DEF r, w
<1> QED BY <1>1, <1>2

(* What a translation does: refused, it drops the page; else it caches what *)
(* is cached of the page already, or what the structures give.              *)
TranslationSound(m, c, s, p, x, r) ==
  /\ r.why = Why(m, c, s, p, x) /\ r.page = p
  /\ r.why # "none" => r.mem = s /\ r.mmu = InvalidatePage(m, p)
  /\ r.why = "none" =>
       /\ r.mmu \in Mmu /\ r.mmu.last = m.last
       /\ Structures(r.mem) /\ SameButMarks(s, r.mem)
       /\ \A a \in EntryAddr : s[a].dirty => r.mem[a].dirty
       /\ \A k \in Page \ {p} : r.mmu.tlb[k] = m.tlb[k]
       /\ r.mmu.tlb[p] \in TlbEntry
       /\ \/ /\ m.tlb[p] # Uncached
             /\ CachedTranslation(r.mmu.tlb[p]) = CachedTranslation(m.tlb[p])
          \/ /\ m.tlb[p] = Uncached /\ WalkFault(c, s, p) = "none"
             /\ CachedTranslation(r.mmu.tlb[p]) = Walk(c, s, p)
       /\ x.write => \/ r.mem[r.mmu.tlb[p].final].dirty
                     \/ m.tlb[p] # Uncached /\ m.tlb[p].dirty

LEMMA TranslateDoes ==
  ASSUME NEW m \in Mmu, NEW c \in PagingContext, NEW s, Structures(s), NEW p \in Page,
         NEW x \in Access
  PROVE  TranslationSound(m, c, s, p, x, Translate(m, c, s, p, x))
<1>1. CASE m.tlb[p] = Uncached
  BY <1>1, MissDoes, SMTT(20) DEF Translate, TranslationSound
<1>2. CASE m.tlb[p] # Uncached
  BY <1>2, HitDoes DEF Translate, TranslationSound
<1> QED BY <1>1, <1>2

(* An access that goes through, to the pages P of one address or two.       *)
SpanSound(m, s, P, x, r) ==
  /\ r.mmu \in Mmu /\ r.mmu.last = m.last
  /\ Structures(r.mem) /\ SameButMarks(s, r.mem)
  /\ \A k \in Page \ P : r.mmu.tlb[k] = m.tlb[k]
  /\ \A k \in P :
       /\ r.mmu.tlb[k] \in TlbEntry
       /\ \/ /\ m.tlb[k] # Uncached
             /\ CachedTranslation(r.mmu.tlb[k]) = CachedTranslation(m.tlb[k])
          \/ /\ m.tlb[k] = Uncached /\ WalkFault(cr, s, k) = "none"
             /\ CachedTranslation(r.mmu.tlb[k]) = Walk(cr, s, k)
       /\ x.write => \/ r.mem[r.mmu.tlb[k].final].dirty
                     \/ m.tlb[k] # Uncached /\ m.tlb[k].dirty

RefusedSound(m, s, P, x, r) ==
  /\ r.page \in P /\ r.why = Why(m, cr, s, r.page, x)
  /\ r.mem = s /\ r.mmu = InvalidatePage(m, r.page)

LEMMA OnePage ==
  ASSUME NEW m \in Mmu, cr \in PagingContext, NEW s, Structures(s), NEW p \in Page,
         NEW x \in Access, NEW r, r = Translate(m, cr, s, p, x)
  PROVE  IF r.why = "none" THEN SpanSound(m, s, {p}, x, r) ELSE RefusedSound(m, s, {p}, x, r)
<1>1. TranslationSound(m, cr, s, p, x, r)
  BY TranslateDoes
<1> QED BY <1>1 DEF TranslationSound, SpanSound, RefusedSound

LEMMA TwoPages ==
  ASSUME NEW m \in Mmu, cr \in PagingContext, Structures(mem), NEW p \in Page,
         NEW q \in Page \ {p}, NEW x \in Access, NEW r, r = TranslateSpan(m, <<p, q>>, x)
  PROVE  IF r.why = "none" THEN SpanSound(m, mem, {p, q}, x, r)
         ELSE RefusedSound(m, mem, {p, q}, x, r)
<1> DEFINE p1 == Probe(m, cr, mem, p, x)
           p2 == Probe(m, cr, mem, q, x)
           first == Translate(m, cr, mem, p, x)
           second == Translate(first.mmu, cr, first.mem, q, x)
<1>1. r = IF p1.why # "none" THEN p1 ELSE IF p2.why # "none" THEN p2 ELSE second
  BY DEF TranslateSpan
<1>2. /\ p1.why = Why(m, cr, mem, p, x) /\ p1.page = p /\ p1.mem = mem
      /\ p1.why # "none" => p1.mmu = InvalidatePage(m, p)
  BY ProbeDoes
<1>3. /\ p2.why = Why(m, cr, mem, q, x) /\ p2.page = q /\ p2.mem = mem
      /\ p2.why # "none" => p2.mmu = InvalidatePage(m, q)
  BY ProbeDoes
<1>4. TranslationSound(m, cr, mem, p, x, first)
  BY TranslateDoes
<1> HIDE DEF p1, p2, first
<1>5. CASE p1.why # "none"
  BY <1>1, <1>2, <1>5 DEF RefusedSound
<1>6. CASE p1.why = "none" /\ p2.why # "none"
  BY <1>1, <1>3, <1>6 DEF RefusedSound
<1>7. CASE p1.why = "none" /\ p2.why = "none"
  <2>1. first.why = "none" /\ r = second
    BY <1>1, <1>2, <1>4, <1>7 DEF TranslationSound
  <2>2. /\ first.mmu \in Mmu /\ first.mmu.last = m.last
        /\ Structures(first.mem) /\ SameButMarks(mem, first.mem)
        /\ \A k \in Page \ {p} : first.mmu.tlb[k] = m.tlb[k]
        /\ first.mmu.tlb[p] \in TlbEntry
        /\ \/ /\ m.tlb[p] # Uncached
              /\ CachedTranslation(first.mmu.tlb[p]) = CachedTranslation(m.tlb[p])
           \/ /\ m.tlb[p] = Uncached /\ WalkFault(cr, mem, p) = "none"
              /\ CachedTranslation(first.mmu.tlb[p]) = Walk(cr, mem, p)
        /\ x.write => \/ first.mem[first.mmu.tlb[p].final].dirty
                      \/ m.tlb[p] # Uncached /\ m.tlb[p].dirty
    BY <1>4, <2>1 DEF TranslationSound
  <2>3. TranslationSound(first.mmu, cr, first.mem, q, x, second)
    BY <2>2, TranslateDoes
  <2>4. Why(first.mmu, cr, first.mem, q, x) = Why(m, cr, mem, q, x)
    BY <2>2, MarksKeepWalk DEF Why
  <2> HIDE DEF second
  <2>5. second.why = "none"
    BY <1>3, <1>7, <2>3, <2>4 DEF TranslationSound
  <2>6. /\ second.mmu \in Mmu /\ second.mmu.last = first.mmu.last
        /\ Structures(second.mem) /\ SameButMarks(first.mem, second.mem)
        /\ \A a \in EntryAddr : first.mem[a].dirty => second.mem[a].dirty
        /\ \A k \in Page \ {q} : second.mmu.tlb[k] = first.mmu.tlb[k]
        /\ second.mmu.tlb[q] \in TlbEntry
        /\ \/ /\ first.mmu.tlb[q] # Uncached
              /\ CachedTranslation(second.mmu.tlb[q]) = CachedTranslation(first.mmu.tlb[q])
           \/ /\ first.mmu.tlb[q] = Uncached /\ WalkFault(cr, first.mem, q) = "none"
              /\ CachedTranslation(second.mmu.tlb[q]) = Walk(cr, first.mem, q)
        /\ x.write => \/ second.mem[second.mmu.tlb[q].final].dirty
                      \/ first.mmu.tlb[q] # Uncached /\ first.mmu.tlb[q].dirty
    BY <2>3, <2>5 DEF TranslationSound
  <2>7. /\ WalkFault(cr, first.mem, q) = WalkFault(cr, mem, q)
        /\ Walk(cr, first.mem, q) = Walk(cr, mem, q)
    BY <2>2, MarksKeepWalk
  <2>8. SameButMarks(mem, second.mem)
    BY <2>2, <2>6, SMTT(30) DEF SameButMarks
  <2>9. first.mmu.tlb[p].final \in EntryAddr
    BY <2>2 DEF TlbEntry
  <2>10. first.mmu.tlb[q] = m.tlb[q] /\ second.mmu.tlb[p] = first.mmu.tlb[p]
    BY <2>2, <2>6
  <2>11. SpanSound(m, mem, {p, q}, x, second)
    BY <2>2, <2>6, <2>7, <2>8, <2>9, <2>10 DEF SpanSound
  <2> QED BY <2>1, <2>5, <2>11
<1> QED BY <1>5, <1>6, <1>7
----------------------------------------------------------------------------
(* The Mmu's part of the invariant: it saw the registers as they are, and   *)
(* the page of a fault stays out of the TLB until an access goes through.   *)

MmuInv ==
  /\ cr \in PagingContext /\ Structures(mem)
  /\ mmu \in Mmu /\ mmu.last = cr
  /\ trap # NoTrap => trap.page \in Page /\ mmu.tlb[trap.page] = Uncached

Pairs(m) == {<<k, CachedTranslation(m.tlb[k])>> : k \in {p \in Page : m.tlb[p] # Uncached}}

Walks == [p \in Page |-> Described(p)]

LEMMA SyncedSame ==
  ASSUME MmuInv
  PROVE  Synced \in Mmu /\ Synced.last = cr /\ Synced.tlb = mmu.tlb
BY SyncDrops DEF MmuInv, Synced

LEMMA FewerPairs ==
  ASSUME NEW m, NEW n, Fewer(m, n)
  PROVE  Pairs(n) \subseteq Pairs(m)
BY ZenonT(30) DEF Fewer, Pairs

LEMMA AccessStep ==
  ASSUME MmuInv, cr.pg, NEW m \in Mmu, m.tlb = mmu.tlb, m.last = cr, NEW P \in SUBSET Page,
         NEW x \in Access, NEW r, SpanSound(m, mem, P, x, r),
         NEW kind \in {"load", "store"}, kind = "store" => x.write, GoesThrough(r, kind, P)
  PROVE  /\ MmuInv' /\ Contract!ContractNext /\ event'.kind # "fault"
         /\ event'.kind = "store" => \A p \in event'.pages : StoreMarks(p)
<1>1. /\ mmu' = r.mmu /\ mem' = r.mem /\ trap' = NoTrap
      /\ event' = [kind |-> kind, pages |-> P] /\ UNCHANGED <<guest, cr, user>>
  BY DEF GoesThrough, Happened
<1>2. MmuInv'
  BY <1>1 DEF MmuInv, SpanSound
<1>3. Walks' = Walks
  <2>1. \A p \in Page : WalkFault(cr, mem', p) = WalkFault(cr, mem, p)
                       /\ Walk(cr, mem', p) = Walk(cr, mem, p)
    BY <1>1, MarksKeepWalk DEF MmuInv, SpanSound
  <2>2. \A p \in Page : Described(p)' = Described(p)
    BY <1>1, <2>1 DEF Described
  <2> QED BY <2>2 DEF Walks
<1>4. ASSUME NEW c \in Pairs(mmu')
      PROVE  c \in Pairs(mmu) \cup {<<p, Walks[p]>> : p \in {q \in P : Walks[q] # Uncached}}
  <2>1. PICK k \in Page : mmu'.tlb[k] # Uncached /\ c = <<k, CachedTranslation(mmu'.tlb[k])>>
    BY DEF Pairs
  <2>2. CASE k \notin P
    <3>1. mmu'.tlb[k] = mmu.tlb[k]
      BY <1>1, <2>2 DEF SpanSound
    <3> QED BY <2>1, <3>1 DEF Pairs
  <2>3. CASE k \in P /\ mmu.tlb[k] # Uncached
    <3>1. CachedTranslation(mmu'.tlb[k]) = CachedTranslation(mmu.tlb[k])
      BY <1>1, <2>3 DEF SpanSound
    <3> QED BY <2>1, <2>3, <3>1 DEF Pairs
  <2>4. CASE k \in P /\ mmu.tlb[k] = Uncached
    <3>1. /\ WalkFault(cr, mem, k) = "none"
          /\ CachedTranslation(mmu'.tlb[k]) = Walk(cr, mem, k)
      BY <1>1, <2>4 DEF SpanSound
    <3>2. Walks[k] = Walk(cr, mem, k)
      BY <3>1 DEF Walks, Described
    <3>3. Walks[k] # Uncached
      BY <3>2, WalkType, TlbAssumption DEF MmuInv
    <3> QED BY <2>1, <2>4, <3>1, <3>2, <3>3
  <2> QED BY <2>2, <2>3, <2>4
<1>5. Contract!Use
  BY <1>1, <1>3, <1>4, Zenon DEF Contract!Use, Pairs, Walks
<1>6. kind = "store" => \A p \in P : StoreMarks(p)
  BY <1>1 DEF SpanSound, StoreMarks
<1> QED BY <1>1, <1>2, <1>5, <1>6 DEF Contract!ContractNext

(* The error code tells the access, and the reason as far as it can.        *)
LEMMA ErrorCodeTells ==
  ASSUME NEW p, NEW x \in Access, NEW why \in FaultReason
  PROVE  LET code == ErrorCode(Fault(p, x, why))
         IN  /\ "WR" \in code <=> x.write
             /\ "US" \in code <=> x.user
             /\ "P" \in code <=> why # "absent"
             /\ "RSVD" \in code <=> why = "reserved"
BY DEF ErrorCode, Fault, FaultReason

LEMMA FaultStep ==
  ASSUME MmuInv, NEW m \in Mmu, m.tlb = mmu.tlb, m.last = cr, NEW P \in SUBSET Page,
         NEW x \in Access, NEW r, r.why # "none", RefusedSound(m, mem, P, x, r), PageFault(r, x)
  PROVE  /\ MmuInv' /\ Contract!ContractNext /\ trap'.page \in Page
         /\ event'.kind = "fault" /\ mem' = mem /\ FaultTrue /\ FaultOnce
<1> DEFINE p == r.page
           code == ErrorCode(Fault(p, x, r.why))
<1>1. /\ mmu' = InvalidatePage(m, p) /\ mem' = mem /\ p \in P /\ p \in Page
      /\ trap' = [page |-> p, code |-> code] /\ r.why = Why(m, cr, mem, p, x)
      /\ event' = [kind |-> "fault", pages |-> {p}] /\ UNCHANGED <<guest, cr>>
  BY DEF PageFault, Happened, RefusedSound
<1>2. r.why \in FaultReason
  BY <1>1, WhyReasons DEF MmuInv
<1>3. /\ "WR" \in code <=> x.write
      /\ "US" \in code <=> x.user
      /\ "P" \in code <=> r.why # "absent"
      /\ "RSVD" \in code <=> r.why = "reserved"
  BY <1>2, ErrorCodeTells
<1> HIDE DEF code
<1>4. /\ mmu' \in Mmu /\ Fewer(m, mmu') /\ mmu'.last = m.last
      /\ \A k \in Page : mmu'.tlb[k] # Uncached => ~Covers(m.tlb[k], k, p)
      /\ mmu'.tlb[p] = Uncached
  BY <1>1, InvalidatePageDrops
<1>5. MmuInv'
  BY <1>1, <1>4 DEF MmuInv
<1>6. Walks' = Walks
  BY <1>1 DEF Walks, Described
<1>7. ASSUME NEW c \in Pairs(mmu')
      PROVE  c \in {d \in Pairs(mmu) : \A q \in {p} : ~Contract!Spans(d[2], d[1], q)}
  <2>1. PICK k \in Page : mmu'.tlb[k] # Uncached /\ c = <<k, CachedTranslation(mmu'.tlb[k])>>
    BY DEF Pairs
  <2>2. mmu'.tlb[k] = mmu.tlb[k] /\ mmu.tlb[k] \in TlbEntry
    BY <1>4, <2>1 DEF Fewer, Mmu
  <2>3. c \in Pairs(mmu)
    BY <2>1, <2>2 DEF Pairs
  <2>4. ~Covers(mmu.tlb[k], k, p)
    BY <1>4, <2>1
  <2>5. CachedTranslation(mmu.tlb[k]).large = mmu.tlb[k].large
    BY <2>2, CachedEntry
  <2>6. ~Contract!Spans(c[2], c[1], p)
    BY <2>1, <2>2, <2>4, <2>5 DEF Contract!Spans, Covers
  <2> QED BY <2>3, <2>6
<1>8. Contract!Invalidate
  BY <1>1, <1>6, <1>7, Zenon DEF Contract!Invalidate, Contract!Outside, Pairs, Walks
<1>9. Faulting(trap') = x
  BY <1>1, <1>3 DEF Faulting, Access
<1>10. FaultTrue
  <2>1. CASE mmu.tlb[p] # Uncached
    <3>1. r.why = "protection"
      BY <1>1, <2>1 DEF Why
    <3> QED BY <1>1, <1>3, <2>1, <3>1 DEF FaultTrue
  <2>2. CASE mmu.tlb[p] = Uncached
    <3>1. r.why = Refusal(cr, mem, p, x)
      BY <1>1, <2>2 DEF Why
    <3> QED BY <1>1, <1>3, <1>9, <2>2, <3>1 DEF FaultTrue
  <2> QED BY <2>1, <2>2
<1>11. FaultOnce
  <2> SUFFICES ASSUME trap.page = p PROVE Refusal(cr, mem, p, x) # "none"
    BY <1>1, <1>9 DEF FaultOnce
  <2>1. trap # NoTrap
    BY <1>1 DEF NoTrap, Page
  <2>2. mmu.tlb[p] = Uncached
    BY <2>1 DEF MmuInv
  <2> QED BY <1>1, <2>2 DEF Why
<1> QED BY <1>1, <1>5, <1>8, <1>10, <1>11 DEF Contract!ContractNext

(* A step that accesses nothing: it may drop what it likes, and a load of   *)
(* CR3 or a flush drops what it has to.                                     *)
LEMMA DropStep ==
  ASSUME MmuInv, NEW kind, cr' \in PagingContext, Structures(mem'), trap' \in {trap, NoTrap},
         mmu' \in Mmu, mmu'.last = cr', Fewer(mmu, mmu'), Happened(kind, {}),
         \/ kind = "other"
         \/ kind = "cr3" /\ \A k \in Page : mmu'.tlb[k] # Uncached => mmu.tlb[k].global
         \/ kind = "flush" /\ \A k \in Page : mmu'.tlb[k] = Uncached
  PROVE  MmuInv' /\ Contract!ContractNext /\ event'.kind \notin {"fault", "store"}
<1>1. event'.kind = kind
  BY DEF Happened
<1>2. MmuInv'
  BY DEF MmuInv, Fewer
<1>3. Pairs(mmu') \subseteq Pairs(mmu)
  BY FewerPairs
<1>4. CASE kind = "other"
  <2>1. Contract!Edit
    BY <1>1, <1>3, <1>4, Zenon DEF Contract!Edit, Pairs
  <2> QED BY <1>1, <1>2, <1>4, <2>1 DEF Contract!ContractNext
<1>5. CASE kind = "cr3" /\ \A k \in Page : mmu'.tlb[k] # Uncached => mmu.tlb[k].global
  <2>1. ASSUME NEW c \in Pairs(mmu')
        PROVE  c \in {d \in Pairs(mmu) : d[2].global}
    <3>1. PICK k \in Page : mmu'.tlb[k] # Uncached /\ c = <<k, CachedTranslation(mmu'.tlb[k])>>
      BY DEF Pairs
    <3>2. mmu'.tlb[k] = mmu.tlb[k] /\ mmu.tlb[k] \in TlbEntry
      BY <3>1 DEF Fewer, Mmu
    <3>3. CachedTranslation(mmu.tlb[k]).global = mmu.tlb[k].global
      BY <3>2, CachedEntry
    <3> QED BY <1>3, <1>5, <3>1, <3>2, <3>3
  <2>2. Contract!LoadCr3
    BY <1>1, <1>5, <2>1, Zenon DEF Contract!LoadCr3, Pairs
  <2> QED BY <1>1, <1>2, <1>5, <2>2 DEF Contract!ContractNext
<1>6. CASE kind = "flush" /\ \A k \in Page : mmu'.tlb[k] = Uncached
  <2>1. Pairs(mmu') = {}
    BY <1>6 DEF Pairs
  <2>2. Contract!Flush
    BY <1>1, <1>6, <2>1, Zenon DEF Contract!Flush, Pairs
  <2> QED BY <1>1, <1>2, <1>6, <2>2 DEF Contract!ContractNext
<1> QED BY <1>4, <1>5, <1>6

LEMMA InvlpgStep ==
  ASSUME MmuInv, NEW p \in Page, mmu' = InvalidatePage(Synced, p), Happened("invlpg", {p}),
         UNCHANGED <<cr, mem, trap>>
  PROVE  MmuInv' /\ Contract!ContractNext /\ event'.kind = "invlpg"
<1>1. event' = [kind |-> "invlpg", pages |-> {p}]
  BY DEF Happened
<1>2. /\ mmu' \in Mmu /\ Fewer(Synced, mmu') /\ mmu'.last = cr
      /\ \A k \in Page : mmu'.tlb[k] # Uncached => ~Covers(mmu.tlb[k], k, p)
  BY SyncedSame, InvalidatePageDrops
<1>3. Fewer(mmu, mmu')
  BY <1>2, SyncedSame DEF Fewer
<1>4. MmuInv'
  BY <1>2, <1>3 DEF MmuInv, Fewer
<1>5. Walks' = Walks
  BY DEF Walks, Described
<1>6. ASSUME NEW c \in Pairs(mmu')
      PROVE  c \in {d \in Pairs(mmu) : \A q \in {p} : ~Contract!Spans(d[2], d[1], q)}
  <2>1. PICK k \in Page : mmu'.tlb[k] # Uncached /\ c = <<k, CachedTranslation(mmu'.tlb[k])>>
    BY DEF Pairs
  <2>2. mmu'.tlb[k] = mmu.tlb[k] /\ mmu.tlb[k] \in TlbEntry
    BY <1>3, <2>1 DEF Fewer, Mmu, MmuInv
  <2>3. c \in Pairs(mmu)
    BY <2>1, <2>2 DEF Pairs
  <2>4. CachedTranslation(mmu.tlb[k]).large = mmu.tlb[k].large
    BY <2>2, CachedEntry
  <2>5. ~Contract!Spans(c[2], c[1], p)
    BY <1>2, <2>1, <2>2, <2>4 DEF Contract!Spans, Covers
  <2> QED BY <2>3, <2>5
<1>7. Contract!Invalidate
  BY <1>1, <1>5, <1>6, Zenon DEF Contract!Invalidate, Contract!Outside, Pairs, Walks
<1> QED BY <1>1, <1>4, <1>7 DEF Contract!ContractNext

(* The loads of the control registers.                                      *)
LEMMA LoadsDrop ==
  ASSUME MmuInv, NEW new \in PagingContext
  PROVE  /\ \A reg \in {0, 3, 4} :
              LET n == ControlRegister(reg, Synced, cr, new)
              IN  n \in Mmu /\ n.last = new /\ Fewer(mmu, n)
         /\ cr.pg /\ ~new.pg =>
              \A k \in Page : ControlRegister(0, Synced, cr, new).tlb[k] = Uncached
         /\ cr.pge # new.pge \/ cr.pse # new.pse =>
              \A k \in Page : ControlRegister(4, Synced, cr, new).tlb[k] = Uncached
         /\ \A k \in Page : ControlRegister(3, Synced, cr, new).tlb[k] # Uncached
                             => mmu.tlb[k].global
<1>1. Synced \in Mmu /\ Synced.tlb = mmu.tlb /\ cr \in PagingContext
  BY SyncedSame DEF MmuInv
<1> DEFINE m0 == OnMovToCr0(Synced, cr, new)
           m3 == OnMovToCr3(Synced, new)
           m4 == OnMovToCr4(Synced, cr, new)
<1>2. /\ m0 \in Mmu /\ Fewer(Synced, m0)
      /\ cr.pg /\ ~new.pg => \A k \in Page : m0.tlb[k] = Uncached
  BY <1>1, OnMovToCr0Drops
<1>3. /\ m3 \in Mmu /\ Fewer(Synced, m3)
      /\ \A k \in Page : m3.tlb[k] # Uncached => mmu.tlb[k].global
  BY <1>1, OnMovToCr3Drops
<1>4. /\ m4 \in Mmu /\ Fewer(Synced, m4)
      /\ cr.pge # new.pge \/ cr.pse # new.pse => \A k \in Page : m4.tlb[k] = Uncached
  BY <1>1, OnMovToCr4Drops
<1>5. /\ ControlRegister(0, Synced, cr, new) = SyncControlRegisters(m0, new)
      /\ ControlRegister(3, Synced, cr, new) = SyncControlRegisters(m3, new)
      /\ ControlRegister(4, Synced, cr, new) = SyncControlRegisters(m4, new)
  BY DEF ControlRegister
<1> HIDE DEF m0, m3, m4
<1>6. /\ SyncControlRegisters(m0, new) \in Mmu /\ Fewer(m0, SyncControlRegisters(m0, new))
      /\ SyncControlRegisters(m0, new).last = new
  BY <1>2, SyncDrops
<1>7. /\ SyncControlRegisters(m3, new) \in Mmu /\ Fewer(m3, SyncControlRegisters(m3, new))
      /\ SyncControlRegisters(m3, new).last = new
  BY <1>3, SyncDrops
<1>8. /\ SyncControlRegisters(m4, new) \in Mmu /\ Fewer(m4, SyncControlRegisters(m4, new))
      /\ SyncControlRegisters(m4, new).last = new
  BY <1>4, SyncDrops
<1> QED BY <1>1, <1>2, <1>3, <1>4, <1>5, <1>6, <1>7, <1>8 DEF Fewer
----------------------------------------------------------------------------
(* The rest of the invariant: REP INSB restarts from the registers it has,  *)
(* and they count what it has read from the port.                           *)

InsInv ==
  /\ PortInPlace
  /\ within = "ins" => restart = job /\ job.cx # 0
  /\ job.cx # 0 => job.di = taken + 1 /\ job.cx + taken = Len(Buffer)

PagedInv == PagedTypeOK /\ MmuInv /\ InsInv

(* What every step does.                                                    *)
StepSound == PagedInv' /\ Contract!ContractNext /\ Exact

LEMMA LongKept ==
  ASSUME PagedInv, MmuInv', guest' = guest, user' \in BOOLEAN, UNCHANGED longVars
  PROVE  PagedInv'
<1>1. /\ within' = within /\ swap' = swap /\ job' = job /\ restart' = restart
      /\ taken' = taken /\ placed' = placed
  BY DEF longVars, portVars
<1>2. InsInv'
  BY <1>1 DEF PagedInv, InsInv, PortInPlace
<1>3. PagedTypeOK'
  BY <1>1 DEF PagedInv, PagedTypeOK, MmuInv, Mmu, Structures
<1> QED BY <1>2, <1>3 DEF PagedInv

LEMMA InitSound ==
  ASSUME PagedInit
  PROVE  PagedInv /\ Contract!ContractInit
<1>1. guest \in PagingGuests /\ guest \in Guest
  BY PagedCpuAssumption DEF PagedInit
<1>2. cr \in PagingContext
  BY <1>1 DEF PagedInit, Guest, PagingContext
<1>3. NoEntry \in Entry /\ NoEntry.base \in Tables
  BY PagingAssumption DEF NoEntry, Entry
<1>4. Structures(mem)
  BY <1>3 DEF PagedInit, Structures, EntryAddr
<1>5. mmu \in Mmu /\ mmu.last = cr /\ \A k \in Page : mmu.tlb[k] = Uncached
  BY <1>2 DEF PagedInit, NewMmu, Mmu
<1>6. MmuInv
  BY <1>2, <1>4, <1>5 DEF MmuInv, PagedInit
<1>7. Len(Buffer) \in Nat
  BY PagedCpuAssumption
<1>8. InsInv /\ job.cx \in 0 .. Len(Buffer) /\ job.di \in 1 .. Len(Buffer) + 1
  BY <1>7 DEF PagedInit, InsInv, PortInPlace, Bytes
<1>9. placed \in [Bytes -> 0 .. Len(Buffer)] /\ taken \in 0 .. Len(Buffer)
  BY <1>7 DEF PagedInit
<1>10. swap \in [low : {"old", "new"}, high : {"old", "new"}, equal : BOOLEAN, done : BOOLEAN]
  BY DEF PagedInit
<1>11. PagedTypeOK
  BY <1>1, <1>2, <1>4, <1>5, <1>8, <1>9, <1>10 DEF PagedTypeOK, PagedInit, Structures, Mmu
<1>12. Pairs(mmu) = {}
  BY <1>5 DEF Pairs
<1> QED BY <1>6, <1>8, <1>11, <1>12, Zenon DEF PagedInv, Contract!ContractInit, Pairs

LEMMA DataStep ==
  ASSUME PagedInv, NEW write \in BOOLEAN, NEW pages, NEW P \in SUBSET Page,
         P = {pages[i] : i \in DOMAIN pages},
         LET r == TranslateSpan(Synced, pages, DataAccess(write))
         IN  IF r.why = "none" THEN SpanSound(Synced, mem, P, DataAccess(write), r)
             ELSE RefusedSound(Synced, mem, P, DataAccess(write), r),
         DataInstruction(pages, write)
  PROVE  StepSound
<1> DEFINE access == DataAccess(write)
           r == TranslateSpan(Synced, pages, access)
<1>1. access \in Access /\ access.write = write /\ user \in BOOLEAN
  BY DEF DataAccess, Access, PagedInv, PagedTypeOK
<1>2. Synced \in Mmu /\ Synced.last = cr /\ Synced.tlb = mmu.tlb /\ MmuInv
  BY SyncedSame DEF PagedInv
<1>3. cr.pg /\ UNCHANGED longVars
  BY DEF DataInstruction
<1>4. InsInv
  BY DEF PagedInv
<1>5. PortInPlace'
  BY <1>3, <1>4 DEF longVars, portVars, InsInv, PortInPlace
<1>6. CASE r.why = "none"
  <2>1. GoesThrough(r, IF write THEN "store" ELSE "load", P) /\ SpanSound(Synced, mem, P, access, r)
    BY <1>6 DEF DataInstruction
  <2> HIDE DEF r, access
  <2>2. /\ MmuInv' /\ Contract!ContractNext /\ event'.kind # "fault"
        /\ event'.kind = "store" => \A p \in event'.pages : StoreMarks(p)
    <3>1. CASE write
      BY <1>1, <1>2, <1>3, <2>1, <3>1, AccessStep
    <3>2. CASE ~write
      BY <1>1, <1>2, <1>3, <2>1, <3>2, AccessStep
    <3> QED BY <3>1, <3>2
  <2>3. PagedInv'
    BY <1>1, <1>3, <2>1, <2>2, LongKept DEF GoesThrough
  <2> QED BY <1>5, <2>2, <2>3 DEF StepSound, Exact
<1>7. CASE r.why # "none"
  <2>1. PageFault(r, access) /\ RefusedSound(Synced, mem, P, access, r)
    BY <1>7 DEF DataInstruction
  <2> HIDE DEF r, access
  <2>2. /\ MmuInv' /\ Contract!ContractNext
        /\ event'.kind = "fault" /\ mem' = mem /\ FaultTrue /\ FaultOnce
    BY <1>1, <1>2, <1>7, <2>1, FaultStep
  <2>3. PagedInv'
    BY <1>3, <2>1, <2>2, LongKept DEF PageFault
  <2> QED BY <1>5, <2>2, <2>3 DEF StepSound, Exact
<1> QED BY <1>6, <1>7

LEMMA OnePageStep ==
  ASSUME PagedInv, NEW p \in Page, NEW write \in BOOLEAN, DataInstruction(<<p>>, write)
  PROVE  StepSound
<1> DEFINE r == TranslateSpan(Synced, <<p>>, DataAccess(write))
<1>1. r = Translate(Synced, cr, mem, p, DataAccess(write))
  BY DEF TranslateSpan
<1>2. DataAccess(write) \in Access /\ Synced \in Mmu /\ cr \in PagingContext /\ Structures(mem)
  BY SyncedSame DEF DataAccess, Access, PagedInv, PagedTypeOK, MmuInv
<1> HIDE DEF r
<1>3. IF r.why = "none" THEN SpanSound(Synced, mem, {p}, DataAccess(write), r)
      ELSE RefusedSound(Synced, mem, {p}, DataAccess(write), r)
  BY <1>1, <1>2, OnePage
<1>4. {p} = {<<p>>[i] : i \in DOMAIN <<p>>}
  OBVIOUS
<1> QED BY <1>3, <1>4, DataStep DEF r

LEMMA TwoPageStep ==
  ASSUME PagedInv, NEW p \in Page, NEW q \in Page \ {p}, DataInstruction(<<p, q>>, TRUE)
  PROVE  StepSound
<1> DEFINE r == TranslateSpan(Synced, <<p, q>>, DataAccess(TRUE))
<1>1. DataAccess(TRUE) \in Access /\ Synced \in Mmu /\ cr \in PagingContext /\ Structures(mem)
  BY SyncedSame DEF DataAccess, Access, PagedInv, PagedTypeOK, MmuInv
<1>2. IF r.why = "none" THEN SpanSound(Synced, mem, {p, q}, DataAccess(TRUE), r)
      ELSE RefusedSound(Synced, mem, {p, q}, DataAccess(TRUE), r)
  BY <1>1, TwoPages
<1>3. {p, q} = {<<p, q>>[i] : i \in DOMAIN <<p, q>>}
  OBVIOUS
<1> QED BY <1>2, <1>3, DataStep
(* A step that accesses nothing and leaves what instructions of several     *)
(* accesses keep.                                                           *)
LEMMA QuietStep ==
  ASSUME PagedInv, guest' = guest, user' \in BOOLEAN, UNCHANGED longVars,
         MmuInv', Contract!ContractNext, event'.kind \notin {"fault", "store"}
  PROVE  StepSound
<1>1. PagedInv'
  BY LongKept
<1>2. PortInPlace'
  BY <1>1 DEF PagedInv, InsInv
<1> QED BY <1>1, <1>2 DEF StepSound, Exact

LEMMA SyncedStep ==
  ASSUME PagedInv, NEW kind, kind = "other", mmu' = Synced, UNCHANGED <<cr, trap>>,
         Structures(mem'), Happened(kind, {})
  PROVE  MmuInv' /\ Contract!ContractNext /\ event'.kind \notin {"fault", "store"}
<1>1. Synced \in Mmu /\ Synced.last = cr /\ Synced.tlb = mmu.tlb
  BY SyncedSame DEF PagedInv
<1>2. MmuInv /\ cr' \in PagingContext
  BY DEF PagedInv, MmuInv
<1>3. Fewer(mmu, mmu')
  BY <1>1 DEF Fewer
<1> QED BY <1>1, <1>2, <1>3, DropStep

LEMMA LoadsStep ==
  ASSUME PagedInv, NEW new \in PagingContext, NEW m \in Mmu, NEW kind, Loads(new, m, kind),
         m.last = new, Fewer(mmu, m),
         \/ kind = "other"
         \/ kind = "cr3" /\ \A k \in Page : m.tlb[k] # Uncached => mmu.tlb[k].global
         \/ kind = "flush" /\ \A k \in Page : m.tlb[k] = Uncached
  PROVE  StepSound
<1>1. /\ cr' = new /\ mmu' = m /\ Happened(kind, {}) /\ guest' = guest /\ user' = user
      /\ mem' = mem /\ trap' = trap /\ UNCHANGED longVars
  BY DEF Loads
<1>2. MmuInv /\ Structures(mem') /\ user' \in BOOLEAN
  BY <1>1 DEF PagedInv, MmuInv, PagedTypeOK
<1>3. MmuInv' /\ Contract!ContractNext /\ event'.kind \notin {"fault", "store"}
  BY <1>1, <1>2, DropStep
<1> QED BY <1>1, <1>2, <1>3, QuietStep

LEMMA RegistersStep ==
  ASSUME PagedInv
  PROVE  /\ \A b, c \in BOOLEAN : MovCr0(b, c) \/ MovCr4(b, c) => StepSound
         /\ \A d \in Dirs : MovCr3(d) \/ TaskSwitch(d) => StepSound
<1> USE DEF PagingContext
<1>1. cr \in PagingContext /\ MmuInv
  BY DEF PagedInv, MmuInv
<1>2. ASSUME NEW b \in BOOLEAN, NEW c \in BOOLEAN, MovCr0(b, c)
      PROVE  StepSound
  <2> DEFINE new == [cr EXCEPT !.pg = b, !.wp = c]
             m == ControlRegister(0, Synced, cr, new)
             kind == IF cr.pg /\ ~b THEN "flush" ELSE "other"
  <2>1. new \in PagingContext /\ (new.pg <=> b) /\ Loads(new, m, kind)
    BY <1>1, <1>2 DEF MovCr0
  <2> HIDE DEF new
  <2>2. /\ m \in Mmu /\ m.last = new /\ Fewer(mmu, m)
        /\ cr.pg /\ ~new.pg => \A k \in Page : m.tlb[k] = Uncached
    BY <1>1, <2>1, LoadsDrop
  <2> HIDE DEF m
  <2> QED BY <2>1, <2>2, LoadsStep
<1>3. ASSUME NEW b \in BOOLEAN, NEW c \in BOOLEAN, MovCr4(b, c)
      PROVE  StepSound
  <2> DEFINE new == [cr EXCEPT !.pse = b, !.pge = c]
             m == ControlRegister(4, Synced, cr, new)
             kind == IF new # cr THEN "flush" ELSE "other"
  <2>1. new \in PagingContext /\ Loads(new, m, kind)
    BY <1>1, <1>3 DEF MovCr4
  <2>2. new # cr => cr.pge # new.pge \/ cr.pse # new.pse
    BY <1>1
  <2> HIDE DEF new
  <2>3. /\ m \in Mmu /\ m.last = new /\ Fewer(mmu, m)
        /\ cr.pge # new.pge \/ cr.pse # new.pse => \A k \in Page : m.tlb[k] = Uncached
    BY <1>1, <2>1, LoadsDrop
  <2> HIDE DEF m
  <2> QED BY <2>1, <2>2, <2>3, LoadsStep
<1>4. ASSUME NEW d \in Dirs, MovCr3(d)
      PROVE  StepSound
  <2> DEFINE new == [cr EXCEPT !.dir = d]
             m == ControlRegister(3, Synced, cr, new)
  <2>1. new \in PagingContext /\ Loads(new, m, "cr3")
    BY <1>1, <1>4 DEF MovCr3
  <2> HIDE DEF new
  <2>2. /\ m \in Mmu /\ m.last = new /\ Fewer(mmu, m)
        /\ \A k \in Page : m.tlb[k] # Uncached => mmu.tlb[k].global
    BY <1>1, <2>1, LoadsDrop
  <2> HIDE DEF m
  <2> QED BY <2>1, <2>2, LoadsStep
<1>5. ASSUME NEW d \in Dirs, TaskSwitch(d)
      PROVE  StepSound
  <2> DEFINE new == [cr EXCEPT !.dir = d]
             m3 == ControlRegister(3, Synced, cr, new)
             m0 == OnMovToCr0(m3, new, new)
             m == ControlRegister(0, m3, new, new)
  <2>1. new \in PagingContext /\ Loads(new, m, "cr3")
    BY <1>1, <1>5 DEF TaskSwitch
  <2> HIDE DEF new
  <2>2. /\ m3 \in Mmu /\ m3.last = new /\ Fewer(mmu, m3)
        /\ \A k \in Page : m3.tlb[k] # Uncached => mmu.tlb[k].global
    BY <1>1, <2>1, LoadsDrop
  <2> HIDE DEF m3
  <2>3. m0 \in Mmu /\ Fewer(m3, m0)
    BY <2>1, <2>2, OnMovToCr0Drops
  <2>4. m = SyncControlRegisters(m0, new)
    BY DEF ControlRegister
  <2> HIDE DEF m0, m
  <2>5. m \in Mmu /\ Fewer(m0, m) /\ m.last = new
    BY <2>1, <2>3, <2>4, SyncDrops
  <2>6. Fewer(mmu, m) /\ \A k \in Page : m.tlb[k] # Uncached => mmu.tlb[k].global
    BY <2>2, <2>3, <2>5 DEF Fewer
  <2> QED BY <2>1, <2>5, <2>6, LoadsStep
<1> QED BY <1>2, <1>3, <1>4, <1>5

LEMMA KernelStep ==
  ASSUME PagedInv
  PROVE  /\ \A p \in Page : Invlpg(p) => StepSound
         /\ \A x \in guest.edits : EditEntry(x[1], x[2]) => StepSound
         /\ ReturnToUser => StepSound
         /\ Reset => StepSound
<1> USE DEF PagedInv
<1>1. user \in BOOLEAN /\ MmuInv /\ Structures(mem)
  BY DEF PagedTypeOK, MmuInv
<1>2. ASSUME NEW p \in Page, Invlpg(p)
      PROVE  StepSound
  <2>1. /\ mmu' = InvalidatePage(Synced, p) /\ Happened("invlpg", {p})
        /\ UNCHANGED <<cr, mem, trap>> /\ guest' = guest /\ user' = user /\ UNCHANGED longVars
    BY <1>2 DEF Invlpg
  <2> QED BY <1>1, <2>1, InvlpgStep, QuietStep
<1>3. ASSUME NEW x \in guest.edits, EditEntry(x[1], x[2])
      PROVE  StepSound
  <2>1. /\ mem' = [mem EXCEPT ![x[1]] = x[2]] /\ mmu' = Synced /\ Happened("other", {})
        /\ UNCHANGED <<cr, trap>> /\ guest' = guest /\ user' = user /\ UNCHANGED longVars
    BY <1>3 DEF EditEntry
  <2>2. x[1] \in EntryAddr /\ x[2] \in Entry /\ (x[1][1] \in Dirs => x[2].base \in Tables)
    BY PagedCpuAssumption DEF PagedTypeOK, Guest, Edits
  <2>3. Structures(mem')
    BY <1>1, <2>1, <2>2 DEF Structures, EntryAddr
  <2> QED BY <1>1, <2>1, <2>3, SyncedStep, QuietStep
<1>4. ASSUME ReturnToUser
      PROVE  StepSound
  <2>1. /\ mmu' = Synced /\ Happened("other", {}) /\ mem' = mem
        /\ UNCHANGED <<cr, trap>> /\ guest' = guest /\ user' = TRUE /\ UNCHANGED longVars
    BY <1>4 DEF ReturnToUser
  <2> QED BY <1>1, <2>1, SyncedStep, QuietStep
<1>5. ASSUME Reset
      PROVE  StepSound
  <2> DEFINE off == [cr EXCEPT !.pg = FALSE, !.wp = FALSE, !.pse = FALSE, !.pge = FALSE]
  <2>1. /\ cr' = off /\ mmu' = NewMmu(off) /\ user' = FALSE /\ trap' = NoTrap
        /\ job' = [cx |-> 0, di |-> 1] /\ Happened("flush", {})
        /\ UNCHANGED <<guest, mem, restart, within, taken, placed, swap>> /\ within = "none"
    BY <1>5 DEF Reset
  <2>2. off \in PagingContext
    BY DEF MmuInv, PagingContext
  <2> HIDE DEF off
  <2>3. mmu' \in Mmu /\ mmu'.last = cr' /\ \A k \in Page : mmu'.tlb[k] = Uncached
    BY <2>1, <2>2 DEF NewMmu, Mmu
  <2>4. MmuInv' /\ Contract!ContractNext /\ event'.kind \notin {"fault", "store"}
    BY <1>1, <2>1, <2>2, <2>3, DropStep DEF Fewer
  <2>5. Len(Buffer) \in Nat
    BY PagedCpuAssumption
  <2>6. InsInv' /\ job'.cx \in 0 .. Len(Buffer) /\ job'.di \in 1 .. Len(Buffer) + 1
    BY <2>1, <2>5 DEF InsInv, PortInPlace
  <2>7. PagedTypeOK'
    BY <2>1, <2>4, <2>6 DEF PagedTypeOK, MmuInv, Mmu, Structures
  <2> QED BY <2>4, <2>6, <2>7 DEF StepSound, Exact, InsInv
<1> QED BY <1>2, <1>3, <1>4, <1>5

(* REP INSB.                                                                *)
LEMMA BetweenIterations ==
  ASSUME PagedInv
  PROVE  BeginIns \/ Interrupt => StepSound
<1> USE DEF PagedInv
<1>1. user \in BOOLEAN /\ MmuInv /\ Structures(mem) /\ InsInv /\ PagedTypeOK
  BY DEF PagedTypeOK, MmuInv
<1>2. ASSUME BeginIns
      PROVE  StepSound
  <2>1. /\ job.cx # 0 /\ within' = "ins" /\ restart' = job /\ mmu' = Synced
        /\ Happened("other", {}) /\ UNCHANGED <<guest, cr, user, mem, job, taken, placed, swap, trap>>
    BY <1>2 DEF BeginIns, CountLeft
  <2>2. MmuInv' /\ Contract!ContractNext /\ event'.kind \notin {"fault", "store"}
    BY <1>1, <2>1, SyncedStep
  <2>3. InsInv'
    BY <1>1, <2>1 DEF InsInv, PortInPlace
  <2>4. PagedTypeOK'
    BY <1>1, <2>1, <2>2 DEF PagedTypeOK, MmuInv, Mmu, Structures
  <2> QED BY <2>2, <2>3, <2>4 DEF StepSound, Exact, InsInv
<1>3. ASSUME Interrupt
      PROVE  StepSound
  <2>1. /\ within' = "none" /\ user' = FALSE /\ Happened("other", {}) /\ mmu' = mmu
        /\ UNCHANGED <<guest, cr, mem, job, restart, taken, placed, swap, trap>>
    BY <1>3 DEF Interrupt, portVars
  <2>2. Fewer(mmu, mmu) /\ mmu \in Mmu /\ mmu.last = cr /\ cr \in PagingContext
    BY <1>1 DEF Fewer, MmuInv
  <2>3. MmuInv' /\ Contract!ContractNext /\ event'.kind \notin {"fault", "store"}
    BY <1>1, <2>1, <2>2, DropStep
  <2>4. InsInv'
    BY <1>1, <2>1 DEF InsInv, PortInPlace
  <2>5. PagedTypeOK'
    BY <1>1, <2>1, <2>3 DEF PagedTypeOK, MmuInv, Mmu, Structures
  <2> QED BY <2>3, <2>4, <2>5 DEF StepSound, Exact, InsInv
<1> QED BY <1>2, <1>3

(* The byte of an iteration that goes through is the next one of the port,  *)
(* and its place is the next one of the buffer.                             *)
LEMMA IterationDone ==
  ASSUME PagedTypeOK, InsInv, within = "ins", taken' = taken + 1,
         placed' = [placed EXCEPT ![job.di] = taken + 1],
         NEW next, next = [cx |-> job.cx - 1, di |-> job.di + 1],
         job' = next, restart' = next, within' = IF CountLeft(next) THEN "ins" ELSE "none"
  PROVE  /\ InsInv'
         /\ \A r \in {job', restart'} : r.cx \in 0 .. Len(Buffer) /\ r.di \in 1 .. Len(Buffer) + 1
         /\ taken' \in 0 .. Len(Buffer) /\ placed' \in [Bytes -> 0 .. Len(Buffer)]
         /\ within' \in {"ins", "none"}
<1>1. Len(Buffer) \in Nat
  BY PagedCpuAssumption
<1>2. /\ job.cx \in 1 .. Len(Buffer) /\ job.di = taken + 1 /\ job.cx + taken = Len(Buffer)
      /\ taken \in 0 .. Len(Buffer) /\ placed \in [Bytes -> 0 .. Len(Buffer)] /\ PortInPlace
  BY <1>1 DEF InsInv, PagedTypeOK
<1>3. taken + 1 \in 1 .. Len(Buffer) /\ job.di \in Bytes
  BY <1>1, <1>2 DEF Bytes
<1>4. placed' \in [Bytes -> 0 .. Len(Buffer)]
  BY <1>2, <1>3
<1>5. PortInPlace'
  BY <1>1, <1>2, <1>3 DEF PortInPlace, Bytes
<1>6. /\ job'.cx = job.cx - 1 /\ job'.di = taken + 2 /\ job' = restart'
      /\ job'.cx \in 0 .. Len(Buffer) /\ job'.di \in 1 .. Len(Buffer) + 1
  BY <1>1, <1>2, <1>3
<1>7. /\ within' \in {"ins", "none"} /\ (within' = "ins" => job'.cx # 0)
  BY DEF CountLeft
<1> QED BY <1>1, <1>2, <1>3, <1>4, <1>5, <1>6, <1>7 DEF InsInv

LEMMA IterationStep ==
  ASSUME PagedInv, InsIteration
  PROVE  StepSound
<1> DEFINE page == Buffer[job.di]
           access == DataAccess(TRUE)
           probe == InsProbe(page, access)
           write == InsWrite(page, access)
           refused == IF probe.why # "none" THEN probe ELSE write
           next == [cx |-> job.cx - 1, di |-> job.di + 1]
<1>1. MmuInv /\ InsInv /\ PagedTypeOK /\ within = "ins"
  BY DEF PagedInv, InsIteration
<1>2. page \in Page
  <2>1. Len(Buffer) \in Nat /\ Buffer \in Seq(Page)
    BY PagedCpuAssumption
  <2>2. job.di \in 1 .. Len(Buffer)
    BY <1>1, <2>1 DEF InsInv, PagedTypeOK
  <2> QED BY <2>1, <2>2
<1>3. access \in Access /\ access.write
  BY <1>1 DEF DataAccess, Access, PagedTypeOK
<1>4. mmu \in Mmu /\ mmu.last = cr /\ cr \in PagingContext /\ Structures(mem)
  BY <1>1 DEF MmuInv
<1>5. /\ taken' = IF probe.why = "none" THEN taken + 1 ELSE taken
      /\ \/ /\ refused.why # "none" /\ PageFault(refused, access)
            /\ job' = restart /\ within' = "none" /\ UNCHANGED <<restart, placed>>
         \/ /\ refused.why = "none"
            /\ placed' = [placed EXCEPT ![job.di] = taken + 1]
            /\ GoesThrough(write, IF cr.pg THEN "store" ELSE "other", IF cr.pg THEN {page} ELSE {})
            /\ job' = next /\ restart' = next
            /\ within' = IF CountLeft(next) THEN "ins" ELSE "none"
      /\ swap' = swap
  BY DEF InsIteration, CommitIteration
<1> HIDE DEF page, access, next
<1>6. /\ probe.why = write.why
      /\ cr.pg /\ probe.why # "none" => RefusedSound(mmu, mem, {page}, access, probe)
      /\ cr.pg /\ probe.why = "none" => SpanSound(mmu, mem, {page}, access, write)
      /\ ~cr.pg => write = Translated(mmu, mem, page, "none")
  <2>1. CASE cr.pg
    <3>1. probe = Probe(mmu, cr, mem, page, access) /\ write = Translate(mmu, cr, mem, page, access)
      BY <2>1 DEF InsProbe, InsWrite
    <3> HIDE DEF probe, write
    <3>2. /\ probe.why = Why(mmu, cr, mem, page, access) /\ probe.page = page /\ probe.mem = mem
          /\ probe.why # "none" => probe.mmu = InvalidatePage(mmu, page)
      BY <1>2, <1>4, <3>1, ProbeDoes
    <3>3. TranslationSound(mmu, cr, mem, page, access, write)
      BY <1>2, <1>3, <1>4, <3>1, TranslateDoes
    <3>4. write.why = Why(mmu, cr, mem, page, access)
      BY <3>3 DEF TranslationSound
    <3>5. write.why = "none" => SpanSound(mmu, mem, {page}, access, write)
      BY <1>2, <1>3, <1>4, <3>1, OnePage
    <3> QED BY <2>1, <3>2, <3>4, <3>5 DEF RefusedSound
  <2>2. CASE ~cr.pg
    BY <2>2 DEF InsProbe, InsWrite, Translated
  <2> QED BY <2>1, <2>2
<1>7. CASE probe.why # "none"
  <2>1. cr.pg /\ refused = probe
    BY <1>6, <1>7 DEF Translated
  <2> HIDE DEF probe, write, refused
  <2>2. /\ PageFault(refused, access) /\ job' = restart /\ within' = "none" /\ taken' = taken
        /\ UNCHANGED <<restart, placed, swap>>
    BY <1>5, <1>7, <2>1
  <2>3. /\ MmuInv' /\ Contract!ContractNext
        /\ event'.kind = "fault" /\ mem' = mem /\ FaultTrue /\ FaultOnce
    BY <1>1, <1>2, <1>3, <1>4, <1>6, <1>7, <2>1, <2>2, FaultStep
  <2>4. job' = job /\ user' = FALSE /\ guest' = guest
    BY <1>1, <2>2 DEF InsInv, PageFault
  <2>5. InsInv'
    BY <1>1, <2>2, <2>4 DEF InsInv, PortInPlace
  <2>6. PagedTypeOK'
    BY <1>1, <2>2, <2>3, <2>4 DEF PagedTypeOK, MmuInv, Mmu, Structures
  <2> QED BY <2>3, <2>5, <2>6 DEF StepSound, PagedInv, Exact, InsInv
<1>8. CASE probe.why = "none"
  <2>1. refused = write /\ write.why = "none"
    BY <1>6, <1>8
  <2> HIDE DEF probe, write, refused
  <2>2. /\ placed' = [placed EXCEPT ![job.di] = taken + 1] /\ taken' = taken + 1
        /\ GoesThrough(write, IF cr.pg THEN "store" ELSE "other", IF cr.pg THEN {page} ELSE {})
        /\ job' = next /\ restart' = next
        /\ within' = IF CountLeft(next) THEN "ins" ELSE "none"
        /\ swap' = swap
    BY <1>5, <1>8, <2>1
  <2>3. user' = user /\ guest' = guest
    BY <2>2 DEF GoesThrough
  <2>4. /\ MmuInv' /\ Contract!ContractNext /\ event'.kind # "fault"
        /\ event'.kind = "store" => \A p \in event'.pages : StoreMarks(p)
    <3>1. CASE cr.pg
      <4>1. GoesThrough(write, "store", {page}) /\ SpanSound(mmu, mem, {page}, access, write)
        BY <1>6, <1>8, <2>2, <3>1
      <4> QED BY <1>1, <1>2, <1>3, <1>4, <3>1, <4>1, AccessStep
    <3>2. CASE ~cr.pg
      <4>1. /\ mmu' = mmu /\ mem' = mem /\ trap' = NoTrap /\ cr' = cr /\ Happened("other", {})
        BY <1>6, <2>2, <3>2 DEF GoesThrough, Translated
      <4>2. Fewer(mmu, mmu)
        BY DEF Fewer
      <4> QED BY <1>1, <1>4, <4>1, <4>2, DropStep
    <3> QED BY <3>1, <3>2
  <2>5. /\ InsInv'
        /\ \A r \in {job', restart'} : r.cx \in 0 .. Len(Buffer) /\ r.di \in 1 .. Len(Buffer) + 1
        /\ taken' \in 0 .. Len(Buffer) /\ placed' \in [Bytes -> 0 .. Len(Buffer)]
        /\ within' \in {"ins", "none"}
    BY <1>1, <2>2, IterationDone DEF next
  <2>6. PagedTypeOK'
    BY <1>1, <2>2, <2>3, <2>4, <2>5 DEF PagedTypeOK, MmuInv, Mmu, Structures
  <2> QED BY <2>4, <2>5, <2>6 DEF StepSound, PagedInv, Exact, InsInv
<1> QED BY <1>7, <1>8

(* CMPXCHG8B.                                                               *)
LEMMA SwapStep ==
  ASSUME PagedInv, cr.pg, NEW half \in {1, 2}, NEW write \in BOOLEAN, NEW at, at # "ins",
         NEW next \in {"none", "readHigh", "writeLow", "writeHigh"},
         NEW done \in [low : {"old", "new"}, high : {"old", "new"}, equal : BOOLEAN,
                       done : BOOLEAN],
         SwapAccess(at, half, write, next, done)
  PROVE  StepSound
<1> DEFINE page == Operand[half]
           access == DataAccess(write)
           r == Translate(Synced, cr, mem, page, access)
<1>1. MmuInv /\ InsInv /\ PagedTypeOK
  BY DEF PagedInv
<1>2. page \in Page
  BY PagedCpuAssumption
<1>3. access \in Access /\ (access.write <=> write)
  BY <1>1 DEF DataAccess, Access, PagedTypeOK
<1>4. /\ Synced \in Mmu /\ Synced.last = cr /\ Synced.tlb = mmu.tlb
      /\ cr \in PagingContext /\ Structures(mem)
  BY <1>1, SyncedSame DEF MmuInv
<1>5. IF r.why = "none" THEN SpanSound(Synced, mem, {page}, access, r)
      ELSE RefusedSound(Synced, mem, {page}, access, r)
  BY <1>2, <1>3, <1>4, OnePage
<1>6. /\ \/ r.why # "none" /\ PageFault(r, access) /\ within' = "none" /\ swap' = swap
         \/ /\ r.why = "none" /\ GoesThrough(r, IF write THEN "store" ELSE "load", {page})
            /\ within' = next /\ swap' = done
      /\ UNCHANGED <<job, restart, taken, placed>>
  BY DEF SwapAccess, portVars
<1> HIDE DEF page, access, r
<1>7. InsInv'
  BY <1>1, <1>6 DEF InsInv, PortInPlace
<1>8. CASE r.why # "none"
  <2>1. PageFault(r, access) /\ within' = "none" /\ swap' = swap
    BY <1>6, <1>8
  <2>2. /\ MmuInv' /\ Contract!ContractNext
        /\ event'.kind = "fault" /\ mem' = mem /\ FaultTrue /\ FaultOnce
    BY <1>1, <1>2, <1>3, <1>4, <1>5, <1>8, <2>1, FaultStep
  <2>3. user' = FALSE /\ guest' = guest
    BY <2>1 DEF PageFault
  <2>4. PagedTypeOK'
    BY <1>1, <1>6, <2>1, <2>2, <2>3 DEF PagedTypeOK, MmuInv, Mmu, Structures
  <2> QED BY <1>7, <2>2, <2>4 DEF StepSound, PagedInv, Exact, InsInv
<1>9. CASE r.why = "none"
  <2>1. /\ GoesThrough(r, IF write THEN "store" ELSE "load", {page})
        /\ within' = next /\ swap' = done
    BY <1>6, <1>9
  <2>2. /\ MmuInv' /\ Contract!ContractNext /\ event'.kind # "fault"
        /\ event'.kind = "store" => \A p \in event'.pages : StoreMarks(p)
    <3>1. CASE write
      BY <1>1, <1>2, <1>3, <1>4, <1>5, <1>9, <2>1, <3>1, AccessStep
    <3>2. CASE ~write
      BY <1>1, <1>2, <1>3, <1>4, <1>5, <1>9, <2>1, <3>2, AccessStep
    <3> QED BY <3>1, <3>2
  <2>3. user' = user /\ guest' = guest
    BY <2>1 DEF GoesThrough
  <2>4. PagedTypeOK'
    BY <1>1, <1>6, <2>1, <2>2, <2>3 DEF PagedTypeOK, MmuInv, Mmu, Structures
  <2> QED BY <1>7, <2>2, <2>4 DEF StepSound, PagedInv, Exact, InsInv
<1> QED BY <1>8, <1>9

LEMMA CmpxchgStep ==
  ASSUME PagedInv, Cmpxchg8b
  PROVE  StepSound
<1> DEFINE Swaps == [low : {"old", "new"}, high : {"old", "new"}, equal : BOOLEAN, done : BOOLEAN]
<1>1. cr.pg /\ swap \in Swaps
  BY DEF Cmpxchg8b, PagedInv, PagedTypeOK
<1>2. Written(swap.low) \in {"old", "new"} /\ Written(swap.high) \in {"old", "new"}
  BY <1>1 DEF Written
<1>3. /\ [swap EXCEPT !.equal = swap.low = "old" /\ swap.high = "old"] \in Swaps
      /\ [swap EXCEPT !.low = Written(@)] \in Swaps
      /\ [swap EXCEPT !.high = Written(@), !.done = TRUE] \in Swaps
  BY <1>1, <1>2
<1>4. CASE SwapAccess("none", 1, FALSE, "readHigh", swap)
  BY <1>1, <1>4, SwapStep
<1>5. CASE SwapAccess("readHigh", 2, FALSE, "writeLow",
                      [swap EXCEPT !.equal = swap.low = "old" /\ swap.high = "old"])
  BY <1>1, <1>3, <1>5, SwapStep
<1>6. CASE SwapAccess("writeLow", 1, TRUE, "writeHigh", [swap EXCEPT !.low = Written(@)])
  BY <1>1, <1>3, <1>6, SwapStep
<1>7. CASE SwapAccess("writeHigh", 2, TRUE, "none",
                      [swap EXCEPT !.high = Written(@), !.done = TRUE])
  BY <1>1, <1>3, <1>7, SwapStep
<1> QED BY <1>4, <1>5, <1>6, <1>7 DEF Cmpxchg8b

LEMMA PagedStep ==
  ASSUME PagedInv, PagedNext
  PROVE  StepSound
<1>1. /\ guest.pages \subseteq Page /\ guest.dirs \subseteq Dirs
  BY PagedCpuAssumption DEF PagedInv, PagedTypeOK, Guest
<1>2. ASSUME NEW p \in Page, Load(p) \/ Store(p)
      PROVE  StepSound
  BY <1>2, OnePageStep DEF Load, Store
<1>3. ASSUME NEW p \in Page, NEW q \in Page, p # q, StoreSplit(p, q)
      PROVE  StepSound
  BY <1>3, TwoPageStep DEF StoreSplit
<1> QED BY <1>1, <1>2, <1>3, BetweenIterations, IterationStep, CmpxchgStep, RegistersStep,
           KernelStep DEF PagedNext

LEMMA PagedStutter ==
  ASSUME PagedInv, UNCHANGED pagedVars
  PROVE  PagedInv' /\ UNCHANGED Contract!contractVars
<1>1. UNCHANGED <<guest, cr, user, mem, mmu, trap, event>> /\ UNCHANGED longVars
  BY DEF pagedVars, longVars, portVars
<1>2. PagedInv'
  BY <1>1, LongKept DEF PagedInv, MmuInv, PagedTypeOK
<1>3. Pairs(mmu)' = Pairs(mmu) /\ Walks' = Walks
  BY <1>1 DEF Pairs, Walks, Described
<1> QED BY <1>1, <1>2, <1>3, Zenon DEF Contract!contractVars, Pairs, Walks

----------------------------------------------------------------------------
(* Task switches.  What a switch stores, in order.                          *)

SaveLow == [cell |-> <<"low", tr>>, value |-> regs.low]
SaveHigh == [cell |-> <<"high", tr>>, value |-> regs.high]
SetLink(t) == [cell |-> <<"link", t>>, value |-> tr]
SetBusy(t) == [cell |-> <<"busy", t>>, value |-> TRUE]
ClearBusy(t) == [cell |-> <<"busy", t>>, value |-> FALSE]

LEMMA Join ==
  ASSUME NEW S, NEW p \in Seq(S), NEW q \in Seq(S), Len(p) = 2
  PROVE  /\ p \o q \in Seq(S) /\ Len(p \o q) = 2 + Len(q)
         /\ (p \o q)[1] = p[1] /\ (p \o q)[2] = p[2]
         /\ Len(q) >= 1 => (p \o q)[3] = q[1]
         /\ Len(q) >= 2 => (p \o q)[4] = q[2]
<1> DEFINE s == p \o q
<1>1. /\ s \in Seq(S) /\ Len(s) = Len(p) + Len(q)
      /\ \A i \in 1 .. Len(p) + Len(q) : s[i] =
                     IF i <= Len(p) THEN p[i] ELSE q[i - Len(p)]
  BY ConcatProperties, Zenon
<1> HIDE DEF s
<1>2. s \in Seq(S) /\ Len(s) = 2 + Len(q)
  BY <1>1
<1>3. s[1] = p[1] /\ s[2] = p[2]
  BY <1>1
<1>4. ASSUME Len(q) >= 1 PROVE s[3] = q[1]
  BY <1>1, <1>4
<1>5. ASSUME Len(q) >= 2 PROVE s[4] = q[2]
  BY <1>1, <1>5
<1>6. /\ s \in Seq(S) /\ Len(s) = 2 + Len(q)
      /\ s[1] = p[1] /\ s[2] = p[2]
      /\ Len(q) >= 1 => s[3] = q[1]
      /\ Len(q) >= 2 => s[4] = q[2]
  BY <1>2, <1>3, <1>4, <1>5
<1> QED BY <1>6, Zenon DEF s

(* The first n of some stores to different cells.                           *)
LEMMA StoredFirst ==
  ASSUME NEW S, NEW s \in Seq(S), NEW n \in 0 .. Len(s),
         \A i, j \in 1 .. Len(s) : s[i].cell = s[j].cell => i = j
  PROVE  LET m == Stored(SubSeq(s, 1, n))
         IN  /\ \A i \in 1 .. n : s[i].cell \in Cell => m[s[i].cell] = s[i].value
         /\ \A c \in Cell : (\A i \in 1 .. n : s[i].cell # c) => m[c] = seg[c]
<1> DEFINE q == SubSeq(s, 1, n)
<1>1. DOMAIN q = 1 .. n /\ \A i \in 1 .. n : q[i] = s[i] /\ i \in 1 .. Len(s)
  OBVIOUS
<1>2. ASSUME NEW i \in 1 .. n, s[i].cell \in Cell
      PROVE  Stored(q)[s[i].cell] = s[i].value
  <2>1. \A j \in DOMAIN q : q[j].cell = s[i].cell => j = i
    BY <1>1
  <2>2. i \in DOMAIN q /\ q[i].cell = s[i].cell
    BY <1>1
  <2>3. (CHOOSE j \in DOMAIN q : q[j].cell = s[i].cell) = i
    BY <2>1, <2>2
  <2> HIDE DEF q
  <2> QED BY <1>1, <1>2, <2>2, <2>3 DEF Stored
<1>3. ASSUME NEW c \in Cell, \A i \in 1 .. n : s[i].cell # c
      PROVE  Stored(q)[c] = seg[c]
  BY <1>1, <1>3 DEF Stored
<1> QED BY <1>2, <1>3

LEMMA StoredAll ==
  ASSUME NEW S, NEW s \in Seq(S)
  PROVE  Stored(SubSeq(s, 1, Len(s))) = Stored(s)
<1>1. SubSeq(s, 1, Len(s)) = s
  OBVIOUS
<1> QED BY <1>1

LEMMA CallStores ==
  ASSUME NEW t \in Tasks
  PROVE  LET s == Saves \o Marks("call", t)
         IN  /\ s \in Seq({SaveLow, SaveHigh, SetLink(t), SetBusy(t)})
             /\ Len(s) = 4 /\ s[1] = SaveLow /\ s[2] = SaveHigh
             /\ s[3] = SetLink(t) /\ s[4] = SetBusy(t)
<1> DEFINE S == {SaveLow, SaveHigh, SetLink(t), SetBusy(t)}
           p == Saves
           q == Marks("call", t)
           s == p \o q
<1>1. /\ p \in Seq(S) /\ Len(p) = 2
      /\ p[1] = SaveLow /\ p[2] = SaveHigh
  BY DEF Saves, SaveLow, SaveHigh
<1>2. /\ q \in Seq(S) /\ Len(q) = 2
      /\ q[1] = SetLink(t) /\ q[2] = SetBusy(t)
  BY DEF Marks, SetLink, SetBusy, ClearBusy
<1> HIDE DEF S, p, q
<1>3. /\ s \in Seq(S) /\ Len(s) = 2 + Len(q)
      /\ s[1] = p[1] /\ s[2] = p[2]
      /\ Len(q) >= 1 => s[3] = q[1]
      /\ Len(q) >= 2 => s[4] = q[2]
  <2>1. p \in Seq(S) /\ q \in Seq(S) /\ Len(p) = 2
    BY <1>1, <1>2
  <2> QED BY <2>1, Join
<1> HIDE DEF s
<1>4. /\ s \in Seq(S) /\ Len(s) = 4 /\ s[1] = SaveLow /\ s[2] = SaveHigh
      /\ s[3] = SetLink(t) /\ s[4] = SetBusy(t)
  BY <1>1, <1>2, <1>3
<1> QED BY <1>4, Zenon DEF S, p, q, s

LEMMA JmpStores ==
  ASSUME NEW t \in Tasks
  PROVE  LET s == Saves \o Marks("jmp", t)
         IN  /\ s \in Seq({SaveLow, SaveHigh, ClearBusy(tr), SetBusy(t)})
             /\ Len(s) = 4 /\ s[1] = SaveLow /\ s[2] = SaveHigh
             /\ s[3] = ClearBusy(tr) /\ s[4] = SetBusy(t)
<1> DEFINE S == {SaveLow, SaveHigh, ClearBusy(tr), SetBusy(t)}
           p == Saves
           q == Marks("jmp", t)
           s == p \o q
<1>1. /\ p \in Seq(S) /\ Len(p) = 2
      /\ p[1] = SaveLow /\ p[2] = SaveHigh
  BY DEF Saves, SaveLow, SaveHigh
<1>2. /\ q \in Seq(S) /\ Len(q) = 2
      /\ q[1] = ClearBusy(tr) /\ q[2] = SetBusy(t)
  BY DEF Marks, SetLink, SetBusy, ClearBusy
<1> HIDE DEF S, p, q
<1>3. /\ s \in Seq(S) /\ Len(s) = 2 + Len(q)
      /\ s[1] = p[1] /\ s[2] = p[2]
      /\ Len(q) >= 1 => s[3] = q[1]
      /\ Len(q) >= 2 => s[4] = q[2]
  <2>1. p \in Seq(S) /\ q \in Seq(S) /\ Len(p) = 2
    BY <1>1, <1>2
  <2> QED BY <2>1, Join
<1> HIDE DEF s
<1>4. /\ s \in Seq(S) /\ Len(s) = 4 /\ s[1] = SaveLow /\ s[2] = SaveHigh
      /\ s[3] = ClearBusy(tr) /\ s[4] = SetBusy(t)
  BY <1>1, <1>2, <1>3
<1> QED BY <1>4, Zenon DEF S, p, q, s

LEMMA IretStores ==
  ASSUME NEW t \in Tasks
  PROVE  LET s == Saves \o Marks("iret", t)
         IN  /\ s \in Seq({SaveLow, SaveHigh, ClearBusy(tr)})
             /\ Len(s) = 3 /\ s[1] = SaveLow /\ s[2] = SaveHigh
             /\ s[3] = ClearBusy(tr)
<1> DEFINE S == {SaveLow, SaveHigh, ClearBusy(tr)}
           p == Saves
           q == Marks("iret", t)
           s == p \o q
<1>1. /\ p \in Seq(S) /\ Len(p) = 2
      /\ p[1] = SaveLow /\ p[2] = SaveHigh
  BY DEF Saves, SaveLow, SaveHigh
<1>2. /\ q \in Seq(S) /\ Len(q) = 1
      /\ q[1] = ClearBusy(tr)
  BY DEF Marks, SetLink, SetBusy, ClearBusy
<1> HIDE DEF S, p, q
<1>3. /\ s \in Seq(S) /\ Len(s) = 2 + Len(q)
      /\ s[1] = p[1] /\ s[2] = p[2]
      /\ Len(q) >= 1 => s[3] = q[1]
      /\ Len(q) >= 2 => s[4] = q[2]
  <2>1. p \in Seq(S) /\ q \in Seq(S) /\ Len(p) = 2
    BY <1>1, <1>2
  <2> QED BY <2>1, Join
<1> HIDE DEF s
<1>4. /\ s \in Seq(S) /\ Len(s) = 3 /\ s[1] = SaveLow /\ s[2] = SaveHigh
      /\ s[3] = ClearBusy(tr)
  BY <1>1, <1>2, <1>3
<1> QED BY <1>4, Zenon DEF S, p, q, s

(* The cells after the first n stores of a CALL, a JMP and an IRET.         *)
Saved(n, m) ==
  \A u \in Tasks :
    /\ m[<<"low", u>>] = IF n >= 1 /\ u = tr THEN regs.low ELSE seg[<<"low", u>>]
    /\ m[<<"high", u>>] = IF n >= 2 /\ u = tr THEN regs.high ELSE seg[<<"high", u>>]

CallMarked(t, n, m) ==
  \A u \in Tasks :
    /\ m[<<"link", u>>] = IF n >= 3 /\ u = t THEN tr ELSE seg[<<"link", u>>]
    /\ n < 4 \/ u # t => m[<<"busy", u>>] = seg[<<"busy", u>>]
    /\ n = 4 /\ u = t => m[<<"busy", u>>] = TRUE

LEMMA CallStored ==
  ASSUME NEW t \in Tasks, tr \in Tasks \ {t}, NEW n \in 0 .. 4
  PROVE  LET m == Stored(SubSeq(Saves \o Marks("call", t), 1, n))
         IN  Saved(n, m) /\ CallMarked(t, n, m)
<1> DEFINE s == Saves \o Marks("call", t)
           S == {SaveLow, SaveHigh, SetLink(t), SetBusy(t)}
           m == Stored(SubSeq(s, 1, n))
<1>1. /\ s \in Seq(S) /\ Len(s) = 4
      /\ s[1] = SaveLow /\ s[2] = SaveHigh /\ s[3] = SetLink(t) /\ s[4] = SetBusy(t)
  BY CallStores, Zenon
<1> HIDE DEF S, s
<1>2. /\ s[1].cell = <<"low", tr>> /\ s[2].cell = <<"high", tr>>
      /\ s[3].cell = <<"link", t>> /\ s[4].cell = <<"busy", t>>
      /\ s[1].value = regs.low /\ s[2].value = regs.high /\ s[3].value = tr
  BY <1>1 DEF SaveLow, SaveHigh, SetLink, SetBusy
<1>3. s[4].value = TRUE
  BY <1>1 DEF SetBusy
<1>4. \A i, j \in 1 .. Len(s) : s[i].cell = s[j].cell => i = j
  BY <1>1, <1>2
<1>5. /\ \A i \in 1 .. n : s[i].cell \in Cell => m[s[i].cell] = s[i].value
      /\ \A c \in Cell : (\A i \in 1 .. n : s[i].cell # c) => m[c] = seg[c]
  <2>1. s \in Seq(S) /\ n \in 0 .. Len(s)
    BY <1>1
  <2> QED BY <1>4, <2>1, StoredFirst
<1> HIDE DEF m
<1> SUFFICES ASSUME NEW u \in Tasks
             PROVE  /\ m[<<"low", u>>] = IF n >= 1 /\ u = tr THEN regs.low ELSE seg[<<"low", u>>]
                    /\ m[<<"high", u>>] = IF n >= 2 /\ u = tr THEN regs.high ELSE seg[<<"high", u>>]
                    /\ m[<<"link", u>>] = IF n >= 3 /\ u = t THEN tr ELSE seg[<<"link", u>>]
                    /\ n < 4 \/ u # t => m[<<"busy", u>>] = seg[<<"busy", u>>]
                    /\ n = 4 /\ u = t => m[<<"busy", u>>] = TRUE
  BY DEF Saved, CallMarked, m, s
<1>6. \A k \in {"low", "high", "link", "busy"}, v \in Tasks : <<k, v>> \in Cell
  BY DEF Cell
<1>7. m[<<"low", u>>] = IF n >= 1 /\ u = tr THEN regs.low ELSE seg[<<"low", u>>]
  BY <1>2, <1>5, <1>6
<1>8. m[<<"high", u>>] = IF n >= 2 /\ u = tr THEN regs.high ELSE seg[<<"high", u>>]
  BY <1>2, <1>5, <1>6
<1>9. m[<<"link", u>>] = IF n >= 3 /\ u = t THEN tr ELSE seg[<<"link", u>>]
  BY <1>2, <1>5, <1>6
<1>10. ASSUME n < 4 \/ u # t PROVE m[<<"busy", u>>] = seg[<<"busy", u>>]
  BY <1>2, <1>5, <1>6, <1>10
<1>11. ASSUME n = 4, u = t PROVE m[<<"busy", u>>] = TRUE
  BY <1>2, <1>3, <1>5, <1>6, <1>11
<1> QED BY <1>7, <1>8, <1>9, <1>10, <1>11

JmpMarked(t, n, m) ==
  \A u \in Tasks :
    /\ m[<<"link", u>>] = seg[<<"link", u>>]
    /\ ~(n >= 3 /\ u = tr) /\ ~(n = 4 /\ u = t) => m[<<"busy", u>>] = seg[<<"busy", u>>]
    /\ n >= 3 /\ u = tr => m[<<"busy", u>>] = FALSE
    /\ n = 4 /\ u = t => m[<<"busy", u>>] = TRUE

LEMMA JmpStored ==
  ASSUME NEW t \in Tasks, tr \in Tasks \ {t}, NEW n \in 0 .. 4
  PROVE  LET m == Stored(SubSeq(Saves \o Marks("jmp", t), 1, n))
         IN  Saved(n, m) /\ JmpMarked(t, n, m)
<1> DEFINE s == Saves \o Marks("jmp", t)
           S == {SaveLow, SaveHigh, ClearBusy(tr), SetBusy(t)}
           m == Stored(SubSeq(s, 1, n))
<1>1. /\ s \in Seq(S) /\ Len(s) = 4
      /\ s[1] = SaveLow /\ s[2] = SaveHigh /\ s[3] = ClearBusy(tr) /\ s[4] = SetBusy(t)
  BY JmpStores, Zenon
<1> HIDE DEF S, s
<1>2. /\ s[1].cell = <<"low", tr>> /\ s[2].cell = <<"high", tr>>
      /\ s[3].cell = <<"busy", tr>> /\ s[4].cell = <<"busy", t>>
      /\ s[1].value = regs.low /\ s[2].value = regs.high
  BY <1>1 DEF SaveLow, SaveHigh, SetBusy, ClearBusy
<1>3. s[3].value = FALSE /\ s[4].value = TRUE
  BY <1>1 DEF SetBusy, ClearBusy
<1>4. \A i, j \in 1 .. Len(s) : s[i].cell = s[j].cell => i = j
  BY <1>1, <1>2
<1>5. /\ \A i \in 1 .. n : s[i].cell \in Cell => m[s[i].cell] = s[i].value
      /\ \A c \in Cell : (\A i \in 1 .. n : s[i].cell # c) => m[c] = seg[c]
  <2>1. s \in Seq(S) /\ n \in 0 .. Len(s)
    BY <1>1
  <2> QED BY <1>4, <2>1, StoredFirst
<1> HIDE DEF m
<1> SUFFICES ASSUME NEW u \in Tasks
             PROVE  /\ m[<<"low", u>>] = IF n >= 1 /\ u = tr THEN regs.low ELSE seg[<<"low", u>>]
                    /\ m[<<"high", u>>] = IF n >= 2 /\ u = tr THEN regs.high ELSE seg[<<"high", u>>]
                    /\ m[<<"link", u>>] = seg[<<"link", u>>]
                    /\ ~(n >= 3 /\ u = tr) /\ ~(n = 4 /\ u = t) => m[<<"busy", u>>] = seg[<<"busy", u>>]
                    /\ n >= 3 /\ u = tr => m[<<"busy", u>>] = FALSE
                    /\ n = 4 /\ u = t => m[<<"busy", u>>] = TRUE
  BY DEF Saved, JmpMarked, m, s
<1>6. \A k \in {"low", "high", "link", "busy"}, v \in Tasks : <<k, v>> \in Cell
  BY DEF Cell
<1>7. m[<<"low", u>>] = IF n >= 1 /\ u = tr THEN regs.low ELSE seg[<<"low", u>>]
  BY <1>2, <1>5, <1>6
<1>8. m[<<"high", u>>] = IF n >= 2 /\ u = tr THEN regs.high ELSE seg[<<"high", u>>]
  BY <1>2, <1>5, <1>6
<1>9. m[<<"link", u>>] = seg[<<"link", u>>]
  BY <1>2, <1>5, <1>6
<1>10. ASSUME ~(n >= 3 /\ u = tr), ~(n = 4 /\ u = t)
       PROVE m[<<"busy", u>>] = seg[<<"busy", u>>]
  BY <1>2, <1>5, <1>6, <1>10
<1>11. ASSUME n >= 3, u = tr PROVE m[<<"busy", u>>] = FALSE
  BY <1>2, <1>3, <1>5, <1>6, <1>11
<1>12. ASSUME n = 4, u = t PROVE m[<<"busy", u>>] = TRUE
  BY <1>2, <1>3, <1>5, <1>6, <1>12
<1> QED BY <1>7, <1>8, <1>9, <1>10, <1>11, <1>12

IretMarked(t, n, m) ==
  \A u \in Tasks :
    /\ m[<<"link", u>>] = seg[<<"link", u>>]
    /\ ~(n = 3 /\ u = tr) => m[<<"busy", u>>] = seg[<<"busy", u>>]
    /\ n = 3 /\ u = tr => m[<<"busy", u>>] = FALSE

LEMMA IretStored ==
  ASSUME NEW t \in Tasks, tr \in Tasks \ {t}, NEW n \in 0 .. 3
  PROVE  LET m == Stored(SubSeq(Saves \o Marks("iret", t), 1, n))
         IN  Saved(n, m) /\ IretMarked(t, n, m)
<1> DEFINE s == Saves \o Marks("iret", t)
           S == {SaveLow, SaveHigh, ClearBusy(tr)}
           m == Stored(SubSeq(s, 1, n))
<1>1. /\ s \in Seq(S) /\ Len(s) = 3
      /\ s[1] = SaveLow /\ s[2] = SaveHigh /\ s[3] = ClearBusy(tr)
  BY IretStores, Zenon
<1> HIDE DEF S, s
<1>2. /\ s[1].cell = <<"low", tr>> /\ s[2].cell = <<"high", tr>>
      /\ s[3].cell = <<"busy", tr>>
      /\ s[1].value = regs.low /\ s[2].value = regs.high
  BY <1>1 DEF SaveLow, SaveHigh, ClearBusy
<1>3. s[3].value = FALSE
  BY <1>1 DEF ClearBusy
<1>4. \A i, j \in 1 .. Len(s) : s[i].cell = s[j].cell => i = j
  BY <1>1, <1>2
<1>5. /\ \A i \in 1 .. n : s[i].cell \in Cell => m[s[i].cell] = s[i].value
      /\ \A c \in Cell : (\A i \in 1 .. n : s[i].cell # c) => m[c] = seg[c]
  <2>1. s \in Seq(S) /\ n \in 0 .. Len(s)
    BY <1>1
  <2> QED BY <1>4, <2>1, StoredFirst
<1> HIDE DEF m
<1> SUFFICES ASSUME NEW u \in Tasks
             PROVE  /\ m[<<"low", u>>] = IF n >= 1 /\ u = tr THEN regs.low ELSE seg[<<"low", u>>]
                    /\ m[<<"high", u>>] = IF n >= 2 /\ u = tr THEN regs.high ELSE seg[<<"high", u>>]
                    /\ m[<<"link", u>>] = seg[<<"link", u>>]
                    /\ ~(n = 3 /\ u = tr) => m[<<"busy", u>>] = seg[<<"busy", u>>]
                    /\ n = 3 /\ u = tr => m[<<"busy", u>>] = FALSE
  BY DEF Saved, IretMarked, m, s
<1>6. \A k \in {"low", "high", "link", "busy"}, v \in Tasks : <<k, v>> \in Cell
  BY DEF Cell
<1>7. m[<<"low", u>>] = IF n >= 1 /\ u = tr THEN regs.low ELSE seg[<<"low", u>>]
  BY <1>2, <1>5, <1>6
<1>8. m[<<"high", u>>] = IF n >= 2 /\ u = tr THEN regs.high ELSE seg[<<"high", u>>]
  BY <1>2, <1>5, <1>6
<1>9. m[<<"link", u>>] = seg[<<"link", u>>]
  BY <1>2, <1>5, <1>6
<1>10. ASSUME ~(n = 3 /\ u = tr) PROVE m[<<"busy", u>>] = seg[<<"busy", u>>]
  BY <1>2, <1>5, <1>6, <1>10
<1>11. ASSUME n = 3, u = tr PROVE m[<<"busy", u>>] = FALSE
  BY <1>2, <1>3, <1>5, <1>6, <1>11
<1> QED BY <1>7, <1>8, <1>9, <1>10, <1>11

----------------------------------------------------------------------------
(* What every step of the switches keeps.  Only a JMP that a page fault cut *)
(* short leaves the task that runs marked available; a nested task can      *)
(* return, and to another task.                                             *)

TaskInv ==
  /\ TasksTypeOK
  /\ seg = [c \in Cell |-> seg[c]]
  /\ tr = NoTask => switch = NoSwitch /\ ~regs.nt
  /\ regs.nt => seg[<<"link", tr>>] \in Tasks \ {tr}
  /\ switch # NoSwitch => switch.to \in Tasks \ {tr}
  /\ tr # NoTask /\ ~seg[<<"busy", tr>>] => switch.cause = "jmp"

(* What a switch from tr to t leaves in the cells: as it began, half done   *)
(* or completed.                                                            *)
Untouched ==
  \A u \in Tasks :
    u # tr => /\ seg'[<<"low", u>>] = seg[<<"low", u>>]
              /\ seg'[<<"high", u>>] = seg[<<"high", u>>]

LEMMA TaskCells ==
  /\ \A u \in Tasks : {<<"low", u>>, <<"high", u>>, <<"link", u>>, <<"busy", u>>} \subseteq Cell
  /\ \A c \in Cell : c = <<c[1], c[2]>> /\ c[2] \in Tasks
BY DEF Cell

LEMMA SwitchTarget ==
  ASSUME TaskInv, NEW t \in Tasks, NEW cause \in {"jmp", "call", "iret"}, tr # NoTask,
         switch \in {NoSwitch, [cause |-> cause, to |-> t]}, Target(cause, t)
  PROVE  tr \in Tasks \ {t}
<1>1. tr \in Tasks
  BY DEF TaskInv, TasksTypeOK
<1>2. CASE switch # NoSwitch
  BY <1>1, <1>2 DEF TaskInv
<1>3. CASE switch = NoSwitch
  <2>1. seg[<<"busy", tr>>]
    BY <1>1, <1>3, TaskAssumption DEF TaskInv, NoSwitch
  <2>2. CASE cause = "iret"
    BY <1>1, <2>2 DEF Target, TaskInv
  <2>3. CASE cause # "iret"
    BY <1>1, <2>1, <2>3 DEF Target
  <2> QED BY <2>2, <2>3
<1> QED BY <1>2, <1>3

LEMMA Unfinished ==
  ASSUME NEW t \in Tasks, tr \in Tasks \ {t}, NEW cause \in {"jmp", "call", "iret"},
         \E n \in 0 .. Len(Saves \o Marks(cause, t)) : Interrupted(Saves \o Marks(cause, t), n)
  PROVE  /\ UNCHANGED <<tr, regs>> /\ Untouched
         /\ seg' = [c \in Cell |-> seg'[c]]
         /\ seg'[<<"low", tr>>] \in {regs.low, seg[<<"low", tr>>]}
         /\ seg'[<<"high", tr>>] \in {regs.high, seg[<<"high", tr>>]}
         /\ \A u \in Tasks :
              /\ seg'[<<"link", u>>] = seg[<<"link", u>>] \/ (u = t /\ seg'[<<"link", u>>] = tr)
              /\ u # tr \/ cause # "jmp" => seg'[<<"busy", u>>] = seg[<<"busy", u>>]
         /\ seg'[<<"busy", tr>>] = seg[<<"busy", tr>>] \/ seg'[<<"busy", tr>>] = FALSE
<1> DEFINE s == Saves \o Marks(cause, t)
<1>1. PICK n \in 0 .. Len(s) : Interrupted(s, n)
  OBVIOUS
<1>2. /\ n < Len(s) /\ seg' = Stored(SubSeq(s, 1, n)) /\ UNCHANGED <<tr, regs>>
  BY <1>1 DEF Interrupted
<1>3. seg' = [c \in Cell |-> seg'[c]]
  BY <1>2 DEF Stored
<1>4. CASE cause = "call"
  <2>1. Len(s) = 4
    BY <1>4, CallStores, Zenon
  <2>2. n \in 0 .. 4 /\ n < 4
    BY <1>2, <2>1
  <2>3. seg' = Stored(SubSeq(Saves \o Marks("call", t), 1, n))
    BY <1>2, <1>4
  <2> HIDE DEF s
  <2>4. Saved(n, seg') /\ CallMarked(t, n, seg')
    BY <2>2, <2>3, CallStored
  <2> QED BY <1>2, <1>3, <1>4, <2>2, <2>4 DEF Untouched, Saved, CallMarked
<1>5. CASE cause = "jmp"
  <2>1. Len(s) = 4
    BY <1>5, JmpStores, Zenon
  <2>2. n \in 0 .. 4 /\ n < 4
    BY <1>2, <2>1
  <2>3. seg' = Stored(SubSeq(Saves \o Marks("jmp", t), 1, n))
    BY <1>2, <1>5
  <2> HIDE DEF s
  <2>4. Saved(n, seg') /\ JmpMarked(t, n, seg')
    BY <2>2, <2>3, JmpStored
  <2>5. /\ Untouched
        /\ seg'[<<"low", tr>>] \in {regs.low, seg[<<"low", tr>>]}
        /\ seg'[<<"high", tr>>] \in {regs.high, seg[<<"high", tr>>]}
    BY <2>4 DEF Untouched, Saved
  <2>6. \A u \in Tasks : \/ seg'[<<"busy", u>>] = seg[<<"busy", u>>]
                         \/ u = tr /\ seg'[<<"busy", u>>] = FALSE
    <3>1. n # 4
      BY <2>2
    <3> TAKE u \in Tasks
    <3>2. CASE n >= 3 /\ u = tr
      BY <2>4, <3>2, Zenon DEF JmpMarked
    <3>3. CASE ~(n >= 3 /\ u = tr)
      BY <2>4, <3>1, <3>3, Zenon DEF JmpMarked
    <3> QED BY <3>2, <3>3
  <2>7. \A u \in Tasks : seg'[<<"link", u>>] = seg[<<"link", u>>]
    BY <2>4, Zenon DEF JmpMarked
  <2> QED BY <1>2, <1>3, <1>5, <2>5, <2>6, <2>7
<1>6. CASE cause = "iret"
  <2>1. Len(s) = 3
    BY <1>6, IretStores, Zenon
  <2>2. n \in 0 .. 3 /\ n < 3
    BY <1>2, <2>1
  <2>3. seg' = Stored(SubSeq(Saves \o Marks("iret", t), 1, n))
    BY <1>2, <1>6
  <2> HIDE DEF s
  <2>4. Saved(n, seg') /\ IretMarked(t, n, seg')
    BY <2>2, <2>3, IretStored
  <2>5. /\ Untouched
        /\ seg'[<<"low", tr>>] \in {regs.low, seg[<<"low", tr>>]}
        /\ seg'[<<"high", tr>>] \in {regs.high, seg[<<"high", tr>>]}
    BY <2>4 DEF Untouched, Saved
  <2>6. \A u \in Tasks : seg'[<<"busy", u>>] = seg[<<"busy", u>>]
    <3>1. n # 3
      BY <2>2
    <3> QED BY <2>4, <3>1, Zenon DEF IretMarked
  <2>7. \A u \in Tasks : seg'[<<"link", u>>] = seg[<<"link", u>>]
    BY <2>4, Zenon DEF IretMarked
  <2> QED BY <1>2, <1>3, <1>6, <2>5, <2>6, <2>7
<1> QED BY <1>4, <1>5, <1>6

LEMMA Finished ==
  ASSUME NEW t \in Tasks, tr \in Tasks \ {t}, NEW cause \in {"jmp", "call", "iret"},
         Completed(cause, t, Saves \o Marks(cause, t))
  PROVE  /\ tr' = t /\ Untouched
         /\ regs' = [low |-> seg[<<"low", t>>], high |-> seg[<<"high", t>>],
                     nt |-> cause = "call"]
         /\ seg' = [c \in Cell |-> seg'[c]]
         /\ seg'[<<"low", tr>>] = regs.low /\ seg'[<<"high", tr>>] = regs.high
         /\ \A u \in Tasks :
              /\ seg'[<<"link", u>>] = IF cause = "call" /\ u = t THEN tr ELSE seg[<<"link", u>>]
              /\ u \notin {t, tr} => seg'[<<"busy", u>>] = seg[<<"busy", u>>]
         /\ cause = "call" => seg'[<<"busy", tr>>] = seg[<<"busy", tr>>]
         /\ cause # "call" => seg'[<<"busy", tr>>] = FALSE
         /\ cause = "iret" => seg'[<<"busy", t>>] = seg[<<"busy", t>>]
         /\ cause # "iret" => seg'[<<"busy", t>>] = TRUE
<1> DEFINE s == Saves \o Marks(cause, t)
<1>1. /\ seg' = Stored(s) /\ tr' = t
      /\ regs' = [low |-> seg[<<"low", t>>], high |-> seg[<<"high", t>>], nt |-> cause = "call"]
  BY DEF Completed
<1>2. seg' = [c \in Cell |-> seg'[c]]
  BY <1>1 DEF Stored
<1>3. CASE cause = "call"
  <2>1. s \in Seq({SaveLow, SaveHigh, SetLink(t), SetBusy(t)}) /\ Len(s) = 4
    BY <1>3, CallStores, Zenon
  <2>2. seg' = Stored(SubSeq(s, 1, 4))
    BY <1>1, <2>1, StoredAll
  <2>3. seg' = Stored(SubSeq(Saves \o Marks("call", t), 1, 4))
    BY <1>3, <2>2
  <2> HIDE DEF s
  <2>4. Saved(4, seg') /\ CallMarked(t, 4, seg')
    BY <2>3, CallStored
  <2>5. ASSUME NEW u \in Tasks
        PROVE  /\ seg'[<<"low", u>>] = IF u = tr THEN regs.low ELSE seg[<<"low", u>>]
               /\ seg'[<<"high", u>>] = IF u = tr THEN regs.high ELSE seg[<<"high", u>>]
               /\ seg'[<<"link", u>>] = IF u = t THEN tr ELSE seg[<<"link", u>>]
               /\ u # t => seg'[<<"busy", u>>] = seg[<<"busy", u>>]
               /\ u = t => seg'[<<"busy", u>>] = TRUE
    <3>0. /\ seg'[<<"low", u>>] = IF u = tr THEN regs.low ELSE seg[<<"low", u>>]
          /\ seg'[<<"high", u>>] = IF u = tr THEN regs.high ELSE seg[<<"high", u>>]
      BY <2>4 DEF Saved
    <3>1. seg'[<<"link", u>>] = IF u = t THEN tr ELSE seg[<<"link", u>>]
      <4>1. seg'[<<"link", u>>] = IF 4 >= 3 /\ u = t THEN tr ELSE seg[<<"link", u>>]
        BY <2>4, Zenon DEF CallMarked
      <4> QED BY <4>1
    <3>2. ASSUME u # t PROVE seg'[<<"busy", u>>] = seg[<<"busy", u>>]
      BY <2>4, <3>2 DEF CallMarked
    <3>3. ASSUME u = t PROVE seg'[<<"busy", u>>] = TRUE
      BY <2>4, <3>3 DEF CallMarked
    <3> QED BY <3>0, <3>1, <3>2, <3>3
  <2> QED BY <1>1, <1>2, <1>3, <2>5 DEF Untouched
<1>4. CASE cause = "jmp"
  <2>1. s \in Seq({SaveLow, SaveHigh, ClearBusy(tr), SetBusy(t)}) /\ Len(s) = 4
    BY <1>4, JmpStores, Zenon
  <2>2. seg' = Stored(SubSeq(s, 1, 4))
    BY <1>1, <2>1, StoredAll
  <2>3. seg' = Stored(SubSeq(Saves \o Marks("jmp", t), 1, 4))
    BY <1>4, <2>2
  <2> HIDE DEF s
  <2>4. Saved(4, seg') /\ JmpMarked(t, 4, seg')
    BY <2>3, JmpStored
  <2>5. ASSUME NEW u \in Tasks
        PROVE  /\ seg'[<<"low", u>>] = IF u = tr THEN regs.low ELSE seg[<<"low", u>>]
               /\ seg'[<<"high", u>>] = IF u = tr THEN regs.high ELSE seg[<<"high", u>>]
               /\ seg'[<<"link", u>>] = seg[<<"link", u>>]
               /\ u \notin {t, tr} => seg'[<<"busy", u>>] = seg[<<"busy", u>>]
               /\ u = tr => seg'[<<"busy", u>>] = FALSE
               /\ u = t => seg'[<<"busy", u>>] = TRUE
    <3>0. /\ seg'[<<"low", u>>] = IF u = tr THEN regs.low ELSE seg[<<"low", u>>]
          /\ seg'[<<"high", u>>] = IF u = tr THEN regs.high ELSE seg[<<"high", u>>]
      BY <2>4 DEF Saved
    <3>1. seg'[<<"link", u>>] = seg[<<"link", u>>]
      BY <2>4 DEF JmpMarked
    <3>2. ASSUME u \notin {t, tr} PROVE seg'[<<"busy", u>>] = seg[<<"busy", u>>]
      BY <2>4, <3>2 DEF JmpMarked
    <3>3. ASSUME u = tr PROVE seg'[<<"busy", u>>] = FALSE
      <4>1. 4 >= 3
        OBVIOUS
      <4> QED BY <2>4, <3>3, <4>1, Zenon DEF JmpMarked
    <3>4. ASSUME u = t PROVE seg'[<<"busy", u>>] = TRUE
      BY <2>4, <3>4 DEF JmpMarked
    <3> QED BY <3>0, <3>1, <3>2, <3>3, <3>4
  <2> QED BY <1>1, <1>2, <1>4, <2>5 DEF Untouched
<1>5. CASE cause = "iret"
  <2>1. s \in Seq({SaveLow, SaveHigh, ClearBusy(tr)}) /\ Len(s) = 3
    BY <1>5, IretStores, Zenon
  <2>2. seg' = Stored(SubSeq(s, 1, 3))
    BY <1>1, <2>1, StoredAll
  <2>3. seg' = Stored(SubSeq(Saves \o Marks("iret", t), 1, 3))
    BY <1>5, <2>2
  <2> HIDE DEF s
  <2>4. Saved(3, seg') /\ IretMarked(t, 3, seg')
    BY <2>3, IretStored
  <2>5. ASSUME NEW u \in Tasks
        PROVE  /\ seg'[<<"low", u>>] = IF u = tr THEN regs.low ELSE seg[<<"low", u>>]
               /\ seg'[<<"high", u>>] = IF u = tr THEN regs.high ELSE seg[<<"high", u>>]
               /\ seg'[<<"link", u>>] = seg[<<"link", u>>]
               /\ u # tr => seg'[<<"busy", u>>] = seg[<<"busy", u>>]
               /\ u = tr => seg'[<<"busy", u>>] = FALSE
    <3>0. /\ seg'[<<"low", u>>] = IF u = tr THEN regs.low ELSE seg[<<"low", u>>]
          /\ seg'[<<"high", u>>] = IF u = tr THEN regs.high ELSE seg[<<"high", u>>]
      BY <2>4 DEF Saved
    <3>1. seg'[<<"link", u>>] = seg[<<"link", u>>]
      BY <2>4 DEF IretMarked
    <3>2. ASSUME u # tr PROVE seg'[<<"busy", u>>] = seg[<<"busy", u>>]
      BY <2>4, <3>2 DEF IretMarked
    <3>3. ASSUME u = tr PROVE seg'[<<"busy", u>>] = FALSE
      BY <2>4, <3>3 DEF IretMarked
    <3> QED BY <3>0, <3>1, <3>2, <3>3
  <2> QED BY <1>1, <1>2, <1>5, <2>5 DEF Untouched
<1> QED BY <1>3, <1>4, <1>5

(* The initial state, and every step, of the invariant.                     *)
LEMMA TaskInvInit == TasksInit => TaskInv
<1> SUFFICES ASSUME TasksInit PROVE TaskInv
  OBVIOUS
<1>1. FirstToken \in Tokens
  BY TaskAssumption DEF FirstToken
<1>2. \A u \in Tasks : /\ seg[<<"link", u>>] = NoTask
                       /\ seg[<<"low", u>>] = FirstToken /\ seg[<<"high", u>>] = FirstToken
  BY DEF TasksInit, Cell
<1>3. \A u \in Tasks : seg[<<"busy", u>>] = FALSE
  BY DEF TasksInit, Cell
<1>4. TasksTypeOK
  BY <1>1, <1>2, <1>3 DEF TasksInit, TasksTypeOK, NoSwitch
<1> QED BY <1>4, TaskAssumption DEF TasksInit, TaskInv, NoSwitch

LEMMA SwitchKeepsTaskInv ==
  ASSUME TaskInv, NEW t \in Tasks, NEW cause \in {"jmp", "call", "iret"}, TaskSwitch32(cause, t)
  PROVE  TaskInv'
<1> DEFINE s == Saves \o Marks(cause, t)
<1>1. /\ tr # NoTask /\ switch \in {NoSwitch, [cause |-> cause, to |-> t]} /\ Target(cause, t)
      /\ \/ Completed(cause, t, s) /\ switch' = NoSwitch
         \/ /\ \E n \in 0 .. Len(s) : Interrupted(s, n)
            /\ switch' = [cause |-> cause, to |-> t]
  BY Zenon DEF TaskSwitch32
<1>2. tr \in Tasks \ {t}
  BY <1>1, SwitchTarget
<1>3. CASE Completed(cause, t, s) /\ switch' = NoSwitch
  <2>1. /\ tr' = t /\ Untouched
        /\ regs' = [low |-> seg[<<"low", t>>], high |-> seg[<<"high", t>>],
                    nt |-> cause = "call"]
        /\ seg' = [c \in Cell |-> seg'[c]]
        /\ seg'[<<"low", tr>>] = regs.low /\ seg'[<<"high", tr>>] = regs.high
        /\ \A u \in Tasks :
             seg'[<<"link", u>>] = IF cause = "call" /\ u = t THEN tr ELSE seg[<<"link", u>>]
    BY <1>2, <1>3, Finished, ZenonT(30)
  <2>2. \A u \in Tasks : seg'[<<"busy", u>>] \in BOOLEAN
    BY <1>2, <1>3, Finished DEF TaskInv, TasksTypeOK
  <2>3. seg'[<<"busy", t>>]
    BY <1>1, <1>2, <1>3, Finished DEF Target
  <2>4. /\ \A u \in Tasks : /\ seg[<<"link", u>>] \in Tasks \cup {NoTask}
                           /\ {seg[<<"low", u>>], seg[<<"high", u>>]} \subseteq Tokens
        /\ {regs.low, regs.high} \subseteq Tokens
    BY DEF TaskInv, TasksTypeOK
  <2>5. regs' \in [low : Tokens, high : Tokens, nt : BOOLEAN] /\ tr' \in Tasks \cup {NoTask}
    BY <2>1, <2>4
  <2>6. \A u \in Tasks : /\ seg'[<<"link", u>>] \in Tasks \cup {NoTask}
                         /\ {seg'[<<"low", u>>], seg'[<<"high", u>>]} \subseteq Tokens
    BY <1>2, <2>1, <2>4 DEF Untouched
  <2>7. switch' \in [cause : {"none", "jmp", "call", "iret"}, to : Tasks \cup {NoTask}]
    BY <1>3 DEF NoSwitch
  <2>8. TasksTypeOK'
    BY <2>2, <2>5, <2>6, <2>7 DEF TasksTypeOK
  <2>9. regs'.nt => seg'[<<"link", tr'>>] \in Tasks \ {tr'}
    BY <1>2, <2>1
  <2> QED BY <1>3, <2>1, <2>3, <2>8, <2>9, TaskAssumption DEF TaskInv
<1>4. CASE /\ \E n \in 0 .. Len(s) : Interrupted(s, n)
           /\ switch' = [cause |-> cause, to |-> t]
  <2>1. /\ UNCHANGED <<tr, regs>> /\ Untouched
        /\ seg' = [c \in Cell |-> seg'[c]]
        /\ seg'[<<"low", tr>>] \in {regs.low, seg[<<"low", tr>>]}
        /\ seg'[<<"high", tr>>] \in {regs.high, seg[<<"high", tr>>]}
        /\ \A u \in Tasks : \/ seg'[<<"link", u>>] = seg[<<"link", u>>]
                            \/ u = t /\ seg'[<<"link", u>>] = tr
    BY <1>2, <1>4, Unfinished
  <2>2. \A u \in Tasks : seg'[<<"busy", u>>] \in BOOLEAN
    BY <1>2, <1>4, Unfinished DEF TaskInv, TasksTypeOK
  <2>3. cause # "jmp" => seg'[<<"busy", tr>>] = seg[<<"busy", tr>>]
    BY <1>2, <1>4, Unfinished
  <2>4. /\ \A u \in Tasks : /\ seg[<<"link", u>>] \in Tasks \cup {NoTask}
                           /\ {seg[<<"low", u>>], seg[<<"high", u>>]} \subseteq Tokens
        /\ {regs.low, regs.high} \subseteq Tokens
        /\ regs \in [low : Tokens, high : Tokens, nt : BOOLEAN]
    BY DEF TaskInv, TasksTypeOK
  <2>5. \A u \in Tasks : /\ seg'[<<"link", u>>] \in Tasks \cup {NoTask}
                         /\ {seg'[<<"low", u>>], seg'[<<"high", u>>]} \subseteq Tokens
    <3> TAKE u \in Tasks
    <3>1. seg'[<<"link", u>>] \in Tasks \cup {NoTask}
      BY <1>2, <2>1, <2>4
    <3>2. CASE u = tr
      BY <2>1, <2>4, <3>1, <3>2
    <3>3. CASE u # tr
      BY <2>1, <2>4, <3>1, <3>3 DEF Untouched
    <3> QED BY <3>2, <3>3
  <2>6. switch' \in [cause : {"none", "jmp", "call", "iret"}, to : Tasks \cup {NoTask}]
    BY <1>4
  <2>7. TasksTypeOK'
    BY <1>2, <2>1, <2>2, <2>4, <2>5, <2>6 DEF TasksTypeOK
  <2>8. regs.nt => seg[<<"link", tr>>] \in Tasks \ {tr}
    BY DEF TaskInv
  <2>9. regs'.nt => seg'[<<"link", tr'>>] \in Tasks \ {tr'}
    BY <1>2, <2>1, <2>8
  <2>10. switch'.to \in Tasks \ {tr'}
    BY <1>2, <1>4, <2>1
  <2>11. ~seg'[<<"busy", tr'>>] => switch'.cause = "jmp"
    <3> SUFFICES ASSUME cause # "jmp" PROVE seg'[<<"busy", tr>>]
      BY <1>4, <2>1
    <3>1. seg[<<"busy", tr>>]
      <4>1. switch.cause # "jmp"
        BY <1>1 DEF NoSwitch
      <4> QED BY <1>1, <4>1 DEF TaskInv
    <3> QED BY <2>3, <3>1
  <2> QED BY <1>2, <2>1, <2>7, <2>9, <2>10, <2>11, TaskAssumption DEF TaskInv
<1> QED BY <1>1, <1>3, <1>4

LEMMA TaskInvStep == TaskInv /\ [TasksNext]_taskVars => TaskInv'
<1> SUFFICES ASSUME TaskInv, [TasksNext]_taskVars PROVE TaskInv'
  OBVIOUS
<1> USE TaskAssumption
<1>1. ASSUME NEW t \in Tasks, NEW cause \in {"jmp", "call", "iret"}, TaskSwitch32(cause, t)
      PROVE  TaskInv'
  BY <1>1, SwitchKeepsTaskInv
<1>2. ASSUME NEW t \in Tasks, Ltr(t) PROVE TaskInv'
  <2>1. /\ tr = NoTask /\ tr' = t /\ UNCHANGED <<regs, switch>>
        /\ seg' = [seg EXCEPT ![<<"busy", t>>] = TRUE]
    BY <1>2 DEF Ltr
  <2>2. seg' = [c \in Cell |-> seg'[c]]
    BY <2>1 DEF TaskInv
  <2>3. /\ \A u \in Tasks : /\ seg'[<<"link", u>>] = seg[<<"link", u>>]
                           /\ seg'[<<"low", u>>] = seg[<<"low", u>>]
                           /\ seg'[<<"high", u>>] = seg[<<"high", u>>]
        /\ \A u \in Tasks \ {t} : seg'[<<"busy", u>>] = seg[<<"busy", u>>]
        /\ seg'[<<"busy", t>>] = TRUE
    <3>1. \A c \in Cell : c # <<"busy", t>> => seg'[c] = seg[c]
      BY <2>1 DEF TaskInv
    <3>2. seg'[<<"busy", t>>] = TRUE
      BY <2>1, TaskCells DEF TaskInv
    <3>3. \A u \in Tasks : seg'[<<"low", u>>] = seg[<<"low", u>>]
      BY <3>1, TaskCells
    <3>4. \A u \in Tasks : seg'[<<"high", u>>] = seg[<<"high", u>>]
      BY <3>1, TaskCells
    <3>5. \A u \in Tasks : seg'[<<"link", u>>] = seg[<<"link", u>>]
      BY <3>1, TaskCells
    <3>6. \A u \in Tasks \ {t} : seg'[<<"busy", u>>] = seg[<<"busy", u>>]
      BY <3>1, TaskCells
    <3> QED BY <3>2, <3>3, <3>4, <3>5, <3>6
  <2>4. TasksTypeOK'
    <3>1. \A u \in Tasks : seg[<<"busy", u>>] \in BOOLEAN
      BY DEF TaskInv, TasksTypeOK
    <3>2. \A u \in Tasks : seg'[<<"busy", u>>] \in BOOLEAN
      BY <2>3, <3>1
    <3>3. \A u \in Tasks : /\ seg[<<"link", u>>] \in Tasks \cup {NoTask}
                          /\ {seg[<<"low", u>>], seg[<<"high", u>>]} \subseteq Tokens
      BY DEF TaskInv, TasksTypeOK
    <3>4. /\ tr' \in Tasks \cup {NoTask}
          /\ regs' \in [low : Tokens, high : Tokens, nt : BOOLEAN]
          /\ switch' \in [cause : {"none", "jmp", "call", "iret"}, to : Tasks \cup {NoTask}]
      BY <2>1 DEF TaskInv, TasksTypeOK
    <3> QED BY <2>3, <3>2, <3>3, <3>4 DEF TasksTypeOK
  <2> QED BY <2>1, <2>2, <2>3, <2>4 DEF TaskInv
<1>3. ASSUME NEW t \in Tasks, MakeAvailable(t) PROVE TaskInv'
  <2>1. /\ t # tr /\ UNCHANGED <<tr, regs, switch>>
        /\ seg' = [seg EXCEPT ![<<"busy", t>>] = FALSE]
    BY <1>3 DEF MakeAvailable
  <2>2. seg' = [c \in Cell |-> seg'[c]]
    BY <2>1 DEF TaskInv
  <2>3. /\ \A u \in Tasks : /\ seg'[<<"link", u>>] = seg[<<"link", u>>]
                           /\ seg'[<<"low", u>>] = seg[<<"low", u>>]
                           /\ seg'[<<"high", u>>] = seg[<<"high", u>>]
        /\ \A u \in Tasks \ {t} : seg'[<<"busy", u>>] = seg[<<"busy", u>>]
        /\ seg'[<<"busy", t>>] = FALSE
    <3>1. \A c \in Cell : c # <<"busy", t>> => seg'[c] = seg[c]
      BY <2>1 DEF TaskInv
    <3>2. seg'[<<"busy", t>>] = FALSE
      BY <2>1, TaskCells DEF TaskInv
    <3>3. \A u \in Tasks : seg'[<<"low", u>>] = seg[<<"low", u>>]
      BY <3>1, TaskCells
    <3>4. \A u \in Tasks : seg'[<<"high", u>>] = seg[<<"high", u>>]
      BY <3>1, TaskCells
    <3>5. \A u \in Tasks : seg'[<<"link", u>>] = seg[<<"link", u>>]
      BY <3>1, TaskCells
    <3>6. \A u \in Tasks \ {t} : seg'[<<"busy", u>>] = seg[<<"busy", u>>]
      BY <3>1, TaskCells
    <3> QED BY <3>2, <3>3, <3>4, <3>5, <3>6
  <2>4. TasksTypeOK'
    <3>1. \A u \in Tasks : seg[<<"busy", u>>] \in BOOLEAN
      BY DEF TaskInv, TasksTypeOK
    <3>2. \A u \in Tasks : seg'[<<"busy", u>>] \in BOOLEAN
      BY <2>3, <3>1
    <3>3. \A u \in Tasks : /\ seg[<<"link", u>>] \in Tasks \cup {NoTask}
                          /\ {seg[<<"low", u>>], seg[<<"high", u>>]} \subseteq Tokens
      BY DEF TaskInv, TasksTypeOK
    <3>4. /\ tr' \in Tasks \cup {NoTask}
          /\ regs' \in [low : Tokens, high : Tokens, nt : BOOLEAN]
          /\ switch' \in [cause : {"none", "jmp", "call", "iret"}, to : Tasks \cup {NoTask}]
      BY <2>1 DEF TaskInv, TasksTypeOK
    <3> QED BY <2>3, <3>2, <3>3, <3>4 DEF TasksTypeOK
  <2>5. tr # NoTask => tr \in Tasks \ {t}
    BY <2>1 DEF TaskInv, TasksTypeOK
  <2> QED BY <2>1, <2>2, <2>3, <2>4, <2>5 DEF TaskInv
<1>4. ASSUME GiveUp PROVE TaskInv'
  BY <1>4 DEF GiveUp, TaskInv, TasksTypeOK, NoSwitch
<1>5. ASSUME Work PROVE TaskInv'
  BY <1>5 DEF Work, TaskInv, TasksTypeOK
<1>6. ASSUME UNCHANGED taskVars PROVE TaskInv'
  BY <1>6 DEF taskVars, TaskInv, TasksTypeOK
<1> QED BY <1>1, <1>2, <1>3, <1>4, <1>5, <1>6 DEF TasksNext

----------------------------------------------------------------------------
(* The steps of the contract.  Its state, as SwitchesWhole maps it:         *)

Busy == {t \in Tasks : t = tr \/ seg[<<"busy", t>>]}
Context == [t \in Tasks |-> IF t = tr THEN <<regs.low, regs.high>>
                           ELSE <<seg[<<"low", t>>], seg[<<"high", t>>]>>]
ReturnTo == IF regs.nt THEN seg[<<"link", tr>>] ELSE NoTask

LEMMA ContractHolds ==
  /\ TasksInit => Promise!ContractInit
  /\ TaskInv /\ [TasksNext]_taskVars => [Promise!ContractNext]_(Promise!contractVars)
<1>1. ASSUME TasksInit PROVE Promise!ContractInit
  <2>1. tr = NoTask /\ ~regs.nt /\ \A u \in Tasks : seg[<<"busy", u>>] = FALSE
    BY <1>1 DEF TasksInit, Cell
  <2>2. Busy = {} /\ ReturnTo = NoTask
    BY <2>1, TaskAssumption DEF Busy, ReturnTo
  <2> QED BY <2>1, <2>2 DEF Promise!ContractInit, Busy, ReturnTo
<1>2. ASSUME TaskInv, NEW t \in Tasks, NEW cause \in {"jmp", "call", "iret"},
             TaskSwitch32(cause, t)
      PROVE  [Promise!ContractNext]_(Promise!contractVars)
  <2> DEFINE s == Saves \o Marks(cause, t)
  <2>1. /\ tr # NoTask /\ switch \in {NoSwitch, [cause |-> cause, to |-> t]} /\ Target(cause, t)
        /\ Completed(cause, t, s) \/ \E n \in 0 .. Len(s) : Interrupted(s, n)
    BY <1>2, Zenon DEF TaskSwitch32
  <2>2. tr \in Tasks \ {t}
    BY <1>2, <2>1, SwitchTarget
  <2>3. CASE Completed(cause, t, s)
    <3>1. /\ tr' = t /\ Untouched
          /\ regs' = [low |-> seg[<<"low", t>>], high |-> seg[<<"high", t>>],
                      nt |-> cause = "call"]
          /\ seg'[<<"low", tr>>] = regs.low /\ seg'[<<"high", tr>>] = regs.high
          /\ \A u \in Tasks :
               seg'[<<"link", u>>] = IF cause = "call" /\ u = t THEN tr ELSE seg[<<"link", u>>]
      BY <2>2, <2>3, Finished, ZenonT(30)
    <3>2. Context' = Context
      BY <2>2, <3>1 DEF Context, Untouched
    <3>3. ReturnTo' = IF cause = "call" THEN tr ELSE NoTask
      BY <3>1 DEF ReturnTo
    <3>4. CASE cause = "call"
      <4>1. seg[<<"busy", tr>>]
        <5>1. switch.cause # "jmp"
          BY <2>1, <3>4 DEF NoSwitch
        <5> QED BY <1>2, <2>1, <5>1 DEF TaskInv
      <4>2. seg'[<<"busy", tr>>] /\ seg'[<<"busy", t>>]
        BY <2>2, <2>3, <3>4, <4>1, Finished
      <4>3. \A u \in Tasks \ {t, tr} : seg'[<<"busy", u>>] = seg[<<"busy", u>>]
        BY <2>2, <2>3, Finished
      <4>4. t \notin Busy
        BY <2>1, <2>2, <3>4 DEF Busy, Target
      <4>5. Busy' = (Busy \ {}) \cup {t}
        BY <2>2, <3>1, <4>1, <4>2, <4>3 DEF Busy
      <4>6. Promise!Call(t)
        BY <3>1, <3>2, <3>3, <3>4, <4>4, <4>5
           DEF Promise!Call, Promise!Enter, Busy, Context, ReturnTo
      <4> QED BY <2>1, <4>6 DEF Promise!ContractNext
    <3>5. CASE cause = "jmp"
      <4>1. ~seg'[<<"busy", tr>>] /\ seg'[<<"busy", t>>]
        BY <2>2, <2>3, <3>5, Finished
      <4>2. \A u \in Tasks \ {t, tr} : seg'[<<"busy", u>>] = seg[<<"busy", u>>]
        BY <2>2, <2>3, Finished
      <4>3. t \notin Busy
        BY <2>1, <2>2, <3>5 DEF Busy, Target
      <4>4. Busy' = (Busy \ {tr}) \cup {t}
        BY <2>2, <3>1, <4>1, <4>2 DEF Busy
      <4>5. Promise!Jump(t)
        BY <3>1, <3>2, <3>3, <3>5, <4>3, <4>4
           DEF Promise!Jump, Promise!Enter, Busy, Context, ReturnTo
      <4> QED BY <2>1, <4>5 DEF Promise!ContractNext
    <3>6. CASE cause = "iret"
      <4>1. regs.nt /\ t = seg[<<"link", tr>>] /\ seg[<<"busy", t>>]
        BY <2>1, <3>6 DEF Target
      <4>2. ~seg'[<<"busy", tr>>] /\ seg'[<<"busy", t>>]
        BY <2>2, <2>3, <3>6, <4>1, Finished
      <4>3. \A u \in Tasks \ {t, tr} : seg'[<<"busy", u>>] = seg[<<"busy", u>>]
        BY <2>2, <2>3, Finished
      <4>4. ReturnTo = t /\ ReturnTo \in Busy \ {tr}
        BY <2>2, <4>1 DEF Busy, ReturnTo
      <4>5. Busy' = Busy \ {tr}
        BY <2>2, <3>1, <4>1, <4>2, <4>3 DEF Busy
      <4>6. Promise!Return
        BY <3>1, <3>2, <3>3, <3>6, <4>4, <4>5 DEF Promise!Return, Busy, Context, ReturnTo
      <4> QED BY <2>1, <4>6 DEF Promise!ContractNext
    <3> QED BY <3>4, <3>5, <3>6
  <2>4. CASE \E n \in 0 .. Len(s) : Interrupted(s, n)
    <3>1. /\ UNCHANGED <<tr, regs>> /\ Untouched
          /\ \A u \in Tasks : \/ seg'[<<"link", u>>] = seg[<<"link", u>>]
                              \/ u = t /\ seg'[<<"link", u>>] = tr
      BY <2>2, <2>4, Unfinished
    <3>2. \A u \in Tasks : u # tr => seg'[<<"busy", u>>] = seg[<<"busy", u>>]
      BY <2>2, <2>4, Unfinished
    <3>3. Context' = Context
      BY <3>1 DEF Context, Untouched
    <3>4. Busy' = Busy
      BY <3>1, <3>2 DEF Busy
    <3>5. ReturnTo' = ReturnTo
      BY <2>2, <3>1 DEF ReturnTo
    <3> QED BY <3>1, <3>3, <3>4, <3>5 DEF Promise!contractVars, Context, Busy, ReturnTo
  <2> QED BY <2>1, <2>3, <2>4
<1>3. ASSUME TaskInv, NEW t \in Tasks, Ltr(t) PROVE Promise!ContractNext
  <2>1. /\ tr = NoTask /\ ~seg[<<"busy", t>>] /\ tr' = t /\ UNCHANGED regs
        /\ seg' = [seg EXCEPT ![<<"busy", t>>] = TRUE] /\ ~regs.nt
    BY <1>3 DEF Ltr, TaskInv
  <2>2. \A c \in Cell : c # <<"busy", t>> => seg'[c] = seg[c]
    BY <1>3, <2>1 DEF TaskInv
  <2>3. seg'[<<"busy", t>>] = TRUE
    BY <1>3, <2>1, TaskCells DEF TaskInv
  <2>4. \A u \in Tasks \ {t} : seg'[<<"busy", u>>] = seg[<<"busy", u>>]
    BY <2>2, TaskCells
  <2>5. Busy' = Busy \cup {t} /\ t \notin Busy
    BY <2>1, <2>3, <2>4, TaskAssumption DEF Busy
  <2>6. ReturnTo' = NoTask
    BY <2>1 DEF ReturnTo
  <2>7. \A u \in Tasks \ {t} : /\ seg'[<<"low", u>>] = seg[<<"low", u>>]
                              /\ seg'[<<"high", u>>] = seg[<<"high", u>>]
    BY <2>2, TaskCells
  <2>8. \A u \in Tasks \ {t} : Context'[u] = Context[u]
    BY <2>1, <2>7, TaskAssumption DEF Context
  <2>9. Promise!Begin(t)
    BY <2>1, <2>5, <2>6, <2>8 DEF Promise!Begin, Busy, Context, ReturnTo
  <2> QED BY <2>9 DEF Promise!ContractNext
<1>4. ASSUME TaskInv, NEW t \in Tasks, MakeAvailable(t) PROVE Promise!ContractNext
  <2>1. /\ t # tr /\ UNCHANGED <<tr, regs>>
        /\ seg' = [seg EXCEPT ![<<"busy", t>>] = FALSE]
    BY <1>4 DEF MakeAvailable
  <2>2. \A c \in Cell : c # <<"busy", t>> => seg'[c] = seg[c]
    BY <1>4, <2>1 DEF TaskInv
  <2>3. seg'[<<"busy", t>>] = FALSE
    BY <1>4, <2>1, TaskCells DEF TaskInv
  <2>4. \A u \in Tasks \ {t} : seg'[<<"busy", u>>] = seg[<<"busy", u>>]
    BY <2>2, TaskCells
  <2>5. Busy' = Busy \ {t}
    BY <2>1, <2>3, <2>4 DEF Busy
  <2>6. \A u \in Tasks : /\ seg'[<<"low", u>>] = seg[<<"low", u>>]
                        /\ seg'[<<"high", u>>] = seg[<<"high", u>>]
    BY <2>2, TaskCells
  <2>7. Context' = Context
    BY <2>1, <2>6 DEF Context
  <2>8. regs.nt => seg'[<<"link", tr>>] = seg[<<"link", tr>>]
    BY <1>4, <2>2, TaskCells DEF TaskInv, TasksTypeOK
  <2>9. ReturnTo' = ReturnTo
    BY <2>1, <2>8 DEF ReturnTo
  <2>10. Promise!Reclaim(t)
    BY <2>1, <2>5, <2>7, <2>9 DEF Promise!Reclaim, Busy, Context, ReturnTo
  <2> QED BY <2>10 DEF Promise!ContractNext
<1>5. ASSUME GiveUp PROVE UNCHANGED Promise!contractVars
  BY <1>5 DEF GiveUp, Promise!contractVars
<1>6. ASSUME TaskInv, Work PROVE [Promise!ContractNext]_(Promise!contractVars)
  <2>1. PICK v \in Tokens : regs' = [regs EXCEPT !.low = v, !.high = v]
    BY <1>6 DEF Work
  <2>2. UNCHANGED <<tr, seg>> /\ regs'.low = v /\ regs'.high = v /\ regs'.nt = regs.nt
    BY <1>6, <2>1 DEF Work, TaskInv, TasksTypeOK
  <2>3. Busy' = Busy /\ ReturnTo' = ReturnTo
    BY <2>2 DEF Busy, ReturnTo
  <2>4. Context' = [Context EXCEPT ![tr] = <<v, v>>]
    BY <2>2 DEF Context
  <2>5. CASE tr = NoTask
    <3>1. Context' = Context
      BY <2>2, <2>5, TaskAssumption DEF Context
    <3> QED BY <2>2, <2>3, <3>1 DEF Promise!contractVars, Busy, Context, ReturnTo
  <2>6. CASE tr # NoTask
    <3>1. <<v, v>> \in Tokens \X Tokens
      OBVIOUS
    <3>2. Promise!Run
      BY <2>2, <2>3, <2>4, <3>1 DEF Promise!Run, Busy, Context, ReturnTo
    <3> QED BY <2>6, <3>2 DEF Promise!ContractNext
  <2> QED BY <2>5, <2>6
<1>7. ASSUME UNCHANGED taskVars PROVE UNCHANGED Promise!contractVars
  BY <1>7 DEF taskVars, Promise!contractVars
<1> QED BY <1>1, <1>2, <1>3, <1>4, <1>5, <1>6, <1>7 DEF TasksNext

(* The hardware task switches keep what software relies on: every step of   *)
(* the switches, the interrupted and the given up ones included, is a whole *)
(* switch of TaskContract or none.                                          *)
THEOREM SwitchesAreWhole == ProtectedSpec => SwitchesWhole
<1>1. ProtectedInit => TaskInv /\ Promise!ContractInit
  BY TaskInvInit, ContractHolds DEF ProtectedInit
<1>2. [ProtectedNext]_protectedVars => [TasksNext]_taskVars
  BY DEF ProtectedNext, TasksRun, protectedVars
<1>3. TaskInv /\ [TasksNext]_taskVars => TaskInv'
  BY TaskInvStep
<1>4. TaskInv /\ [TasksNext]_taskVars => [Promise!ContractNext]_(Promise!contractVars)
  BY ContractHolds
<1> QED BY <1>1, <1>2, <1>3, <1>4, PTL DEF ProtectedSpec, SwitchesWhole, Promise!ContractSpec

----------------------------------------------------------------------------
(* The memory path.                                                         *)

ProtectedInv == PagedInv /\ TaskInv

LEMMA ProtectedInit_Inv == ProtectedInit => ProtectedInv /\ Contract!ContractInit
BY InitSound, TaskInvInit DEF ProtectedInit, ProtectedInv

LEMMA ProtectedStep ==
  ProtectedInv /\ [ProtectedNext]_protectedVars =>
    /\ ProtectedInv'
    /\ [Contract!ContractNext]_(Contract!contractVars)
    /\ [Exact]_pagedVars
<1> SUFFICES ASSUME ProtectedInv, [ProtectedNext]_protectedVars
             PROVE  /\ ProtectedInv'
                    /\ [Contract!ContractNext]_(Contract!contractVars)
                    /\ [Exact]_pagedVars
  OBVIOUS
<1>1. PagedInv /\ TaskInv /\ guest.dirs \subseteq Dirs
  BY PagedCpuAssumption DEF ProtectedInv, PagedInv, PagedTypeOK, Guest
<1>2. TaskInv'
  <2>1. [TasksNext]_taskVars
    BY DEF ProtectedNext, TasksRun, protectedVars
  <2> QED BY <1>1, <2>1, TaskInvStep
<1>3. PagedNext \/ (\E d \in guest.dirs : TaskSwitch(d)) \/ UNCHANGED pagedVars
  BY DEF ProtectedNext, TasksRun, protectedVars
<1>4. CASE PagedNext
  BY <1>1, <1>2, <1>4, PagedStep DEF StepSound, ProtectedInv
<1>5. CASE \E d \in guest.dirs : TaskSwitch(d)
  BY <1>1, <1>2, <1>5, RegistersStep DEF StepSound, ProtectedInv
<1>6. CASE UNCHANGED pagedVars
  BY <1>1, <1>2, <1>6, PagedStutter DEF ProtectedInv
<1> QED BY <1>3, <1>4, <1>5, <1>6

(* Every variable of the memory path and the task switches keeps its type.  *)
THEOREM ProtectedTypes == ProtectedSpec => []ProtectedTypeOK
<1>1. ProtectedInv => ProtectedTypeOK
  BY DEF ProtectedInv, PagedInv, TaskInv, ProtectedTypeOK
<1> QED BY <1>1, ProtectedInit_Inv, ProtectedStep, PTL DEF ProtectedSpec

(* The TLB implements TlbContract: whatever the guest's instructions, its   *)
(* page faults and its switches do, nothing is cached that the structures   *)
(* did not give, or that outlives what invalidates it.                      *)
THEOREM CacheIsSound == ProtectedSpec => CacheKeepsContract
<1> QED BY ProtectedInit_Inv, ProtectedStep, PTL
        DEF ProtectedSpec, CacheKeepsContract, Contract!ContractSpec

(* Every access is exact, the faulting ones, the straddling stores and each *)
(* byte of a restarted REP INSB included: see AccessExact.                  *)
THEOREM AccessesAreExact == ProtectedSpec => AccessExact
<1> QED BY ProtectedInit_Inv, ProtectedStep, PTL DEF ProtectedSpec, AccessExact
=============================================================================

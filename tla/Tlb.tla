-------------------------------- MODULE Tlb --------------------------------
(***************************************************************************)
(* The translation lookaside buffer and the Mmu around it, of              *)
(* crates/x86-mmu/src/paging/tlb.rs: translations cached by 4-KiB page     *)
(* number, a large page under each number it was used by, and what INVLPG, *)
(* page faults and control-register loads invalidate.                      *)
(***************************************************************************)
EXTENDS Paging

CONSTANT Uncached   (* no entry, and no translation                           *)

TlbEntry ==
  [frame : Tables \cup Frames, large : BOOLEAN, writable : BOOLEAN, user : BOOLEAN,
   global : BOOLEAN, final : EntryAddr, dirty : BOOLEAN]

ASSUME TlbAssumption == Uncached \notin TlbEntry \cup Translation

(* last is the control registers the Mmu saw, once it has seen any.         *)
Mmu == [tlb : [Page -> TlbEntry \cup {Uncached}], seen : BOOLEAN, last : PagingContext]

NewMmu(cr) == [tlb |-> [k \in Page |-> Uncached], seen |-> FALSE, last |-> cr]

(* Whether the entry cached under page number key translates page.          *)
Covers(entry, key, page) == IF entry.large THEN key[1] = page[1] ELSE key = page

(* Keys that stay cached; the others are dropped.                           *)
Retain(m, keys) ==
  [m EXCEPT !.tlb = [k \in Page |-> IF k \in keys THEN m.tlb[k] ELSE Uncached]]

CachedKeys(m) == {k \in Page : m.tlb[k] # Uncached}

(* Mutant: only the page number named is dropped.                           *)
InvalidatePageKey(m, page) == Retain(m, Page \ {page})

InvalidatePage(m, page) ==
  Retain(m, {k \in CachedKeys(m) : ~Covers(m.tlb[k], k, page)})

FlushNonGlobal(m) == Retain(m, {k \in CachedKeys(m) : m.tlb[k].global})

FlushAll(m) == Retain(m, {})

OnMovToCr0(m, old, new) ==
  LET f == IF old.pg /\ ~new.pg THEN FlushAll(m) ELSE m
  IN  [f EXCEPT !.last.pg = new.pg, !.last.wp = new.wp]

OnMovToCr3(m, new) == [FlushNonGlobal(m) EXCEPT !.last.dir = new.dir]

OnMovToCr4(m, old, new) ==
  LET f == IF old.pge # new.pge \/ old.pse # new.pse THEN FlushAll(m) ELSE m
  IN  [f EXCEPT !.last.pse = new.pse, !.last.pge = new.pge]

(* The polled equivalent of the three, run before each instruction.         *)
SyncControlRegisters(m, cr) ==
  LET m0 == IF m.seen /\ <<m.last.pg, m.last.wp>> # <<cr.pg, cr.wp>>
            THEN OnMovToCr0(m, m.last, cr) ELSE m
      m4 == IF m.seen /\ <<m.last.pse, m.last.pge>> # <<cr.pse, cr.pge>>
            THEN OnMovToCr4(m0, m.last, cr) ELSE m0
      m3 == IF m.seen /\ m.last.dir # cr.dir THEN OnMovToCr3(m4, cr) ELSE m4
  IN  [m3 EXCEPT !.seen = TRUE, !.last = cr]

(* A translation gives the Mmu, memory, and why page was refused or "none". *)
Translated(m, mem, page, why) == [mmu |-> m, mem |-> mem, page |-> page, why |-> why]

Refused(m, mem, page, why) == Translated(InvalidatePage(m, page), mem, page, why)

(* A page that is cached: the rights it was cached with decide, and a first *)
(* write marks the entry it was cached from.                                *)
TranslateHit(m, cr, mem, page, access) ==
  LET entry == m.tlb[page]
      marks == access.write /\ ~entry.dirty
  IN  IF ~RightsPermit(cr, entry, access) THEN Refused(m, mem, page, "protection")
      ELSE Translated([m EXCEPT !.tlb[page].dirty = @ \/ marks],
                      IF marks THEN [mem EXCEPT ![entry.final].dirty = TRUE] ELSE mem,
                      page, "none")

(* A page that is not: a walk, the marks it leaves, and its entry cached.   *)
TranslateMiss(m, cr, mem, page, access) ==
  LET why == Refusal(cr, mem, page, access)
      t == Walk(cr, mem, page)
      marked == CommitAccessedDirty(cr, mem, page, access)
      entry == [frame |-> t.frame, large |-> t.large, writable |-> t.writable,
                user |-> t.user, global |-> t.global, final |-> t.final,
                dirty |-> marked[t.final].dirty]
  IN  IF why # "none" THEN Refused(m, mem, page, why)
      ELSE Translated([m EXCEPT !.tlb[page] = entry], marked, page, "none")

Translate(m, cr, mem, page, access) ==
  IF m.tlb[page] # Uncached THEN TranslateHit(m, cr, mem, page, access)
  ELSE TranslateMiss(m, cr, mem, page, access)

(* Whether an access would go through, with no mark and nothing cached.     *)
Probe(m, cr, mem, page, access) ==
  LET cached == m.tlb[page] # Uncached
      why == IF ~cached THEN Refusal(cr, mem, page, access)
             ELSE IF RightsPermit(cr, m.tlb[page], access) THEN "none" ELSE "protection"
  IN  IF why # "none" THEN Refused(m, mem, page, why) ELSE Translated(m, mem, page, "none")

=============================================================================

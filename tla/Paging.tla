------------------------------- MODULE Paging -------------------------------
(***************************************************************************)
(* 32-bit paging, of crates/x86-mmu/src/paging/mod.rs and entry.rs: the    *)
(* walk of a directory and a table, the access rights, the accessed and    *)
(* dirty flags.                                                            *)
(*                                                                         *)
(* A linear address is its page, <<region, slot>>: bits 31:22 and 21:12.   *)
(* A physical page is a base; where it is the base of a table, the table's *)
(* entries are at <<base, slot>>, and a directory's at <<base, region>>.   *)
(* PWT, PCD and the PSE-36 address bits are left out, and so is CR4.PAE,   *)
(* which no guest can set (cr4_reserved_mask).                             *)
(***************************************************************************)
EXTENDS Integers

CONSTANTS
  Dirs,      (* bases of page directories                                   *)
  Tables,    (* bases of page tables                                        *)
  Frames,    (* bases of other physical pages                               *)
  Regions,   (* bits 31:22 of the linear addresses used                     *)
  Slots      (* bits 21:12 of the linear addresses used                     *)

ASSUME PagingAssumption ==
  /\ Dirs \cap (Tables \cup Frames) = {} /\ Tables \cap Frames = {}
  /\ Tables # {}

Page == Regions \X Slots

EntryAddr == (Dirs \X Regions) \cup (Tables \X Slots)

(* A Pde or a Pte.  large is a Pde's PS; pat is the bit that is reserved    *)
(* without PAT, bit 12 of a Pde that maps a page and bit 7 of a Pte.        *)
Entry ==
  [present : BOOLEAN, rw : BOOLEAN, us : BOOLEAN, accessed : BOOLEAN, dirty : BOOLEAN,
   large : BOOLEAN, global : BOOLEAN, pat : BOOLEAN, base : Tables \cup Frames]

(* The bits of CR0, CR3 and CR4 that a translation depends on.              *)
PagingContext ==
  [pg : BOOLEAN, wp : BOOLEAN, pse : BOOLEAN, pge : BOOLEAN, dir : Dirs]

(* A data access; an instruction fetch has the rights of a read.            *)
Access == [write : BOOLEAN, user : BOOLEAN]

MapsLargePage(cr, pde) == cr.pse /\ pde.large

PdeReserved(cr, pde) == MapsLargePage(cr, pde) /\ pde.pat
PteReserved(cr, pte) == cr.pse /\ pte.pat

PdeAddr(cr, page) == <<cr.dir, page[1]>>
PteAddr(cr, mem, page) == <<mem[PdeAddr(cr, page)].base, page[2]>>

(* The address of the entry that names the page frame.                      *)
FinalEntryAddr(cr, mem, page) ==
  IF MapsLargePage(cr, mem[PdeAddr(cr, page)]) THEN PdeAddr(cr, page)
  ELSE PteAddr(cr, mem, page)

(* Why a page has no translation, or "none" where it has one.               *)
WalkFault(cr, mem, page) ==
  LET pde == mem[PdeAddr(cr, page)]
      pte == mem[PteAddr(cr, mem, page)]
  IN  IF ~pde.present THEN "absent"
      ELSE IF PdeReserved(cr, pde) THEN "reserved"
      ELSE IF MapsLargePage(cr, pde) THEN "none"
      ELSE IF ~pte.present THEN "absent"
      ELSE IF PteReserved(cr, pte) THEN "reserved"
      ELSE "none"

(* What a walk yields for a page that has a translation.                    *)
Walk(cr, mem, page) ==
  LET final == FinalEntryAddr(cr, mem, page)
      used == {PdeAddr(cr, page), final}
  IN  [frame    |-> mem[final].base,
       large    |-> MapsLargePage(cr, mem[PdeAddr(cr, page)]),
       writable |-> \A a \in used : mem[a].rw,
       user     |-> \A a \in used : mem[a].us,
       global   |-> mem[final].global /\ cr.pge,
       final    |-> final]

Translation ==
  [frame : Tables \cup Frames, large : BOOLEAN, writable : BOOLEAN, user : BOOLEAN,
   global : BOOLEAN, final : EntryAddr]

(* Whether combined rights, of a walk or cached, permit an access.          *)
RightsPermit(cr, rights, access) ==
  /\ access.user => rights.user
  /\ access.write => rights.writable \/ (~access.user /\ ~cr.wp)

(* The flags an access that goes through leaves in the entries it used.     *)
CommitAccessedDirty(cr, mem, page, access) ==
  LET final == FinalEntryAddr(cr, mem, page)
  IN  [a \in DOMAIN mem |->
         IF a \in {PdeAddr(cr, page), final}
         THEN [mem[a] EXCEPT !.accessed = TRUE,
                             !.dirty = @ \/ (a = final /\ access.write)]
         ELSE mem[a]]

FaultReason == {"absent", "reserved", "protection"}

Fault(page, access, why) == [page |-> page, access |-> access, why |-> why]

(* The error code pushed for a page fault.                                  *)
ErrorCode(fault) ==
  (IF fault.why # "absent" THEN {"P"} ELSE {}) \cup
  (IF fault.access.write THEN {"WR"} ELSE {}) \cup
  (IF fault.access.user THEN {"US"} ELSE {}) \cup
  (IF fault.why = "reserved" THEN {"RSVD"} ELSE {})

(* Why the structures in memory refuse an access, or "none".                *)
Refusal(cr, mem, page, access) ==
  LET why == WalkFault(cr, mem, page)
  IN  IF why = "none" /\ ~RightsPermit(cr, Walk(cr, mem, page), access)
      THEN "protection" ELSE why
=============================================================================

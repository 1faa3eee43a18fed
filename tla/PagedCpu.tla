------------------------------ MODULE PagedCpu ------------------------------
(***************************************************************************)
(* The interpreter's memory path with paging in it, the PagedBus of        *)
(* crates/x86-interpreter/src/lib.rs, around the Mmu: accesses, stores     *)
(* that straddle two pages, INS repeated over pages, CMPXCHG8B, the        *)
(* restart of an instruction that page-faults, the loads of CR0, CR3 and   *)
(* CR4, INVLPG, and the reset of crates/machine-pc/src/lib.rs.             *)
(*                                                                         *)
(* One action is one instruction of the guest, one iteration of REP INSB,  *)
(* or one access of CMPXCHG8B.  The page-fault handler, its stack and the  *)
(* pages that map the paging structures are the guest's and always         *)
(* reachable.                                                              *)
(***************************************************************************)
EXTENDS Tlb, Sequences

CONSTANTS
  PagingGuests,   (* the kinds of guest, see Guest                          *)
  Buffer,         (* the pages a REP INSB fills, one byte of each in turn   *)
  Operand         (* the pages of the halves of a CMPXCHG8B's operand       *)

(* What a guest does: the pages it uses, what it stores in the paging       *)
(* structures, the directories it loads, and which other operations.        *)
Does ==
  {"store", "split", "user", "wp", "pse", "pge", "pg", "ins", "irq", "swap", "reset", "tasks"}

(* A directory's entry names a table, or a large page that begins at one.   *)
Edits == {x \in EntryAddr \X Entry : x[1][1] \in Dirs => x[2].base \in Tables}

Guest ==
  [pages : SUBSET Page, edits : SUBSET Edits, dirs : SUBSET Dirs, does : SUBSET Does]

Bytes == 1 .. Len(Buffer)

ASSUME PagedCpuAssumption ==
  /\ PagingGuests \subseteq Guest
  /\ Buffer \in Seq(Page) /\ Operand \in Page \X Page

NoTrap == [page |-> <<>>, code |-> {}]

VARIABLES
  guest,     (* the kind of guest                                           *)
  cr,        (* CR0, CR3 and CR4                                            *)
  user,      (* CPL 3                                                       *)
  mem,       (* the paging structures                                       *)
  mmu,       (* the Mmu                                                     *)
  job,       (* CX and DI of the REP INSB                                   *)
  restart,   (* the CX and DI a page fault in it restarts from              *)
  within,    (* where in an instruction of several accesses the CPU is      *)
  taken,     (* bytes read from its port                                    *)
  placed,    (* the buffer: which byte of the port each byte is, 0 for none *)
  swap,      (* the CMPXCHG8B: its operand's halves, whether they compared  *)
             (* equal, whether it is done                                   *)
  trap,      (* CR2 and the error code of the last page fault, until the    *)
             (* guest next makes an access that goes through                *)
  event      (* history: what the last action did to the TLB                *)

pagedVars ==
  <<guest, cr, user, mem, mmu, job, restart, within, taken, placed, swap, trap, event>>

portVars == <<job, restart, taken, placed>>

longVars == <<within, swap, portVars>>

Happened(kind, pages) == event' = [kind |-> kind, pages |-> pages]

NoEntry ==
  [present |-> FALSE, rw |-> FALSE, us |-> FALSE, accessed |-> FALSE, dirty |-> FALSE,
   large |-> FALSE, global |-> FALSE, pat |-> FALSE, base |-> CHOOSE t \in Tables : TRUE]

PagedInit ==
  /\ guest \in PagingGuests
  /\ \E d \in guest.dirs :
       cr = [pg |-> FALSE, wp |-> FALSE, pse |-> FALSE, pge |-> FALSE, dir |-> d]
  /\ user = FALSE
  /\ mem = [a \in EntryAddr |-> NoEntry]
  /\ mmu = NewMmu(cr)
  /\ job = [cx |-> IF "ins" \in guest.does THEN Len(Buffer) ELSE 0, di |-> 1]
  /\ restart = job /\ within = "none"
  /\ taken = 0 /\ placed = [i \in Bytes |-> 0]
  /\ swap = [low |-> "old", high |-> "old", equal |-> FALSE, done |-> FALSE]
  /\ trap = NoTrap
  /\ event = [kind |-> "other", pages |-> {}]

----------------------------------------------------------------------------
(* Accesses.                                                                *)

(* The Mmu an instruction starts with.                                      *)
Synced == SyncControlRegisters(mmu, cr)

DataAccess(write) == [write |-> write, user |-> user]

(* An access to one page does what the Mmu says; one that straddles two     *)
(* probes both before it translates either.                                 *)
TranslateSpan(m, pages, access) ==
  IF Len(pages) = 1 THEN Translate(m, cr, mem, pages[1], access)
  ELSE LET p1 == Probe(m, cr, mem, pages[1], access)
           p2 == Probe(m, cr, mem, pages[2], access)
           first == Translate(m, cr, mem, pages[1], access)
       IN  IF p1.why # "none" THEN p1
           ELSE IF p2.why # "none" THEN p2
           ELSE Translate(first.mmu, cr, first.mem, pages[2], access)

(* The rest of an instruction that page-faults: the registers go back to    *)
(* the restart point, CR2 and the error code tell the handler.              *)
PageFault(r, access) ==
  /\ mmu' = r.mmu /\ mem' = r.mem
  /\ trap' = [page |-> r.page, code |-> ErrorCode(Fault(r.page, access, r.why))]
  /\ user' = FALSE
  /\ Happened("fault", {r.page})
  /\ UNCHANGED <<guest, cr>>

GoesThrough(r, kind, pages) ==
  /\ mmu' = r.mmu /\ mem' = r.mem
  /\ trap' = NoTrap
  /\ Happened(kind, pages)
  /\ UNCHANGED <<guest, cr, user>>

DataInstruction(pages, write) ==
  LET access == DataAccess(write)
      r == TranslateSpan(Synced, pages, access)
  IN  /\ within = "none" /\ cr.pg
      /\ IF r.why # "none" THEN PageFault(r, access)
         ELSE GoesThrough(r, IF write THEN "store" ELSE "load",
                          {pages[i] : i \in DOMAIN pages})
      /\ UNCHANGED longVars

Load(page) == DataInstruction(<<page>>, FALSE)

Store(page) == "store" \in guest.does /\ DataInstruction(<<page>>, TRUE)

StoreSplit(first, second) ==
  "split" \in guest.does /\ DataInstruction(<<first, second>>, TRUE)

----------------------------------------------------------------------------
(* REP INSB.                                                                *)

(* Mutant: a loop that runs on when the count is 0.                         *)
CountLeftAlways(regs) == TRUE

CountLeft(regs) == regs.cx # 0

BeginIns ==
  /\ within = "none" /\ CountLeft(job)
  /\ within' = "ins" /\ restart' = job
  /\ mmu' = Synced
  /\ Happened("other", {})
  /\ UNCHANGED <<guest, cr, user, mem, job, taken, placed, swap, trap>>

(* Mutant: an iteration that is done is not made the restart point.         *)
CommitIterationNever(regs) == restart

CommitIteration(regs) == regs

(* With paging off every address is its own translation.                    *)
InsProbe(page, access) ==
  IF cr.pg THEN Probe(mmu, cr, mem, page, access)
  ELSE Translated(mmu, mem, page, "none")

InsWrite(page, access) ==
  IF cr.pg THEN Translate(mmu, cr, mem, page, access)
  ELSE Translated(mmu, mem, page, "none")

(* Probe the byte's page, read the port, write the byte, step DI and CX.    *)
InsIteration ==
  LET page == Buffer[job.di]
      access == DataAccess(TRUE)
      probe == InsProbe(page, access)
      write == InsWrite(page, access)
      refused == IF probe.why # "none" THEN probe ELSE write
      next == [cx |-> job.cx - 1, di |-> job.di + 1]
  IN  /\ within = "ins"
      /\ taken' = IF probe.why = "none" THEN taken + 1 ELSE taken
      /\ \/ /\ refused.why # "none"
            /\ PageFault(refused, access)
            /\ job' = restart /\ within' = "none"
            /\ UNCHANGED <<restart, placed>>
         \/ /\ refused.why = "none"
            /\ placed' = [placed EXCEPT ![job.di] = taken + 1]
            /\ GoesThrough(write, IF cr.pg THEN "store" ELSE "other",
                           IF cr.pg THEN {page} ELSE {})
            /\ job' = next /\ restart' = CommitIteration(next)
            /\ within' = IF CountLeft(next) THEN "ins" ELSE "none"
      /\ UNCHANGED swap

(* An interrupt taken before an iteration: REP resumes when the handler     *)
(* returns, with the registers it had.                                      *)
Interrupt ==
  /\ within = "ins" /\ "irq" \in guest.does
  /\ within' = "none" /\ user' = FALSE
  /\ Happened("other", {})
  /\ UNCHANGED <<guest, cr, mem, mmu, portVars, swap, trap>>

----------------------------------------------------------------------------
(* An application's CMPXCHG8B of an operand whose halves lie in two pages,  *)
(* with the old value of both in EDX:EAX and the new one in ECX:EBX: two    *)
(* reads, and two writes that write the value read back where it was not    *)
(* the expected one.                                                        *)

SwapAccess(at, half, write, next, done) ==
  LET access == DataAccess(write)
      r == Translate(Synced, cr, mem, Operand[half], access)
  IN  /\ within = at
      /\ \/ /\ r.why # "none"
            /\ PageFault(r, access)
            /\ within' = "none"
            /\ UNCHANGED swap
         \/ /\ r.why = "none"
            /\ GoesThrough(r, IF write THEN "store" ELSE "load", {Operand[half]})
            /\ within' = next
            /\ swap' = done
      /\ UNCHANGED portVars

Written(half) == IF swap.equal THEN "new" ELSE half

Cmpxchg8b ==
  /\ cr.pg /\ user /\ "swap" \in guest.does /\ ~swap.done
  /\ \/ SwapAccess("none", 1, FALSE, "readHigh", swap)
     \/ SwapAccess("readHigh", 2, FALSE, "writeLow",
                   [swap EXCEPT !.equal = swap.low = "old" /\ swap.high = "old"])
     \/ SwapAccess("writeLow", 1, TRUE, "writeHigh", [swap EXCEPT !.low = Written(@)])
     \/ SwapAccess("writeHigh", 2, TRUE, "none",
                   [swap EXCEPT !.high = Written(@), !.done = TRUE])

----------------------------------------------------------------------------
(* Control registers, INVLPG, the paging structures, the reset.             *)

(* on_mov_to_control_register, after the register itself has changed.       *)
ControlRegister(reg, m, old, new) ==
  SyncControlRegisters(
    CASE reg = 0 -> OnMovToCr0(m, old, new)
      [] reg = 3 -> OnMovToCr3(m, new)
      [] reg = 4 -> OnMovToCr4(m, old, new),
    new)

Privileged == within = "none" /\ ~user

Loads(new, m, kind) ==
  /\ cr' = new /\ mmu' = m
  /\ Happened(kind, {})
  /\ UNCHANGED <<guest, user, mem, trap, longVars>>

MovCr0(pg, wp) ==
  LET new == [cr EXCEPT !.pg = pg, !.wp = wp]
  IN  /\ Privileged
      /\ cr.pg /\ ~pg => "pg" \in guest.does
      /\ wp => "wp" \in guest.does
      /\ Loads(new, ControlRegister(0, Synced, cr, new),
               IF cr.pg /\ ~pg THEN "flush" ELSE "other")

MovCr3(dir) ==
  LET new == [cr EXCEPT !.dir = dir]
  IN  /\ Privileged
      /\ Loads(new, ControlRegister(3, Synced, cr, new), "cr3")

(* A hardware task switch loads CR3 and then sets CR0.TS.                   *)
TaskSwitch(dir) ==
  LET new == [cr EXCEPT !.dir = dir]
  IN  /\ within = "none"
      /\ Loads(new, ControlRegister(0, ControlRegister(3, Synced, cr, new), new, new), "cr3")

MovCr4(pse, pge) ==
  LET new == [cr EXCEPT !.pse = pse, !.pge = pge]
  IN  /\ Privileged
      /\ pse => "pse" \in guest.does
      /\ pge => "pge" \in guest.does
      /\ Loads(new, ControlRegister(4, Synced, cr, new),
               IF new # cr THEN "flush" ELSE "other")

Invlpg(page) ==
  /\ Privileged
  /\ mmu' = InvalidatePage(Synced, page)
  /\ Happened("invlpg", {page})
  /\ UNCHANGED <<guest, cr, user, mem, trap, longVars>>

EditEntry(a, e) ==
  /\ Privileged
  /\ mem' = [mem EXCEPT ![a] = e]
  /\ mmu' = Synced
  /\ Happened("other", {})
  /\ UNCHANGED <<guest, cr, user, trap, longVars>>

(* Back to the application the handler or the kernel runs for.              *)
ReturnToUser ==
  /\ Privileged /\ "user" \in guest.does
  /\ user' = TRUE
  /\ mmu' = Synced
  /\ Happened("other", {})
  /\ UNCHANGED <<guest, cr, mem, trap, longVars>>

(* The machine's reset: a new Mmu, paging off, memory as it was.            *)
Reset ==
  LET off == [cr EXCEPT !.pg = FALSE, !.wp = FALSE, !.pse = FALSE, !.pge = FALSE]
  IN  /\ within = "none" /\ "reset" \in guest.does
      /\ cr' = off /\ mmu' = NewMmu(off)
      /\ user' = FALSE /\ trap' = NoTrap
      /\ job' = [cx |-> 0, di |-> 1]
      /\ Happened("flush", {})
      /\ UNCHANGED <<guest, mem, restart, within, taken, placed, swap>>

----------------------------------------------------------------------------

PagedNext ==
  \/ \E p \in guest.pages : Load(p) \/ Store(p) \/ Invlpg(p)
  \/ \E p, q \in guest.pages : p # q /\ StoreSplit(p, q)
  \/ BeginIns \/ InsIteration \/ Interrupt \/ Cmpxchg8b
  \/ \E b, c \in BOOLEAN : MovCr0(b, c) \/ MovCr4(b, c)
  \/ \E d \in guest.dirs : MovCr3(d) \/ TaskSwitch(d)
  \/ \E x \in guest.edits : EditEntry(x[1], x[2])
  \/ ReturnToUser \/ Reset

PagedSpec == PagedInit /\ [][PagedNext]_pagedVars

----------------------------------------------------------------------------
(* Properties.                                                              *)

PagedTypeOK ==
  /\ guest \in PagingGuests
  /\ cr \in PagingContext /\ user \in BOOLEAN
  /\ mem \in [EntryAddr -> Entry]
  /\ mmu.tlb \in [Page -> TlbEntry \cup {Uncached}]
  /\ mmu.seen \in BOOLEAN /\ mmu.last \in PagingContext
  /\ \A r \in {job, restart} : r.cx \in 0 .. Len(Buffer) /\ r.di \in 1 .. Len(Buffer) + 1
  /\ within \in {"none", "ins", "readHigh", "writeLow", "writeHigh"}
  /\ swap \in [low : {"old", "new"}, high : {"old", "new"}, equal : BOOLEAN, done : BOOLEAN]
  /\ taken \in 0 .. Len(Buffer) /\ placed \in [Bytes -> 0 .. Len(Buffer)]
  /\ trap = NoTrap \/ trap.page \in Page

(* The cache keeps the rules software relies on.                            *)
Described(page) ==
  IF cr.pg /\ WalkFault(cr, mem, page) = "none" THEN Walk(cr, mem, page) ELSE Uncached

CachedTranslation(e) == [f \in DOMAIN e \ {"dirty"} |-> e[f]]

Contract == INSTANCE TlbContract WITH
  Pages <- Page,
  NoWalk <- Uncached,
  walk <- [p \in Page |-> Described(p)],
  cached <- {<<k, CachedTranslation(mmu.tlb[k])>> : k \in {p \in Page : mmu.tlb[p] # Uncached}}

(* What is cached was in the paging structures and is no older than the     *)
(* last thing that invalidates it: see TlbContract.                         *)
CacheKeepsContract == Contract!ContractSpec

(* Every access is exact.  One that page-faults leaves the structures       *)
(* unmarked, reports what they or a cached entry say, and is not refused    *)
(* again at that page once they permit it; a store leaves its page marked   *)
(* dirty unless it was cached so; and each byte INS reads from its port is  *)
(* in the buffer once, in its place, whatever faults came between.          *)
Faulting(t) == [write |-> "WR" \in t.code, user |-> "US" \in t.code]

FaultTrue ==
  LET p == trap'.page
      why == Refusal(cr, mem, p, Faulting(trap'))
  IN  IF mmu.tlb[p] # Uncached THEN trap'.code \cap {"P", "RSVD"} = {"P"}
      ELSE /\ why # "none"
           /\ "P" \in trap'.code <=> why # "absent"
           /\ "RSVD" \in trap'.code <=> why = "reserved"

FaultOnce ==
  trap.page = trap'.page => Refusal(cr, mem, trap'.page, Faulting(trap')) # "none"

StoreMarks(p) ==
  \/ mem'[mmu'.tlb[p].final].dirty
  \/ mmu.tlb[p] # Uncached /\ mmu.tlb[p].dirty

PortInPlace == \A i \in Bytes : placed[i] = IF i <= taken THEN i ELSE 0

Exact ==
  /\ event'.kind = "fault" => mem' = mem /\ FaultTrue /\ FaultOnce
  /\ event'.kind = "store" => \A p \in event'.pages : StoreMarks(p)
  /\ PortInPlace'

AccessExact == [][Exact]_pagedVars

(* A CMPXCHG8B that finds the value it expects, and whose operand nothing   *)
(* else writes, compares equal and stores both halves, whatever page faults *)
(* come between.  The comment on PagedBus (lib.rs:190) says what a restart  *)
(* cannot undo, a memory write, is only ever a stack write the retry        *)
(* repeats; the code's low half is read back by the retry.                  *)
SwapRestarts == swap.done => swap.equal /\ swap.low = "new" /\ swap.high = "new"
=============================================================================

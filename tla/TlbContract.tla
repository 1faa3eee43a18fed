----------------------------- MODULE TlbContract -----------------------------
(***************************************************************************)
(* What software may rely on in a TLB (the rules the comments of tlb.rs    *)
(* quote from the SDM): a translation is cached as the paging structures   *)
(* give it, may be dropped at any time, may outlive a change of the        *)
(* structures, and does not outlive what invalidates it: INVLPG or a page  *)
(* fault of any page of the translation, a load of CR3 where it is not     *)
(* global, a change of CR4.PGE or CR4.PSE, or the end of paging.           *)
(***************************************************************************)

CONSTANTS
  Pages,      (* linear pages, <<region, slot>>                             *)
  NoWalk      (* the walk of a page without a translation                   *)

VARIABLES
  event,      (* what the last step did: [kind, pages]                      *)
  walk,       (* what the structures give for each page                     *)
  cached      (* the pairs of a page number and a translation cached        *)

contractVars == <<event, walk, cached>>

ContractInit == cached = {}

Spans(t, key, page) == IF t.large THEN key[1] = page[1] ELSE key = page

Outside(pages) == {c \in cached : \A p \in pages : ~Spans(c[2], c[1], p)}

Use ==
  /\ event'.kind \in {"load", "store"}
  /\ walk' = walk
  /\ cached' \subseteq cached \cup {<<p, walk[p]>> : p \in {q \in event'.pages : walk[q] # NoWalk}}

Invalidate ==
  /\ event'.kind \in {"invlpg", "fault"}
  /\ walk' = walk
  /\ cached' \subseteq Outside(event'.pages)

LoadCr3 == event'.kind = "cr3" /\ cached' \subseteq {c \in cached : c[2].global}

Flush == event'.kind = "flush" /\ cached' = {}

Edit == event'.kind = "other" /\ cached' \subseteq cached

ContractNext == Use \/ Invalidate \/ LoadCr3 \/ Flush \/ Edit

ContractSpec == ContractInit /\ [][ContractNext]_contractVars
=============================================================================

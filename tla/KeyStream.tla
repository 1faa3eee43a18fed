----------------------------- MODULE KeyStream -----------------------------
(***************************************************************************)
(* What the keyboard path promises: the keys a user types wait in the      *)
(* controller, move one by one to the BIOS keyboard buffer or straight to  *)
(* a driver, and leave in the order they were typed.  No key is invented,  *)
(* doubled or overtaken; both places have a limit, and a reset empties the *)
(* controller.                                                             *)
(***************************************************************************)
EXTENDS Naturals, Sequences

CONSTANTS
  Key,               (* the keys                                            *)
  HeldCap,           (* keys the controller can hold                        *)
  BufferCap          (* keys the BIOS keyboard buffer can hold              *)

VARIABLES
  held,              (* keys waiting in the controller                      *)
  buffered           (* keys waiting in the BIOS keyboard buffer            *)

vars == <<held, buffered>>

Init == held = <<>> /\ buffered = <<>>

Type(k) ==
  /\ Len(held) < HeldCap
  /\ held' = Append(held, k)
  /\ UNCHANGED buffered

(* The oldest key leaves the controller: to a driver that reads the data    *)
(* port, or dropped where the buffer has no room for it.                    *)
Leave ==
  /\ held # <<>>
  /\ held' = Tail(held)
  /\ UNCHANGED buffered

Buffer ==
  /\ held # <<>> /\ Len(buffered) < BufferCap
  /\ held' = Tail(held)
  /\ buffered' = Append(buffered, Head(held))

Get ==
  /\ buffered # <<>>
  /\ buffered' = Tail(buffered)
  /\ UNCHANGED held

Reset ==
  /\ held' = <<>>
  /\ UNCHANGED buffered

Next ==
  \/ \E k \in Key : Type(k)
  \/ Leave
  \/ Buffer
  \/ Get
  \/ Reset

Spec == Init /\ [][Next]_vars
=============================================================================

---------------------------- MODULE TaskSegments ----------------------------
(***************************************************************************)
(* Hardware task switches: task_switch, its JMP, CALL and IRET forms, and  *)
(* LTR, of crates/x86-interpreter/src/lib.rs.                              *)
(*                                                                         *)
(* The memory of a switch is cells: of each task the link and the two      *)
(* halves of the context in its TSS, which may lie in two pages, and the   *)
(* busy bit in its descriptor.  A switch reads and checks first, stores    *)
(* cell by cell, and loads the registers last; a store may page-fault, and *)
(* then what was stored before it stays, the registers are as they were    *)
(* and the handler makes the page writable.  Contexts are tokens; CR3 is   *)
(* in ProtectedMode.                                                       *)
(*                                                                         *)
(* Descriptors are valid 32-bit TSSs of the GDT, and segments valid: a     *)
(* switch refused by them changes nothing.  The guest loads TR once and    *)
(* leaves NT to the switches.                                              *)
(***************************************************************************)
EXTENDS Naturals, Sequences

CONSTANTS
  Tasks,
  NoTask,     (* a null selector                                            *)
  Tokens      (* the values of half a context                               *)

ASSUME TaskAssumption == NoTask \notin Tasks /\ Tokens # {}

Cell == {"link", "low", "high", "busy"} \X Tasks

(* The page of a cell.                                                      *)
PageOf(cell) == IF cell[1] = "link" THEN <<"low", cell[2]>> ELSE cell

VARIABLES
  tr,         (* the task TR holds, NoTask before LTR; its cached type is   *)
              (* busy whatever the descriptor says                          *)
  regs,       (* the registers: the halves of a context, and EFLAGS.NT      *)
  seg,        (* the cells                                                  *)
  switch      (* the switch a page fault interrupted: its cause and target  *)

taskVars == <<tr, regs, seg, switch>>

NoSwitch == [cause |-> "none", to |-> NoTask]

FirstToken == CHOOSE v \in Tokens : TRUE

TasksInit ==
  /\ tr = NoTask /\ switch = NoSwitch
  /\ regs = [low |-> FirstToken, high |-> FirstToken, nt |-> FALSE]
  /\ seg = [c \in Cell |-> CASE c[1] = "link" -> NoTask
                             [] c[1] = "busy" -> FALSE
                             [] OTHER -> FirstToken]

----------------------------------------------------------------------------

(* Where a switch may go: JMP and CALL to an available task, IRET with NT   *)
(* to the busy one the link names.                                          *)
Target(cause, t) ==
  IF cause = "iret" THEN regs.nt /\ t = seg[<<"link", tr>>] /\ seg[<<"busy", t>>]
  ELSE ~seg[<<"busy", t>>]

Saves ==
  <<[cell |-> <<"low", tr>>, value |-> regs.low],
    [cell |-> <<"high", tr>>, value |-> regs.high]>>

(* Mutant: the task that returns stays busy.                                *)
MarksCallerOnly(cause, t) ==
  CASE cause = "call" -> <<[cell |-> <<"link", t>>, value |-> tr],
                           [cell |-> <<"busy", t>>, value |-> TRUE]>>
    [] cause = "jmp" -> <<[cell |-> <<"busy", tr>>, value |-> FALSE],
                          [cell |-> <<"busy", t>>, value |-> TRUE]>>
    [] cause = "iret" -> <<>>

Marks(cause, t) ==
  CASE cause = "call" -> <<[cell |-> <<"link", t>>, value |-> tr],
                           [cell |-> <<"busy", t>>, value |-> TRUE]>>
    [] cause = "jmp" -> <<[cell |-> <<"busy", tr>>, value |-> FALSE],
                          [cell |-> <<"busy", t>>, value |-> TRUE]>>
    [] cause = "iret" -> <<[cell |-> <<"busy", tr>>, value |-> FALSE]>>

Stored(stores) ==
  [c \in Cell |->
     IF \E i \in DOMAIN stores : stores[i].cell = c
     THEN stores[CHOOSE i \in DOMAIN stores : stores[i].cell = c].value
     ELSE seg[c]]

(* The store after the first n page-faults: its page is not one the switch  *)
(* has written.                                                             *)
Interrupted(stores, n) ==
  /\ n < Len(stores)
  /\ \A i \in 1 .. n : PageOf(stores[i].cell) # PageOf(stores[n + 1].cell)
  /\ seg' = Stored(SubSeq(stores, 1, n))
  /\ UNCHANGED <<tr, regs>>

Completed(cause, t, stores) ==
  /\ seg' = Stored(stores)
  /\ tr' = t
  /\ regs' = [low |-> seg[<<"low", t>>], high |-> seg[<<"high", t>>], nt |-> cause = "call"]

TaskSwitch32(cause, t) ==
  LET stores == Saves \o Marks(cause, t)
  IN  /\ tr # NoTask
      /\ switch \in {NoSwitch, [cause |-> cause, to |-> t]}
      /\ Target(cause, t)
      /\ \/ /\ Completed(cause, t, stores)
            /\ switch' = NoSwitch
         \/ /\ \E n \in 0 .. Len(stores) : Interrupted(stores, n)
            /\ switch' = [cause |-> cause, to |-> t]

(* LTR stores the busy bit before it loads TR.                              *)
Ltr(t) ==
  /\ tr = NoTask /\ ~seg[<<"busy", t>>]
  /\ seg' = [seg EXCEPT ![<<"busy", t>>] = TRUE]
  /\ tr' = t
  /\ UNCHANGED <<regs, switch>>

(* The handler does not return to the switch but lets the task go on.  Not  *)
(* where a JMP has cleared the busy bit of the task that runs: the code     *)
(* then lets that task be entered a second time.                            *)
GiveUp ==
  /\ switch # NoSwitch /\ seg[<<"busy", tr>>]
  /\ switch' = NoSwitch
  /\ UNCHANGED <<tr, regs, seg>>

Work ==
  /\ switch = NoSwitch
  /\ \E v \in Tokens : regs' = [regs EXCEPT !.low = v, !.high = v]
  /\ UNCHANGED <<tr, seg, switch>>

(* The guest stores the descriptor of a task it has given up.               *)
MakeAvailable(t) ==
  /\ switch = NoSwitch /\ t # tr
  /\ seg' = [seg EXCEPT ![<<"busy", t>>] = FALSE]
  /\ UNCHANGED <<tr, regs, switch>>

TasksNext ==
  \/ \E t \in Tasks :
       \/ \E cause \in {"jmp", "call", "iret"} : TaskSwitch32(cause, t)
       \/ Ltr(t) \/ MakeAvailable(t)
  \/ GiveUp \/ Work

----------------------------------------------------------------------------

TasksTypeOK ==
  /\ tr \in Tasks \cup {NoTask}
  /\ regs \in [low : Tokens, high : Tokens, nt : BOOLEAN]
  /\ \A t \in Tasks :
       /\ seg[<<"link", t>>] \in Tasks \cup {NoTask} /\ seg[<<"busy", t>>] \in BOOLEAN
       /\ {seg[<<"low", t>>], seg[<<"high", t>>]} \subseteq Tokens
  /\ switch \in [cause : {"none", "jmp", "call", "iret"}, to : Tasks \cup {NoTask}]

Promise == INSTANCE TaskContract WITH
  None <- NoTask,
  Contexts <- Tokens \X Tokens,
  running <- tr,
  busy <- {t \in Tasks : t = tr \/ seg[<<"busy", t>>]},
  context <- [t \in Tasks |-> IF t = tr THEN <<regs.low, regs.high>>
                              ELSE <<seg[<<"low", t>>], seg[<<"high", t>>]>>],
  returnTo <- IF regs.nt THEN seg[<<"link", tr>>] ELSE NoTask

(* A switch whose stores page-fault, and that is run again or given up,     *)
(* leaves no trace until its registers are loaded: descriptors, links and   *)
(* contexts are what whole switches would have left; see TaskContract.      *)
SwitchesWhole == Promise!ContractSpec
=============================================================================

---------------------------- MODULE TaskContract ----------------------------
(***************************************************************************)
(* What software may rely on in the hardware task switches of the          *)
(* interpreter: a switch happens as a whole or not at all, a task goes on  *)
(* with the context it was left with, a busy task is not entered again,    *)
(* and IRET goes back to the task that called.                             *)
(***************************************************************************)

CONSTANTS
  Tasks,
  None,       (* no task                                                    *)
  Contexts    (* what the registers of a task may hold                      *)

VARIABLES
  running,    (* the current task, None before the first                    *)
  busy,       (* tasks that are running or wait for the one they called     *)
  context,    (* the registers of each task                                 *)
  returnTo    (* the task IRET goes to, None where it is no task switch     *)

contractVars == <<running, busy, context, returnTo>>

ContractInit == running = None /\ busy = {} /\ returnTo = None

Run ==
  /\ \E c \in Contexts : context' = [context EXCEPT ![running] = c]
  /\ UNCHANGED <<running, busy, returnTo>>

Enter(t, left, back) ==
  /\ t \notin busy
  /\ running' = t /\ returnTo' = back
  /\ busy' = (busy \ left) \cup {t}
  /\ UNCHANGED context

(* Loading TR makes the program that runs task t.                           *)
Begin(t) ==
  /\ running = None /\ t \notin busy
  /\ running' = t /\ busy' = busy \cup {t} /\ returnTo' = None
  /\ \A u \in Tasks \ {t} : context'[u] = context[u]

Jump(t) == Enter(t, {running}, None)

Call(t) == Enter(t, {}, running)

Return ==
  /\ returnTo \in busy \ {running}
  /\ running' = returnTo /\ busy' = busy \ {running} /\ returnTo' = None
  /\ UNCHANGED context

(* The guest makes a task it has given up available again.                  *)
Reclaim(t) ==
  /\ t # running
  /\ busy' = busy \ {t}
  /\ UNCHANGED <<running, context, returnTo>>

ContractNext ==
  \/ running # None /\ (Run \/ Return \/ \E t \in Tasks : Jump(t) \/ Call(t))
  \/ \E t \in Tasks : Begin(t) \/ Reclaim(t)

ContractSpec == ContractInit /\ [][ContractNext]_contractVars
=============================================================================

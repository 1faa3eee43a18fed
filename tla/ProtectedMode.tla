---------------------------- MODULE ProtectedMode ----------------------------
(***************************************************************************)
(* Hardware task switches around the memory path: a switch stores through  *)
(* the paging of the task that is left, so its stores fault only with      *)
(* paging on, and loads CR3 and CR0.TS when they are all done.             *)
(***************************************************************************)
EXTENDS PagedCpu, TaskSegments

protectedVars == <<pagedVars, taskVars>>

ProtectedInit == PagedInit /\ TasksInit

Switching == switch' # NoSwitch

TasksRun ==
  /\ "tasks" \in guest.does
  /\ TasksNext
  /\ Switching => cr.pg
  /\ IF tr # NoTask /\ tr' # tr THEN \E d \in guest.dirs : TaskSwitch(d)
     ELSE UNCHANGED pagedVars

ProtectedNext ==
  \/ PagedNext /\ UNCHANGED taskVars
  \/ TasksRun

ProtectedSpec == ProtectedInit /\ [][ProtectedNext]_protectedVars

ProtectedTypeOK == PagedTypeOK /\ TasksTypeOK
=============================================================================

------------------------------ MODULE MCPaging ------------------------------
(* Instances of ProtectedMode: one region of two pages, two directories, a table *)
(* and a second one that is also where a large page begins.                 *)
EXTENDS ProtectedMode

CONSTANTS d1, d2, t1, t2, f1, f2, a, b, c

MC_Regions == {0}
MC_Slots == {1, 2}
MC_First == <<0, 1>>
MC_Second == <<0, 2>>

MC_Entry(base) ==
  [present |-> TRUE, rw |-> TRUE, us |-> TRUE, accessed |-> FALSE, dirty |-> FALSE,
   large |-> FALSE, global |-> FALSE, pat |-> FALSE, base |-> base]

MC_ReadOnly(base) == [MC_Entry(base) EXCEPT !.rw = FALSE]
MC_Kernel(base) == [MC_Entry(base) EXCEPT !.us = FALSE, !.global = TRUE]
MC_Absent == NoEntry

MC_Small(first, second) ==
  {<<<<d1, 0>>, MC_Entry(t1)>>} \cup
  {<<<<t1, 1>>, e>> : e \in first} \cup {<<<<t1, 2>>, e>> : e \in second}

MC_Guests ==
  {\* user pages, write protection, straddling stores
   [pages |-> {MC_First, MC_Second}, dirs |-> {d1}, does |-> {"store", "split", "user", "wp"},
    edits |-> MC_Small({MC_Entry(f1), MC_ReadOnly(f1)}, {MC_Entry(f2), MC_ReadOnly(f2)})],
   \* two address spaces, global pages
   [pages |-> {MC_First, MC_Second}, dirs |-> {d1, d2}, does |-> {"store", "pge", "pg", "reset"},
    edits |-> MC_Small({MC_Entry(f1), MC_Kernel(f1)}, {MC_Entry(f2)}) \cup
              {<<<<d2, 0>>, MC_Entry(t1)>>}],
   \* a large page and a table of small ones in its place
   [pages |-> {MC_First, MC_Second}, dirs |-> {d1}, does |-> {"pse", "store", "wp"},
    edits |-> {<<<<d1, 0>>, [MC_ReadOnly(t2) EXCEPT !.large = TRUE]>>,
               <<<<d1, 0>>, [MC_Entry(t2) EXCEPT !.large = TRUE, !.pat = TRUE]>>,
               <<<<d1, 0>>, [MC_Entry(t2) EXCEPT !.large = TRUE]>>, <<<<d1, 0>>, MC_Entry(t1)>>,
               <<<<t1, 1>>, MC_Entry(f1)>>, <<<<t1, 2>>, [MC_Entry(f2) EXCEPT !.pat = TRUE]>>}],
   \* REP INSB over both
   [pages |-> {MC_First}, dirs |-> {d1}, does |-> {"ins", "irq", "user", "pg"},
    edits |-> MC_Small({MC_Entry(f1), MC_Absent}, {MC_Entry(f2), MC_ReadOnly(f2), MC_Absent})],
   \* CMPXCHG8B across both
   [pages |-> {MC_Second}, dirs |-> {d1}, does |-> {"swap", "user", "pg"},
    edits |-> MC_Small({MC_Entry(f1)}, {MC_Entry(f2), MC_ReadOnly(f2), MC_Absent})],
   \* tasks
   [pages |-> {}, dirs |-> {d1}, does |-> {"tasks"}, edits |-> {}]}

MC_Buffer == <<MC_First, MC_First, MC_Second>>
MC_Tasks == {a, b, c}

MC_Operand == <<MC_First, MC_Second>>
=============================================================================

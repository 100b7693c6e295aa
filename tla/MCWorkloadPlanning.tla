------------------------- MODULE MCWorkloadPlanning -------------------------
(***************************************************************************)
(* Days of four minutes, with a configured budget of two and a default of  *)
(* three: tasks that fit, that cross midnight, that fill a day, without a  *)
(* duration, done, and of equal deadline, name or priority.                *)
(***************************************************************************)
EXTENDS WorkloadPlanning

Task(n, p, st, dl, du) ==
  [name |-> n, priority |-> p, status |-> st, deadline |-> dl, duration |-> du]

SomeTasks == {
  Task(1, "HIGH", "TODO", 7, 2),        Task(1, "HIGH", "IN_PROGRESS", 7, 2),
  Task(2, "HIGH", "TODO", 7, 3),        Task(2, "LOW", "TODO", 7, None),
  Task(2, "MEDIUM", "TODO", 5, 1),      Task(1, "LOW", "COMPLETED", 6, 3),
  Task(1, "LOW", "TODO", 9, 2),         Task(2, "HIGH", "TODO", 11, 3),
  Task(3, "MEDIUM", "CANCELLED", 10, 1), Task(3, "LOW", "IN_PROGRESS", 10, 1)}

SomeRanges == {<<4, 7>>, <<8, 11>>, <<4, 11>>}
=============================================================================

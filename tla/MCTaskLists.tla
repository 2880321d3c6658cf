----------------------------- MODULE MCTaskLists -----------------------------
(* A small instance of TaskLists.                                           *)
EXTENDS TaskLists, TLC

\* Comments are written on a task that only changes its executor.
Small ==
  comments # <<>> =>
    /\ task.status = "PREPARING" /\ task.finalDate = "null" /\ task.urgent = "false"
    /\ task.isCompanyAction = "false" /\ task.isExecutorApprove = "null"

Interchangeable == Permutations(Executor)
=============================================================================

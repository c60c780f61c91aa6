-------------------------- MODULE MCTasksWithWorker --------------------------
(* Small instances of TasksWithWorker: requests complete tasks, and a batch  *)
(* job opens them again.                                                     *)
EXTENDS TasksWithWorker, MCTasksService

\* A completed task, or an id for one
MCDoneTask == {(t1 :> Unborn), (t1 :> Task(u1, "COMPLETED", "MEDIUM", "old"))}

MCCompletion == {[status |-> "COMPLETED", priority |-> Null, details |-> "new"]}

MCReopening == BatchUpdate(u1, {t1}, [NoPatch EXCEPT !.status = "PENDING", !.details = "old"])

MCOtherJobs == {AnyOverdue, AnyCleanup, MCReopening}

=============================================================================

--------------------------- MODULE MCTasksService ---------------------------
(* Small instances of TasksService. *)
EXTENDS TasksService, TLC

CONSTANTS u1, t1, t2

EveryTask == [status |-> Null, priority |-> Null, search |-> Details]

Task(u, s, p, d) == [userId |-> u, status |-> s, priority |-> p, details |-> d]

\* A task, and an id for another one
MCOneTask == {(t1 :> Task(u1, "PENDING", "MEDIUM", "old")) @@ (t2 :> Unborn)}

\* A task of either priority, or an id for one
MCFirstTask == {(t1 :> Unborn), (t1 :> Task(u1, "PENDING", "MEDIUM", "old")),
                (t1 :> Task(u1, "PENDING", "HIGH", "old"))}

MCAnyFilter == {EveryTask}

\* A search for one of the texts
MCSearch == {[EveryTask EXCEPT !.search = {"old"}]}

\* A body with a title; the status and the priority it gives are the default ones
MCSent == {[status |-> Null, priority |-> Null, details |-> "new"]}

\* ... and one that gives another priority
MCSentOne == {[status |-> Null, priority |-> "HIGH", details |-> "new"]}

AnyRequest == Permutations(Reqs)

=============================================================================

------------------------------ MODULE TaskBoard ------------------------------
(***************************************************************************)
(* What the tasks module promises its callers about the table: every call  *)
(* that writes takes effect at one instant, as a whole, on the rows as     *)
(* they are at that instant, or not at all.                                *)
(***************************************************************************)
CONSTANTS Reqs, TaskIds, Row, Calls, NoCall, Null, Unborn, Deleted

VARIABLES
    rows,   \* the table
    asked,  \* per request: the call it is executing
    born    \* per request: the rows there were when it was called

Init ==
    /\ rows \in [TaskIds -> Row \cup {Unborn}]
    /\ asked = [r \in Reqs |-> NoCall]
    /\ born = [r \in Reqs |-> {}]

OwnRows(c) == {id \in c.ids : rows[id] \in Row /\ rows[id].userId = c.user}

Ask(r) ==
    /\ asked[r] = NoCall
    /\ UNCHANGED rows
    /\ \E c \in Calls : /\ asked' = [asked EXCEPT ![r] = c]
                        /\ born' = [born EXCEPT ![r] = OwnRows(c)]

\* The effects of calls, each as a whole

Create(r) ==
    LET c == asked[r] IN
    /\ c.op = "create"
    /\ \E id \in c.ids :
          /\ rows[id] = Unborn
          /\ rows' = [rows EXCEPT ![id] =
                [userId |-> c.user, status |-> c.patch.status, priority |-> c.patch.priority,
                 details |-> c.patch.details]]

Given(field, default) == IF field = Null THEN default ELSE field

\* Only the fields that the patch carries change
Update(r) ==
    LET c == asked[r] IN
    /\ c.op = "update"
    /\ \E id \in OwnRows(c) :
          rows' = [rows EXCEPT ![id] =
                [userId |-> c.user, status |-> Given(c.patch.status, rows[id].status),
                 priority |-> Given(c.patch.priority, rows[id].priority),
                 details |-> Given(c.patch.details, rows[id].details)]]

\* Rows that appeared after the call may or may not be among those it affects
Affected(r) == {S \in SUBSET OwnRows(asked[r]) : born[r] \cap OwnRows(asked[r]) \subseteq S}

Complete(r) ==
    /\ asked[r].op = "complete"
    /\ \E S \in Affected(r) :
          rows' = [id \in TaskIds |-> IF id \in S THEN [rows[id] EXCEPT !.status = "COMPLETED"]
                                      ELSE rows[id]]

Remove(r) ==
    /\ asked[r].op \in {"remove", "delete"}
    /\ \E S \in Affected(r) :
          rows' = [id \in TaskIds |-> IF id \in S THEN Deleted ELSE rows[id]]

\* A call ends with its effect, or without: an error, a read, or nothing to do
Return(r) ==
    /\ asked' = [asked EXCEPT ![r] = NoCall]
    /\ born' = [born EXCEPT ![r] = {}]
    /\ UNCHANGED rows \/ Create(r) \/ Update(r) \/ Complete(r) \/ Remove(r)

\* The process stops: every call ends without effect
Crash ==
    /\ asked' = [r \in Reqs |-> NoCall]
    /\ born' = [r \in Reqs |-> {}]
    /\ UNCHANGED rows

\* Another user of the table changes or deletes rows, and gives none away
Elsewhere ==
    /\ \A id \in TaskIds :
          \/ rows'[id] = rows[id]
          \/ rows[id] \in Row /\ rows'[id] = Deleted
          \/ rows[id] \in Row /\ rows'[id] \in Row /\ rows'[id].userId = rows[id].userId
    /\ UNCHANGED <<asked, born>>

Next ==
    \/ \E r \in Reqs : Ask(r) \/ Return(r)
    \/ Crash

vars == <<rows, asked, born>>

Spec == Init /\ [][Next]_vars

=============================================================================

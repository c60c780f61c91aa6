---------------------------- MODULE OverduePasses ----------------------------
(***************************************************************************)
(* TaskJobs, watched: which of the tasks that the last hourly pass counted *)
(* have not been processed by any job since.                               *)
(***************************************************************************)
EXTENDS TaskJobs

VARIABLE lastPass \* history: of the last run of the pass that counted

Pass == [missed: SUBSET Tasks, \* counted, open since, and not processed since
         batches: 0..TaskCount,
         jobs: SUBSET JobIds,
         others: BOOLEAN]      \* another task has become overdue since

NoPass == [missed |-> {}, batches |-> 0, jobs |-> {}, others |-> FALSE]

Opened == \E t \in Tasks : status[t] # "OPEN" /\ status'[t] = "OPEN"

Watching(missed, added) ==
    lastPass' = [lastPass EXCEPT !.missed = {t \in missed : status'[t] = "OPEN"},
                                 !.jobs = @ \cup added,
                                 !.others = @ \/ Opened]

NextWatched ==
    \/ \E f \in Firings :
          /\ Count(f)
          /\ lastPass' = IF firing'[f].pc = "idle" THEN lastPass
                         ELSE [NoPass EXCEPT !.missed = Overdue, !.batches = BatchCount]
    \/ \E f \in Firings :
          AddBatch(f) /\ Watching(lastPass.missed, {j \in Free : jobs'[j] # Null})
    \/ \E j \in JobIds, t \in Tasks :
          ProcessOverdueTask(j, t) /\ Watching(lastPass.missed \ {t}, {})
    \/ Elsewhere /\ Watching(lastPass.missed, {})

SpecWatched == Init /\ lastPass = NoPass /\ [][NextWatched]_<<vars, lastPass>>

Clean(j) ==
    jobs[j] # Null /\ jobs[j].state = "completed" /\ jobs[j].success /\ ~jobs[j].tasksFailed

\* overdue-tasks.service.ts:51: "Process in batches to avoid overwhelming the
\* queue".  When a pass has added all its batches, all of them have succeeded without
\* a failed task, and no other task has become overdue meanwhile, every task that
\* the pass counted has been processed.
PassCoversOverdue ==
    /\ Cardinality(lastPass.jobs) = lastPass.batches
    /\ ~lastPass.others
    /\ \A j \in lastPass.jobs : Clean(j)
    => lastPass.missed = {}

=============================================================================

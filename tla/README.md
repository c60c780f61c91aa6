# TaskFlow, specified

TLA+ specifications of the TaskFlow API (NestJS, TypeORM on Postgres, Redis,
BullMQ): what its services promise under concurrent requests, failures and
restarts, model-checked with TLC and proved with TLAPS.
Paths below are relative to the repository.

## 1. The system

| Component | State | Operations | Module |
|---|---|---|---|
| `CacheService` (`common/services/cache.service.ts`) | Redis keys, an in-process `Map` with expiry times, the flag `isRedisAvailable` | `get set delete clear has mget mset expire getOrSet invalidatePattern`, `connect`/`error` handlers, cleanup interval | `CacheService`, `CacheCalls`, `LossyCache` |
| `TasksService` (`modules/tasks/tasks.service.ts`) | rows of `tasks`; cached lists and statistics; jobs it adds | `create update remove batchProcess` (transactions), `findAllWithFilters getStatistics` (through the cache), `updateStatus` | `TasksService`, `TaskBoard`, `TasksWithWorker` |
| `AuthService` (`modules/auth/auth.service.ts`) | rows of `refresh_tokens` | `login register refreshTokens logout logoutAllDevices revokeToken`, cleanup of old tokens | `AuthSessions`, `Accounts` |
| `UsersService` (`modules/users/users.service.ts`) | rows of `users`: address, password, role, failures, lock | `create update remove updateLastLogin`; `incrementFailedLoginAttempts unlockUser suspendUser changePassword`, which nothing calls | `Accounts` |
| `RateLimitService`, `RateLimitGuard` | a sorted set in Redis, a `Map` of fixed windows, the flag | `checkRateLimit clearRateLimit`, cleanup interval | `RateLimit` |
| `OverdueTasksService` (`queues/scheduled-tasks`) | the flag `isProcessing` | five cron or manual methods that add jobs | `TaskJobs`, `OverduePasses` |
| `TaskProcessorService` (`queues/task-processor`) | none of its own; jobs are BullMQ's | `process` with seven handlers | `TaskJobs`, `OverduePasses`, `TasksWithWorker` |
| Guards, interceptors, filters, pipes, health, configuration, migrations | none that requests share | | not modelled (section 8) |

How they interact:

- a request passes the rate limit guard, then calls `TasksService` or `AuthService`;
- `TasksService` reads and invalidates the cache and adds jobs to the queue, both
  from inside its database transactions;
- the cron methods count tasks and add jobs; the worker runs them against the same
  table, and invalidates the same cache;
- cache and limiter each have their own connection to Redis and their own flag.

What is hard: every `await` lets another request in; reads, invalidations and
commits are separate awaits; Redis commands fail, or succeed without an answer;
the flag changes under a call; transactions wait for one another's rows; jobs
run at least once, overlap, and outlive the process; the clock passes limits
meanwhile. `PROJECT.json` lists each such hazard at its line with the properties
that are about it.

What makes each part right:

- cache: a read never answers with a value that was not put where it reads; an
  invalidation that the caller can tell from a failed one has happened;
- tasks: no update is lost, each call is atomic, cached answers agree with the
  table in what the code invalidates for, announced changes are the ones made;
- sessions: a limit per user in spite of stale counts, the newest are kept,
  a valid token can be refreshed;
- limiter: a bound on the milliseconds whose requests pass in a sliding window, however
  scripts are delayed, one on the requests in fixed windows, and reset times that hold;
- accounts: one account per address, a lock that outlives stale writes, a login
  judged fairly although its row is old;
- jobs: every job ends and uses its attempts, one pass at a time, a pass
  reaches every overdue task, and handlers leave the cache right.

## 2. Modules

    LossyCache <--refines-- CacheCalls --extends--> CacheService <--instance-- TasksService --refines--> TaskBoard
    CacheCallsProofs --extends--> CacheCalls
    CoherenceProofs --extends--> TasksServiceProofs --extends--> TasksService <--extends-- TasksWithWorker
    WorkerProofs --extends--> TasksWithWorker, CoherenceProofs
    AuthSessionsProofs --extends--> AuthSessions
    AccountsProofs --extends--> Accounts
    RateLimitProofs --extends--> RateLimit
    OverduePasses --extends--> TaskJobs <--extends-- TaskJobsProofs

The modules whose names begin with `MC` name finite constants and symmetry sets; `TaskJobs` and `OverduePasses` need none. Actions
have the names of the methods they model, or of the statement when a method has
several awaits. Definitions marked "(mutant: ...)" belong to no specification:
each is a plausible slip in the definition below it, named in `PROJECT.json`,
and TLC finds the listed property violated when it replaces that definition.
Variables commented "history" are read by properties only.

### CacheService, CacheCalls, LossyCache

`redis` and `fallback` map the full keys to values or `Null`; `lapsed` are keys of
the `Map` whose `expiresAt` has passed and that nobody has met yet (Redis drops
such keys itself, `LapseInRedis`). An operation is an action with its reply as a
parameter. A Redis command is executed or not and answered or not (`Ends`): an
unanswered one may have been executed, as with `commandTimeout`. The two tiers
never meet; a failover exchanges them.

`CacheCalls` calls every operation at any time. `clear`, `invalidatePattern`
(KEYS, then DEL) and `getOrSet` (get, factory, set) are two actions each. `Outcome` is
what the caller learns: `clear` throws an error on, `invalidatePattern` returns the number of
keys and answers an error with 0, as if nothing had matched ("nothing"). Targets
give separately what KEYS matches and what the loop over the `Map` matches, since
the code computes them differently.

`LossyCache` is what a caller may count on: two stores, of which the one in use
answers with the value last put into it or with a miss, either of which may forget
anything, and nothing is written to the other one.

### TasksService, TaskBoard

`rows` is the committed table, `writes[r]` what the open transaction of request `r`
has written, `req[r]` where the request is and its local variables. A row with a
pending write is locked; a statement that waited for it acts on the row as it is
afterwards (READ COMMITTED), one row at a time, so that two batches can wait for
each other; Postgres then aborts one (`DeadlockAbort`). `InvalidateStats`,
`InvalidateLists` and `DeleteLists` are the awaits of `invalidateUserCache`, with
the operations of `CacheService`; `Enqueue` is `taskQueue.add` and `Commit` the end
of the transaction. The statuses and priorities that the DTOs fill in are in `Dto`.
A row has its status, its priority and `details`, one value for title, description and due
date: a search (`search` of a filter) is the set of details it matches, and `Overdue` are those whose
due date has passed, which the statistics count. `update` compares status and priority
(`Reread`), so that a change of details alone goes to its COMMIT without an invalidation;
the history `edited` holds the tasks it happened to since the user's entries were last gone.
`Begin` gives `create` the next fresh id, as uuids are.

`findOne` returns what it finds and shares nothing, and `findAll`, `findByStatus` only read: no action.

`TaskBoard` is the table as its callers see it: each call takes effect at one instant
or has no effect (`Return`). Rows that appear after a batch was called may or may not be in
it. `Elsewhere` is what another user of the table may do between calls, whatever the program:
change or delete rows, but neither bring one back nor give it to somebody else.

### TasksWithWorker

The composition of requests, worker, cache and queue. `jobs[j]` is a job with the rows and
users it is about; a request's `Enqueue` puts one there inside its transaction, and
`OtherJobs` are those of the cron or of another release. A handler is an action per
statement: `FindOverdue` and `Touch` (one row at a time, as `Promise.allSettled` lets them
end in any order), `FindBatch` and `UpdateBatch`, `HandleCleanupCompletedTasks`, and then
`WorkerInvalidatesStats`, `WorkerInvalidatesLists`, `WorkerDeletesLists` per user,
interleaved among users. Whether a job that throws is tried again is left open here: that is
`TaskJobs`' subject, and both outcomes are checked. `task-status-update` is a call of
`updateStatus`, an operation of `TasksService` already. The handler of `task-created` would
set a priority on a task without one, which the column does not allow; that branch is left out.

Here the cache fails too. The history variable `left` holds the entries of either tier that
an invalidation, a request's or the worker's, was to remove and that are still there as
they were: one that fails, that meets the other tier, or whose pattern does not match
leaves entries. A step of any other kind adds nothing to `left`. `adder` is history as well: the
request that added a job, for as long as its transaction is open.

### AuthSessions

`rows[u]` are the user's tokens, named by their place in the order of issue (which is
`createdAt`'s order); `lapsed` says how many of the first tokens are past their
seven days. No method is a transaction: each statement is an action. `Save` is the
insertion, `Purge`, `Count`, `FindOldest`, `RemoveOldest` the awaits of
`cleanupOldTokens`. `Matches` is the lookup by the token as presented; since rows
hold digests, only rows from before the hashing (`Legacy`, `LegacyIssued`) can match.
In a database that this code alone has written, `Rotate` and `Drop` never happen:
the finding `sessions_refresh`. They are modelled and checked from legacy rows.

### Accounts

`users[id]` is a row; an id is given once. No call is a transaction. `Holders` is
`findByEmail`; a spelling's lower case is a constant, and so is the set of passwords that
`validatePasswordStrength` refuses. `FindByEmail` copies the row into the request, and
`Verdict` and `Bump` act on the copy. `Write` is the `UPDATE ... WHERE id` of `update`,
`Patched` the body that the DTO has filled in. `Ops` says which operations are called: the
routes of the program, or also the methods that nothing calls, whose first caller would
rely on them. `ledger` and `through` are history: the password set last, the failures
counted since the last reset, whether two counts have overlapped, and whether the account
of a login has been open, or locked, at every moment since the login began.

### RateLimit

One identifier (keys of different identifiers share nothing). `sent[r]` is the clock
reading of a script on its way; `RunScript` runs the whole Lua script at once, later,
and the answer is lost if the command fails or is later than `MaxDelay`
(`commandTimeout`), in which case the guard lets the request pass. A member of the
sorted set is its millisecond, so that requests of the same millisecond are one
member, as in the code. All processes share one clock.

### TaskJobs, OverduePasses

`jobs` is the queue: a job per slot with its attempts, its errors and where it is;
`firing` are runs of the hourly cron method; `isProcessing` its flag. All tasks are
past their due date and numbered by it; a task whose date passes is one that opens.
`Throw` is the catch of `process`, which decides on a retry, together with BullMQ's
own count. `CountsStart` says when BullMQ counts a run: when it starts, as in version 4,
which `package.json` and `bun.lock` name, or when it fails, as the log lines of `process`
read it. `Stalled` is what BullMQ does to a job whose
process has gone. Backoff, delay, priority and the worker's limiter only postpone:
`Start` may happen at any time. What a handler does to rows and
cache is in `TasksWithWorker`. `OverduePasses` adds the history of the last pass.

## 3. Runs

| Run | Instance | What it shows |
|---|---|---|
| `cache_contract` | 2 keys, 2 values, 1 client in a two-await call among calls of everyone else, Map limit 1, failures, failovers, restarts | `CacheCalls` implements `LossyCache`; `InvalidatedIsGone` |
| `tasks_coherent` | 1 user, 1 task (there or not, of either priority), 2 requests, all operations, a PATCH of the title, a list that searches for the old one, failing statements | `NoLostUpdate`; `CoherentUnlessOverlapped`; `AnnouncedUnlessOverlapped` |
| `tasks_atomic` | 1 user, a task and a free id, 2 requests that write, failing statements and adds, restarts, deadlocks; fair | `TakesEffectAtOnce`, the refinement of `TaskBoard`; `EveryCallReturns` |
| `tasks_stale` (violated) | 1 user, a list and a removal | `CacheAgreesAtRest`: the cache is invalidated before the COMMIT |
| `sessions` | 1 user, 2 calls, limit 2, 5 tokens, failing statements, revocations | `SessionCap`, `CapInv`; `KeepsNewest` |
| `sessions_refresh` (violated) | 1 call | `LiveTokenRefreshes`: a token just stored cannot be refreshed |
| `rate_limit` | limit 2, window 4, delay 1, 2 requests, moments 0 to 5 | `MillisecondsInWindow`, `LimiterInv`, `FixedWindows`, `ResetTimeHolds` |
| `tasks_worker` | 1 user, 1 task, 1 request at a time that reads, creates or updates, 1 job at a time: one that a request added, the overdue pass, a cleanup, a batch that reopens tasks; failing statements, cache commands and adds; restarts that come up with Redis or without | `StaleOnlyIfLeft`, `RepairsAfterCommit`, `NoLostUpdate`, `TakesEffectAmongHandlers` |
| `accounts` | 2 spellings of one address and another, 2 requests, 2 accounts, the routes' operations, failing statements | `OnePerAddress`, `RemovedStaysRemoved` |
| `accounts_locks` | 1 account, 2 passwords, limit 2, 2 requests: logins, counts, locks, suspensions, changes of password | `FailuresCounted`, `LockHolds`, `RightfulLogin`, `LockedOut` |
| `jobs` | 1 task, 2 job slots, 2 firings, batches of 1, errors, restarts, BullMQ 4's count; fair | `OnePassAtATime`, `AllButOneUsed`; `EveryJobEnds`, `EveryPassEnds` |
| `jobs_batches` (violated) | 2 tasks, 2 job slots, nothing fails | `PassCoversOverdue`: every batch takes the same tasks |

The violated runs each check one claim that the repository makes of itself and the
code does not keep; `findings` in `PROJECT.json` quotes the claim and tells the run. Other
claims of that kind, which need no interleaving to see, are in section 9.

Bounds, and why they are enough:

- Two requests. Every property of one user relates a call to at most one other at a
  time: a reader and a writer, two writers, two logins. Deadlock needs two. Keys of the
  cache name their user, so that one user stands for each. What needs many (the limits of sessions and of the limiter) is proved for any number.
- One or two tasks. One is enough for lost updates and stale entries; two for
  batches that lock in different orders and for batches that miss a task. `Filters` holds one
  list, beside the statistics: in `tasks_coherent` a search, which a change of the title takes the
  task out of; elsewhere the unfiltered one. In the theorems `Filters` is any set.
- Bodies (`Sent`). `tasks_coherent` has one that gives a title only. On a pending task of
  medium priority it changes the details alone, and on one of high priority the priority too,
  through the default of the DTO: both branches of `Reread` occur. The details are two, the old
  ones overdue. The bodies of `tasks_atomic` give a priority too, those of `tasks_worker` the
  status COMPLETED, and the batch job there opens tasks again and gives back the old details.
- `MaxIssued`: two logins past the limit, so that two cleanups overlap.
- `MaxNow`: a window and a half, so that members leave the window while scripts
  sent before are on their way, and two fixed windows touch. It stops the clock,
  which is why this run alone does not check deadlock.
- `JobIds` in `TaskJobs`: fewer slots than the worker's five at once, so that `Start` needs no
  limit. A full queue is one where `add` fails, which every caller survives. A pass
  of several batches occurs in `jobs_batches`.
- `tasks_worker` has one request at a time: two overlapping ones are the subject of
  `tasks_coherent`, and here the second actor is the worker, the third one Redis. One job
  slot lets a handler overlap any number of requests; two handlers at once do not occur in
  the run (`StaleOnlyIfLeft` and its invariant were also checked with two slots, which takes
  longer than a run should) and any number in the theorems. Removals by requests are left to
  `tasks_coherent`, since here a cleanup deletes rows under a request, which is the harder case
  (the four properties were checked with removals too, and `TakesEffectAmongHandlers` with two tasks,
  two requests and batches). In the theorems `Ops` is any set of operations, but for
  `AtomicAmongHandlers`, which excludes `updateStatus`. The
  tier in use changes when the process stops, not under a call: that is in `cache_contract`.
- `accounts`: a registration, an update and the spelling of the other one need two
  requests. `accounts_locks`: two counts that overlap, or a count and a login that resets.
  `MaxAttempts` is 2 (the code: 5), so that a lock needs a second failure; `MaxFailed` stops the
  count there. The theorems have any number of requests, addresses and failures.

Deadlock is checked in every other run.

## 4. What the properties mean

- `CoherentUnlessOverlapped` has a proviso: no writing request of the user overlapped
  another request of the user since the user's cache was last empty. Without it the
  statement is `CacheAgreesAtRest`, which fails. The proviso makes the invalidation
  itself the subject: each write that changes a status or a priority, adds a row or removes one
  removes every entry it makes wrong, among
  retries, expiries, failed statements and the other operations. A write that changes a title, a
  description or a due date and nothing else removes none (section 9). So entries may show
  any details of such a task (`Boards`, `MayShow`): in a list, in what a search finds and in the
  overdue count. The task's status, its priority, its being there at all, and everything of
  the other tasks have to be right, and the excuse ends when the user's cache is empty again. The
  cache's commands do not fail in these runs: a failed invalidation is logged and the
  entry left until its ttl.
- `NoLostUpdate` speaks of transactions. `updateStatus` is none; it may undo another
  request's change, and the model lets it. Only the legacy job `task-status-update` calls it. In
  `tasks_worker` the rows are changed and deleted by handlers between the awaits of the transaction.
- `TakesEffectAmongHandlers` is the refinement of `tasks_atomic` with the worker there. The
  handlers are not atomic: a batch finds rows, updates them an await later and invalidates
  after that, and each of its statements is seen at once. What the property asks is that this
  stays their own affair: a call that handlers have run into still has its whole effect
  at its COMMIT, on the rows as handlers have left them by then, and has no part of it before;
  and no handler brings back a row that a cleanup, or a call, has deleted.
  With an `update` that saved the entity it found, the cleanup is what breaks it.
- `StaleOnlyIfLeft` is what remains of coherence when Redis fails and the worker takes part:
  no step forgets an entry, each half of each invalidation is attempted. It has the excuse for
  details of `CoherentUnlessOverlapped`. It also excuses a user
  whose request overlapped a handler that changes the user's rows, as
  `CoherentUnlessOverlapped` does (two handlers at once are no excuse: neither fills the
  cache), one whose handler (or `updateStatus`) was stopped
  between its commit and its invalidation, and one whose tasks a cleanup deleted, until the
  user's cache is empty again.
- `RepairsAfterCommit` says why the early invalidation of section 3's `tasks_stale` does
  less harm than it could: the job of a creation or a completion invalidates once more,
  after the COMMIT, or while the transaction has written nothing (an `update` whose row was deleted
  under it and put back by `updateStatus`). The job of another change of status invalidates too,
  but waits for no row, and deletions add no job.
- `FailuresCounted` and `LockHolds` are about methods without a caller. Counts
  that overlap are lost, which the proviso says; a lock is not.
- `RightfulLogin` and `LockedOut` ask only about logins during which the account was open,
  or locked, all along: in between either answer is right.
- `AnnouncedUnlessOverlapped` has the same proviso: the `oldStatus` of a job is read
  without a lock.
- `SessionCap` excuses a user between a cleanup that an error cut off, or a
  revocation that re-inserted an evicted row, and the next stored token.
- `InvalidatedIsGone` asks of `invalidatePattern` only when it returned a count above 0. From
  a 0 its caller cannot tell an error from an empty list: the entries may all be there.
- `MillisecondsInWindow` is no bound on requests. A member of the set is its millisecond, so
  that the requests of one millisecond pass or not as one (section 9). It also shortens the window
  by the longest delay. Both are what the script achieves. `FixedWindows` counts
  requests and allows twice the limit, which is reached at a boundary.
- `AllButOneUsed` exempts `review-stale-tasks`, which no handler knows, and jobs that stalled
  too often. With BullMQ 4 the last attempt is never made (section 9); the property says that
  no more than that is lost.

## 5. Fairness

- `TasksService` (`tasks_atomic`): strong fairness of each request's own next step.
  Every await of the code is answered by the database, Redis or the queue. Only
  a statement that waits for a row can be disabled again and again, and Postgres
  queues those that wait. No fairness of errors, restarts or arrivals.
- `TaskJobs` (`jobs`): weak fairness of the pass's own awaits, of `Start` (the worker
  takes what waits) and of each handler. No fairness of the cron, of errors or of
  crashes. A job survives any number of crashes only as often as `maxStalledCount`
  allows, which is why the liveness holds without a bound on crashes.

The other specifications have safety properties only, and no fairness.

## 6. Proofs

The theorems hold for every value of the constants that satisfies the named
assumptions, which say no more than that a set is finite, a limit positive, a marker
not a value, a window not longer than its expiry. TLC evaluates the assumptions in
the runs.

- `CacheCallsProofs`. `TypeCorrect`. `InvalidationHolds`: strengthened by what a call
  between its two awaits knows: a key of its target that Redis holds is in its list or
  was stored since it began. `Implements`: the initial states map to initial
  states and every action to a step of `LossyCache` or a stutter; a lemma per action,
  by cases on the tier in use.
- `AuthSessionsProofs`. `CapHolds`: `CapInv` is not inductive by itself only for
  the types of the rows; given `TypeOK` it is. Its third alternative, `WillTrim`, says
  why the cap is safe with stale counts: rows are only added by `Save`, whose own
  cleanup is then still to count. The lemmas bound the cardinality of a set of rows
  without its oldest. `SessionCapHolds` follows. `NewestKept` needs `AloneInv`: a call that
  none has overlapped is the only one, so that its count and what it found are those of
  the rows as they are when it deletes.
- `RateLimitProofs`. `LimiterInv` is inductive with `TypeOK`. `MillisecondsInWindow` alone is
  not: a script may forget a member that a later one has to count. `Remembered`
  says that none is forgotten within its window, `ExpiryCovers` that the
  expiry of the whole set does not forget one either, `Bounded` that the set has at most
  `Limit` members; a window's milliseconds are then members of the set at the moment the
  latest of them was let pass. `Promised` adds that a refusal's reset time has room,
  from which `ResetTimeCorrect`. `FixedWindowsHold` needs `WindowsInv` besides: a request has
  a place in the count of its window, from 1 to the limit; of three requests that had the
  same place, the first and the last are at least `Window` apart. A stretch shorter than that then
  holds at most two requests per place, which the lemma `TwicePerPlace` counts.
- `TasksServiceProofs`. `NoLostUpdate` is not inductive: that the statement of a
  transaction meets a row of its caller's, although the row was found awaits ago without a
  lock, rests on `Owned`: a row never changes hands, not even over its deletion, and what a request
  counts on agrees with the row and with what every other one counts on (`updateStatus`
  may bring a row back, but only for the owner it had). `Fresh` says that the id of
  a pending creation is unborn and nobody else's, `Shape` at which labels a request can
  be with which call and what it has written by then. `NoUpdateIsLost` follows, and with
  the types of the cache, which get what the queries return (`ViewType`), `TypeCorrect`.
  TLC checked the invariant on the instances of `tasks_coherent` and `tasks_atomic` first.
  `ImplementsTaskBoard`: a step of a request ends it without effect,
  goes on unseen, or is its COMMIT (`Kinds`), and a COMMIT is a step of `TaskBoard`. For the batches
  this needs `BoardInv`: of the rows that were its user's when it was called,
  those still there are written or still to be written. The theorem assumes that
  `updateStatus` is not called: its `save` can bring back a row that a batch has found gone,
  and the batch then has not affected a row that it should have. The run has the same proviso.
- `CoherenceProofs`. `CacheCoherent` and `UpdatesAnnounced` assume `Answered`: no command of
  Redis and no `add` fails, the tier stays Redis, the process does not stop; statements may
  fail. `CoherentUnlessOverlapped` speaks of users without requests; `CoherenceInv` says what
  holds while they have some, of a user whose requests have not overlapped (`Undisturbed`). An
  entry agrees with the table at every moment, or `updateStatus`, which writes before it
  invalidates, has still to remove it (`Agrees`, `Left`); what a read has read is what the
  query would still return (`ReadsNow`); what an invalidation has been over is empty, or the
  COMMIT changes nothing (`Cleared`); the row that `update` found is the row as it is
  (`FoundNow`), so that its job tells the truth (`Tells`). `HarmlessShows` has the COMMIT of an
  update that has not invalidated: what agreed with the table before it agrees with it after it,
  but for the details of the task, which is then in `edited`. Steps of other users' requests
  are no part of it (`Aside`), for which the proof needs that rows do not change hands. TLC checked
  the invariant on the instance of `tasks_coherent` first, without its symmetry.
- `WorkerProofs`. The same table under any number of requests, jobs and handlers, with a cache
  that fails at will: no assumption like `Answered` is made. `WorkerLosesNoUpdate` and
  `TypesTogether` need `SoundTogether`: the invariant of `TasksServiceProofs`, the
  types of the cache and `JobsInv`. A batch or a cleanup keeps off locked rows and changes no
  owner, so that it disturbs a transaction no more than the COMMIT of another one (`WorkerWrites`).
  `RepairsComeAfter` follows from the part `Added` of `JobsInv`, where a job can be whose
  transaction is open: before `findOne`, which does not see the row of an open creation
  (`NotYetThere`), or before the `UPDATE`, which waits for the row of an open completion
  (`NotYetFree`); a transaction that has written nothing (`NoWrites`) has nothing to come before.
  `NothingForgotten` needs `TendedUnlessTroubled`: of a user who is not
  excused, an entry agrees with the table, or is in `left`, or is still to be removed by an
  `updateStatus` or a batch handler, which change rows before they invalidate (`Accounted`,
  `ToRemove`, `ToRemoveBy`). This is `CoherenceInv` with `left` in the place of what a failed
  command did not remove (`Gone`): `Steady` puts `ReadsNow`, `FoundNow` and `BeenOver` together.
  TLC checked both invariants first, with one job slot and with two.
  `AtomicAmongHandlers` is `ImplementsTaskBoard` once more: `BoardInv` and the lemmas about steps
  of requests are stated for any step that `Acts` on the table (`BoardAct`, `ActsOnBoard`), so that
  what is left are the two statements of handlers that change rows (`HandlersOnBoard`). They keep
  owners and bring nothing back, which is what `ReachesKept` asks so that a batch under way
  still counts on the right rows. It has the proviso of `ImplementsTaskBoard`.
- `AccountsProofs`. `AddressesUnique` needs `AddressesLower`: what is stored is in lower
  case, so that the index compares what toLowerCase would. `CountsAddUp` and `LocksHold` need
  `CountInv`: until two counts overlap, the row read by a count under way is the row as it is.
  `RightfulLoginsPass` and `LockedOutAlways` need `LoginInv`: while the account has been open
  (locked) all along, so is the copy that will be judged; and that digests
  follow the password set last (`DigestsAgree`).
- `TaskJobsProofs`. `OnePass` needs only that the flag and the passes move together,
  but for the last batch: `PassInv` adds that a pass that adds has one left, which the
  lemma `CeilBounds` gives for the count of batches. `AllButOne` holds for either count of
  runs. The module also proves `AttemptsUsed`: `EveryAttemptUsed`, that no attempt is lost, if
  runs are counted when they fail. No run checks it, since BullMQ 4 counts otherwise. Neither is
  inductive: `JobsInv` adds that a job that is not over has had as many errors as attempts made,
  one attempt left, no more attempts than the worker retries (`AttemptsAssumption`:
  every `add` gives at most three) and stopped under a worker at most `MaxStalled`
  times. TLC checked this invariant on the instance of `jobs` before it was proved.

Checked only by TLC: liveness (`EveryCallReturns`, `EveryJobEnds`, `EveryPassEnds`), which
is out of the prover's reach. Every invariant and every other property of a passing run is
stated by a theorem; those of the violated runs are false.

## 7. Plan

Done: the modules above, in this order: cache, tasks over the cache, sessions,
limiter, jobs; then either count of `attemptsMade`, tasks over a failing cache, tasks with
the worker, accounts; the proofs about tasks, their cache, their worker and fixed windows; one abstract specification each for cache and tasks; the proofs of
section 6.

Next: the cache under two processes of the service, with one Redis, two Maps and two flags.

## 8. Not modelled

- The logging interceptor, exception filter, validation pipe, decorators and utilities:
  formatting of one request. The roles guard and JWT strategy: a check of one request.
- `CacheInterceptor`: no controller applies it.
- Health checks and statistics of the services: they only read.
- The dead letter queue: registered and configured, but no code moves a job there. What it
  would be filled from is in section 9.
- Access tokens and `validateUser`: a signature, and one row read for one request.
- Migrations, seeds, bootstrap: they run before the service. (`data-source.ts` lists the
  initial schema alone, so that `refresh_tokens` and the columns of the lock come from
  `synchronize` in development only; nothing concurrent depends on it.)
- Of cached lists: `updatedAt`, which every UPDATE sets, the sort order and the division into
  pages, and the name, address and role of the owner, which a change of the user's account does not
  invalidate. Of statistics: due dates that pass while an entry lives.
- Postgres, Redis, ioredis, TypeORM and BullMQ are external, modelled as the code
  uses them: row locks and READ COMMITTED, commands that fail or time out, `save`
  that loads before it writes, jobs that run at least once.

## 9. Disagreements seen while modelling

No run is spent on these: each shows in one call, or follows from a line or two.

- PATCH of a task resets what it does not mention. `UpdateTaskDto` inherits the initial
  values of `CreateTaskDto` (`update-task.dto.ts:3`, `create-task.dto.ts:39`), the validation pipe
  fills them in (`main.ts:16-25`), and `update` copies each value that is not undefined
  (`tasks.service.ts:201-204`). `Dto` of `TasksService` has it so.
- PATCH of a user resets the role in the same way (`update-user.dto.ts:4`,
  `create-user.dto.ts:49`, `users.service.ts:59-67`). `Patched` of `Accounts` has it so.
- PATCH of a task's title, description or due date alone invalidates nothing: `update` compares
  only status and priority (`tasks.service.ts:213-219`, where the comment has these as the "important
  fields"). The list that `findAllWithFilters` has cached shows the old task, a search finds it by the
  old words (`:120-125, 134-142`), and the statistics count it as overdue or not by its old date (`:288`),
  for five minutes, without any other request. `README.md:58` speaks of "intelligent cache invalidation
  patterns", `README.md:126` of strong consistency.
- The sliding window does not bound requests. The Lua script adds a request under its
  millisecond (`ZADD key now now`, `rate-limit.service.ts:158`): requests of one
  millisecond are one member of the set, count once and all pass while there is room. The option is
  "Max requests" (`rate-limit.decorator.ts:6`), and login says "5 attempts per minute"
  (`auth.controller.ts:37`).
- `invalidatePattern` answers an error of KEYS or DEL with 0 (`cache.service.ts:520-523`), which is also
  its answer when no key matched: no caller can tell that the entries are still there.
- With Redis away no list is ever invalidated: the pattern passed by
  `tasks.service.ts:438` ends in `*`, and the loop over the Map looks for it as a substring
  (`cache.service.ts:512`).
- A failover brings the other tier's entries back into use, which nobody has
  invalidated meanwhile (`cache.service.ts:208, 245`; the README chooses
  strong consistency, `README.md:126`).
- The cleanup job deletes tasks and invalidates nothing
  (`task-processor.service.ts:430`; the patterns of invalidation are `README.md:58`).
- A refused login counts nothing: `login` never calls `incrementFailedLoginAttempts`
  (`auth.service.ts:71`, `users.service.ts:117`), though `README.md:74` names a lockout.
- `lockedUntil` is written and read nowhere (`users.service.ts:122`): a lock lasts until
  `unlockUser`, whatever the message of `auth.service.ts:79` says.
- BullMQ 4.18.2 (`package.json:43`) counts a run when it starts, and `process` gives up at
  `attemptsMade >= MAX_RETRY_ATTEMPTS - 1` (`task-processor.service.ts:104`): of three attempts
  two are made, which the log lines (`:54`, `:108`) number otherwise.
- A job given up returns a result (`task-processor.service.ts:109`), so that it is completed for
  BullMQ: `removeOnFail` (`bull.config.ts:108`) never applies to it, and the failed
  jobs that `README.md:66` has retried are not found among the failed ones.

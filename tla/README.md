# Formal models of the Personal Deadline Management Agent

This directory specifies, in TLA+, the parts of the program whose correctness
depends on the order in which requests, workers and the database act. TLC checks
the specifications on small instances; TLAPS proves the safety properties for
every value of the constants. `P/` below stands for
`src/src/personal_deadline_management_agent/`.

## The system

| component | state it keeps | operations | talks to |
|---|---|---|---|
| Tables `tasks`, `reminders` (`P/models.py`) | rows in PostgreSQL | INSERT, UPDATE, DELETE with `ON DELETE CASCADE`, row locks | everything below |
| Task and reminder API (`P/handlers/{task,reminder}_handler.py`, `P/modules/`, `P/services/{task,reminder}_service.py`, `P/repositories/`) | none between requests | create, read, update, delete of tasks and reminders, one transaction each | tables |
| Scheduler tick (`P/services/scheduler_service.py`, `P/modules/scheduler_module.py`) | the batch in progress | find due reminders, claim each with a conditional UPDATE, notify, commit | tables, notification provider |
| Scheduler loop (`P/scheduler.py`) | stop flag | run ticks until a signal comes, sleep in slices between them | scheduler tick |
| Notification provider (`P/adapters/notification.py`) | none | `send` | log |
| Pending confirmations (`P/modules/pending_confirmation_module.py`, its repository) | rows of `pending_confirmations` | create, find latest, confirm, cleanup of expired rows | agent handler, tables |
| Agent chat handler (`P/handlers/agent_handler.py`) | the request in progress | interpret, store or confirm, execute | pipeline, confirmations, language model |
| Agent pipeline (`P/services/{action_validator,resource_resolver,authorization_service,action_executor}.py`, `P/guardrails/`) | none | validate, resolve, classify risk, decide, execute | API modules |
| Workload analysis (`P/services/workload_analysis_service.py`) | none | summary of the tasks of a period | pipeline |
| Rescheduling suggestions (`P/services/rescheduling_*_service.py`) | none | candidates, constraints, ordering | pipeline |
| Date ranges (`P/services/date_range_resolver.py`) | none | named periods to pairs of instants, both inclusive | pipeline |
| Interpreter, structured generation, response generator (`P/services/agent_{interpreter,response_generator}.py`, `P/adapters/structured_generation.py`) | none | calls of the language model; what it answers becomes a proposal, a confirmation or an answer | agent handler |
| Web server (`P/main.py`, `P/observability.py`, `P/dependencies.py`, `P/db.py`, `P/uow.py`, `P/handlers/health.py`) | connection pool, session and correlation id of each request | middleware, sessions, exception handlers, health probes | all handlers, PostgreSQL |
| Schemas, DTOs, configuration | none | parsing | — |

What is hard about it:

* The API server, the agent and any number of scheduler processes share one
  database at READ COMMITTED. Every request reads, checks and then writes by
  id; what it checked may be stale when it writes.
* A tick claims a batch of reminders, keeps their locks, and notifies before it
  commits: failures after the notification, lock waits and deadlocks.
* A confirmation is a conditional UPDATE, followed, when it misses, by decisions
  taken on a row or on an in-memory copy of a row.
* Retries: a failed tick is retried with everything it had done outside the
  database.
* A signal may come between any two steps of the scheduler's loop.
* What the language model proposes passes five stages with tables of their own,
  and the tasks may change between the proposal and the user's "yes".
* All requests share a small pool of connections. A chat usually keeps one during
  the call of the language model; the database may go away and come back, which
  leaves broken connections in the pool; an unexpected exception leaves the
  middleware before it is handled.
* Two services add up the load of a day, each in its own way; periods are
  computed from a calendar with months and leap years.

What makes each component correct:

* tables and API: no reminder without its task; nobody edits or deletes what a
  worker has claimed; a refusal ("a SENT reminder cannot be updated") holds;
* tick: only reminders that are due *now* are notified, a retry does not notify
  again, and each due one is eventually dealt with;
* confirmations: a stored command runs at most once, for its owner; after any
  outcome was told no later "yes" wins it (the one that had won before may still
  execute it); what is said to have expired has, and the answer a user gets is true;
* pipeline: nothing is executed for a user who is not authorised, nothing is
  deleted without a confirmation or other than what was meant, every request is
  answered;
* interpreter: the target of a proposal, or the confirmation that a "yes" is
  about, is the one that the model named, never a substitute for an invalid one;
* web server: a request gives back its connection however it ends, its response
  and its log lines carry its own correlation id, it fails only for a cause that
  came up while it ran, and a success means that its writes are committed;
* scheduler loop: after a signal no tick starts but the one already decided on,
  and the process exits; without one it keeps ticking, one interval apart;
* workload and suggestions: each service reports exactly the days that are over
  its own budget, no task is lost, and the order of the rows does not change the
  answer;
* date ranges: periods tile the calendar, so that no deadline is in two of them
  or between them.

## Modules

### `DeadlineStore`
The two tables with READ COMMITTED semantics: `tasks` and `reminders` hold the
committed rows, `taskLock` and `rowLock` the row locks. What an open transaction
has written follows from the locks it holds, so that a rollback only releases
them. `Due` is the WHERE clause that `find_due` and `mark_sent` share. Row ids
are UUIDs and never reused: a row is `unborn`, present, or `gone`.

### `Requests`
The write requests of `TaskModule` and `ReminderModule`, run by `Clients` (the
HTTP handlers and `ActionExecutor` make the same calls). The SELECTs of a request
are steps of their own, before its write: `ReadTaskToUpdate` then `WriteTask`,
`ReadTaskForReminder` then `InsertReminder`, `ReadReminderToEdit`,
`CheckReminderEdit`, `WriteReminder`, and so on. `ReadTaskToDelete`, `LockTask`,
`CascadeReminder` and `CommitTaskDelete` are the deletion of a task with the
foreign key's cascade. `TargetVanished` is what happens when the row is gone by
the time of the write, `RollbackRequest` a failed or aborted request. Decisions:

* A single-row write, its flush and its commit are one step. Between flush and
  commit the others see the old row or wait for its lock, so whatever they do
  comes before or after the step.
* Arguments are chosen at the step that first looks at them, so that instances
  stay small; a request whose arguments are refused ends there.
* A patch that changes nothing emits no UPDATE (SQLAlchemy compares with the
  loaded value), and one that changes a column writes only that column.
* Deleting a row that has vanished only warns, updating one fails
  (`StaleDataError`) and ends the request.

### `SchedulerTick`
One tick per action sequence: `Wake` reads the clock, `FindDue` the batch
(ordered by `remind_at` and id, at most `BatchLimit`), then for each item
`ResolveTask`, `MarkSent` or `WaitForRow` or `SkipReminder`, `Notify`; then
`CommitTick`, or at any moment `RollbackTick`. `item` is the loop's reminder,
which also keeps the task of the previous iteration in the session (the identity
map holds weak references, so only the last one survives). When a lock is
released, a worker that waits for it gets it before one that comes later.

### `ReminderSystem`
Composes `Requests` and `SchedulerTick` over `DeadlineStore` with failures
(`Fail`: a crash or a database error at any step) and PostgreSQL's deadlock
detector (`AbortVictim`). `Fairness` is stated apart, so that `FairSpec` and the
liveness run share it. When the budget of failures is spent, the victim of a
cycle that contains a request is a request, which keeps the history counters
bounded. Two workers *can* deadlock on their own, when a reschedule between two
`find_due` queries changed the order of their batches; PostgreSQL aborts one and
its tick is retried.

History variables: `notified` (calls of `provider.send` per reminder), `aborted`
(notifications whose tick was rolled back), `overwritten` (requests that
replaced the status SENT). No action reads them.

### `ReminderLedger`
The abstract specification of the committed rows: reminders are added, edited,
dropped, and *groups* are fired in one step, which is enabled only when every
member is PENDING and due in that very step. `ImplementsLedger` says that all the
reading, locking, waiting and batching above amounts to this.

### `Confirmation`
The life of pending confirmations under any number of concurrent chat requests:
`Receive` (with `cleanup_expired`), `Interpret`, `OfferCommand`, `FindLatest`,
`ReadClock`, `MarkConfirmed` / `MissConfirmed`, `Diagnose`, `WriteExpired`,
`Execute`, `Fail`. Each request has an ORM session: `copy` is the status of the
row in its identity map. SQLAlchemy 2.0 (`synchronize_session="auto"`) applies
a bulk UPDATE to the copies that match its WHERE clause in memory, whether or not
the database matched a row; `MissConfirmed` models that. The content of a
command is not modelled here.

### `OneShot`
The abstract specification of one stored command: none, offered, then accepted
and done, or lapsed. `Confirmation` implements it under the mapping `Phase`,
which does not read the status of an accepted command (see the findings).

### `AgentPipeline`, which extends `Confirmation`
Details the step `Interpret` of `Confirmation`: an output of the language model
leads to `Propose`, `HearYes` or `AnswerOutput`; a proposal goes on to `Validate`
(`ActionValidator`), `Resolve` (`ResourceResolver`), `Decide`
(`AuthorizationService`, then `SafetyPolicy`), then `Run` (`ActionExecutor`) or
`Offer` (the command is stored), and `RunConfirmed` after a "yes". It adds the
tasks (their names as sets of words, and whether they have a description), the
reminders, and what each stored command says. `Edit` is the direct API, which
changes tasks and reminders in between. Decisions:

* A phrase matches a name when its words are among those of the name
  (`ILIKE '%phrase%'`). The ghost field `meant` of a command keeps what matched
  when it was resolved; no action reads it.
* The effect of a command on the rows is one step (its transaction; the races
  inside are in `Requests`), or nothing happens: the executor catches every
  exception of the application. What a reminder's edit or an analysis computes
  is not shown.
* Ids are never reused (`fresh`).
* The ghost field `said` keeps the id of the output from which a proposal or a
  "yes" was made; no action reads it.
* Values of parameters are checked elsewhere (`Requests`); here only which keys a
  proposal has, and for date ranges the cases that the validator distinguishes.

### `Interpretation`
`AgentInterpreter` as operators, which `AgentPipeline` extends. `Outputs` are
records as the adapter lets them through: any type with any action, an id that is
null, invalid or one of anything, a description, parameters, a date range.
`ResponseType` and `Proposable` decide what such an output is good for;
`BuildReference` is the rule that an id wins over words and that an invalid id has
no target. Texts are left out.

### `Server`
The path of a request through the web server. `Receive` is the way in through
`CorrelationMiddleware`; then `Reject` (validation), `AdapterFails` (a dependency
raises) or `Start`; the handler is a plan, of which each step is an action
(`Checkout`, `Execute`, `Commit`, `Interpret`, ... and their failures); `Return`,
`Refuse` and `Raise` end it; `Finish`, `FinishRefused`, or `Unwind` and
`HandleUnhandled` are the way out. `Outage` and `Recover` are the database.
`lines` and `excuse` are history. Decisions:

* Plans are the sequences of statements and commits of the real handlers, with
  the reload of expired attributes after a commit, and with `cleanup_expired`,
  which commits only if it has marked a row: otherwise the transaction, and the
  connection, stay with the chat while the language model is called.
* A session takes a connection with its first statement and keeps it until it
  commits, rolls back or is closed. `pool_pre_ping` replaces a broken one; if all
  are taken, the wait for one ends with an exception after 30 s.
* What the handlers raise for 404 and 400 is answered inside the middleware. Any
  other exception leaves it, which resets the context variable, and is answered
  by Starlette's outermost handler. The response of a handler that returns is
  sent before `get_uow` closes the session, as FastAPI does since 0.118; after an
  exception the session is closed first.
* A context variable belongs to the task of its request; a uuid4 is named after
  the request that it was made for.
* Data, row locks and what a chat decides are in the other modules; here a
  statement on a row that is not there is a failure that may happen. A chat that
  the executor ends as failed and one that `agent_chat` does are both "error".

### `SchedulerLoop`
`main` and `run_forever`: `RegisterHandlers`, `TestFlag`, `OpenSession` (or its
failure), `CloseSession`, `AfterTick`, `SleepSlice`, `WakeUp`, `Dispose`, and
`Signal` between any two of them. A slice of the sleep that a signal interrupts
is slept to its end (PEP 475). `slept`, `lateTicks` and `lateSlices` are history.

### `WorkloadPlanning`
The pure functions of `WorkloadAnalysisService` (collisions, busy days,
feasibility windows, daily pressure, overload, overlaps) and of the three
rescheduling services (slots, capacity, validation, candidates), over rows that
`StoreTask` adds and that `FindByDeadlineRange` reads in any order that agrees
with `ORDER BY deadline`. `AnalyzeWorkload` and `ExecuteSuggestRescheduling` are
the two actions of the executor. The executor hands rows, not summaries, to the
suggestion service; a result with an unscheduled row is then an exception
(`answer.kind` is "failed"; see after the findings). The utilisation percentage and texts are left out. The functions
are named and split as the methods are.

There are two budgets, as in the program: `get_workload_analysis_service` gives
`settings.daily_working_minutes` to the analysis only (`DailyBudget`;
`P/dependencies.py:166-181`, `P/config.py:79-81`), while `ActionExecutor` constructs
`ReschedulingSuggestionService()` itself and passes no budget when it calls it
(`P/services/action_executor.py:138-140`, 292), so that suggestions always use
the default of 480 minutes (`DefaultBudget`).

### `Lists`
What these functions do with Python lists, without recursion and without operator
parameters, so that lemmas can be cited: `Arranged` (a set as a list, in a given
order), `Ascending`, `Selected` (the elements that a comprehension or a loop with
a condition collects), `Sorted` (Python's stable `sorted`, by tuples that `Lower`
compares), `Total` (`sum`). A sorted list is described by the place of each
element, the number of those before it, and not by an algorithm.

### `DateRange`
`DateRangeResolver` for the six ranges relative to now, with Python's calendar
(`IsLeap`, `MonthLength`, `Ordinal`, `Weekday`), while the current time runs
through the days. One tick stands for a microsecond: a range ends at the last
tick of its last day.

### Proofs and MC modules
`ReminderSystemProofs`, `ConfirmationProofs`, `AgentPipelineProofs`,
`ServerProofs`, `SchedulerLoopProofs`, `DateRangeProofs`, `WorkloadPlanningProofs`:
the theorems and their proofs; `ListsProofs`: the lemmas about `Lists`.
`MCReminderSystem` has the
symmetry set of `race` and the initial states of `live` (`Upcoming`: one task
with its reminders, all of them due at the next instant),
`MCAgentPipeline`, `MCWorkloadPlanning`, `MCDateRange` have the inputs.

Mutants: a few operators next to a definition (`ClaimableById`,
`HandOut`, `LiveAnyUser`, `PolicyFirst`, ...) are plausible wrong
versions of it, each named after its mistake. No specification uses them; they
serve to show that a property notices the mistake.

## Runs

| run | question | instance |
|---|---|---|
| `race.cfg` | Do rows, claims and notifications stay right when two requests and two workers interleave and fail? `NoOrphanReminder`, `ClaimStands`, `DuplicatesExplained`, `NotifiesOnlyDue`, `ImplementsLedger` | 1 task, 2 reminders, 2 clients, 2 workers, 4 requests, 1 failure, batches of 2, clock 0..1 |
| `live.cfg` | Is every due reminder dealt with? `DueIsHandled` | one task with 3 reminders that become due together, 2 workers, batches of 2 (so that the backlog exceeds a batch, and a worker holds one claim while it waits for another), 1 request, 2 failures, clock 0..1, under `UpcomingSpec` |
| `confirm.cfg` | One winner per command, for its owner, expired only after its TTL, no later "yes" wins after any outcome was told, and the winner executes: `ExecutedAtMostOnce`, `RunsForOwner`, `ExpiredIsTrue`, `RefusalIsFinal`, `ImplementsOneShot`, `ConfirmedIsExecuted` | 2 requests at a time, 4 in all, of 2 users, 2 commands, 1 failure, TTL 1, clock 0..2, under `FairSpec` |
| `pipeline.cfg` | Who may have what executed, is it what was named, is what is deleted what was meant, is every request answered? `PipelineTypeOK`, `OnlyAuthorizedUsers`, `TargetIsReferred`, `ConfirmsReferred`, `ImplementsConfirmation`, `DeletesWhatWasMeant`, `RemindersKept`, `EveryChatEnds` | 2 requests of 2 users, 25 outputs of the language model, 2 tasks with overlapping names and room for a third, 1 edit, 1 failure, under `FairPipelineSpec` |
| `server.cfg` | Are connections given back, ids kept apart, failures explained, successes committed and requests answered, whatever else is in progress and whenever the database fails? `NoLeak`, `OwnCorrelation`, `FailureHasCause`, `SuccessIsCommitted`, `EveryRequestAnswered` | 3 requests of 5 kinds, 2 at a time, 1 connection, 1 id given by callers, 1 outage, under `FairSpec` |
| `loop.cfg` | Does a signal at any point stop the scheduler in time, and nothing else? `StopsTicking`, `Responsive`, `FullInterval`, `SessionsClosed`, `SignalStops`, `KeepsTicking` | the default interval, 120 slices, under `FairSpec` |
| `planning.cfg` | Does each service report what is over its budget, whatever the order of the rows? `OverlapsAreReal`, `OverloadsExact`, `EveryTaskAnswered`, `SuggestionsValidate`, `NoRoomOnOverloadedDay`, `OrderIndependent` | up to 3 of 10 kinds of task, 3 ranges, days of 4 minutes, budgets of 2 (analysis) and 3 (suggestions) |
| `dates.cfg` | Do the periods tile the calendar? `NothingBetween`, `ThisIsNow`, `NextBecomesThis` | 130 days from November 1999, 2023, 2024 and 2099, days of 2 ticks |
| `sent_final.cfg`, `retry.cfg`, `outcome_true.cfg`, `description.cfg` | the findings below | smallest instances that show them |

The type invariants of the modules with proofs are theorems (`TypeCorrect`,
`PipelineTypes`); of them only `PipelineTypeOK` is a run's property too, because it
also says that no reminder is left without its task.

Why the bounds are enough. In `race` two reminders of one task give a batch that
holds one lock while it waits for another, a cascade that locks two rows, and lock
cycles between a worker and a request or two workers. Four requests allow: create the task, create two
reminders, and a conflicting edit or deletion in flight, or one reminder and two
conflicting requests. Two instants let `remind_at` lie before, at and after the
clock. `live` starts where earlier requests have created the task and its
reminders, so that its one request can be the deletion (whose cascade meets the
workers in another order) or a reschedule between the `find_due` queries of the
two workers (whose batches then differ in their order). Both kinds of wait cycle
occur: `AbortVictim` fires, and without the fairness of the detector the run
fails with two workers that wait for each other for ever. In `Confirmation`, TTL 1 and three instants put the clock before, at and
after the expiry; of four requests one may store a command and three fight about
it, two at a time. In `AgentPipeline`, an offer, an edit and a "yes" are what it
takes for a target to change under a confirmation; of the two names one contains
the other, so that the phrases match none, one or both; the 25 outputs name a target by an id, by
words, by both, by an invalid id with and without words, or not at all, and a
confirmation by each kind of id. In `Server` one connection for two requests
stands for the 15 of the engine's default pool (5 and an overflow of 10) under more
requests: a request finds one free, waits, or does not get one; the third request
shows what the first two leave behind in the pool and in the context, and one
outage may break a connection in use, an idle one, or one that is opened anew.
Not in the model: the limit on worker threads, which only delays `Start`. In
`WorkloadPlanning`
three tasks are the fewest with which two others can fill a day; a deadline at
each end of a day, a task longer than the minutes before its deadline, equal
deadlines, names and priorities are among the ten kinds. `dates` crosses a year's
end, leap and common Februaries, a leap century and one that is not.

`CHECK_DEADLOCK FALSE` is set where the system may stop: once the budget of
requests is spent and the last one is over, the server idles
(`Confirmation`, `AgentPipeline`, `Server`); the scheduler exits (`SchedulerLoop`); the
calendar ends (`DateRange`). The `ReminderSystem` runs check for deadlock
(workers always tick again). In `Confirmation` an offer that finds no id left
stays where it is, an artefact of the bound that `pipeline.cfg` avoids by having
an id per request.

Symmetry: clients and workers are interchangeable, reminder ids are not
(`ORDER BY ... id`). Only `race.cfg` uses symmetry; the liveness runs do not.

Fairness. `Fairness` of `ReminderSystem`, in `FairSpec` and `UpcomingSpec`: weak fairness of each worker's steps
(`run_forever` logs a failed tick and goes on with the next one, and does so
until it is told to stop, which the liveness run leaves out), of each request's
remaining steps (the server finishes what it accepted), and of the deadlock
detector. Nothing makes clients send requests, time advance or failures happen.
`Confirmation` and `AgentPipeline`: weak fairness of each request's own steps;
the call of the language model has a timeout. `Server`: weak fairness of each
request's own steps, since statements, calls and waits for the pool end one way or
another; a request whose database is away is answered by its failure. Nothing
makes the database come back, and that a waiting request gets a connection is not
claimed. `SchedulerLoop`: weak fairness of
the main thread; nobody has to send a signal.

## Findings

* `SentIsFinal` — `update_reminder` checks the status of the row it has read and
  then writes by id; a worker that commits SENT in between is overwritten, and
  the reminder may be sent again. The code says "A SENT reminder cannot be
  updated".
* `RetryIsIdempotent` — the provider is called for each item before the one commit
  of the batch; when a later item or the commit fails, the rollback makes the
  notified rows PENDING again and the next tick notifies them a second time.
  `P/modules/scheduler_module.py:12-13` says "whole batch retried next tick,
  idempotent", `P/services/scheduler_service.py:155` "claim is already durable".
  What does hold is `DuplicatesExplained`: each further notification is paid for
  by such a rollback or by an overwritten SENT.
* `OutcomeIsTrue` — after a lost update the session's own copy says CONFIRMED,
  so a user may be told that a request was already processed that nobody ever
  confirmed. The code says the outcome "always distinguishes the reason".
* `DescriptionKept` — the executor passes `params.get("description")` on, and to
  `update_task` a `None` means "clear it": an update by the agent that does not
  mention the description erases it.

Four more disagreements, of which the first can be reached today, have no run of
their own:

* The late writer of `confirm` overwrites by id: the request whose UPDATE missed
  because the command had expired writes EXPIRED "to keep the record consistent"
  (`P/modules/pending_confirmation_module.py:164-166`), also over the CONFIRMED that
  another request, whose clock reading was earlier, has committed since. The record
  and the answer to the late user then say EXPIRED, and the winner executes the
  command. `ExpiredIsTrue` shows that this happens only after the TTL, the other
  properties of `confirm` that the command still runs once and that nobody wins it
  afterwards; `ImplementsOneShot` maps an accepted row by its history for this reason.
* The validator accepts SUGGEST_RESCHEDULING only without a target
  (`P/services/action_validator.py`), the resolver answers a clarification when there
  is none (`P/services/resource_resolver.py:84` excepts two other actions only):
  no chat reaches the action, although
  `src/tests/test_pdma112_agent_rescheduling.py:3-4` says that it "flows correctly
  through the agent pipeline". `AgentPipeline` models both tables as they are.
* Behind it, `ActionExecutor` passes rows where `suggest_rescheduling` expects
  summaries, so that a task that cannot be scheduled makes the request fail,
  although "Tasks that cannot be scheduled are preserved in unscheduled_tasks"
  (`P/services/rescheduling_suggestion_service.py:59`). `ExecuteSuggestRescheduling`
  models what the code does.
* Behind it, too: the default budget is "Injected via DI in production"
  (`P/services/rescheduling_constraint_service.py:19`), but only the analysis gets the
  configured one. With DAILY_WORKING_MINUTES other than 480 the analysis and the
  suggestions disagree about which days are overloaded; `OverloadsExact` therefore
  compares each service with its own budget.

Limits of what the passing properties promise, which follow from the code as
well: a suggested slot that crosses midnight is checked
against the capacity of the day on which it starts only, by the suggestion and by
the validation alike, so that `SuggestionsValidate` cannot show it;
`/health/ready` also answers 503 when the pool is exhausted while the database is
reachable, and a chat whose adapter cannot be built is a 500, not an answer with
status ERROR (`FailureHasCause` counts both as excused). The context variable is
keyed by the task of its request, as asyncio guarantees, so `OwnCorrelation` says
more about the paths outside the middleware than about two requests at once.

## What is proved

Assumptions: the named ASSUMEs (`StoreAssumption`, `RequestsAssumption`,
`TickAssumption`, `SystemAssumption`, `ConfirmationAssumption`,
`InterpretationAssumption`, `PipelineAssumption`, `ServerAssumption`,
`LoopAssumption`, `DateRangeAssumption`, `PlanningAssumption`): ids are naturals where the code orders
by them, bounds are naturals, the id sets do not overlap, the interval is
positive, the clock starts at a date, the first reminders belong to tasks, a
duration is positive (`P/services/task_service.py:39`). The
sets are otherwise arbitrary, finite or not, except the UUIDs of `Interpretation`,
which are finite (a phrase is counted to match exactly one).

`ReminderSystemProofs`: `TypeCorrect`, `NoOrphans`, `ClaimsAlwaysStand`,
`OnlyDueNotified`, `DuplicatesAreExplained`, `LedgerImplemented`. None of the properties is inductive.
The invariant is `TypeOK /\ Shapes /\ Locks /\ Rows /\ NotificationsAccounted`:

* `Shapes` — the fields a request or a tick uses at its pc are ids, and a
  tick's `now` is never ahead of the clock;
* `Locks` — who may hold a row lock: a request only reminders of the task it is
  deleting, a worker only rows that satisfied the WHERE clause and still do;
* `Rows` — the id of a reminder being inserted is fresh, and every reminder has
  a task: an insert can neither overwrite a row nor revive a deleted one;
* `NotificationsAccounted` — a reminder accounts for one notification while it is
  SENT or deleted, or while the tick that has notified it still holds it; the
  property forgets where the one comes from, so it is not inductive.

The refinement `LedgerImplemented` follows from the same invariant: a commit of a
batch is a `Fire` because, by `Locks`, every claimed row is still PENDING and due
at that step; the other steps add, edit or drop rows, or leave them alone.

`ConfirmationProofs`: `TypeCorrect`, `AtMostOnce`, `OwnerOnly`, `RefusalFinal`,
`ExpiryTrue`, `OneShotImplemented`, from `TypeOK /\ Refers /\ OneShotInv`: a request past `confirm` refers to a stored
row (`Refers`); a command that is PENDING or not yet stored has no history of
acceptances, executions or answers (`Claimed`); a request that is about to
execute won the confirmation, is the only one to have won it and is its owner's
(`Winner`); a copy that says other than PENDING means that the row is not PENDING
either (`Copied`, without which the answer given from the copy could be a lie
about a command that may still be confirmed). `RefusalFinal` is about steps: only
`MarkConfirmed` adds an acceptance, to a row that is PENDING, about which by `Claimed`
nobody was told anything. `ExpiryTrue` needs what a request has concluded when it is
about to write EXPIRED (`Judged`): a copy that says PENDING after the missed UPDATE
satisfied every other condition, and a row that is still PENDING was PENDING when
the UPDATE missed it, so in either case the TTL is over; this stays so while others
go on (`JudgedKept`).

`AgentPipelineProofs` starts with the refinement: `PipelineImplements` shows that
every step of the pipeline is a step of `Confirmation` or leaves its variables
alone, so the invariants proved there hold here and are not proved again. From
them and `PipelineInv == DataOK /\ RequestsOK /\ Tracked /\ Commanded /\ History`
follow `PipelineTypes`, `OnlyForAuthorized`, `TargetReferred`,
`DeletesOnlyWhatWasMeant`, `RemindersOnlyAsMeant` and `ConfirmsTheReferred`, for
any set of outputs of the language model. `Tracked` ties the proposal of a request
to what was said, to what its words matched and to who may have it run;
`Commanded` says that a stored command that deletes has exactly one target, and
that the row it belongs to is an authorised user's, which is what a confirmation
can rely on although nothing is checked again.

`ServerProofs`: `TypeCorrect`, `NothingLeaks`, `CorrelationIsOwn`,
`FailuresHaveCauses`, `SuccessesAreCommitted`, for any number of requests,
connections and outages, from `TypeOK`, `NoLeak` and three predicates of each
request: `Correlated` (the context variable is its id exactly while it is inside
the middleware), `Excused` (a request that runs without a database, or whose
session has a broken connection, is excused already, because the ping has removed
the connections that older outages broke) and `Committing` (what a running request
has written and not committed, it is about to commit).

`SchedulerLoopProofs`: `TypeCorrect`, `SignalStopsTicking`, `SleepsAtMostASlice`,
`TicksApart`, `TicksClose`, from
`TypeOK /\ AfterSignal /\ Interval /\ Sessions`: `AfterSignal` says where the loop
may still be for each number of late ticks and slices, `Interval` that what has
been slept and what remains make up one interval, `Sessions` that a session is
open exactly during a tick.

`DateRangeProofs`: `TypeCorrect`, `DeadlinesSelectedOnce`, `CurrentPeriod` and the
action property `NextIsThisLater`, for every year up to 9998 and any number of ticks in a day. Type correctness is
inductive; from it, `PeriodsTile` shows that "next" starts one tick after "this"
ends, by the calendar lemmas `LeapDays` (a year starts 365 or 366 days after the
one before) and `MonthsTile` (the first day of a month comes after the last of
the one before); `CurrentPeriod` adds that days are in the order of their first
ticks and that division finds the day of a tick (`DaysOrdered`, `DayOfStart`).
`NextIsThisLater` goes through the steps of the clock: midnight adds one to the
ordinal of the date (`TomorrowIsNextDay`), with which the Monday of the week stays
or moves by seven days, and the month stays or is the next one (`ThisGoesOn`).

`WorkloadPlanningProofs`: `TypeCorrect`, `OverloadsAreExact`, `NoTaskLost`,
`SuggestionsAreValid`, `OverloadedDayIsFull`, `OverlapsReal`, `OrderDoesNotMatter`:
every property of `planning.cfg`, for any number of tasks and any two budgets. None of
them is inductive, because they compare an answer with the tasks that were read,
and say nothing of how it came about. `IInv` is: the rows are numbered by their
ids, the tasks of the last request are rows without repetition, and the answer is
what the functions compute for them. What remains are lemmas about these functions:

* `ListsProofs` shows that an order gives each element of a finite set a place of
  its own (`EveryPlaceTaken`, by counting those before it and the pigeonhole
  principle) and that there is only one such list (`ArrangedUnique`). So selecting
  and sorting list the elements once each (`SelectedEnumerates`, `SortedEnumerates`),
  and keys that are all different make the result independent of the order in which
  the elements came (`SortedArranged`). A sum is the number of its units, pairs of an
  element and a number below its value (`TotalCounts`); hence it does not depend
  on how the elements are listed (`TotalRenamed`) and can be split (`TotalSplit`).
* `OverloadsOf`, `MinutesOfDay`: the load of a day as the analysis adds it up, from
  a selection of a selection, is that of the active tasks due on it.
  `OthersAndTask`: it is the load that the constraint service adds up, plus the
  duration of the task itself; hence `OverloadedDayIsFull`.
* `PressureReports`, `MinutesShared`: an entry for each pair of windows that
  overlap, in whichever order the two names are, and two windows overlap exactly
  if the tasks need a common minute.
* `SameRoom`, `SameLists`, `SameOverloads`, ...: two lists of the same tasks
  leave the same room, so give the same slots, and the key that ends with the id
  sorts them alike; the analysis sorts without the id, which is why
  `OrderIndependent` asks that names and deadlines tell tasks apart.

Only model-checked: the liveness properties (`DueIsHandled`,
`ConfirmedIsExecuted`, `EveryChatEnds`, `EveryRequestAnswered`, `SignalStops`,
`KeepsTicking`), which are out of the prover's reach, and with them the refutations
under Findings. Every invariant and every other action property that a run checks
is a theorem as well. The provers cannot use the library's induction theorems,
which take an operator as a parameter, but that the order of the naturals is
well-founded is a fact about sets; `Least` and `Induction` of `ListsProofs` follow
from it, and all inductions here are over sets of numbers.

## Not modelled, and plan

Not modelled, and why:

* prompts, language detection, templates of answers, the adapter's repair of JSON,
  log formatters: text in, text out, no state;
* the validation of single messages by pydantic, the parsing of the environment,
  EXPLICIT_RANGE (its arguments pass through a comparison), time zones (every
  instant is UTC): functions of one value;
* the start and the end of the server process (`lifespan`, `engine.dispose`): they
  meet no request;
* the percentages and texts of the workload analysis.

The modules were written in the order of their weight: reminders (`DeadlineStore`,
`Requests`, `SchedulerTick`, composed by `ReminderSystem`), confirmations
(`Confirmation`, extended by `AgentPipeline`), then `SchedulerLoop`,
`WorkloadPlanning`, `DateRange`, and last `Interpretation` and `Server`, the parts
around them. Next, in order:

1. Lemmas that hold beyond the reachable states: what `ValidateCandidate` accepts
   for any slot and any list of tasks, and what an accepted slot leaves to others.
2. The safety half of the liveness properties: from which states a due reminder,
   a confirmed command or a chat can always make its next step.

-------------------------- MODULE WorkloadPlanning --------------------------
(***************************************************************************)
(* Workload analysis and rescheduling suggestions.  Both are pure          *)
(* functions of a list of tasks and of a daily budget, but they are two    *)
(* services that compute the load of a day each in its own way, and each   *)
(* has its own budget: get_workload_analysis_service passes the configured *)
(* one to the analysis, while the executor constructs the suggestion       *)
(* service with the default.  A request of the agent reads the tasks that  *)
(* are due in a range, in an order that the database chooses among equal   *)
(* deadlines.                                                              *)
(*                                                                         *)
(* Times count minutes (of which a day has DayMinutes, a bound); names and *)
(* ids are numbers, compared as the strings are.                           *)
(***************************************************************************)
EXTENDS Integers, Sequences, FiniteSets, SequencesExt, Lists

CONSTANTS
  DayMinutes,   \* minutes of a day (a bound: 1440)
  DailyBudget,  \* daily_working_minutes, of the analysis
  DefaultBudget, \* _DEFAULT_BUDGET_MINUTES, of the suggestions (a bound: 480)
  BusyAbove,    \* a day with more tasks is busy (a bound: 5)
  Inputs,       \* tasks, without the id, that may be stored
  Ranges,       \* ranges <<start, end>> that a request may resolve to
  MaxTasks      \* a bound on the number of stored tasks

None == -1      \* no deadline, no duration

ASSUME PlanningAssumption ==
  /\ DayMinutes \in Nat \ {0} /\ BusyAbove \in Nat /\ MaxTasks \in Nat
  /\ DailyBudget \in 1..DayMinutes /\ DefaultBudget \in 1..DayMinutes
  /\ Ranges \subseteq Nat \X Nat
  /\ Inputs \subseteq [name : Nat, priority : {"HIGH", "MEDIUM", "LOW"},
                       status : {"TODO", "IN_PROGRESS", "COMPLETED", "CANCELLED"},
                       deadline : Nat \cup {None}, duration : (Nat \ {0}) \cup {None}]

VARIABLES
  rows,         \* the stored tasks; the id of a task is its position
  tasks,        \* the tasks that the last request read, in the order read
  answer        \* what it returned for them

vars == <<rows, tasks, answer>>

-----------------------------------------------------------------------------
PriorityKey(task) == CASE task.priority = "HIGH" -> 0 [] task.priority = "MEDIUM" -> 1 [] OTHER -> 2

SortKey(task) ==
  <<IF task.deadline = None THEN 1 ELSE 0, task.deadline, PriorityKey(task), task.name>>

SortTasks(s) == Sorted(s, [i \in DOMAIN s |-> SortKey(s[i])])

Active(task) == task.status \in {"TODO", "IN_PROGRESS"}
Timed(task) == task.deadline # None /\ task.duration # None
Plannable(task) == Timed(task) /\ task.duration > 0
Day(time) == time \div DayMinutes
Ids(s) == [i \in DOMAIN s |-> s[i].id]
Minutes(s) == Total([i \in DOMAIN s |-> s[i].duration])

-----------------------------------------------------------------------------
(***************************************************************************)
(* WorkloadAnalysisService.analyze.                                        *)
(***************************************************************************)
DeadlineCollisions(s) ==
  LET Due(time) == Selected(s, {i \in DOMAIN s : s[i].priority = "HIGH" /\ s[i].deadline = time})
      times     == {time \in {s[i].deadline : i \in DOMAIN s} \ {None} : Len(Due(time)) >= 2}
      ordered   == Ascending(times)
  IN  [i \in DOMAIN ordered |-> [deadline |-> ordered[i], tasks |-> Ids(SortTasks(Due(ordered[i])))]]

BusyDays(s) ==
  LET dated      == {i \in DOMAIN s : s[i].deadline # None}
      DueOn(day) == Selected(s, {i \in dated : Day(s[i].deadline) = day})
      ordered    == Ascending({day \in {Day(s[i].deadline) : i \in dated} :
                                 Len(DueOn(day)) > BusyAbove})
  IN  [i \in DOMAIN ordered |-> [date |-> ordered[i], tasks |-> Ids(SortTasks(DueOn(ordered[i])))]]

Window(task) ==
  [id |-> task.id, name |-> task.name, deadline |-> task.deadline,
   latestStart |-> task.deadline - task.duration]

FeasibilityWindows(s) ==
  LET timed == Selected(s, {i \in DOMAIN s : Timed(s[i])})
  IN  Sorted([i \in DOMAIN timed |-> Window(timed[i])],
             [i \in DOMAIN timed |-> <<timed[i].deadline, timed[i].name>>])

TotalPlanned(s) == Minutes(Selected(s, {i \in DOMAIN s : s[i].duration # None}))

(***************************************************************************)
(* The load of the days on which tasks are due, and the days where it is   *)
(* more than the budget (in the variant, where it reaches it).             *)
(***************************************************************************)
DailyPressure(s) ==
  LET timed      == {i \in DOMAIN s : Timed(s[i])}
      DueOn(day) == Selected(s, {i \in timed : Day(s[i].deadline) = day})
      ordered    == Ascending({Day(s[i].deadline) : i \in timed})
  IN  [i \in DOMAIN ordered |->
         [date |-> ordered[i], planned |-> Minutes(DueOn(ordered[i])),
          tasks |-> Ids(SortTasks(DueOn(ordered[i])))]]

WarningsAtBudget(pressure, budget) ==
  LET over == Selected(pressure, {i \in DOMAIN pressure : pressure[i].planned >= budget})
  IN  [i \in DOMAIN over |-> [date |-> over[i].date, excess |-> over[i].planned - budget]]

OverloadWarnings(pressure, budget) ==
  LET over == Selected(pressure, {i \in DOMAIN pressure : pressure[i].planned > budget})
  IN  [i \in DOMAIN over |-> [date |-> over[i].date, excess |-> over[i].planned - budget]]

(***************************************************************************)
(* Pairs of windows that overlap, each pair once and by name; the variant  *)
(* also takes windows that only touch.                                     *)
(***************************************************************************)
Later(a, b) == IF a > b THEN a ELSE b
Earlier(a, b) == IF a < b THEN a ELSE b

TouchOrOverlap(a, b) == Later(a.latestStart, b.latestStart) =< Earlier(a.deadline, b.deadline)
Overlap(a, b) == Later(a.latestStart, b.latestStart) < Earlier(a.deadline, b.deadline)

SchedulingPressure(windows) ==
  LET all       == {p \in (DOMAIN windows) \X (DOMAIN windows) :
                      p[1] < p[2] /\ Overlap(windows[p[1]], windows[p[2]])}
      pairs     == Arranged(all, {pq \in all \X all : Lower(pq[1], pq[2])})
      ByName(p) == IF windows[p[1]].name < windows[p[2]].name
                     THEN <<windows[p[1]], windows[p[2]]>>
                     ELSE <<windows[p[2]], windows[p[1]]>>
      named     == [i \in DOMAIN pairs |-> ByName(pairs[i])]
      ordered   == Sorted(named, [i \in DOMAIN named |-> <<named[i][1].name, named[i][2].name>>])
  IN  [i \in DOMAIN ordered |->
         [a |-> ordered[i][1].id, b |-> ordered[i][2].id,
          start |-> Later(ordered[i][1].latestStart, ordered[i][2].latestStart),
          end |-> Earlier(ordered[i][1].deadline, ordered[i][2].deadline)]]

Analyze(s, budget) ==
  LET active   == Selected(s, {i \in DOMAIN s : Active(s[i])})
      pressure == DailyPressure(active)
      windows  == FeasibilityWindows(active)
  IN  [totalTasks |-> Len(active), collisions |-> DeadlineCollisions(active),
       busyDays |-> BusyDays(active), recommended |-> Ids(SortTasks(active)),
       planned |-> TotalPlanned(active), windows |-> windows, pressure |-> pressure,
       overloads |-> OverloadWarnings(pressure, budget), overlaps |-> SchedulingPressure(windows)]

-----------------------------------------------------------------------------
(***************************************************************************)
(* ReschedulingConstraintService.  (The variant looks at the day of the    *)
(* deadline and not at the day on which the slot starts.)                  *)
(***************************************************************************)
Others(task, s, day) ==
  Selected(s, {i \in DOMAIN s : /\ s[i].id # task.id /\ Timed(s[i])
                                /\ Day(s[i].deadline) = day /\ Active(s[i])})

HasRoomForOthers(task, day, s) == Minutes(Others(task, s, day)) =< DefaultBudget
HasRemainingCapacity(task, day, s) == Minutes(Others(task, s, day)) + task.duration =< DefaultBudget

SlotByDeadline(task, s) ==
  IF Plannable(task) /\ HasRemainingCapacity(task, Day(task.deadline), s)
    THEN <<[start |-> task.deadline - task.duration, end |-> task.deadline,
            available |-> task.duration]>>
    ELSE <<>>

FindCandidateSlots(task, s) ==
  IF Plannable(task) /\ HasRemainingCapacity(task, Day(task.deadline - task.duration), s)
    THEN <<[start |-> task.deadline - task.duration, end |-> task.deadline,
            available |-> task.duration]>>
    ELSE <<>>

ValidateCandidate(task, slot, s) ==
  /\ Plannable(task)
  /\ slot.end - slot.start >= task.duration
  /\ slot.end =< task.deadline
  /\ slot.start >= task.deadline - task.duration
  /\ slot.end > slot.start
  /\ slot.available >= task.duration
  /\ HasRemainingCapacity(task, Day(slot.start), s)

(***************************************************************************)
(* ReschedulingCandidateService.generate_candidates, which the suggestion  *)
(* service returns unchanged.  (The variants sort without the id, and      *)
(* forget the tasks without a duration.)                                   *)
(***************************************************************************)
KeyWithoutId(task) == SortKey(task)
KeyWithId(task) == Append(SortKey(task), task.id)

Unique(s) == \* the first occurrence of each id
  Selected(s, {i \in DOMAIN s : \A j \in 1..(i - 1) : s[j].id # s[i].id})

Suggested(task, s) == FindCandidateSlots(task, s) # <<>>
UnscheduledIfTimed(task, s) == Timed(task) /\ ~ Suggested(task, s)
Unscheduled(task, s) == ~ Suggested(task, s)

GenerateCandidates(s) ==
  LET unique      == Unique(s)
      valid       == Selected(unique, {i \in DOMAIN unique : \/ unique[i].duration = None
                                                             \/ unique[i].duration > 0})
      overloads   == Analyze(valid, DefaultBudget).overloads
      active      == {i \in DOMAIN unique : Active(unique[i])}
      InOrder(t)  == Sorted(t, [i \in DOMAIN t |-> KeyWithId(t[i])])
      planned     == InOrder(Selected(unique, {i \in active : Suggested(unique[i], unique)}))
      unscheduled == InOrder(Selected(unique, {i \in active : Unscheduled(unique[i], unique)}))
  IN  [suggestions |-> [i \in DOMAIN planned |->
                          [id |-> planned[i].id,
                           slot |-> FindCandidateSlots(planned[i], unique)]],
       overloadedDays |-> [i \in DOMAIN overloads |-> overloads[i].date],
       unscheduled |-> Ids(unscheduled)]

-----------------------------------------------------------------------------
(***************************************************************************)
(* Requests.                                                               *)
(***************************************************************************)
Init ==
  /\ rows = <<>>
  /\ tasks = <<>>
  /\ answer = [kind |-> "none"]

Row(id, input) ==
  [id |-> id, name |-> input.name, priority |-> input.priority, status |-> input.status,
   deadline |-> input.deadline, duration |-> input.duration]

StoreTask(input) ==
  /\ Len(rows) < MaxTasks
  /\ rows' = Append(rows, Row(Len(rows) + 1, input))
  /\ UNCHANGED <<tasks, answer>>

(***************************************************************************)
(* find_tasks_by_deadline_range, ordered by deadline.                      *)
(***************************************************************************)
FindByDeadlineRange(range) ==
  LET due == {i \in DOMAIN rows : rows[i].deadline >= range[1] /\ rows[i].deadline =< range[2]}
  IN  {s \in {[k \in DOMAIN ids |-> rows[ids[k]]] : ids \in SetToSeqs(due)} :
         \A i, j \in DOMAIN s : i < j => s[i].deadline =< s[j].deadline}

AnalyzeWorkload(range) ==
  /\ tasks' \in FindByDeadlineRange(range)
  /\ answer' = [kind |-> "analysis", result |-> Analyze(tasks', DailyBudget)]
  /\ UNCHANGED rows

(***************************************************************************)
(* suggest_rescheduling for summaries of the tasks, as its signature says; *)
(* and as the executor calls it, with the rows themselves: a result that   *)
(* holds one of them as an unscheduled task fails its validation.          *)
(***************************************************************************)
SuggestRescheduling(range) ==
  /\ tasks' \in FindByDeadlineRange(range)
  /\ answer' = [kind |-> "plan", result |-> GenerateCandidates(tasks')]
  /\ UNCHANGED rows

ExecuteSuggestRescheduling(range) ==
  /\ tasks' \in FindByDeadlineRange(range)
  /\ LET plan == GenerateCandidates(tasks')
     IN  answer' = IF plan.unscheduled = <<>> THEN [kind |-> "plan", result |-> plan]
                                              ELSE [kind |-> "failed"]
  /\ UNCHANGED rows

Next ==
  \/ \E input \in Inputs : StoreTask(input)
  \/ \E range \in Ranges :
       AnalyzeWorkload(range) \/ SuggestRescheduling(range) \/ ExecuteSuggestRescheduling(range)

Spec == Init /\ [][Next]_vars

-----------------------------------------------------------------------------
Analyzed == answer.kind = "analysis"
Planned == answer.kind = "plan"
Analysis == answer.result
Plan == answer.result
ActiveIds == {tasks[i].id : i \in {j \in DOMAIN tasks : Active(tasks[j])}}
TaskOf(id) == CHOOSE task \in ToSet(tasks) : task.id = id
LoadOf(day) == \* minutes of the active tasks that are due on a day
  Total([id \in {k \in ActiveIds : Timed(TaskOf(k)) /\ Day(TaskOf(k).deadline) = day} |->
           TaskOf(id).duration])

TypeOK ==
  /\ \A i, j \in DOMAIN rows : rows[i].id = rows[j].id => i = j
  /\ ToSet(tasks) \subseteq ToSet(rows)
  /\ answer.kind \in {"none", "analysis", "plan", "failed"}

(***************************************************************************)
(* Scheduling pressure is reported for exactly the pairs of active tasks   *)
(* that need the same minute if each starts as late as it can, once each,  *)
(* and the reported overlap consists of exactly those minutes.             *)
(***************************************************************************)
Needs(task, minute) == task.deadline - task.duration =< minute /\ minute < task.deadline

OverlapsAreReal ==
  Analyzed =>
    LET timed    == {TaskOf(id) : id \in {k \in ActiveIds : Timed(TaskOf(k))}}
        Shared(t, u) == {m \in (t.deadline - t.duration)..t.deadline : Needs(t, m) /\ Needs(u, m)}
    IN  /\ \A i, j \in DOMAIN Analysis.overlaps :
             {Analysis.overlaps[i].a, Analysis.overlaps[i].b} =
               {Analysis.overlaps[j].a, Analysis.overlaps[j].b} => i = j
        /\ {<<{o.a, o.b}, o.start..(o.end - 1)>> : o \in ToSet(Analysis.overlaps)} =
             {<<{p[1].id, p[2].id}, Shared(p[1], p[2])>> :
                p \in {q \in timed \X timed : q[1] # q[2] /\ Shared(q[1], q[2]) # {}}}

(***************************************************************************)
(* The days that a service reports as overloaded are those on which the    *)
(* active tasks that are due need more than its budget: the configured one *)
(* for the analysis, which also reports by how much, the default for the   *)
(* suggestions.  So the two agree on the days if the budgets are equal,    *)
(* and may not otherwise.                                                  *)
(***************************************************************************)
Overloaded(budget) ==
  {day \in {Day(task.deadline) : task \in ToSet(tasks)} : LoadOf(day) > budget}

OverloadsExact ==
  /\ Analyzed => ToSet(Analysis.overloads) =
                   {[date |-> day, excess |-> LoadOf(day) - DailyBudget] :
                      day \in Overloaded(DailyBudget)}
  /\ Planned => ToSet(Plan.overloadedDays) = Overloaded(DefaultBudget)

(***************************************************************************)
(* Every active task is in the result once, with a slot or as unscheduled, *)
(* and no other task is.                                                   *)
(***************************************************************************)
EveryTaskAnswered ==
  Planned =>
    LET answered == Ids(Plan.suggestions) \o Plan.unscheduled
    IN  ToSet(answered) = ActiveIds /\ Len(answered) = Cardinality(ActiveIds)

(***************************************************************************)
(* The validation of slots, a second implementation of the constraints,    *)
(* accepts what was suggested.                                             *)
(***************************************************************************)
SuggestionsValidate ==
  Planned => \A sugg \in ToSet(Plan.suggestions) :
               ValidateCandidate(TaskOf(sugg.id), sugg.slot[1], tasks)

(***************************************************************************)
(* A task that is due on an overloaded day keeps its slot only if the slot *)
(* starts on an earlier day: the capacity check and the overload warning,  *)
(* which add up the load separately, agree.                                *)
(***************************************************************************)
NoRoomOnOverloadedDay ==
  Planned => \A sugg \in ToSet(Plan.suggestions) :
               Day(sugg.slot[1].end) \in ToSet(Plan.overloadedDays) =>
                 Day(sugg.slot[1].start) < Day(sugg.slot[1].end)

(***************************************************************************)
(* Suggestions do not depend on the order in which the database returned   *)
(* the tasks, nor does the analysis if no two tasks of the same deadline   *)
(* have the same name.                                                     *)
(***************************************************************************)
OrderIndependent ==
  \A p \in SetToSeqs(DOMAIN tasks) :
    LET reordered == [i \in DOMAIN tasks |-> tasks[p[i]]]
    IN  /\ Planned => GenerateCandidates(reordered) = Plan
        /\ Analyzed /\ (\A t, u \in ToSet(tasks) :
                          t.name = u.name /\ t.deadline = u.deadline => t = u)
             => Analyze(reordered, DailyBudget) = Analysis
=============================================================================

------------------------ MODULE WorkloadPlanningProofs ------------------------
(***************************************************************************)
(* Proofs, for every list of tasks, every budget and every length of the   *)
(* day, that analysis and suggestions agree with each other and lose no    *)
(* task.                                                                   *)
(***************************************************************************)
EXTENDS WorkloadPlanning, ListsProofs

Task == [id : Nat, name : Nat, priority : {"HIGH", "MEDIUM", "LOW"},
         status : {"TODO", "IN_PROGRESS", "COMPLETED", "CANCELLED"},
         deadline : Nat \cup {None}, duration : (Nat \ {0}) \cup {None}]

(***************************************************************************)
(* A task list holds no task twice.                                        *)
(***************************************************************************)
TaskList == {s \in Seq(Task) : \A i, j \in DOMAIN s : s[i].id = s[j].id => i = j}

IInv ==
  /\ rows \in Seq(Task) /\ \A i \in DOMAIN rows : rows[i].id = i
  /\ tasks \in TaskList /\ ToSet(tasks) \subseteq ToSet(rows)
  /\ answer \in {[kind |-> "none"], [kind |-> "failed"],
                 [kind |-> "analysis", result |-> Analyze(tasks, DailyBudget)],
                 [kind |-> "plan", result |-> GenerateCandidates(tasks)]}

(***************************************************************************)
(* A request reads rows of the table, none of them twice.                  *)
(***************************************************************************)
LEMMA RangeIsTaskList ==
  ASSUME rows \in Seq(Task), \A i \in DOMAIN rows : rows[i].id = i,
         NEW range \in Ranges, NEW s \in FindByDeadlineRange(range)
  PROVE  s \in TaskList /\ ToSet(s) \subseteq ToSet(rows)
<1>. DEFINE due == {i \in DOMAIN rows : rows[i].deadline >= range[1] /\ rows[i].deadline =< range[2]}
            c == Cardinality(due)
<1>1. DOMAIN rows = 1..Len(rows) /\ Len(rows) \in Nat /\ \A i \in 1..Len(rows) : rows[i] \in Task
  OBVIOUS
<1>2. c \in Nat
  <2>1. due \in SUBSET (1..Len(rows)) /\ IsFiniteSet(1..Len(rows))
    BY <1>1, FS_Interval
  <2>. QED
    BY <2>1, FS_Subset, FS_CardinalityType
<1>3. PICK ids \in SetToSeqs(due) : s = [k \in DOMAIN ids |-> rows[ids[k]]]
  BY DEF FindByDeadlineRange
<1>4. ids \in [1..c -> due] /\ \A i, j \in 1..c : i # j => ids[i] # ids[j]
  BY <1>3 DEF SetToSeqs
<1>. HIDE DEF c
<1>5. \A k \in 1..c : ids[k] \in DOMAIN rows
  BY <1>4
<1>. HIDE DEF due
<1>6. s = [k \in 1..c |-> rows[ids[k]]]
  BY <1>3, <1>4
<1>7. s \in Seq(Task)
  BY <1>1, <1>2, <1>5, <1>6
<1>8. \A i, j \in 1..c : s[i].id = s[j].id => i = j
  BY <1>4, <1>5, <1>6
<1>9. \A k \in 1..c : s[k] \in ToSet(rows)
  BY <1>5, <1>6 DEF ToSet
<1>10. DOMAIN s = 1..c
  BY <1>6
<1>. QED
  BY <1>7, <1>8, <1>9, <1>10 DEF TaskList, ToSet

(***************************************************************************)
(* The invariant: the id of a row is its position, the tasks of the last   *)
(* request are rows, and its answer is what the services compute for them. *)
(***************************************************************************)
LEMMA InitIInv == Init => IInv
  BY DEF Init, IInv, TaskList, ToSet

LEMMA RowIsTask == \A id \in Nat, input \in Inputs : Row(id, input) \in Task /\ Row(id, input).id = id
  BY PlanningAssumption DEF Row, Task

LEMMA NextIInv == IInv /\ [Next]_vars => IInv'
<1>. SUFFICES ASSUME IInv, [Next]_vars PROVE IInv'
  OBVIOUS
<1>1. ASSUME NEW input \in Inputs, StoreTask(input) PROVE IInv'
  <2>1. Len(rows) + 1 \in Nat /\ Len(rows) \in Nat /\ DOMAIN rows = 1..Len(rows)
    BY DEF IInv
  <2>. DEFINE row == Row(Len(rows) + 1, input)
  <2>2. row \in Task /\ row.id = Len(rows) + 1
    BY <2>1, RowIsTask
  <2>3. rows' = Append(rows, row) /\ tasks' = tasks /\ answer' = answer
    BY <1>1 DEF StoreTask
  <2>. HIDE DEF row
  <2>4. rows' \in Seq(Task) /\ Len(rows') = Len(rows) + 1
        /\ DOMAIN rows' = 1..(Len(rows) + 1) /\ rows'[Len(rows) + 1] = row
        /\ \A i \in 1..Len(rows) : rows'[i] = rows[i]
    BY <2>2, <2>3 DEF IInv
  <2>5. \A i \in DOMAIN rows' : rows'[i].id = i
    BY <2>1, <2>2, <2>4 DEF IInv
  <2>6. ToSet(rows) \subseteq ToSet(rows')
    BY <2>1, <2>4 DEF ToSet
  <2>7. ToSet(tasks) \subseteq ToSet(rows')
    BY <2>6 DEF IInv
  <2>. QED
    BY <2>3, <2>4, <2>5, <2>7 DEF IInv
<1>2. ASSUME NEW range \in Ranges, tasks' \in FindByDeadlineRange(range), UNCHANGED rows,
             answer' \in {[kind |-> "failed"], [kind |-> "analysis", result |-> Analyze(tasks', DailyBudget)],
                          [kind |-> "plan", result |-> GenerateCandidates(tasks')]}
      PROVE  IInv'
  <2>1. tasks' \in TaskList /\ ToSet(tasks') \subseteq ToSet(rows)
    BY <1>2, RangeIsTaskList DEF IInv
  <2>. QED
    BY <1>2, <2>1 DEF IInv
<1>3. ASSUME NEW range \in Ranges, AnalyzeWorkload(range) PROVE IInv'
  BY <1>2, <1>3 DEF AnalyzeWorkload
<1>4. ASSUME NEW range \in Ranges, SuggestRescheduling(range) PROVE IInv'
  BY <1>2, <1>4 DEF SuggestRescheduling
<1>5. ASSUME NEW range \in Ranges, ExecuteSuggestRescheduling(range) PROVE IInv'
  BY <1>2, <1>5 DEF ExecuteSuggestRescheduling
<1>6. CASE UNCHANGED vars
  BY <1>6 DEF IInv, vars
<1>. QED
  BY <1>1, <1>3, <1>4, <1>5, <1>6 DEF Next

LEMMA Invariance == Spec => []IInv
  BY InitIInv, NextIInv, PTL DEF Spec

(***************************************************************************)
(* Stored tasks have different ids, and a request answers for some of      *)
(* them.                                                                   *)
(***************************************************************************)
THEOREM TypeCorrect == Spec => []TypeOK
<1>1. IInv => TypeOK
  BY DEF IInv, TypeOK
<1>. QED
  BY <1>1, Invariance, PTL

(***************************************************************************)
(* What a task list is made of, and its sort keys.                         *)
(***************************************************************************)
LEMMA TaskListShape ==
  ASSUME NEW s \in TaskList
  PROVE  /\ Len(s) \in Nat /\ DOMAIN s = 1..Len(s)
         /\ s \in [1..Len(s) -> Task] /\ s = [i \in 1..Len(s) |-> s[i]]
         /\ \A i, j \in 1..Len(s) : s[i].id = s[j].id => i = j
  BY DEF TaskList

LEMMA TaskFields ==
  ASSUME NEW t \in Task
  PROVE  /\ t.id \in Nat /\ t.name \in Nat /\ t.deadline \in Int
         /\ t.duration \in Int /\ (t.duration # None => t.duration > 0 /\ t.duration \in Nat)
  BY DEF Task, None

LEMMA TupleType ==
  ASSUME NEW m \in Nat, NEW key \in Seq(Int), Len(key) = m
  PROVE  key \in [1..m -> Int]
<1>1. DOMAIN key = 1..m /\ \A i \in 1..m : key[i] \in Int
  OBVIOUS
<1>2. key = [i \in 1..m |-> key[i]]
  OBVIOUS
<1>. QED
  BY <1>1, <1>2

LEMMA TupleAppend ==
  ASSUME NEW m \in Nat, NEW key \in Seq(Int), NEW x \in Int, Len(key) = m
  PROVE  /\ Append(key, x) \in [1..(m + 1) -> Int] /\ Append(key, x)[m + 1] = x
         /\ \A i \in 1..m : Append(key, x)[i] = key[i]
<1>1. Append(key, x) \in Seq(Int) /\ Len(Append(key, x)) = m + 1 /\ m + 1 \in Nat
  OBVIOUS
<1>2. Append(key, x)[m + 1] = x /\ \A i \in 1..m : Append(key, x)[i] = key[i]
  OBVIOUS
<1>3. Append(key, x) \in [1..(m + 1) -> Int]
  BY <1>1, TupleType
<1>. QED
  BY <1>2, <1>3

LEMMA KeyTypes ==
  ASSUME NEW t \in Task
  PROVE  /\ SortKey(t) \in [1..4 -> Int]
         /\ KeyWithId(t) \in [1..5 -> Int]
         /\ KeyWithId(t)[5] = t.id
<1>1. t.name \in Int /\ t.deadline \in Int /\ t.id \in Int
  BY TaskFields
<1>2. PriorityKey(t) \in Int
  BY DEF PriorityKey, Task
<1>3. SortKey(t) \in Seq(Int) /\ Len(SortKey(t)) = 4
  BY <1>1, <1>2 DEF SortKey
<1>4. /\ SortKey(t) \in [1..4 -> Int]
      /\ Append(SortKey(t), t.id) \in [1..(4 + 1) -> Int] /\ Append(SortKey(t), t.id)[4 + 1] = t.id
  BY <1>1, <1>3, TupleType, TupleAppend
<1>5. 4 + 1 = 5
  OBVIOUS
<1>6. Append(SortKey(t), t.id) \in [1..5 -> Int] /\ Append(SortKey(t), t.id)[5] = t.id
  BY <1>4, <1>5
<1>. QED
  BY <1>4, <1>6 DEF KeyWithId

(***************************************************************************)
(* The minutes of some tasks do not depend on how they are listed.         *)
(***************************************************************************)
LEMMA SelectedMinutes ==
  ASSUME NEW s \in TaskList, NEW I \in SUBSET (DOMAIN s),
         \A i \in I : s[i].duration # None
  PROVE  /\ Minutes(Selected(s, I)) = Total([i \in I |-> s[i].duration])
         /\ Minutes(Selected(s, I)) \in Nat
<1>. DEFINE c == Cardinality(I)  d == [i \in I |-> s[i].duration]
<1>1. I \in SUBSET (1..Len(s)) /\ Len(s) \in Nat
  BY TaskListShape
<1>2. d \in [I -> Nat]
  BY <1>1, TaskListShape, TaskFields
<1>3. IsFiniteSet(I) /\ c \in Nat
  BY <1>1, PositionsFinite
<1>4. PICK f : Enumerates(f, I) /\ Selected(s, I) = Along(s, f, c)
  BY <1>1, SelectedEnumerates
<1>5. \A k \in 1..c : f[k] \in I
  BY <1>4 DEF Enumerates
<1>6. Minutes(Along(s, f, c)) = Total([k \in 1..c |-> d[f[k]]])
  <2>1. [k \in DOMAIN Along(s, f, c) |-> Along(s, f, c)[k].duration] = [k \in 1..c |-> d[f[k]]]
    BY <1>5 DEF Along
  <2>. QED
    BY <2>1 DEF Minutes
<1>. HIDE DEF d
<1>7. Total([k \in 1..c |-> d[f[k]]]) = Total(d) /\ Total(d) \in Nat
  BY <1>2, <1>3, <1>4, EnumeratedTotal, TotalType
<1>. QED
  BY <1>4, <1>6, <1>7 DEF d

(***************************************************************************)
(* The load of a day: the minutes of the active tasks that are due on it.  *)
(***************************************************************************)
Due(s, day) == {i \in DOMAIN s : Active(s[i]) /\ Timed(s[i]) /\ Day(s[i].deadline) = day}
Load(s, day) == Total([i \in Due(s, day) |-> s[i].duration])
OverloadedDays(s, budget) ==
  {day \in {Day(s[i].deadline) : i \in DOMAIN s} : Load(s, day) > budget}

LEMMA DueType ==
  ASSUME NEW s \in TaskList, NEW day
  PROVE  /\ Due(s, day) \in SUBSET (1..Len(s)) /\ IsFiniteSet(Due(s, day))
         /\ [i \in Due(s, day) |-> s[i].duration] \in [Due(s, day) -> Nat]
         /\ Load(s, day) \in Nat
         /\ \A budget \in Nat : Load(s, day) > budget => Due(s, day) # {}
<1>1. Due(s, day) \in SUBSET (1..Len(s)) /\ Len(s) \in Nat
  BY TaskListShape DEF Due
<1>2. IsFiniteSet(Due(s, day))
  BY <1>1, PositionsFinite
<1>. DEFINE d == [i \in Due(s, day) |-> s[i].duration]
<1>3. d \in [Due(s, day) -> Nat]
  <2>1. \A i \in Due(s, day) : s[i] \in Task /\ s[i].duration # None
    BY <1>1, TaskListShape DEF Due, Timed
  <2>. QED
    BY <2>1, TaskFields
<1>4. Load(s, day) = Total(d)
  BY DEF Load
<1>. HIDE DEF d
<1>5. Total(d) \in Nat
  BY <1>2, <1>3, TotalType
<1>6. Due(s, day) = {} => Total(d) = 0
  BY <1>3, TotalEmpty
<1>7. \A budget \in Nat : Load(s, day) > budget => Due(s, day) # {}
  BY <1>4, <1>5, <1>6
<1>. QED
  BY <1>1, <1>2, <1>3, <1>4, <1>5, <1>7 DEF d

LEMMA SelectedTasks ==
  ASSUME NEW s \in TaskList, NEW I \in SUBSET (DOMAIN s)
  PROVE  /\ Selected(s, I) \in TaskList
         /\ \E f : Enumerates(f, I) /\ Selected(s, I) = Along(s, f, Cardinality(I))
<1>. DEFINE c == Cardinality(I)
<1>1. Len(s) \in Nat /\ DOMAIN s = 1..Len(s) /\ s \in [1..Len(s) -> Task]
  BY TaskListShape
<1>2. I \in SUBSET (1..Len(s)) /\ c \in Nat
  BY <1>1, PositionsFinite
<1>3. PICK f : Enumerates(f, I) /\ Selected(s, I) = Along(s, f, c)
  BY <1>1, <1>2, SelectedEnumerates
<1>4. f \in [1..c -> I] /\ \A k, l \in 1..c : f[k] = f[l] => k = l
  BY <1>3 DEF Enumerates
<1>. DEFINE t == Along(s, f, c)
<1>. HIDE DEF c
<1>5. DOMAIN t = 1..c /\ \A k \in 1..c : t[k] = s[f[k]] /\ f[k] \in 1..Len(s)
  BY <1>2, <1>4 DEF Along
<1>6. t \in Seq(Task)
  BY <1>1, <1>2, <1>5 DEF Along
<1>7. \A k, l \in 1..c : t[k].id = t[l].id => k = l
  BY <1>1, <1>4, <1>5, TaskListShape
<1>. HIDE DEF t
<1>8. t \in TaskList
  BY <1>5, <1>6, <1>7 DEF TaskList
<1>. QED
  BY <1>3, <1>8 DEF c, t

(***************************************************************************)
(* The analysis computes the loads, although it only sees the active tasks *)
(* and adds up those of a day in a list of their own.                      *)
(***************************************************************************)
ActiveTasks(s) == Selected(s, {i \in DOMAIN s : Active(s[i])})
TimedOn(s, day) == {i \in DOMAIN s : Timed(s[i]) /\ Day(s[i].deadline) = day}

LEMMA MinutesOfDay ==
  ASSUME NEW s \in TaskList, NEW day
  PROVE  Minutes(Selected(ActiveTasks(s), TimedOn(ActiveTasks(s), day))) = Load(s, day)
<1>. DEFINE A == {i \in DOMAIN s : Active(s[i])}  t == Selected(s, A)  c == Cardinality(A)
            J == TimedOn(t, day)  d == [i \in Due(s, day) |-> s[i].duration]
<1>1. PICK f : t \in TaskList /\ Enumerates(f, A) /\ t = Along(s, f, c)
  BY SelectedTasks
<1>2. /\ DOMAIN t = 1..c /\ \A k \in 1..c : f[k] \in A /\ t[k] = s[f[k]]
      /\ \A i \in A : \E k \in 1..c : f[k] = i
      /\ \A k, l \in 1..c : f[k] = f[l] => k = l
  <2>. HIDE DEF A
  <2>1. DOMAIN Along(s, f, c) = 1..c /\ \A k \in 1..c : f[k] \in A /\ Along(s, f, c)[k] = s[f[k]]
    BY <1>1, EnumeratedElements
  <2>2. /\ \A i \in A : \E k \in 1..c : f[k] = i
        /\ \A k, l \in 1..c : f[k] = f[l] => k = l
    BY <1>1 DEF Enumerates
  <2>. HIDE DEF c, t
  <2>. QED
    BY <1>1, <2>1, <2>2
<1>3. /\ J \in SUBSET (1..c)
      /\ \A j \in 1..c : j \in J <=> Timed(s[f[j]]) /\ Day(s[f[j]].deadline) = day
  BY <1>2 DEF TimedOn
<1>4. \A i : i \in Due(s, day) <=> i \in A /\ Timed(s[i]) /\ Day(s[i].deadline) = day
  BY DEF Due
<1>5. \A j \in J : t[j].duration # None
  BY DEF TimedOn, Timed
<1>. HIDE DEF t, J, A, c
<1>6. Minutes(Selected(t, J)) = Total([j \in J |-> t[j].duration])
  <2>1. t \in TaskList /\ J \in SUBSET (DOMAIN t)
    BY <1>1, <1>2, <1>3
  <2>. QED
    BY ONLY <1>5, <2>1, SelectedMinutes
<1>. DEFINE e == [j \in J |-> f[j]]
<1>7. /\ e \in [J -> Due(s, day)]
      /\ \A a, b \in J : e[a] = e[b] => a = b
  BY <1>2, <1>3, <1>4
<1>8. \A x \in Due(s, day) : \E j \in J : e[j] = x
  <2>1. ASSUME NEW x \in Due(s, day) PROVE \E j \in J : e[j] = x
    <3>1. PICK j \in 1..c : f[j] = x
      BY <1>2, <1>4
    <3>. QED
      BY <1>3, <1>4, <3>1
  <2>. QED
    BY <2>1
<1>9. d \in [Due(s, day) -> Nat] /\ IsFiniteSet(Due(s, day))
  BY DueType
<1>10. \A j \in J : d[e[j]] = t[j].duration
  BY <1>2, <1>3, <1>7
<1>. HIDE DEF d, e
<1>11. Total([j \in J |-> d[e[j]]]) = Total(d)
  BY <1>7, <1>8, <1>9, TotalRenamed
<1>12. [j \in J |-> d[e[j]]] = [j \in J |-> t[j].duration]
  BY <1>10
<1>. QED
  BY <1>6, <1>11, <1>12 DEF d, Load, t, J, A, ActiveTasks

DueDays(s) == {Day(s[i].deadline) : i \in {j \in DOMAIN s : Timed(s[j])}}

LEMMA DueDaysType ==
  ASSUME NEW s \in TaskList
  PROVE  DueDays(s) \in SUBSET Int /\ IsFiniteSet(DueDays(s))
<1>. DEFINE I == {j \in DOMAIN s : Timed(s[j])}  f == [i \in DOMAIN s |-> Day(s[i].deadline)]
<1>1. Len(s) \in Nat /\ DOMAIN s = 1..Len(s) /\ \A i \in 1..Len(s) : s[i].deadline \in Int
  BY TaskListShape, TaskFields
<1>2. I \in SUBSET (1..Len(s)) /\ DueDays(s) = {f[i] : i \in I}
  BY <1>1 DEF DueDays
<1>3. \A i \in I : f[i] \in Int
  BY <1>1, PlanningAssumption DEF Day
<1>. HIDE DEF I, f
<1>. QED
  BY <1>1, <1>2, <1>3, ImageFinite

LEMMA DailyPressureShape ==
  ASSUME NEW s \in TaskList
  PROVE  /\ Cardinality(DueDays(s)) \in Nat
         /\ DOMAIN DailyPressure(s) = 1..Cardinality(DueDays(s))
         /\ \A k \in 1..Cardinality(DueDays(s)) :
              /\ DailyPressure(s)[k].date \in DueDays(s)
              /\ DailyPressure(s)[k].planned = Minutes(Selected(s, TimedOn(s, DailyPressure(s)[k].date)))
         /\ \A day \in DueDays(s) : \E k \in 1..Cardinality(DueDays(s)) : DailyPressure(s)[k].date = day
<1>. DEFINE c == Cardinality(DueDays(s))  days == Ascending(DueDays(s))
<1>1. /\ DOMAIN days = 1..c /\ c \in Nat
      /\ \A k \in 1..c : days[k] \in DueDays(s)
      /\ \A x \in DueDays(s) : \E k \in 1..c : days[k] = x
  BY DueDaysType, AscendingElements
<1>2. \A day : {i \in {j \in DOMAIN s : Timed(s[j])} : Day(s[i].deadline) = day} = TimedOn(s, day)
  BY DEF TimedOn
<1>3. DailyPressure(s) = [k \in DOMAIN days |->
         [date |-> days[k], planned |-> Minutes(Selected(s, TimedOn(s, days[k]))),
          tasks |-> Ids(SortTasks(Selected(s, TimedOn(s, days[k]))))]]
  BY <1>2 DEF DailyPressure, DueDays
<1>. HIDE DEF c, days
<1>. QED
  BY <1>1, <1>3 DEF c

LEMMA ActiveElements ==
  ASSUME NEW s \in TaskList
  PROVE  /\ ActiveTasks(s) \in TaskList
         /\ \A k \in DOMAIN ActiveTasks(s) :
              \E i \in DOMAIN s : Active(s[i]) /\ ActiveTasks(s)[k] = s[i]
         /\ \A i \in DOMAIN s :
              Active(s[i]) => \E k \in DOMAIN ActiveTasks(s) : ActiveTasks(s)[k] = s[i]
<1>. DEFINE A == {i \in DOMAIN s : Active(s[i])}  c == Cardinality(A)
<1>1. PICK f : Selected(s, A) \in TaskList /\ Enumerates(f, A) /\ Selected(s, A) = Along(s, f, c)
  BY SelectedTasks
<1>2. /\ DOMAIN Along(s, f, c) = 1..c
      /\ \A k \in 1..c : f[k] \in A /\ Along(s, f, c)[k] = s[f[k]]
  <2>. HIDE DEF A
  <2>. QED
    BY <1>1, EnumeratedElements
<1>3. \A i \in A : \E k \in 1..c : f[k] = i
  BY <1>1 DEF Enumerates
<1>4. ActiveTasks(s) = Along(s, f, c) /\ ActiveTasks(s) \in TaskList
  BY <1>1 DEF ActiveTasks
<1>. HIDE DEF c
<1>. QED
  BY <1>2, <1>3, <1>4

LEMMA OverloadsOf ==
  ASSUME NEW s \in TaskList, NEW budget \in Nat
  PROVE  LET over == OverloadWarnings(DailyPressure(ActiveTasks(s)), budget)
         IN  /\ {over[k] : k \in DOMAIN over} =
                  {[date |-> day, excess |-> Load(s, day) - budget] : day \in OverloadedDays(s, budget)}
             /\ {over[k].date : k \in DOMAIN over} = OverloadedDays(s, budget)
<1>. DEFINE t == ActiveTasks(s)  p == DailyPressure(t)  c == Cardinality(DueDays(t))
            J == {i \in DOMAIN p : p[i].planned > budget}  over == OverloadWarnings(p, budget)
            n == Cardinality(J)
<1>1. t \in TaskList
  BY ActiveElements
<1>2. /\ c \in Nat /\ DOMAIN p = 1..c
      /\ \A k \in 1..c : p[k].date \in DueDays(t) /\ p[k].planned = Load(s, p[k].date)
      /\ \A day \in DueDays(t) : \E k \in 1..c : p[k].date = day
  BY <1>1, DailyPressureShape, MinutesOfDay
<1>3. /\ \A day \in DueDays(t) : day \in {Day(s[i].deadline) : i \in DOMAIN s}
      /\ \A day : Load(s, day) > budget => day \in DueDays(t)
  <2>1. ASSUME NEW day \in DueDays(t) PROVE day \in {Day(s[i].deadline) : i \in DOMAIN s}
    <3>1. PICK k \in DOMAIN t : Timed(t[k]) /\ day = Day(t[k].deadline)
      BY DEF DueDays
    <3>2. PICK i \in DOMAIN s : t[k] = s[i]
      BY ActiveElements
    <3>. QED
      BY <3>1, <3>2
  <2>2. ASSUME NEW day, Load(s, day) > budget PROVE day \in DueDays(t)
    <3>1. PICK i \in DOMAIN s : Active(s[i]) /\ Timed(s[i]) /\ Day(s[i].deadline) = day
      BY <2>2, DueType DEF Due
    <3>2. PICK k \in DOMAIN t : t[k] = s[i]
      BY <3>1, ActiveElements
    <3>. QED
      BY <3>1, <3>2 DEF DueDays
  <2>. QED
    BY <2>1, <2>2
<1>4. J \in SUBSET (1..c) /\ \A k \in 1..c : k \in J <=> Load(s, p[k].date) > budget
  BY <1>2
<1>5. over = [k \in DOMAIN Selected(p, J) |->
                [date |-> Selected(p, J)[k].date, excess |-> Selected(p, J)[k].planned - budget]]
  BY DEF OverloadWarnings
<1>. HIDE DEF J, p, over, t, c
<1>6. PICK f : Enumerates(f, J) /\ Selected(p, J) = Along(p, f, n)
  BY <1>2, <1>4, SelectedEnumerates
<1>7. /\ DOMAIN Selected(p, J) = 1..n
      /\ \A k \in 1..n : f[k] \in J /\ Selected(p, J)[k] = p[f[k]]
  BY <1>6, EnumeratedElements
<1>8. \A i \in J : \E k \in 1..n : f[k] = i
  BY <1>6 DEF Enumerates
<1>. HIDE DEF n
<1>9. /\ DOMAIN over = 1..n
      /\ \A k \in 1..n : /\ p[f[k]].date \in OverloadedDays(s, budget)
                         /\ over[k] = [date |-> p[f[k]].date,
                                       excess |-> Load(s, p[f[k]].date) - budget]
  BY <1>2, <1>3, <1>4, <1>5, <1>7 DEF OverloadedDays
<1>10. ASSUME NEW day \in OverloadedDays(s, budget) PROVE \E k \in 1..n : p[f[k]].date = day
  <2>1. Load(s, day) > budget
    BY DEF OverloadedDays
  <2>2. PICK i \in 1..c : p[i].date = day
    BY <1>2, <1>3, <2>1
  <2>3. PICK k \in 1..n : f[k] = i
    BY <1>4, <1>8, <2>1, <2>2
  <2>. QED
    BY <2>2, <2>3
<1>11. {over[k].date : k \in DOMAIN over} = OverloadedDays(s, budget)
  BY <1>9, <1>10
<1>12. {over[k] : k \in DOMAIN over} =
         {[date |-> day, excess |-> Load(s, day) - budget] : day \in OverloadedDays(s, budget)}
  BY <1>9, <1>10
<1>. QED
  BY <1>11, <1>12 DEF over, p, t

(***************************************************************************)
(* For a task list the suggestion service drops no task as a duplicate or  *)
(* for an invalid duration, and it reports the days of the analysis.       *)
(***************************************************************************)
LEMMA NothingDropped ==
  ASSUME NEW s \in TaskList
  PROVE  /\ Unique(s) = s
         /\ Selected(s, {i \in DOMAIN s : s[i].duration = None \/ s[i].duration > 0}) = s
<1>1. Len(s) \in Nat /\ DOMAIN s = 1..Len(s) /\ s = [i \in 1..Len(s) |-> s[i]]
  BY TaskListShape
<1>2. Selected(s, 1..Len(s)) = s
  BY <1>1, SelectedAll
<1>3. {i \in DOMAIN s : \A j \in 1..(i - 1) : s[j].id # s[i].id} = 1..Len(s)
  <2>1. ASSUME NEW i \in 1..Len(s), NEW j \in 1..(i - 1) PROVE s[j].id # s[i].id
    <3>1. j \in 1..Len(s) /\ j # i
      BY <1>1
    <3>. QED
      BY <3>1, TaskListShape
  <2>. QED
    BY <1>1, <2>1
<1>4. {i \in DOMAIN s : s[i].duration = None \/ s[i].duration > 0} = 1..Len(s)
  <2>1. \A i \in 1..Len(s) : s[i].duration = None \/ s[i].duration > 0
    BY TaskListShape, TaskFields
  <2>. QED
    BY <1>1, <2>1
<1>. QED
  BY <1>2, <1>3, <1>4 DEF Unique

LEMMA AnalysisOverloads ==
  ASSUME NEW s, NEW budget
  PROVE  Analyze(s, budget).overloads = OverloadWarnings(DailyPressure(ActiveTasks(s)), budget)
  BY DEF Analyze, ActiveTasks

InOrderOfKeys(s) == Sorted(s, [i \in DOMAIN s |-> KeyWithId(s[i])])
PlannedAt(s) == {i \in DOMAIN s : Active(s[i]) /\ Suggested(s[i], s)}
UnscheduledAt(s) == {i \in DOMAIN s : Active(s[i]) /\ Unscheduled(s[i], s)}

LEMMA CandidatesOf ==
  ASSUME NEW s \in TaskList
  PROVE  LET over    == OverloadWarnings(DailyPressure(ActiveTasks(s)), DefaultBudget)
             planned == InOrderOfKeys(Selected(s, PlannedAt(s)))
         IN  GenerateCandidates(s) =
               [suggestions |-> [i \in DOMAIN planned |->
                                   [id |-> planned[i].id, slot |-> FindCandidateSlots(planned[i], s)]],
                overloadedDays |-> [i \in DOMAIN over |-> over[i].date],
                unscheduled |-> Ids(InOrderOfKeys(Selected(s, UnscheduledAt(s))))]
<1>1. /\ {i \in {j \in DOMAIN s : Active(s[j])} : Suggested(s[i], s)} = PlannedAt(s)
      /\ {i \in {j \in DOMAIN s : Active(s[j])} : Unscheduled(s[i], s)} = UnscheduledAt(s)
  BY DEF PlannedAt, UnscheduledAt
<1>. QED
  BY <1>1, NothingDropped, AnalysisOverloads DEF GenerateCandidates, InOrderOfKeys

(***************************************************************************)
(* The loads in terms of ids, as the property states them.                 *)
(***************************************************************************)
LEMMA TaskOfId ==
  ASSUME tasks \in TaskList, NEW i \in DOMAIN tasks
  PROVE  TaskOf(tasks[i].id) = tasks[i]
<1>1. \A t \in ToSet(tasks) : t.id = tasks[i].id => t = tasks[i]
  BY DEF TaskList, ToSet
<1>2. tasks[i] \in ToSet(tasks)
  BY DEF ToSet
<1>. QED
  BY <1>1, <1>2 DEF TaskOf

LEMMA LoadsAgree ==
  ASSUME tasks \in TaskList, NEW day
  PROVE  LoadOf(day) = Load(tasks, day)
<1>. DEFINE K == {k \in ActiveIds : Timed(TaskOf(k)) /\ Day(TaskOf(k).deadline) = day}
            d == [id \in K |-> TaskOf(id).duration]
            I == Due(tasks, day)
            f == [i \in I |-> tasks[i].id]
<1>1. \A id : id \in ActiveIds <=> \E i \in DOMAIN tasks : Active(tasks[i]) /\ tasks[i].id = id
  BY DEF ActiveIds
<1>2. \A i \in I : i \in DOMAIN tasks /\ Active(tasks[i]) /\ Timed(tasks[i]) /\ Day(tasks[i].deadline) = day
  BY DEF Due
<1>3. ASSUME NEW id \in K PROVE \E i \in I : f[i] = id
  <2>1. PICK i \in DOMAIN tasks : Active(tasks[i]) /\ tasks[i].id = id
    BY <1>1
  <2>2. TaskOf(id) = tasks[i]
    BY <2>1, TaskOfId
  <2>3. i \in I
    BY <2>1, <2>2 DEF Due
  <2>. QED
    BY <2>1, <2>3
<1>4. \A i \in I : f[i] \in K /\ TaskOf(f[i]) = tasks[i]
  BY <1>1, <1>2, TaskOfId
<1>5. \A i, j \in I : f[i] = f[j] => i = j
  BY <1>2, TaskListShape
<1>6. IsFiniteSet(I) /\ [i \in I |-> tasks[i].duration] \in [I -> Nat]
  BY DueType
<1>7. IsFiniteSet(K)
  <2>1. I \in SUBSET (1..Len(tasks)) /\ Len(tasks) \in Nat
    BY DueType, TaskListShape
  <2>2. K = {f[i] : i \in I}
    BY <1>3, <1>4
  <2>. HIDE DEF K, I, f
  <2>. QED
    BY <2>1, <2>2, ImageFinite
<1>8. \A i \in I : d[f[i]] = tasks[i].duration
  BY <1>4
<1>9. d \in [K -> Nat]
  BY <1>3, <1>4, <1>6
<1>10. f \in [I -> K]
  BY <1>4
<1>11. LoadOf(day) = Total(d)
  BY DEF LoadOf
<1>. HIDE DEF d, f, K, I
<1>12. Total([i \in I |-> d[f[i]]]) = Total(d)
  BY <1>3, <1>5, <1>7, <1>9, <1>10, TotalRenamed
<1>13. [i \in I |-> d[f[i]]] = [i \in I |-> tasks[i].duration]
  BY <1>8
<1>. QED
  BY <1>11, <1>12, <1>13 DEF I, Load

LEMMA BudgetTypes == DailyBudget \in Nat /\ DefaultBudget \in Nat
  BY PlanningAssumption

LEMMA OverloadedAgree ==
  ASSUME tasks \in TaskList
  PROVE  /\ \A budget : Overloaded(budget) = OverloadedDays(tasks, budget)
         /\ \A day : LoadOf(day) = Load(tasks, day)
<1>1. \A day : LoadOf(day) = Load(tasks, day)
  BY LoadsAgree
<1>2. {Day(task.deadline) : task \in ToSet(tasks)} = {Day(tasks[i].deadline) : i \in DOMAIN tasks}
  BY DEF ToSet
<1>. QED
  BY <1>1, <1>2 DEF Overloaded, OverloadedDays

LEMMA PlanOverloads ==
  ASSUME NEW s \in TaskList
  PROVE  ToSet(GenerateCandidates(s).overloadedDays) = OverloadedDays(s, DefaultBudget)
<1>. DEFINE over == OverloadWarnings(DailyPressure(ActiveTasks(s)), DefaultBudget)
            days == GenerateCandidates(s).overloadedDays
<1>1. days = [i \in DOMAIN over |-> over[i].date]
  BY CandidatesOf
<1>2. {over[i].date : i \in DOMAIN over} = OverloadedDays(s, DefaultBudget)
  BY OverloadsOf, BudgetTypes
<1>. HIDE DEF over, days
<1>3. {days[i] : i \in DOMAIN days} = OverloadedDays(s, DefaultBudget)
  BY <1>1, <1>2
<1>. QED
  BY <1>3 DEF ToSet, days

LEMMA AnswerShape ==
  ASSUME IInv
  PROVE  /\ tasks \in TaskList
         /\ Analyzed => Analysis = Analyze(tasks, DailyBudget)
         /\ Planned => Plan = GenerateCandidates(tasks)
  BY DEF IInv, Analyzed, Planned, Analysis, Plan

(***************************************************************************)
(* Each service reports exactly the days whose active tasks need more than *)
(* the budget it has, the configured or the default one, and the analysis  *)
(* reports the right excess.                                               *)
(***************************************************************************)
THEOREM OverloadsAreExact == Spec => []OverloadsExact
<1>1. ASSUME IInv PROVE OverloadsExact
  <2>1. ASSUME Analyzed
        PROVE  ToSet(Analysis.overloads) =
                 {[date |-> day, excess |-> LoadOf(day) - DailyBudget] :
                    day \in Overloaded(DailyBudget)}
    <3>. DEFINE over == OverloadWarnings(DailyPressure(ActiveTasks(tasks)), DailyBudget)
    <3>1. Analysis.overloads = over
      BY <1>1, <2>1, AnswerShape, AnalysisOverloads
    <3>2. {over[k] : k \in DOMAIN over} =
            {[date |-> day, excess |-> Load(tasks, day) - DailyBudget] :
               day \in OverloadedDays(tasks, DailyBudget)}
      BY <1>1, AnswerShape, OverloadsOf, BudgetTypes
    <3>. HIDE DEF over
    <3>3. ToSet(over) = {[date |-> day, excess |-> LoadOf(day) - DailyBudget] :
                           day \in Overloaded(DailyBudget)}
      BY <1>1, <3>2, AnswerShape, OverloadedAgree DEF ToSet
    <3>. QED
      BY <3>1, <3>3
  <2>2. ASSUME Planned PROVE ToSet(Plan.overloadedDays) = Overloaded(DefaultBudget)
    BY <1>1, <2>2, AnswerShape, PlanOverloads, OverloadedAgree
  <2>. QED
    BY <2>1, <2>2 DEF OverloadsExact
<1>. QED
  BY <1>1, Invariance, PTL

(***************************************************************************)
(* The lists of a plan: the tasks with a slot and the others, each once.   *)
(***************************************************************************)
LEMMA InOrderShape ==
  ASSUME NEW s \in TaskList, NEW I \in SUBSET (DOMAIN s)
  PROVE  \E f : Enumerates(f, I) /\ InOrderOfKeys(Selected(s, I)) = Along(s, f, Cardinality(I))
<1>. DEFINE t == Selected(s, I)  c == Cardinality(I)  key == [k \in DOMAIN t |-> KeyWithId(t[k])]
<1>1. Len(s) \in Nat /\ I \in SUBSET (1..Len(s))
  BY TaskListShape
<1>2. PICK g : t \in TaskList /\ Enumerates(g, I) /\ t = Along(s, g, c)
  BY SelectedTasks
<1>3. DOMAIN t = 1..c
  BY <1>2 DEF Along
<1>4. \A k \in 1..c : t[k] \in Task
  BY <1>2, <1>3, TaskListShape
<1>5. key \in [1..c -> [1..5 -> Int]]
  BY <1>3, <1>4, KeyTypes
<1>6. InOrderOfKeys(t) = Sorted(t, key)
  BY DEF InOrderOfKeys
<1>. HIDE DEF key
<1>7. \E f : Enumerates(f, I) /\ Sorted(t, key) = Along(s, f, c)
  <2>1. key \in [1..Cardinality(I) -> [1..5 -> Int]] /\ 5 \in Nat
    BY <1>5
  <2>. QED
    BY ONLY <1>1, <2>1, SortedEnumerates
<1>. QED
  BY <1>6, <1>7

LEMMA ActiveSplit ==
  ASSUME NEW s \in TaskList
  PROVE  LET A == {i \in DOMAIN s : Active(s[i])}
         IN  /\ PlannedAt(s) \cup UnscheduledAt(s) = A
             /\ PlannedAt(s) \cap UnscheduledAt(s) = {}
             /\ PlannedAt(s) \in SUBSET (DOMAIN s) /\ UnscheduledAt(s) \in SUBSET (DOMAIN s)
  BY DEF PlannedAt, UnscheduledAt, Unscheduled

LEMMA ActiveCount ==
  ASSUME tasks \in TaskList
  PROVE  Cardinality(ActiveIds) = Cardinality({i \in DOMAIN tasks : Active(tasks[i])})
<1>. DEFINE A == {i \in DOMAIN tasks : Active(tasks[i])}  f == [i \in A |-> tasks[i].id]
<1>1. A \in SUBSET (1..Len(tasks)) /\ Len(tasks) \in Nat
  BY TaskListShape
<1>2. /\ f \in [A -> ActiveIds]
      /\ \A i, j \in A : f[i] = f[j] => i = j
      /\ \A id \in ActiveIds : \E i \in A : f[i] = id
  BY <1>1, TaskListShape DEF ActiveIds
<1>. HIDE DEF A, f
<1>3. f \in Bijection(A, ActiveIds)
  BY <1>2, Fun_IsBij
<1>4. ExistsBijection(A, ActiveIds)
  BY <1>3 DEF ExistsBijection
<1>5. Cardinality(ActiveIds) = Cardinality(A)
  BY <1>1, <1>4, PositionsFinite, FS_Bijection
<1>. QED
  BY <1>5 DEF A

LEMMA SuggestionsOf ==
  ASSUME NEW s \in TaskList
  PROVE  \E f : /\ Enumerates(f, PlannedAt(s))
                /\ GenerateCandidates(s).suggestions =
                     [k \in 1..Cardinality(PlannedAt(s)) |->
                        [id |-> s[f[k]].id, slot |-> FindCandidateSlots(s[f[k]], s)]]
<1>. DEFINE I == PlannedAt(s)  planned == InOrderOfKeys(Selected(s, I))  c == Cardinality(I)
<1>1. I \in SUBSET (DOMAIN s)
  BY ActiveSplit
<1>2. GenerateCandidates(s).suggestions =
        [i \in DOMAIN planned |-> [id |-> planned[i].id, slot |-> FindCandidateSlots(planned[i], s)]]
  BY CandidatesOf
<1>. HIDE DEF I
<1>3. PICK f : Enumerates(f, I) /\ planned = Along(s, f, c)
  BY <1>1, InOrderShape
<1>. HIDE DEF planned
<1>4. DOMAIN planned = 1..c /\ \A k \in 1..c : planned[k] = s[f[k]]
  BY <1>3 DEF Along
<1>5. GenerateCandidates(s).suggestions =
        [k \in 1..c |-> [id |-> s[f[k]].id, slot |-> FindCandidateSlots(s[f[k]], s)]]
  BY <1>2, <1>4
<1>. QED
  BY <1>3, <1>5 DEF I

LEMMA UnscheduledOf ==
  ASSUME NEW s \in TaskList
  PROVE  \E f : /\ Enumerates(f, UnscheduledAt(s))
                /\ GenerateCandidates(s).unscheduled =
                     [k \in 1..Cardinality(UnscheduledAt(s)) |-> s[f[k]].id]
<1>. DEFINE I == UnscheduledAt(s)  list == InOrderOfKeys(Selected(s, I))  c == Cardinality(I)
<1>1. I \in SUBSET (DOMAIN s)
  BY ActiveSplit
<1>2. GenerateCandidates(s).unscheduled = [i \in DOMAIN list |-> list[i].id]
  BY CandidatesOf DEF Ids
<1>. HIDE DEF I
<1>3. PICK f : Enumerates(f, I) /\ list = Along(s, f, c)
  BY <1>1, InOrderShape
<1>. HIDE DEF list
<1>4. DOMAIN list = 1..c /\ \A k \in 1..c : list[k] = s[f[k]]
  BY <1>3 DEF Along
<1>5. GenerateCandidates(s).unscheduled = [k \in 1..c |-> s[f[k]].id]
  BY <1>2, <1>4
<1>. QED
  BY <1>3, <1>5 DEF I

LEMMA Concatenation ==
  ASSUME NEW S, NEW a \in Seq(S), NEW b \in Seq(S)
  PROVE  /\ a \o b \in Seq(S) /\ DOMAIN (a \o b) = 1..(Len(a) + Len(b)) /\ Len(a \o b) = Len(a) + Len(b)
         /\ \A k \in 1..Len(a) : (a \o b)[k] = a[k]
         /\ \A k \in 1..Len(b) : (a \o b)[Len(a) + k] = b[k]
  OBVIOUS

(***************************************************************************)
(* Every active task is in a plan once, with a slot or as unscheduled, and *)
(* no other task is.                                                       *)
(***************************************************************************)
THEOREM NoTaskLost == Spec => []EveryTaskAnswered
<1>1. ASSUME IInv, Planned PROVE EveryTaskAnswered
  <2>. DEFINE s == tasks  P == PlannedAt(s)  U == UnscheduledAt(s)  m == Cardinality(P)  n == Cardinality(U)
              A == {i \in DOMAIN s : Active(s[i])}
              first == Ids(Plan.suggestions)  second == Plan.unscheduled
  <2>1. s \in TaskList /\ Plan = GenerateCandidates(s)
    BY <1>1, AnswerShape
  <2>2. /\ P \cup U = A /\ P \cap U = {}
        /\ P \in SUBSET (1..Len(s)) /\ U \in SUBSET (1..Len(s)) /\ Len(s) \in Nat
    BY <2>1, ActiveSplit, TaskListShape
  <2>3. IsFiniteSet(P) /\ IsFiniteSet(U) /\ m \in Nat /\ n \in Nat
    BY <2>2, PositionsFinite
  <2>4. PICK f : /\ Enumerates(f, P)
                 /\ Plan.suggestions = [k \in 1..m |-> [id |-> s[f[k]].id, slot |-> FindCandidateSlots(s[f[k]], s)]]
    BY <2>1, SuggestionsOf
  <2>5. PICK g : Enumerates(g, U) /\ second = [k \in 1..n |-> s[g[k]].id]
    BY <2>1, UnscheduledOf
  <2>6. Cardinality(A) = m + n
    <3>. HIDE DEF P, U, A
    <3>1. Cardinality(P \cup U) = m + n - Cardinality(P \cap U)
      BY <2>3, FS_Union
    <3>2. Cardinality(P \cap U) = 0
      BY <2>2, FS_EmptySet
    <3>3. P \cup U = A
      BY <2>2
    <3>. HIDE DEF m, n
    <3>4. Cardinality(A) = m + n - 0
      BY <3>1, <3>2, <3>3
    <3>. QED
      BY <2>3, <3>4
  <2>7. Cardinality(A) = Cardinality(ActiveIds)
    BY <2>1, ActiveCount
  <2>8. ActiveIds = {s[i].id : i \in A}
    BY DEF ActiveIds
  <2>9. first = [k \in 1..m |-> s[f[k]].id]
    BY <2>4 DEF Ids
  <2>10. /\ \A k \in 1..m : f[k] \in P
         /\ \A i \in P : \E k \in 1..m : f[k] = i
    BY <2>4 DEF Enumerates
  <2>11. /\ \A k \in 1..n : g[k] \in U
         /\ \A i \in U : \E k \in 1..n : g[k] = i
    BY <2>5 DEF Enumerates
  <2>. HIDE DEF s, P, U, A, m, n, first, second
  <2>. DEFINE answered == first \o second
  <2>12. first \in Seq({s[i].id : i \in A}) /\ Len(first) = m /\ DOMAIN first = 1..m
    BY <2>2, <2>3, <2>9, <2>10
  <2>13. second \in Seq({s[i].id : i \in A}) /\ Len(second) = n /\ DOMAIN second = 1..n
    BY <2>2, <2>3, <2>5, <2>11
  <2>14. /\ answered \in Seq({s[i].id : i \in A}) /\ Len(answered) = m + n /\ DOMAIN answered = 1..(m + n)
         /\ \A k \in 1..m : answered[k] = first[k]
         /\ \A k \in 1..n : answered[m + k] = second[k]
    <3>. DEFINE S == {s[i].id : i \in A}
    <3>1. first \in Seq(S) /\ second \in Seq(S)
      BY <2>12, <2>13
    <3>. HIDE DEF S
    <3>2. /\ answered \in Seq(S)
          /\ DOMAIN answered = 1..(Len(first) + Len(second)) /\ Len(answered) = Len(first) + Len(second)
          /\ \A k \in 1..Len(first) : answered[k] = first[k]
          /\ \A k \in 1..Len(second) : answered[Len(first) + k] = second[k]
      BY ONLY <3>1, Concatenation
    <3>3. Len(first) = m /\ Len(second) = n
      BY <2>12, <2>13
    <3>. QED
      BY ONLY <3>2, <3>3 DEF S
  <2>. HIDE DEF answered
  <2>15. \A k \in DOMAIN answered : answered[k] \in {s[i].id : i \in A}
    BY <2>14
  <2>16. ASSUME NEW i \in A PROVE \E k \in DOMAIN answered : answered[k] = s[i].id
    <3>1. CASE i \in P
      <4>1. PICK k \in 1..m : f[k] = i
        BY <2>10, <3>1
      <4>2. k \in 1..(m + n)
        BY <2>3
      <4>. QED
        BY <2>9, <2>14, <4>1, <4>2
    <3>2. CASE i \in U
      <4>1. PICK k \in 1..n : g[k] = i
        BY <2>11, <3>2
      <4>2. m + k \in 1..(m + n)
        BY <2>3
      <4>. QED
        BY <2>5, <2>14, <4>1, <4>2
    <3>. QED
      BY <2>2, <3>1, <3>2
  <2>17. ToSet(answered) = ActiveIds
    BY <2>8, <2>15, <2>16 DEF ToSet
  <2>18. Len(answered) = Cardinality(ActiveIds)
    BY <2>6, <2>7, <2>14
  <2>. QED
    BY <2>17, <2>18 DEF EveryTaskAnswered, answered, first, second
<1>2. IInv => EveryTaskAnswered
  BY <1>1 DEF EveryTaskAnswered
<1>. QED
  BY <1>2, Invariance, PTL

(***************************************************************************)
(* Each suggestion is for an active task and has one slot, which ends at   *)
(* the deadline and is as long as the task takes.                          *)
(***************************************************************************)
LEMMA SlotShape ==
  ASSUME NEW t, NEW s, Suggested(t, s)
  PROVE  /\ Plannable(t)
         /\ HasRemainingCapacity(t, Day(t.deadline - t.duration), s)
         /\ FindCandidateSlots(t, s)[1] =
              [start |-> t.deadline - t.duration, end |-> t.deadline, available |-> t.duration]
  BY DEF Suggested, FindCandidateSlots

LEMMA SuggestedTask ==
  ASSUME tasks \in TaskList, NEW sugg \in ToSet(GenerateCandidates(tasks).suggestions)
  PROVE  \E i \in PlannedAt(tasks) : /\ sugg.id = tasks[i].id
                                     /\ sugg.slot = FindCandidateSlots(tasks[i], tasks)
<1>. DEFINE c == Cardinality(PlannedAt(tasks))  list == GenerateCandidates(tasks).suggestions
<1>1. PICK f : /\ Enumerates(f, PlannedAt(tasks))
               /\ list = [k \in 1..c |-> [id |-> tasks[f[k]].id,
                                          slot |-> FindCandidateSlots(tasks[f[k]], tasks)]]
  BY SuggestionsOf
<1>2. \A k \in 1..c : f[k] \in PlannedAt(tasks)
  BY <1>1 DEF Enumerates
<1>. HIDE DEF list
<1>3. PICK k \in 1..c : sugg = [id |-> tasks[f[k]].id, slot |-> FindCandidateSlots(tasks[f[k]], tasks)]
  BY <1>1 DEF ToSet, list
<1>. QED
  BY <1>2, <1>3

(***************************************************************************)
(* The validation accepts every suggestion.                                *)
(***************************************************************************)
THEOREM SuggestionsAreValid == Spec => []SuggestionsValidate
<1>1. ASSUME IInv, Planned, NEW sugg \in ToSet(Plan.suggestions)
      PROVE  ValidateCandidate(TaskOf(sugg.id), sugg.slot[1], tasks)
  <2>1. tasks \in TaskList /\ Plan = GenerateCandidates(tasks)
    BY <1>1, AnswerShape
  <2>2. PICK i \in PlannedAt(tasks) : sugg.id = tasks[i].id /\ sugg.slot = FindCandidateSlots(tasks[i], tasks)
    BY <1>1, <2>1, SuggestedTask
  <2>3. i \in DOMAIN tasks /\ Suggested(tasks[i], tasks)
    BY <2>2 DEF PlannedAt
  <2>. DEFINE t == tasks[i]
  <2>4. TaskOf(sugg.id) = t /\ t \in Task
    BY <2>1, <2>2, <2>3, TaskOfId, TaskListShape
  <2>5. /\ Plannable(t) /\ HasRemainingCapacity(t, Day(t.deadline - t.duration), tasks)
        /\ sugg.slot[1] = [start |-> t.deadline - t.duration, end |-> t.deadline, available |-> t.duration]
    BY <2>2, <2>3, SlotShape
  <2>6. t.deadline \in Int /\ t.duration \in Nat /\ t.duration > 0
    BY <2>4, <2>5, TaskFields DEF Plannable, Timed
  <2>. HIDE DEF t
  <2>. QED
    BY <2>4, <2>5, <2>6 DEF ValidateCandidate
<1>2. IInv => SuggestionsValidate
  BY <1>1 DEF SuggestionsValidate
<1>. QED
  BY <1>2, Invariance, PTL

(***************************************************************************)
(* A task and the others that are due on its day make the load of the day. *)
(***************************************************************************)
LEMMA OthersAndTask ==
  ASSUME NEW s \in TaskList, NEW i \in DOMAIN s, Active(s[i]), Timed(s[i])
  PROVE  /\ Minutes(Others(s[i], s, Day(s[i].deadline))) \in Nat
         /\ Load(s, Day(s[i].deadline)) =
              s[i].duration + Minutes(Others(s[i], s, Day(s[i].deadline)))
<1>. DEFINE day == Day(s[i].deadline)  D == Due(s, day)  d == [j \in D |-> s[j].duration]
            O == {j \in DOMAIN s : /\ s[j].id # s[i].id /\ Timed(s[j])
                                   /\ Day(s[j].deadline) = day /\ Active(s[j])}
<1>1. i \in D /\ D \in SUBSET (1..Len(s)) /\ IsFiniteSet(D) /\ d \in [D -> Nat]
  BY DueType DEF Due
<1>2. O = D \ {i}
  <2>1. \A j \in DOMAIN s : s[j].id = s[i].id <=> j = i
    BY DEF TaskList
  <2>. QED
    BY <2>1 DEF Due
<1>3. O \in SUBSET (DOMAIN s) /\ \A j \in O : s[j].duration # None
  BY DEF Timed
<1>4. Others(s[i], s, day) = Selected(s, O)
  BY DEF Others
<1>5. d[i] = s[i].duration /\ [j \in O |-> s[j].duration] = [j \in O |-> d[j]]
  BY <1>1, <1>2
<1>. HIDE DEF D, d, O
<1>6. Total(d) = d[i] + Total([j \in O |-> d[j]])
  <2>1. Total(d) = d[i] + Total([j \in D \ {i} |-> d[j]])
    <3>1. d \in [D -> Nat] /\ i \in D /\ IsFiniteSet(D)
      BY <1>1
    <3>. QED
      BY ONLY <3>1, TotalSplit
  <2>. QED
    BY <1>2, <2>1
<1>7. Minutes(Selected(s, O)) = Total([j \in O |-> s[j].duration]) /\ Minutes(Selected(s, O)) \in Nat
  BY <1>3, SelectedMinutes
<1>8. Load(s, day) = Total(d)
  BY DEF Load, D, d
<1>. QED
  BY <1>4, <1>5, <1>6, <1>7, <1>8

(***************************************************************************)
(* The capacity check and the overload warning agree: a task that is due   *)
(* on an overloaded day has a slot only if the slot starts earlier.        *)
(***************************************************************************)
THEOREM OverloadedDayIsFull == Spec => []NoRoomOnOverloadedDay
<1>1. ASSUME IInv, Planned, NEW sugg \in ToSet(Plan.suggestions),
             Day(sugg.slot[1].end) \in ToSet(Plan.overloadedDays)
      PROVE  Day(sugg.slot[1].start) < Day(sugg.slot[1].end)
  <2>1. tasks \in TaskList /\ Plan = GenerateCandidates(tasks)
    BY <1>1, AnswerShape
  <2>2. PICK i \in PlannedAt(tasks) : sugg.id = tasks[i].id /\ sugg.slot = FindCandidateSlots(tasks[i], tasks)
    BY <1>1, <2>1, SuggestedTask
  <2>3. i \in DOMAIN tasks /\ Active(tasks[i]) /\ Suggested(tasks[i], tasks)
    BY <2>2 DEF PlannedAt
  <2>. DEFINE t == tasks[i]  others == Minutes(Others(t, tasks, Day(t.deadline)))
  <2>4. /\ Plannable(t) /\ HasRemainingCapacity(t, Day(t.deadline - t.duration), tasks)
        /\ sugg.slot[1].start = t.deadline - t.duration /\ sugg.slot[1].end = t.deadline
    <3>1. Suggested(t, tasks) /\ sugg.slot = FindCandidateSlots(t, tasks)
      BY <2>2, <2>3
    <3>. HIDE DEF t
    <3>2. /\ Plannable(t) /\ HasRemainingCapacity(t, Day(t.deadline - t.duration), tasks)
          /\ sugg.slot[1] =
               [start |-> t.deadline - t.duration, end |-> t.deadline, available |-> t.duration]
      BY <3>1, SlotShape
    <3>. QED
      BY <3>2
  <2>5. t.deadline \in Int /\ t.duration \in Nat /\ Timed(t)
    BY <2>1, <2>3, <2>4, TaskListShape, TaskFields DEF Plannable, Timed
  <2>6. Load(tasks, Day(t.deadline)) > DefaultBudget
    BY <1>1, <2>1, <2>4, PlanOverloads DEF OverloadedDays
  <2>7. others \in Nat /\ Load(tasks, Day(t.deadline)) = t.duration + others
    BY <2>1, <2>3, <2>5, OthersAndTask
  <2>8. DefaultBudget \in Nat /\ DayMinutes \in Nat /\ DayMinutes > 0
    BY PlanningAssumption
  <2>9. ~ HasRemainingCapacity(t, Day(t.deadline), tasks)
    <3>. HIDE DEF t
    <3>1. others + t.duration > DefaultBudget
      BY <2>5, <2>6, <2>7, <2>8
    <3>. QED
      BY <2>5, <2>7, <2>8, <3>1 DEF HasRemainingCapacity
  <2>. HIDE DEF t
  <2>10. Day(t.deadline - t.duration) # Day(t.deadline)
    BY <2>4, <2>9
  <2>11. (t.deadline - t.duration) \div DayMinutes =< t.deadline \div DayMinutes
    BY <2>5, <2>8
  <2>12. Day(t.deadline - t.duration) \in Int /\ Day(t.deadline) \in Int
    BY <2>5, <2>8 DEF Day
  <2>. QED
    BY <2>4, <2>10, <2>11, <2>12 DEF Day
<1>2. IInv => NoRoomOnOverloadedDay
  BY <1>1 DEF NoRoomOnOverloadedDay
<1>. QED
  BY <1>2, Invariance, PTL

(***************************************************************************)
(* Scheduling pressure: for windows that overlap, in any order of the      *)
(* windows and however the names compare, one entry for each pair.         *)
(***************************************************************************)
AWindow == [id : Nat, name : Nat, deadline : Int, latestStart : Int]

OverlappingPairs(w) ==
  {p \in (DOMAIN w) \X (DOMAIN w) : p[1] < p[2] /\ Overlap(w[p[1]], w[p[2]])}

PairOrder(all) == {pq \in all \X all : Lower(pq[1], pq[2])}

LEMMA PairsInOrder ==
  ASSUME NEW n \in Nat, NEW all \in SUBSET ((1..n) \X (1..n))
  PROVE  /\ IsFiniteSet(all)
         /\ StrictOrder(all, PairOrder(all))
<1>1. IsFiniteSet(all)
  <2>1. IsFiniteSet(1..n)
    BY FS_Interval
  <2>2. IsFiniteSet((1..n) \X (1..n))
    <3>. DEFINE D == 1..n
    <3>1. IsFiniteSet(D)
      BY <2>1
    <3>. HIDE DEF D
    <3>2. IsFiniteSet(D \X D)
      BY ONLY <3>1, FS_Product
    <3>. QED
      BY <3>2 DEF D
  <2>. QED
    BY <2>2, FS_Subset
<1>2. \A p \in all : p \in [1..2 -> Int]
  <2>1. ASSUME NEW a \in 1..n, NEW b \in 1..n PROVE <<a, b>> \in [1..2 -> Int]
    OBVIOUS
  <2>. QED
    BY <2>1
<1>3. \A p, q \in all : <<p, q>> \in PairOrder(all) <=> Lower(p, q)
  BY DEF PairOrder
<1>4. \A p \in all : ~ Lower(p, p)
  BY <1>2, LowerOrder
<1>5. \A p, q \in all : p # q => Lower(p, q) \/ Lower(q, p)
  BY <1>2, LowerOrder
<1>6. \A p, q, r \in all : Lower(p, q) /\ Lower(q, r) => Lower(p, r)
  BY <1>2, LowerOrder
<1>. QED
  BY <1>1, <1>3, <1>4, <1>5, <1>6 DEF StrictOrder

LEMMA ArrangedNumbers ==
  ASSUME NEW S, NEW before, IsFiniteSet(S), StrictOrder(S, before)
  PROVE  /\ Numbers(Arranged(S, before), Cardinality(S), S)
         /\ Follows(Arranged(S, before), Cardinality(S), before)
<1>. DEFINE f == Arranged(S, before)  c == Cardinality(S)
<1>1. /\ f \in [1..c -> S]
      /\ \A x \in S : \E k \in 1..c : f[k] = x
      /\ \A k, l \in 1..c : k < l => <<f[k], f[l]>> \in before
  BY ArrangedInOrder
<1>2. c \in Nat
  BY FS_CardinalityType
<1>. HIDE DEF f, c
<1>3. ASSUME NEW k \in 1..c, NEW l \in 1..c, f[k] = f[l] PROVE k = l
  <2>1. f[k] \in S /\ <<f[k], f[k]>> \notin before
    BY <1>1 DEF StrictOrder
  <2>2. ~ (k < l) /\ ~ (l < k)
    BY <1>1, <1>3, <2>1
  <2>. QED
    BY <1>2, <2>2
<1>4. Numbers(f, c, S) /\ Follows(f, c, before)
  BY <1>1, <1>2, <1>3 DEF Numbers, Follows
<1>. QED
  BY <1>4 DEF f, c

Reports(entry, a, b) ==
  /\ {entry.a, entry.b} = {a.id, b.id}
  /\ entry.start = Later(a.latestStart, b.latestStart)
  /\ entry.end = Earlier(a.deadline, b.deadline)

ByName(w, p) ==
  IF w[p[1]].name < w[p[2]].name THEN <<w[p[1]], w[p[2]]>> ELSE <<w[p[2]], w[p[1]]>>

Entry(pair) ==
  [a |-> pair[1].id, b |-> pair[2].id,
   start |-> Later(pair[1].latestStart, pair[2].latestStart),
   end |-> Earlier(pair[1].deadline, pair[2].deadline)]

LEMMA EntryReports ==
  ASSUME NEW n \in Nat, NEW w \in [1..n -> AWindow], NEW p \in (1..n) \X (1..n)
  PROVE  /\ Reports(Entry(ByName(w, p)), w[p[1]], w[p[2]])
         /\ ByName(w, p)[1] \in AWindow /\ ByName(w, p)[2] \in AWindow
<1>. DEFINE a == w[p[1]]  b == w[p[2]]
<1>1. a \in AWindow /\ b \in AWindow
  OBVIOUS
<1>2. /\ a.latestStart \in Int /\ b.latestStart \in Int /\ a.deadline \in Int /\ b.deadline \in Int
      /\ a.name \in Nat /\ b.name \in Nat
  BY <1>1 DEF AWindow
<1>3. /\ Later(a.latestStart, b.latestStart) = Later(b.latestStart, a.latestStart)
      /\ Earlier(a.deadline, b.deadline) = Earlier(b.deadline, a.deadline)
  BY <1>2 DEF Later, Earlier
<1>4. ByName(w, p) = <<a, b>> \/ ByName(w, p) = <<b, a>>
  BY DEF ByName
<1>. HIDE DEF a, b
<1>5. Reports(Entry(<<a, b>>), a, b) /\ Reports(Entry(<<b, a>>), a, b)
  BY <1>3 DEF Reports, Entry
<1>6. Reports(Entry(ByName(w, p)), a, b)
  BY <1>4, <1>5
<1>7. ByName(w, p)[1] \in AWindow /\ ByName(w, p)[2] \in AWindow
  BY <1>1, <1>4
<1>. QED
  BY <1>6, <1>7 DEF a, b

LEMMA PressureReports ==
  ASSUME NEW n \in Nat, NEW w \in [1..n -> AWindow]
  PROVE  LET all == OverlappingPairs(w)
             c   == Cardinality(all)
         IN  \E q : /\ Numbers(q, c, all)
                    /\ DOMAIN SchedulingPressure(w) = 1..c
                    /\ \A k \in 1..c : Reports(SchedulingPressure(w)[k], w[q[k][1]], w[q[k][2]])
<1>. DEFINE all == OverlappingPairs(w)  c == Cardinality(all)
            pairs == Arranged(all, PairOrder(all))
            named == [i \in DOMAIN pairs |-> ByName(w, pairs[i])]
            key == [i \in DOMAIN named |-> <<named[i][1].name, named[i][2].name>>]
            ordered == Sorted(named, key)
<1>1. all \in SUBSET ((1..n) \X (1..n))
  BY DEF OverlappingPairs
<1>2. SchedulingPressure(w) = [i \in DOMAIN ordered |-> Entry(ordered[i])]
  BY DEF SchedulingPressure, OverlappingPairs, PairOrder, ByName, Entry
<1>. HIDE DEF all
<1>3. Numbers(pairs, c, all)
  BY <1>1, PairsInOrder, ArrangedNumbers
<1>4. /\ c \in Nat /\ DOMAIN pairs = 1..c
      /\ \A k \in 1..c : pairs[k] \in all
  BY <1>3 DEF Numbers
<1>. HIDE DEF c, pairs
<1>5. /\ DOMAIN named = 1..c
      /\ \A k \in 1..c : named[k] = ByName(w, pairs[k])
  BY <1>4
<1>6. \A k \in 1..c : named[k][1].name \in Int /\ named[k][2].name \in Int
  <2>1. ASSUME NEW k \in 1..c PROVE named[k][1] \in AWindow /\ named[k][2] \in AWindow
    <3>1. pairs[k] \in (1..n) \X (1..n)
      BY <1>1, <1>4
    <3>. HIDE DEF named
    <3>. QED
      BY <1>5, <3>1, EntryReports
  <2>. QED
    BY <2>1 DEF AWindow
<1>. HIDE DEF named
<1>7. key \in [1..c -> [1..2 -> Int]]
  <2>1. \A a, b \in Int : <<a, b>> \in [1..2 -> Int]
    OBVIOUS
  <2>. QED
    BY <1>5, <1>6, <2>1
<1>. HIDE DEF key
<1>8. PICK h : Permutes(h, c) /\ ordered = Along(named, h, c)
  <2>1. 2 \in Nat /\ DOMAIN named = 1..c
    BY <1>5
  <2>. QED
    BY ONLY <1>4, <1>7, <2>1, SortedPermutes
<1>. DEFINE q == [k \in 1..c |-> pairs[h[k]]]
<1>9. Numbers(q, c, all) /\ \A k \in 1..c : h[k] \in 1..c
  BY <1>3, <1>8, NumbersThenPermutes
<1>. HIDE DEF ordered
<1>10. DOMAIN ordered = 1..c /\ \A k \in 1..c : ordered[k] = ByName(w, q[k])
  BY <1>5, <1>8, <1>9 DEF Along
<1>11. \A k \in 1..c : q[k] \in all
  BY <1>9 DEF Numbers
<1>. HIDE DEF q
<1>12. ASSUME NEW k \in 1..c PROVE Reports(SchedulingPressure(w)[k], w[q[k][1]], w[q[k][2]])
  <2>1. q[k] \in (1..n) \X (1..n)
    BY <1>1, <1>11
  <2>2. SchedulingPressure(w)[k] = Entry(ByName(w, q[k]))
    BY <1>2, <1>10
  <2>. QED
    BY <2>1, <2>2, EntryReports
<1>13. DOMAIN SchedulingPressure(w) = 1..c
  BY <1>2, <1>10
<1>. QED
  BY <1>9, <1>12, <1>13 DEF c, all

(***************************************************************************)
(* The windows of the analysis are those of the active tasks with a        *)
(* deadline and a duration, once each.                                     *)
(***************************************************************************)
ActiveTimed(s) == {i \in DOMAIN s : Active(s[i]) /\ Timed(s[i])}

LEMMA EnumeratesNumbers ==
  ASSUME NEW n \in Nat, NEW I \in SUBSET (1..n), NEW f, Enumerates(f, I)
  PROVE  Numbers(f, Cardinality(I), I)
  BY PositionsFinite DEF Enumerates, Numbers

LEMMA ActiveNumbers ==
  ASSUME NEW s \in TaskList
  PROVE  \E f, n : /\ Numbers(f, n, {i \in DOMAIN s : Active(s[i])})
                   /\ ActiveTasks(s) = Along(s, f, n)
<1>. DEFINE A == {i \in DOMAIN s : Active(s[i])}
<1>1. PICK f : Enumerates(f, A) /\ Selected(s, A) = Along(s, f, Cardinality(A))
  BY SelectedTasks
<1>2. A \in SUBSET (1..Len(s)) /\ Len(s) \in Nat
  BY TaskListShape
<1>3. ActiveTasks(s) = Along(s, f, Cardinality(A))
  BY <1>1 DEF ActiveTasks
<1>. HIDE DEF A
<1>4. Numbers(f, Cardinality(A), A)
  BY <1>1, <1>2, EnumeratesNumbers
<1>. QED
  BY <1>3, <1>4 DEF A

LEMMA TimedActiveNumbers ==
  ASSUME NEW s \in TaskList
  PROVE  LET t == ActiveTasks(s)
         IN  \E g, n : /\ Numbers(g, n, ActiveTimed(s))
                       /\ Selected(t, {i \in DOMAIN t : Timed(t[i])}) = Along(s, g, n)
<1>. DEFINE t == ActiveTasks(s)  A == {i \in DOMAIN s : Active(s[i])}
<1>1. PICK f, c : Numbers(f, c, A) /\ t = Along(s, f, c)
  BY ActiveNumbers
<1>. DEFINE at == Where(f, c, ActiveTimed(s))
<1>2. ActiveTimed(s) \subseteq A
  BY DEF ActiveTimed
<1>3. \A k \in 1..c : f[k] \in A
  BY <1>1 DEF Numbers
<1>4. DOMAIN t = 1..c /\ \A k \in 1..c : t[k] = s[f[k]]
  BY <1>1 DEF Along
<1>5. {i \in DOMAIN t : Timed(t[i])} = at
  BY <1>3, <1>4 DEF ActiveTimed, Where
<1>. HIDE DEF A, t
<1>6. \E g : /\ Numbers(g, Cardinality(at), ActiveTimed(s))
             /\ Selected(Along(s, f, c), at) = Along(s, g, Cardinality(at))
  BY <1>1, <1>2, SelectedNumbers
<1>. HIDE DEF at
<1>. QED
  BY <1>1, <1>5, <1>6 DEF t

LEMMA WindowType ==
  ASSUME NEW t \in Task
  PROVE  Window(t) \in AWindow
<1>1. t.deadline - t.duration \in Int
  BY TaskFields
<1>. QED
  BY <1>1, TaskFields DEF Window, AWindow

LEMMA WindowsOf ==
  ASSUME NEW s \in TaskList
  PROVE  \E g, n : /\ Numbers(g, n, ActiveTimed(s))
                   /\ FeasibilityWindows(ActiveTasks(s)) = [k \in 1..n |-> Window(s[g[k]])]
<1>. DEFINE t == ActiveTasks(s)  timed == Selected(t, {i \in DOMAIN t : Timed(t[i])})
            windows == [i \in DOMAIN timed |-> Window(timed[i])]
            key == [i \in DOMAIN timed |-> <<timed[i].deadline, timed[i].name>>]
<1>1. PICK g, n : Numbers(g, n, ActiveTimed(s)) /\ timed = Along(s, g, n)
  BY TimedActiveNumbers
<1>2. FeasibilityWindows(t) = Sorted(windows, key)
  BY DEF FeasibilityWindows
<1>3. n \in Nat /\ \A k \in 1..n : g[k] \in DOMAIN s
  BY <1>1 DEF Numbers, ActiveTimed
<1>. HIDE DEF timed
<1>4. DOMAIN timed = 1..n /\ \A k \in 1..n : timed[k] = s[g[k]] /\ timed[k] \in Task
  BY <1>1, <1>3, TaskListShape DEF Along
<1>5. DOMAIN windows = 1..n /\ \A k \in 1..n : windows[k] = Window(s[g[k]])
  BY <1>4
<1>6. key \in [1..n -> [1..2 -> Int]]
  <2>1. \A a, b \in Int : <<a, b>> \in [1..2 -> Int]
    OBVIOUS
  <2>2. \A k \in 1..n : timed[k].deadline \in Int /\ timed[k].name \in Int
    BY <1>4, TaskFields
  <2>. QED
    BY <1>4, <2>1, <2>2
<1>. HIDE DEF windows, key
<1>7. PICK h : Permutes(h, n) /\ Sorted(windows, key) = Along(windows, h, n)
  <2>1. 2 \in Nat /\ DOMAIN windows = 1..n
    BY <1>5
  <2>. QED
    BY ONLY <1>3, <1>6, <2>1, SortedPermutes
<1>. DEFINE f == [k \in 1..n |-> g[h[k]]]
<1>8. Numbers(f, n, ActiveTimed(s)) /\ \A k \in 1..n : h[k] \in 1..n
  BY <1>1, <1>7, NumbersThenPermutes
<1>9. \A k \in 1..n : windows[h[k]] = Window(s[f[k]])
  BY <1>5, <1>8
<1>. HIDE DEF f
<1>10. FeasibilityWindows(t) = [k \in 1..n |-> Window(s[f[k]])]
  BY <1>2, <1>7, <1>9 DEF Along
<1>. QED
  BY <1>8, <1>10

(***************************************************************************)
(* The minutes that two tasks both need are those of the reported overlap. *)
(***************************************************************************)
BothNeed(t, u) == {m \in (t.deadline - t.duration)..t.deadline : Needs(t, m) /\ Needs(u, m)}

LEMMA MinutesShared ==
  ASSUME NEW t \in Task, NEW u \in Task
  PROVE  /\ BothNeed(t, u) =
              Later(Window(t).latestStart, Window(u).latestStart)..(Earlier(Window(t).deadline, Window(u).deadline) - 1)
         /\ BothNeed(t, u) = BothNeed(u, t)
         /\ BothNeed(t, u) # {} <=> Overlap(Window(t), Window(u))
<1>. DEFINE a == t.deadline - t.duration  b == t.deadline
            c == u.deadline - u.duration  d == u.deadline
<1>1. a \in Int /\ b \in Int /\ c \in Int /\ d \in Int
  BY TaskFields
<1>2. /\ Window(t).latestStart = a /\ Window(t).deadline = b
      /\ Window(u).latestStart = c /\ Window(u).deadline = d
  BY DEF Window
<1>3. /\ BothNeed(t, u) = {m \in a..b : (a =< m /\ m < b) /\ (c =< m /\ m < d)}
      /\ BothNeed(u, t) = {m \in c..d : (c =< m /\ m < d) /\ (a =< m /\ m < b)}
  BY DEF BothNeed, Needs
<1>. HIDE DEF a, b, c, d
<1>4. {m \in a..b : (a =< m /\ m < b) /\ (c =< m /\ m < d)} = Later(a, c)..(Earlier(b, d) - 1)
  BY <1>1 DEF Later, Earlier
<1>5. {m \in c..d : (c =< m /\ m < d) /\ (a =< m /\ m < b)} = Later(a, c)..(Earlier(b, d) - 1)
  BY <1>1 DEF Later, Earlier
<1>6. Later(a, c) \in Int /\ Earlier(b, d) \in Int
  BY <1>1 DEF Later, Earlier
<1>7. Later(a, c)..(Earlier(b, d) - 1) # {} <=> Later(a, c) < Earlier(b, d)
  <2>. DEFINE x == Later(a, c)  y == Earlier(b, d)
  <2>. HIDE DEF x, y
  <2>1. x \in Int /\ y \in Int
    BY <1>6 DEF x, y
  <2>2. ASSUME x < y PROVE x \in x..(y - 1)
    BY <2>1, <2>2
  <2>3. ASSUME ~ (x < y) PROVE x..(y - 1) = {}
    BY <2>1, <2>3
  <2>4. x..(y - 1) # {} <=> x < y
    BY <2>2, <2>3
  <2>. QED
    BY <2>4 DEF x, y
<1>8. Overlap(Window(t), Window(u)) <=> Later(a, c) < Earlier(b, d)
  BY <1>2 DEF Overlap
<1>. QED
  BY <1>2, <1>3, <1>4, <1>5, <1>7, <1>8

LEMMA AnalysisOverlaps ==
  ASSUME NEW s
  PROVE  Analyze(s, DailyBudget).overlaps = SchedulingPressure(FeasibilityWindows(ActiveTasks(s)))
  BY DEF Analyze, ActiveTasks

(***************************************************************************)
(* The entries of an analysis: one for each pair of active tasks that both *)
(* need some minute.                                                       *)
(***************************************************************************)
Pairs(s) == {p \in ActiveTimed(s) \X ActiveTimed(s) : p[1] # p[2] /\ BothNeed(s[p[1]], s[p[2]]) # {}}

LEMMA OverlapEntries ==
  ASSUME NEW s \in TaskList
  PROVE  \E q, c :
           /\ c \in Nat /\ DOMAIN Analyze(s, DailyBudget).overlaps = 1..c
           /\ \A k \in 1..c :
                /\ q[k] \in Pairs(s)
                /\ {Analyze(s, DailyBudget).overlaps[k].a, Analyze(s, DailyBudget).overlaps[k].b} = {s[q[k][1]].id, s[q[k][2]].id}
                /\ Analyze(s, DailyBudget).overlaps[k].start..(Analyze(s, DailyBudget).overlaps[k].end - 1)
                     = BothNeed(s[q[k][1]], s[q[k][2]])
           /\ \A k, l \in 1..c : q[k] = q[l] \/ q[k] = <<q[l][2], q[l][1]>> => k = l
           /\ \A p \in Pairs(s) : \E k \in 1..c : q[k] = p \/ q[k] = <<p[2], p[1]>>
<1>. DEFINE windows == FeasibilityWindows(ActiveTasks(s))  list == SchedulingPressure(windows)
            all == OverlappingPairs(windows)  c == Cardinality(all)
<1>1. PICK g, n : Numbers(g, n, ActiveTimed(s)) /\ windows = [k \in 1..n |-> Window(s[g[k]])]
  BY WindowsOf
<1>2. /\ n \in Nat /\ \A k \in 1..n : g[k] \in ActiveTimed(s) /\ s[g[k]] \in Task
      /\ \A i \in ActiveTimed(s) : \E k \in 1..n : g[k] = i
      /\ \A k, l \in 1..n : g[k] = g[l] => k = l
  BY <1>1, TaskListShape DEF Numbers, ActiveTimed
<1>. HIDE DEF windows
<1>3. windows \in [1..n -> AWindow] /\ \A k \in 1..n : windows[k] = Window(s[g[k]])
  BY <1>1, <1>2, WindowType
<1>4. PICK q : /\ Numbers(q, c, all) /\ DOMAIN list = 1..c
               /\ \A k \in 1..c : Reports(list[k], windows[q[k][1]], windows[q[k][2]])
  BY <1>2, <1>3, PressureReports
<1>5. \A p : p \in all <=> /\ p \in (1..n) \X (1..n) /\ p[1] < p[2]
                           /\ BothNeed(s[g[p[1]]], s[g[p[2]]]) # {}
  <2>1. \A k, l \in 1..n : Overlap(windows[k], windows[l]) <=> BothNeed(s[g[k]], s[g[l]]) # {}
    BY <1>2, <1>3, MinutesShared
  <2>2. DOMAIN windows = 1..n
    BY <1>3
  <2>. QED
    BY <2>1, <2>2 DEF OverlappingPairs
<1>6. /\ c \in Nat /\ \A k \in 1..c : q[k] \in all
      /\ \A p \in all : \E k \in 1..c : q[k] = p
      /\ \A k, l \in 1..c : q[k] = q[l] => k = l
  BY <1>4 DEF Numbers
<1>. HIDE DEF all, c, list
<1>. DEFINE r == [k \in 1..c |-> <<g[q[k][1]], g[q[k][2]]>>]
<1>7. ASSUME NEW k \in 1..c
      PROVE  /\ r[k] \in Pairs(s)
             /\ {list[k].a, list[k].b} = {s[r[k][1]].id, s[r[k][2]].id}
             /\ list[k].start..(list[k].end - 1) = BothNeed(s[r[k][1]], s[r[k][2]])
  <2>. DEFINE a == q[k][1]  b == q[k][2]
  <2>1. a \in 1..n /\ b \in 1..n /\ a < b /\ BothNeed(s[g[a]], s[g[b]]) # {}
    BY <1>5, <1>6
  <2>2. Reports(list[k], windows[a], windows[b])
    BY <1>4
  <2>3. r[k] = <<g[a], g[b]>>
    OBVIOUS
  <2>. HIDE DEF a, b, r
  <2>4. a # b
    BY <2>1
  <2>5. r[k] \in Pairs(s)
    BY <1>2, <2>1, <2>3, <2>4 DEF Pairs
  <2>6. /\ windows[a] = Window(s[g[a]]) /\ windows[b] = Window(s[g[b]])
        /\ s[g[a]] \in Task /\ s[g[b]] \in Task
    BY <1>2, <1>3, <2>1
  <2>7. {list[k].a, list[k].b} = {s[g[a]].id, s[g[b]].id}
    BY <2>2, <2>6 DEF Reports, Window
  <2>8. list[k].start..(list[k].end - 1) = BothNeed(s[g[a]], s[g[b]])
    BY <2>2, <2>6, MinutesShared DEF Reports
  <2>. QED
    BY <2>3, <2>5, <2>7, <2>8
<1>8. ASSUME NEW k \in 1..c, NEW l \in 1..c, r[k] = r[l] \/ r[k] = <<r[l][2], r[l][1]>> PROVE k = l
  <2>1. /\ q[k] \in (1..n) \X (1..n) /\ q[k][1] < q[k][2]
        /\ q[l] \in (1..n) \X (1..n) /\ q[l][1] < q[l][2]
    BY <1>5, <1>6
  <2>2. CASE r[k] = r[l]
    <3>1. g[q[k][1]] = g[q[l][1]] /\ g[q[k][2]] = g[q[l][2]]
      BY <2>2
    <3>2. q[k][1] = q[l][1] /\ q[k][2] = q[l][2]
      BY <1>2, <2>1, <3>1
    <3>3. q[k] = q[l]
      BY <2>1, <3>2
    <3>. QED
      BY <1>6, <3>3
  <2>3. CASE r[k] = <<r[l][2], r[l][1]>>
    <3>1. g[q[k][1]] = g[q[l][2]] /\ g[q[k][2]] = g[q[l][1]]
      BY <2>3
    <3>2. q[k][1] = q[l][2] /\ q[k][2] = q[l][1]
      BY <1>2, <2>1, <3>1
    <3>. QED
      BY <2>1, <3>2
  <2>. QED
    BY <1>8, <2>2, <2>3
<1>9. ASSUME NEW p \in Pairs(s) PROVE \E k \in 1..c : r[k] = p \/ r[k] = <<p[2], p[1]>>
  <2>1. /\ p[1] \in ActiveTimed(s) /\ p[2] \in ActiveTimed(s) /\ p = <<p[1], p[2]>>
        /\ p[1] # p[2] /\ BothNeed(s[p[1]], s[p[2]]) # {}
    BY DEF Pairs
  <2>2. PICK a \in 1..n : g[a] = p[1]
    BY <1>2, <2>1
  <2>3. PICK b \in 1..n : g[b] = p[2]
    BY <1>2, <2>1
  <2>4. BothNeed(s[g[a]], s[g[b]]) = BothNeed(s[g[b]], s[g[a]])
    BY <1>2, MinutesShared
  <2>5. CASE a < b
    <3>1. <<a, b>> \in all
      BY <1>5, <2>1, <2>2, <2>3, <2>5
    <3>2. PICK k \in 1..c : q[k] = <<a, b>>
      BY <1>6, <3>1
    <3>3. r[k] = <<g[a], g[b]>>
      BY <3>2
    <3>. QED
      BY <2>1, <2>2, <2>3, <3>3
  <2>6. CASE b < a
    <3>1. <<b, a>> \in all
      BY <1>5, <2>1, <2>2, <2>3, <2>4, <2>6
    <3>2. PICK k \in 1..c : q[k] = <<b, a>>
      BY <1>6, <3>1
    <3>3. r[k] = <<g[b], g[a]>>
      BY <3>2
    <3>. QED
      BY <2>1, <2>2, <2>3, <3>3
  <2>7. a < b \/ b < a
    BY <2>1, <2>2, <2>3
  <2>. QED
    BY <2>5, <2>6, <2>7
<1>10. Analyze(s, DailyBudget).overlaps = list
  BY AnalysisOverlaps DEF list, windows
<1>. HIDE DEF r
<1>11. c \in Nat /\ DOMAIN Analyze(s, DailyBudget).overlaps = 1..c
  BY <1>4, <1>6, <1>10
<1>12. \A k \in 1..c :
         /\ r[k] \in Pairs(s)
         /\ {Analyze(s, DailyBudget).overlaps[k].a, Analyze(s, DailyBudget).overlaps[k].b} = {s[r[k][1]].id, s[r[k][2]].id}
         /\ Analyze(s, DailyBudget).overlaps[k].start..(Analyze(s, DailyBudget).overlaps[k].end - 1)
              = BothNeed(s[r[k][1]], s[r[k][2]])
  BY <1>7, <1>10
<1>13. \A k, l \in 1..c : r[k] = r[l] \/ r[k] = <<r[l][2], r[l][1]>> => k = l
  BY <1>8
<1>14. \A p \in Pairs(s) : \E k \in 1..c : r[k] = p \/ r[k] = <<p[2], p[1]>>
  BY <1>9
<1>. QED
  BY <1>11, <1>12, <1>13, <1>14, Zenon

LEMMA TimedTasks ==
  ASSUME tasks \in TaskList
  PROVE  {TaskOf(id) : id \in {k \in ActiveIds : Timed(TaskOf(k))}} = {tasks[i] : i \in ActiveTimed(tasks)}
<1>1. \A id : id \in ActiveIds <=> \E i \in DOMAIN tasks : Active(tasks[i]) /\ tasks[i].id = id
  BY DEF ActiveIds
<1>2. \A i \in DOMAIN tasks : TaskOf(tasks[i].id) = tasks[i]
  BY TaskOfId
<1>. QED
  BY <1>1, <1>2 DEF ActiveTimed

LEMMA TasksApart ==
  ASSUME NEW s \in TaskList
  PROVE  \A i, j \in DOMAIN s : /\ s[i] \in Task
                                /\ i # j <=> s[i] # s[j]
                                /\ i # j <=> s[i].id # s[j].id
  BY TaskListShape

(***************************************************************************)
(* The analysis reports exactly the pairs of active tasks that need the    *)
(* same minute, once each, with exactly those minutes.                     *)
(***************************************************************************)
THEOREM OverlapsReal == Spec => []OverlapsAreReal
<1>1. ASSUME IInv, Analyzed PROVE OverlapsAreReal
  <2>. DEFINE list == Analysis.overlaps
              timed == {TaskOf(id) : id \in {k \in ActiveIds : Timed(TaskOf(k))}}
              reported == {<<{o.a, o.b}, o.start..(o.end - 1)>> : o \in ToSet(list)}
              needed == {<<{p[1].id, p[2].id}, BothNeed(p[1], p[2])>> :
                           p \in {q \in timed \X timed : q[1] # q[2] /\ BothNeed(q[1], q[2]) # {}}}
  <2>1. tasks \in TaskList /\ Analysis = Analyze(tasks, DailyBudget)
    BY <1>1, AnswerShape
  <2>2. PICK q, c :
           /\ c \in Nat /\ DOMAIN list = 1..c
           /\ \A k \in 1..c :
                /\ q[k] \in Pairs(tasks)
                /\ {list[k].a, list[k].b} = {tasks[q[k][1]].id, tasks[q[k][2]].id}
                /\ list[k].start..(list[k].end - 1) = BothNeed(tasks[q[k][1]], tasks[q[k][2]])
           /\ \A k, l \in 1..c : q[k] = q[l] \/ q[k] = <<q[l][2], q[l][1]>> => k = l
           /\ \A p \in Pairs(tasks) : \E k \in 1..c : q[k] = p \/ q[k] = <<p[2], p[1]>>
    <3>1. \E q, c :
           /\ c \in Nat /\ DOMAIN Analyze(tasks, DailyBudget).overlaps = 1..c
           /\ \A k \in 1..c :
                /\ q[k] \in Pairs(tasks)
                /\ {Analyze(tasks, DailyBudget).overlaps[k].a, Analyze(tasks, DailyBudget).overlaps[k].b}
                     = {tasks[q[k][1]].id, tasks[q[k][2]].id}
                /\ Analyze(tasks, DailyBudget).overlaps[k].start..(Analyze(tasks, DailyBudget).overlaps[k].end - 1)
                     = BothNeed(tasks[q[k][1]], tasks[q[k][2]])
           /\ \A k, l \in 1..c : q[k] = q[l] \/ q[k] = <<q[l][2], q[l][1]>> => k = l
           /\ \A p \in Pairs(tasks) : \E k \in 1..c : q[k] = p \/ q[k] = <<p[2], p[1]>>
      BY <2>1, OverlapEntries
    <3>2. list = Analyze(tasks, DailyBudget).overlaps
      BY <2>1
    <3>. HIDE DEF list
    <3>. QED
      BY <3>1, <3>2
  <2>3. timed = {tasks[i] : i \in ActiveTimed(tasks)}
    BY <2>1, TimedTasks
  <2>. HIDE DEF list, timed
  <2>4. \A k \in 1..c : /\ q[k][1] \in ActiveTimed(tasks) /\ q[k][2] \in ActiveTimed(tasks)
                        /\ q[k] = <<q[k][1], q[k][2]>>
                        /\ q[k][1] # q[k][2] /\ BothNeed(tasks[q[k][1]], tasks[q[k][2]]) # {}
    BY <2>2 DEF Pairs
  <2>5. \A i, j \in ActiveTimed(tasks) :
          /\ tasks[i] \in Task
          /\ i # j <=> tasks[i] # tasks[j]
          /\ i # j <=> tasks[i].id # tasks[j].id
          /\ BothNeed(tasks[i], tasks[j]) = BothNeed(tasks[j], tasks[i])
    <3>1. \A i \in ActiveTimed(tasks) : i \in DOMAIN tasks
      BY DEF ActiveTimed
    <3>. QED
      BY <2>1, <3>1, TasksApart, MinutesShared
  <2>6. ASSUME NEW k \in 1..c, NEW l \in 1..c, {list[k].a, list[k].b} = {list[l].a, list[l].b}
        PROVE  k = l
    <3>. DEFINE a == q[k][1]  b == q[k][2]  x == q[l][1]  y == q[l][2]
    <3>1. {tasks[a].id, tasks[b].id} = {tasks[x].id, tasks[y].id}
      BY <2>2, <2>6
    <3>2. /\ a \in ActiveTimed(tasks) /\ b \in ActiveTimed(tasks) /\ a # b
          /\ x \in ActiveTimed(tasks) /\ y \in ActiveTimed(tasks) /\ x # y
          /\ q[k] = <<a, b>> /\ q[l] = <<x, y>>
      BY <2>4
    <3>. HIDE DEF a, b, x, y
    <3>3. (a = x /\ b = y) \/ (a = y /\ b = x)
      <4>1. tasks[a].id = tasks[x].id \/ tasks[a].id = tasks[y].id
        BY <3>1
      <4>2. tasks[b].id = tasks[x].id \/ tasks[b].id = tasks[y].id
        BY <3>1
      <4>. QED
        BY <2>5, <3>2, <4>1, <4>2
    <3>4. q[k] = q[l] \/ q[k] = <<q[l][2], q[l][1]>>
      BY <3>2, <3>3
    <3>. QED
      BY <2>2, <3>4
  <2>7. ASSUME NEW k \in 1..c
        PROVE  <<{list[k].a, list[k].b}, list[k].start..(list[k].end - 1)>> \in needed
    <3>. DEFINE t == tasks[q[k][1]]  u == tasks[q[k][2]]
    <3>1. /\ t \in timed /\ u \in timed /\ t # u /\ BothNeed(t, u) # {}
      BY <2>3, <2>4, <2>5
    <3>2. /\ {list[k].a, list[k].b} = {t.id, u.id}
          /\ list[k].start..(list[k].end - 1) = BothNeed(t, u)
      BY <2>2
    <3>. HIDE DEF t, u
    <3>3. <<t, u>> \in {p \in timed \X timed : p[1] # p[2] /\ BothNeed(p[1], p[2]) # {}}
      BY <3>1
    <3>. QED
      BY <3>2, <3>3
  <2>8. ASSUME NEW p \in timed \X timed, p[1] # p[2], BothNeed(p[1], p[2]) # {}
        PROVE  \E k \in 1..c : <<{p[1].id, p[2].id}, BothNeed(p[1], p[2])>> =
                                 <<{list[k].a, list[k].b}, list[k].start..(list[k].end - 1)>>
    <3>1. PICK i \in ActiveTimed(tasks), j \in ActiveTimed(tasks) : p[1] = tasks[i] /\ p[2] = tasks[j]
      BY <2>3
    <3>2. i # j
      BY <2>8, <3>1
    <3>3. <<i, j>> \in Pairs(tasks)
      BY <2>8, <3>1, <3>2 DEF Pairs
    <3>4. PICK k \in 1..c : q[k] = <<i, j>> \/ q[k] = <<j, i>>
      BY <2>2, <3>3
    <3>5. /\ {list[k].a, list[k].b} = {tasks[i].id, tasks[j].id}
          /\ list[k].start..(list[k].end - 1) = BothNeed(tasks[i], tasks[j])
      <4>1. BothNeed(tasks[i], tasks[j]) = BothNeed(tasks[j], tasks[i])
        BY <2>5
      <4>2. /\ {list[k].a, list[k].b} = {tasks[q[k][1]].id, tasks[q[k][2]].id}
            /\ list[k].start..(list[k].end - 1) = BothNeed(tasks[q[k][1]], tasks[q[k][2]])
        BY <2>2
      <4>3. CASE q[k] = <<i, j>>
        BY <4>2, <4>3
      <4>4. CASE q[k] = <<j, i>>
        BY <4>1, <4>2, <4>4
      <4>. QED
        BY <3>4, <4>3, <4>4
    <3>. QED
      BY <3>1, <3>5
  <2>9. ToSet(list) = {list[k] : k \in 1..c}
    BY <2>2 DEF ToSet
  <2>10. reported = {<<{list[k].a, list[k].b}, list[k].start..(list[k].end - 1)>> : k \in 1..c}
    BY <2>9
  <2>11. reported = needed
    <3>1. reported \subseteq needed
      BY <2>7, <2>10
    <3>2. ASSUME NEW e \in needed PROVE e \in reported
      <4>1. PICK p \in timed \X timed : /\ p[1] # p[2] /\ BothNeed(p[1], p[2]) # {}
                                        /\ e = <<{p[1].id, p[2].id}, BothNeed(p[1], p[2])>>
        OBVIOUS
      <4>. HIDE DEF needed, reported
      <4>. QED
        BY <2>8, <2>10, <4>1
    <3>. QED
      BY <3>1, <3>2
  <2>12. \A i, j \in DOMAIN list : {list[i].a, list[i].b} = {list[j].a, list[j].b} => i = j
    BY <2>2, <2>6
  <2>. QED
    BY <2>11, <2>12 DEF OverlapsAreReal, list, timed, BothNeed
<1>2. IInv => OverlapsAreReal
  BY <1>1 DEF OverlapsAreReal
<1>. QED
  BY <1>2, Invariance, PTL

(***************************************************************************)
(* What is computed from selected tasks depends on which tasks these are   *)
(* and not on the list they are selected from.                             *)
(***************************************************************************)
At(s, I) == {s[i] : i \in I}

Apart(X) == \A t, u \in X : t.name = u.name /\ t.deadline = u.deadline => t = u

ByKeyWithId(X) == Arranged(X, KeyOrder([x \in X |-> KeyWithId(x)], X))
BySortKey(X) == Arranged(X, KeyOrder([x \in X |-> SortKey(x)], X))

LEMMA SelectedOf ==
  ASSUME NEW s \in TaskList, NEW I \in SUBSET (DOMAIN s)
  PROVE  /\ Numbers(Selected(s, I), Cardinality(I), At(s, I))
         /\ DOMAIN Selected(s, I) = 1..Cardinality(I)
         /\ Len(Selected(s, I)) = Cardinality(I)
         /\ Cardinality(I) = Cardinality(At(s, I))
         /\ At(s, I) \subseteq Task
         /\ \A t, u \in At(s, I) : t.id = u.id => t = u
<1>. DEFINE c == Cardinality(I)
<1>1. PICK f : Selected(s, I) \in TaskList /\ Enumerates(f, I) /\ Selected(s, I) = Along(s, f, c)
  BY SelectedTasks
<1>2. /\ I \in SUBSET (1..Len(s)) /\ Len(s) \in Nat
      /\ \A i \in I : s[i] \in Task
      /\ \A i, j \in I : s[i].id = s[j].id => i = j
  BY TaskListShape
<1>3. c \in Nat
  BY <1>2, PositionsFinite
<1>4. Numbers(Along(s, f, c), c, At(s, I))
  BY <1>1, <1>2, <1>3, EnumeratedList DEF At
<1>5. c = Cardinality(At(s, I))
  BY <1>4, NumbersCount
<1>6. DOMAIN Along(s, f, c) = 1..c
  BY DEF Along
<1>7. At(s, I) \subseteq Task /\ \A t, u \in At(s, I) : t.id = u.id => t = u
  BY <1>2 DEF At
<1>. HIDE DEF c
<1>8. Len(Selected(s, I)) = c
  BY <1>1, <1>3, <1>6, TaskListShape
<1>. QED
  BY <1>1, <1>4, <1>5, <1>6, <1>7, <1>8 DEF c

LEMMA SelectedByKeyWithId ==
  ASSUME NEW s \in TaskList, NEW I \in SUBSET (DOMAIN s)
  PROVE  InOrderOfKeys(Selected(s, I)) = ByKeyWithId(At(s, I))
<1>. DEFINE X == At(s, I)  t == Selected(s, I)  n == Cardinality(I)  key == [x \in X |-> KeyWithId(x)]
<1>1. /\ Numbers(t, n, X) /\ DOMAIN t = 1..n /\ X \subseteq Task
      /\ \A x, y \in X : x.id = y.id => x = y
  BY SelectedOf
<1>2. \A k \in 1..n : t[k] \in X
  BY <1>1 DEF Numbers
<1>. HIDE DEF X, t, n
<1>3. \A x \in X : KeyWithId(x) \in [1..5 -> Int] /\ KeyWithId(x)[5] = x.id
  BY <1>1, KeyTypes
<1>4. key \in [X -> [1..5 -> Int]] /\ \A x, y \in X : key[x] = key[y] => x = y
  BY <1>1, <1>3
<1>5. [i \in DOMAIN t |-> KeyWithId(t[i])] = Along(key, t, n)
  BY <1>1, <1>2 DEF Along
<1>. HIDE DEF key
<1>6. Sorted(t, Along(key, t, n)) = Arranged(X, KeyOrder(key, X))
  <2>1. TellsApart(key, 5, X)
    BY <1>4 DEF TellsApart
  <2>. QED
    BY ONLY <1>1, <2>1, SortedArranged
<1>. QED
  BY <1>5, <1>6 DEF InOrderOfKeys, ByKeyWithId, key, t, X

LEMMA SelectedBySortKey ==
  ASSUME NEW s \in TaskList, NEW I \in SUBSET (DOMAIN s), Apart(At(s, I))
  PROVE  SortTasks(Selected(s, I)) = BySortKey(At(s, I))
<1>. DEFINE X == At(s, I)  t == Selected(s, I)  n == Cardinality(I)  key == [x \in X |-> SortKey(x)]
<1>1. Numbers(t, n, X) /\ DOMAIN t = 1..n /\ X \subseteq Task
  BY SelectedOf
<1>2. \A k \in 1..n : t[k] \in X
  BY <1>1 DEF Numbers
<1>. HIDE DEF X, t, n
<1>3. \A x \in X : SortKey(x) \in [1..4 -> Int] /\ SortKey(x)[2] = x.deadline /\ SortKey(x)[4] = x.name
  <2>1. \A x \in X : SortKey(x) \in [1..4 -> Int]
    BY <1>1, KeyTypes
  <2>. QED
    BY <2>1 DEF SortKey
<1>4. \A x, y \in X : x.name = y.name /\ x.deadline = y.deadline => x = y
  BY DEF X, Apart
<1>5. key \in [X -> [1..4 -> Int]] /\ \A x, y \in X : key[x] = key[y] => x = y
  BY <1>3, <1>4
<1>6. [i \in DOMAIN t |-> SortKey(t[i])] = Along(key, t, n)
  BY <1>1, <1>2 DEF Along
<1>. HIDE DEF key
<1>7. Sorted(t, Along(key, t, n)) = Arranged(X, KeyOrder(key, X))
  <2>1. TellsApart(key, 4, X)
    BY <1>5 DEF TellsApart
  <2>. QED
    BY ONLY <1>1, <2>1, SortedArranged
<1>. QED
  BY <1>6, <1>7 DEF SortTasks, BySortKey, key, t, X

LEMMA SelectedMinutesOf ==
  ASSUME NEW s \in TaskList, NEW I \in SUBSET (DOMAIN s), \A i \in I : s[i].duration # None
  PROVE  Minutes(Selected(s, I)) = Total([t \in At(s, I) |-> t.duration])
<1>. DEFINE X == At(s, I)  d == [t \in X |-> t.duration]  f == [i \in I |-> s[i]]
<1>1. Minutes(Selected(s, I)) = Total([i \in I |-> s[i].duration])
  BY SelectedMinutes
<1>2. /\ I \in SUBSET (1..Len(s)) /\ Len(s) \in Nat
      /\ \A i \in I : s[i] \in Task /\ s[i].duration \in Nat
      /\ \A i, j \in I : s[i].id = s[j].id => i = j
  BY TaskListShape, TaskFields
<1>3. f \in [I -> X] /\ \A x \in X : \E i \in I : f[i] = x
  BY DEF At
<1>4. \A i, j \in I : f[i] = f[j] => i = j
  BY <1>2
<1>5. d \in [X -> Nat]
  BY <1>2 DEF At
<1>6. IsFiniteSet(X)
  <2>1. IsFiniteSet({s[i] : i \in I})
    BY ONLY <1>2, ImageFinite
  <2>. QED
    BY <2>1 DEF At
<1>7. \A i \in I : d[f[i]] = s[i].duration
  BY <1>3
<1>. HIDE DEF d, f, X
<1>8. Total([i \in I |-> d[f[i]]]) = Total(d)
  BY <1>3, <1>4, <1>5, <1>6, TotalRenamed
<1>9. [i \in I |-> d[f[i]]] = [i \in I |-> s[i].duration]
  BY <1>7
<1>. QED
  BY <1>1, <1>8, <1>9 DEF d, X

(***************************************************************************)
(* Two lists of the same tasks.                                            *)
(***************************************************************************)
SameTasks(a, b) == a \in TaskList /\ b \in TaskList /\ ToSet(a) = ToSet(b)

LEMMA Reordered ==
  ASSUME tasks \in TaskList, NEW p \in SetToSeqs(DOMAIN tasks)
  PROVE  SameTasks([i \in DOMAIN tasks |-> tasks[p[i]]], tasks)
<1>. DEFINE n == Len(tasks)  r == [i \in DOMAIN tasks |-> tasks[p[i]]]
<1>1. /\ n \in Nat /\ DOMAIN tasks = 1..n /\ \A i \in 1..n : tasks[i] \in Task
      /\ \A i, j \in 1..n : tasks[i].id = tasks[j].id => i = j
  BY TaskListShape
<1>2. IsFiniteSet(1..n) /\ Cardinality(1..n) = n
  BY <1>1, FS_Interval
<1>3. p \in [1..n -> 1..n] /\ \A i, j \in 1..n : i # j => p[i] # p[j]
  BY <1>1, <1>2 DEF SetToSeqs
<1>. HIDE DEF n
<1>4. ASSUME NEW k \in 1..n PROVE \E i \in 1..n : p[i] = k
  <2>1. SUFFICES ASSUME \A i \in 1..n : p[i] # k PROVE FALSE
    OBVIOUS
  <2>2. p \in [1..n -> (1..n) \ {k}]
    BY <1>3, <2>1
  <2>3. IsFiniteSet((1..n) \ {k}) /\ Cardinality((1..n) \ {k}) = n - 1
    BY <1>2, FS_RemoveElement
  <2>. DEFINE D == 1..n  E == D \ {k}
  <2>4. Cardinality(E) < Cardinality(D)
    BY <1>1, <1>2, <2>3
  <2>5. IsFiniteSet(D) /\ IsFiniteSet(E) /\ p \in [D -> E] /\ \A i, j \in D : i # j => p[i] # p[j]
    BY <1>2, <1>3, <2>2, <2>3
  <2>. HIDE DEF D, E
  <2>. QED
    BY <2>4, <2>5, FS_PigeonHole
<1>5. r \in Seq(Task) /\ DOMAIN r = 1..n /\ \A i \in 1..n : r[i] = tasks[p[i]]
  <2>1. r = [i \in 1..n |-> tasks[p[i]]]
    BY <1>1
  <2>2. \A i \in 1..n : tasks[p[i]] \in Task
    BY <1>1, <1>3
  <2>. QED
    BY <1>1, <2>1, <2>2
<1>. HIDE DEF r
<1>6. r \in TaskList
  <2>1. ASSUME NEW i \in 1..n, NEW j \in 1..n, r[i].id = r[j].id PROVE i = j
    BY <1>1, <1>3, <1>5, <2>1
  <2>. QED
    BY <1>5, <2>1 DEF TaskList
<1>7. ToSet(r) = ToSet(tasks)
  <2>1. ToSet(r) = {r[i] : i \in 1..n} /\ ToSet(tasks) = {tasks[i] : i \in 1..n}
    BY <1>1, <1>5 DEF ToSet
  <2>2. ASSUME NEW k \in 1..n PROVE \E i \in 1..n : r[i] = tasks[k]
    BY <1>4, <1>5
  <2>3. ASSUME NEW i \in 1..n PROVE \E k \in 1..n : tasks[k] = r[i]
    BY <1>3, <1>5
  <2>. QED
    BY <2>1, <2>2, <2>3
<1>. QED
  BY <1>6, <1>7 DEF SameTasks, r

LEMMA SameMembers ==
  ASSUME NEW a, NEW b, SameTasks(a, b)
  PROVE  /\ SameTasks(b, a)
         /\ \A i \in DOMAIN a : \E j \in DOMAIN b : b[j] = a[i]
         /\ \A j \in DOMAIN b : \E i \in DOMAIN a : a[i] = b[j]
         /\ a \in TaskList /\ b \in TaskList
<1>1. {a[i] : i \in DOMAIN a} = {b[j] : j \in DOMAIN b}
  BY DEF SameTasks, ToSet
<1>. QED
  BY <1>1 DEF SameTasks

(***************************************************************************)
(* The room that the other tasks leave on a day, and with it the slot of a *)
(* task, depends on the tasks only.                                        *)
(***************************************************************************)
LEMMA SameRoom ==
  ASSUME NEW a, NEW b, SameTasks(a, b), NEW t, NEW day
  PROVE  Minutes(Others(t, a, day)) = Minutes(Others(t, b, day))
<1>. DEFINE At1(s) == {i \in DOMAIN s : /\ s[i].id # t.id /\ Timed(s[i])
                                        /\ Day(s[i].deadline) = day /\ Active(s[i])}
<1>1. a \in TaskList /\ b \in TaskList
  BY SameMembers
<1>2. At(a, At1(a)) = At(b, At1(b))
  <2>1. \A i \in At1(a) : \E j \in At1(b) : b[j] = a[i]
    BY SameMembers
  <2>2. \A j \in At1(b) : \E i \in At1(a) : a[i] = b[j]
    BY SameMembers
  <2>. HIDE DEF At1
  <2>. QED
    BY <2>1, <2>2 DEF At
<1>3. \A i \in At1(a) : a[i].duration # None
  BY DEF Timed
<1>4. \A i \in At1(b) : b[i].duration # None
  BY DEF Timed
<1>5. At1(a) \in SUBSET DOMAIN a /\ At1(b) \in SUBSET DOMAIN b
  OBVIOUS
<1>6. Others(t, a, day) = Selected(a, At1(a)) /\ Others(t, b, day) = Selected(b, At1(b))
  BY DEF Others
<1>. HIDE DEF At1
<1>7. Minutes(Selected(a, At1(a))) = Total([u \in At(a, At1(a)) |-> u.duration])
  BY <1>1, <1>3, <1>5, SelectedMinutesOf
<1>8. Minutes(Selected(b, At1(b))) = Total([u \in At(b, At1(b)) |-> u.duration])
  BY <1>1, <1>4, <1>5, SelectedMinutesOf
<1>. QED
  BY <1>2, <1>6, <1>7, <1>8

LEMMA SameSlots ==
  ASSUME NEW a, NEW b, SameTasks(a, b), NEW t
  PROVE  /\ FindCandidateSlots(t, a) = FindCandidateSlots(t, b)
         /\ Suggested(t, a) <=> Suggested(t, b)
<1>1. \A day : Minutes(Others(t, a, day)) = Minutes(Others(t, b, day))
  BY SameRoom
<1>2. FindCandidateSlots(t, a) = FindCandidateSlots(t, b)
  BY <1>1 DEF FindCandidateSlots, HasRemainingCapacity
<1>. QED
  BY <1>2 DEF Suggested

LEMMA SameInOrder ==
  ASSUME NEW a, NEW b, SameTasks(a, b), NEW I \in SUBSET (DOMAIN a), NEW J \in SUBSET (DOMAIN b),
         At(a, I) = At(b, J)
  PROVE  InOrderOfKeys(Selected(a, I)) = InOrderOfKeys(Selected(b, J))
<1>1. a \in TaskList /\ b \in TaskList
  BY SameMembers
<1>. QED
  BY <1>1, SelectedByKeyWithId

LEMMA SameLists ==
  ASSUME NEW a, NEW b, SameTasks(a, b)
  PROVE  /\ InOrderOfKeys(Selected(a, PlannedAt(a))) = InOrderOfKeys(Selected(b, PlannedAt(b)))
         /\ InOrderOfKeys(Selected(a, UnscheduledAt(a))) = InOrderOfKeys(Selected(b, UnscheduledAt(b)))
<1>1. \A t : Suggested(t, a) <=> Suggested(t, b)
  BY SameSlots
<1>2. At(a, PlannedAt(a)) = At(b, PlannedAt(b))
  <2>1. \A i \in PlannedAt(a) : \E j \in PlannedAt(b) : b[j] = a[i]
    BY <1>1, SameMembers DEF PlannedAt
  <2>2. \A j \in PlannedAt(b) : \E i \in PlannedAt(a) : a[i] = b[j]
    BY <1>1, SameMembers DEF PlannedAt
  <2>. QED
    BY <2>1, <2>2 DEF At
<1>3. At(a, UnscheduledAt(a)) = At(b, UnscheduledAt(b))
  <2>1. \A i \in UnscheduledAt(a) : \E j \in UnscheduledAt(b) : b[j] = a[i]
    BY <1>1, SameMembers DEF UnscheduledAt, Unscheduled
  <2>2. \A j \in UnscheduledAt(b) : \E i \in UnscheduledAt(a) : a[i] = b[j]
    BY <1>1, SameMembers DEF UnscheduledAt, Unscheduled
  <2>. QED
    BY <2>1, <2>2 DEF At
<1>4. /\ PlannedAt(a) \in SUBSET (DOMAIN a) /\ PlannedAt(b) \in SUBSET (DOMAIN b)
      /\ UnscheduledAt(a) \in SUBSET (DOMAIN a) /\ UnscheduledAt(b) \in SUBSET (DOMAIN b)
  BY DEF PlannedAt, UnscheduledAt
<1>. QED
  BY <1>2, <1>3, <1>4, SameInOrder

(***************************************************************************)
(* The load of each day and the warnings are the same.                     *)
(***************************************************************************)
LEMMA SameSelection ==
  ASSUME NEW a, NEW b, SameTasks(a, b), NEW I \in SUBSET (DOMAIN a), NEW J \in SUBSET (DOMAIN b),
         At(a, I) = At(b, J)
  PROVE  /\ Len(Selected(a, I)) = Len(Selected(b, J))
         /\ (\A i \in I : a[i].duration # None) => Minutes(Selected(a, I)) = Minutes(Selected(b, J))
         /\ Apart(At(a, I)) => SortTasks(Selected(a, I)) = SortTasks(Selected(b, J))
<1>1. a \in TaskList /\ b \in TaskList
  BY SameMembers
<1>2. Len(Selected(a, I)) = Len(Selected(b, J))
  <2>1. Len(Selected(a, I)) = Cardinality(At(a, I))
    BY <1>1, SelectedOf
  <2>2. Len(Selected(b, J)) = Cardinality(At(b, J))
    BY <1>1, SelectedOf
  <2>. QED
    BY <2>1, <2>2
<1>3. ASSUME \A i \in I : a[i].duration # None
      PROVE  Minutes(Selected(a, I)) = Minutes(Selected(b, J))
  <2>1. \A j \in J : b[j].duration # None
    <3>1. \A j \in J : \E i \in I : a[i] = b[j]
      BY DEF At
    <3>. QED
      BY <1>3, <3>1
  <2>2. Minutes(Selected(a, I)) = Total([u \in At(a, I) |-> u.duration])
    BY <1>1, <1>3, SelectedMinutesOf
  <2>3. Minutes(Selected(b, J)) = Total([u \in At(b, J) |-> u.duration])
    BY <1>1, <2>1, SelectedMinutesOf
  <2>. QED
    BY <2>2, <2>3
<1>4. ASSUME Apart(At(a, I)) PROVE SortTasks(Selected(a, I)) = SortTasks(Selected(b, J))
  <2>1. SortTasks(Selected(a, I)) = BySortKey(At(a, I))
    BY <1>1, <1>4, SelectedBySortKey
  <2>2. SortTasks(Selected(b, J)) = BySortKey(At(b, J))
    BY <1>1, <1>4, SelectedBySortKey
  <2>. QED
    BY <2>1, <2>2
<1>. QED
  BY <1>2, <1>3, <1>4

LEMMA SameActive ==
  ASSUME NEW a, NEW b, SameTasks(a, b)
  PROVE  SameTasks(ActiveTasks(a), ActiveTasks(b))
<1>1. a \in TaskList /\ b \in TaskList
  BY SameMembers
<1>2. ActiveTasks(a) \in TaskList /\ ActiveTasks(b) \in TaskList
  BY <1>1, ActiveElements
<1>3. \A k \in DOMAIN ActiveTasks(a) : \E l \in DOMAIN ActiveTasks(b) : ActiveTasks(b)[l] = ActiveTasks(a)[k]
  <2>1. TAKE k \in DOMAIN ActiveTasks(a)
  <2>2. PICK i \in DOMAIN a : Active(a[i]) /\ ActiveTasks(a)[k] = a[i]
    BY <1>1, ActiveElements
  <2>3. PICK j \in DOMAIN b : b[j] = a[i]
    BY SameMembers
  <2>4. \E l \in DOMAIN ActiveTasks(b) : ActiveTasks(b)[l] = b[j]
    BY <1>1, <2>2, <2>3, ActiveElements
  <2>. QED
    BY <2>2, <2>3, <2>4
<1>4. \A l \in DOMAIN ActiveTasks(b) : \E k \in DOMAIN ActiveTasks(a) : ActiveTasks(a)[k] = ActiveTasks(b)[l]
  <2>1. TAKE l \in DOMAIN ActiveTasks(b)
  <2>2. PICK j \in DOMAIN b : Active(b[j]) /\ ActiveTasks(b)[l] = b[j]
    BY <1>1, ActiveElements
  <2>3. PICK i \in DOMAIN a : a[i] = b[j]
    BY SameMembers
  <2>4. \E k \in DOMAIN ActiveTasks(a) : ActiveTasks(a)[k] = a[i]
    BY <1>1, <2>2, <2>3, ActiveElements
  <2>. QED
    BY <2>2, <2>3, <2>4
<1>5. ToSet(ActiveTasks(a)) = ToSet(ActiveTasks(b))
  BY <1>3, <1>4 DEF ToSet
<1>. QED
  BY <1>2, <1>5 DEF SameTasks

LEMMA SameDays ==
  ASSUME NEW a, NEW b, SameTasks(a, b)
  PROVE  /\ DueDays(a) = DueDays(b)
         /\ \A day : At(a, TimedOn(a, day)) = At(b, TimedOn(b, day))
         /\ \A day : Minutes(Selected(a, TimedOn(a, day))) = Minutes(Selected(b, TimedOn(b, day)))
<1>1. DueDays(a) = DueDays(b)
  <2>1. \A i \in {j \in DOMAIN a : Timed(a[j])} : \E j \in {k \in DOMAIN b : Timed(b[k])} : b[j] = a[i]
    BY SameMembers
  <2>2. \A j \in {k \in DOMAIN b : Timed(b[k])} : \E i \in {k \in DOMAIN a : Timed(a[k])} : a[i] = b[j]
    BY SameMembers
  <2>. QED
    BY <2>1, <2>2 DEF DueDays
<1>2. ASSUME NEW day PROVE At(a, TimedOn(a, day)) = At(b, TimedOn(b, day))
  <2>1. \A i \in TimedOn(a, day) : \E j \in TimedOn(b, day) : b[j] = a[i]
    BY SameMembers DEF TimedOn
  <2>2. \A j \in TimedOn(b, day) : \E i \in TimedOn(a, day) : a[i] = b[j]
    BY SameMembers DEF TimedOn
  <2>. QED
    BY <2>1, <2>2 DEF At
<1>3. ASSUME NEW day PROVE Minutes(Selected(a, TimedOn(a, day))) = Minutes(Selected(b, TimedOn(b, day)))
  <2>1. /\ TimedOn(a, day) \in SUBSET (DOMAIN a) /\ TimedOn(b, day) \in SUBSET (DOMAIN b)
        /\ \A i \in TimedOn(a, day) : a[i].duration # None
    BY DEF TimedOn, Timed
  <2>. QED
    BY <1>2, <2>1, SameSelection
<1>. QED
  BY <1>1, <1>2, <1>3

LEMMA SameOverloads ==
  ASSUME NEW a, NEW b, NEW budget, SameTasks(a, b)
  PROVE  OverloadWarnings(DailyPressure(a), budget) = OverloadWarnings(DailyPressure(b), budget)
<1>. DEFINE p == DailyPressure(a)  q == DailyPressure(b)  days == Ascending(DueDays(a))
<1>1. a \in TaskList /\ b \in TaskList
  BY SameMembers
<1>2. Ascending(DueDays(a)) = Ascending(DueDays(b))
  BY SameDays
<1>3. /\ DOMAIN p = DOMAIN days
      /\ \A k \in DOMAIN days :
           p[k].date = days[k] /\ p[k].planned = Minutes(Selected(a, TimedOn(a, days[k])))
  <2>1. \A day : {i \in {j \in DOMAIN a : Timed(a[j])} : Day(a[i].deadline) = day} = TimedOn(a, day)
    BY DEF TimedOn
  <2>. QED
    BY <2>1 DEF DailyPressure, DueDays
<1>4. /\ DOMAIN q = DOMAIN days
      /\ \A k \in DOMAIN days :
           q[k].date = days[k] /\ q[k].planned = Minutes(Selected(b, TimedOn(b, days[k])))
  <2>1. \A day : {i \in {j \in DOMAIN b : Timed(b[j])} : Day(b[i].deadline) = day} = TimedOn(b, day)
    BY DEF TimedOn
  <2>. QED
    BY <1>2, <2>1 DEF DailyPressure, DueDays
<1>5. DOMAIN p = DOMAIN q /\ \A k \in DOMAIN p : p[k].date = q[k].date /\ p[k].planned = q[k].planned
  BY <1>3, <1>4, SameDays
<1>6. /\ Cardinality(DueDays(a)) \in Nat /\ DOMAIN p = 1..Cardinality(DueDays(a))
  BY <1>1, DailyPressureShape
<1>. DEFINE J == {k \in DOMAIN p : p[k].planned > budget}  order == Ascending(J)
<1>. HIDE DEF p, q, days
<1>7. J = {k \in DOMAIN q : q[k].planned > budget}
  BY <1>5
<1>8. \A k \in DOMAIN order : order[k] \in DOMAIN p
  <2>1. J \in SUBSET Int /\ IsFiniteSet(J)
    <3>1. J \in SUBSET (1..Cardinality(DueDays(a)))
      BY <1>6
    <3>2. IsFiniteSet(J)
      <4>. HIDE DEF J
      <4>. QED
        BY <1>6, <3>1, PositionsFinite
    <3>. QED
      BY <1>6, <3>1, <3>2
  <2>2. \A k \in DOMAIN order : order[k] \in J
    <3>. HIDE DEF J
    <3>. QED
      BY <2>1, AscendingElements
  <2>. QED
    BY <2>2
<1>. HIDE DEF J
<1>9. Selected(p, J) = [k \in DOMAIN order |-> p[order[k]]] /\ Selected(q, J) = [k \in DOMAIN order |-> q[order[k]]]
  BY DEF Selected
<1>. DEFINE over == Selected(p, J)  same == Selected(q, J)
<1>10. /\ DOMAIN over = DOMAIN same
       /\ \A k \in DOMAIN over : over[k].date = same[k].date /\ over[k].planned = same[k].planned
  BY <1>5, <1>8, <1>9
<1>11. /\ OverloadWarnings(p, budget) = [k \in DOMAIN over |-> [date |-> over[k].date, excess |-> over[k].planned - budget]]
       /\ OverloadWarnings(q, budget) = [k \in DOMAIN same |-> [date |-> same[k].date, excess |-> same[k].planned - budget]]
  BY <1>7 DEF OverloadWarnings, J
<1>. HIDE DEF over, same
<1>12. OverloadWarnings(p, budget) = OverloadWarnings(q, budget)
  BY <1>10, <1>11
<1>. QED
  BY <1>12 DEF p, q

LEMMA SamePlan ==
  ASSUME NEW a, NEW b, SameTasks(a, b)
  PROVE  GenerateCandidates(a) = GenerateCandidates(b)
<1>. DEFINE over(s) == OverloadWarnings(DailyPressure(ActiveTasks(s)), DefaultBudget)
            planned(s) == InOrderOfKeys(Selected(s, PlannedAt(s)))
            rest(s) == InOrderOfKeys(Selected(s, UnscheduledAt(s)))
<1>1. a \in TaskList /\ b \in TaskList
  BY SameMembers
<1>2. over(a) = over(b)
  BY SameActive, SameOverloads
<1>3. planned(a) = planned(b) /\ rest(a) = rest(b)
  BY SameLists
<1>4. \A t : FindCandidateSlots(t, a) = FindCandidateSlots(t, b)
  BY SameSlots
<1>5. GenerateCandidates(a) =
        [suggestions |-> [i \in DOMAIN planned(a) |->
                            [id |-> planned(a)[i].id, slot |-> FindCandidateSlots(planned(a)[i], a)]],
         overloadedDays |-> [i \in DOMAIN over(a) |-> over(a)[i].date],
         unscheduled |-> Ids(rest(a))]
  BY <1>1, CandidatesOf
<1>6. GenerateCandidates(b) =
        [suggestions |-> [i \in DOMAIN planned(b) |->
                            [id |-> planned(b)[i].id, slot |-> FindCandidateSlots(planned(b)[i], b)]],
         overloadedDays |-> [i \in DOMAIN over(b) |-> over(b)[i].date],
         unscheduled |-> Ids(rest(b))]
  BY <1>1, CandidatesOf
<1>. HIDE DEF over, planned, rest
<1>7. [i \in DOMAIN planned(a) |-> [id |-> planned(a)[i].id, slot |-> FindCandidateSlots(planned(a)[i], a)]]
    = [i \in DOMAIN planned(b) |-> [id |-> planned(b)[i].id, slot |-> FindCandidateSlots(planned(b)[i], b)]]
  BY <1>3, <1>4
<1>. QED
  BY <1>2, <1>3, <1>5, <1>6, <1>7

(***************************************************************************)
(* The parts of an analysis, if names and deadlines tell the tasks apart.  *)
(***************************************************************************)
LEMMA SameSorted ==
  ASSUME NEW a, NEW b, SameTasks(a, b), Apart(ToSet(a)),
         NEW I \in SUBSET (DOMAIN a), NEW J \in SUBSET (DOMAIN b), At(a, I) = At(b, J)
  PROVE  SortTasks(Selected(a, I)) = SortTasks(Selected(b, J))
<1>1. At(a, I) \subseteq ToSet(a)
  BY DEF At, ToSet
<1>2. Apart(At(a, I))
  BY <1>1 DEF Apart
<1>. QED
  BY <1>2, SameSelection

HighAt(s, time) == {i \in DOMAIN s : s[i].priority = "HIGH" /\ s[i].deadline = time}

LEMMA SameCollisions ==
  ASSUME NEW a, NEW b, SameTasks(a, b), Apart(ToSet(a))
  PROVE  DeadlineCollisions(a) = DeadlineCollisions(b)
<1>1. ASSUME NEW time
      PROVE  /\ Len(Selected(a, HighAt(a, time))) = Len(Selected(b, HighAt(b, time)))
             /\ SortTasks(Selected(a, HighAt(a, time))) = SortTasks(Selected(b, HighAt(b, time)))
  <2>1. \A i \in HighAt(a, time) : \E j \in HighAt(b, time) : b[j] = a[i]
    BY SameMembers DEF HighAt
  <2>2. \A j \in HighAt(b, time) : \E i \in HighAt(a, time) : a[i] = b[j]
    BY SameMembers DEF HighAt
  <2>3. At(a, HighAt(a, time)) = At(b, HighAt(b, time))
    BY <2>1, <2>2 DEF At
  <2>4. HighAt(a, time) \in SUBSET (DOMAIN a) /\ HighAt(b, time) \in SUBSET (DOMAIN b)
    BY DEF HighAt
  <2>. QED
    BY <2>3, <2>4, SameSelection, SameSorted
<1>2. {a[i].deadline : i \in DOMAIN a} = {b[i].deadline : i \in DOMAIN b}
  BY SameMembers
<1>. DEFINE times(s) == {time \in {s[i].deadline : i \in DOMAIN s} \ {None} : Len(Selected(s, HighAt(s, time))) >= 2}
            list(s) == [i \in DOMAIN Ascending(times(s)) |->
                          [deadline |-> Ascending(times(s))[i],
                           tasks |-> Ids(SortTasks(Selected(s, HighAt(s, Ascending(times(s))[i]))))]]
<1>3. DeadlineCollisions(a) = list(a) /\ DeadlineCollisions(b) = list(b)
  BY DEF DeadlineCollisions, HighAt
<1>4. times(a) = times(b)
  <2>1. \A time : Len(Selected(a, HighAt(a, time))) = Len(Selected(b, HighAt(b, time)))
    BY <1>1
  <2>2. times(b) = {time \in {a[i].deadline : i \in DOMAIN a} \ {None} : Len(Selected(b, HighAt(b, time))) >= 2}
    BY <1>2
  <2>. QED
    BY ONLY <2>1, <2>2
<1>5. list(a) = list(b)
  <2>. HIDE DEF times
  <2>. QED
    BY <1>1, <1>4
<1>. QED
  BY <1>3, <1>5

DatedOn(s, day) == {i \in DOMAIN s : s[i].deadline # None /\ Day(s[i].deadline) = day}

LEMMA SameBusyDays ==
  ASSUME NEW a, NEW b, SameTasks(a, b), Apart(ToSet(a))
  PROVE  BusyDays(a) = BusyDays(b)
<1>1. ASSUME NEW day
      PROVE  /\ Len(Selected(a, DatedOn(a, day))) = Len(Selected(b, DatedOn(b, day)))
             /\ SortTasks(Selected(a, DatedOn(a, day))) = SortTasks(Selected(b, DatedOn(b, day)))
  <2>1. \A i \in DatedOn(a, day) : \E j \in DatedOn(b, day) : b[j] = a[i]
    BY SameMembers DEF DatedOn
  <2>2. \A j \in DatedOn(b, day) : \E i \in DatedOn(a, day) : a[i] = b[j]
    BY SameMembers DEF DatedOn
  <2>3. At(a, DatedOn(a, day)) = At(b, DatedOn(b, day))
    BY <2>1, <2>2 DEF At
  <2>4. DatedOn(a, day) \in SUBSET (DOMAIN a) /\ DatedOn(b, day) \in SUBSET (DOMAIN b)
    BY DEF DatedOn
  <2>. QED
    BY <2>3, <2>4, SameSelection, SameSorted
<1>. DEFINE dated(s) == {i \in DOMAIN s : s[i].deadline # None}
            busy(s) == {day \in {Day(s[i].deadline) : i \in dated(s)} : Len(Selected(s, DatedOn(s, day))) > BusyAbove}
            list(s) == [i \in DOMAIN Ascending(busy(s)) |->
                          [date |-> Ascending(busy(s))[i],
                           tasks |-> Ids(SortTasks(Selected(s, DatedOn(s, Ascending(busy(s))[i]))))]]
<1>2. {Day(a[i].deadline) : i \in dated(a)} = {Day(b[i].deadline) : i \in dated(b)}
  <2>1. \A i \in dated(a) : \E j \in dated(b) : b[j] = a[i]
    BY SameMembers
  <2>2. \A j \in dated(b) : \E i \in dated(a) : a[i] = b[j]
    BY SameMembers
  <2>. QED
    BY <2>1, <2>2
<1>3. BusyDays(a) = list(a) /\ BusyDays(b) = list(b)
  <2>1. \A s, day : {i \in dated(s) : Day(s[i].deadline) = day} = DatedOn(s, day)
    BY DEF DatedOn
  <2>. QED
    BY <2>1 DEF BusyDays
<1>4. busy(a) = busy(b)
  BY <1>1, <1>2
<1>5. list(a) = list(b)
  <2>. HIDE DEF busy
  <2>. QED
    BY <1>1, <1>4
<1>. QED
  BY <1>3, <1>5

LEMMA SamePressure ==
  ASSUME NEW a, NEW b, SameTasks(a, b), Apart(ToSet(a))
  PROVE  DailyPressure(a) = DailyPressure(b)
<1>1. ASSUME NEW day
      PROVE  SortTasks(Selected(a, TimedOn(a, day))) = SortTasks(Selected(b, TimedOn(b, day)))
  <2>1. TimedOn(a, day) \in SUBSET (DOMAIN a) /\ TimedOn(b, day) \in SUBSET (DOMAIN b)
    BY DEF TimedOn
  <2>. QED
    BY <2>1, SameDays, SameSorted
<1>2. \A s, day : {i \in {j \in DOMAIN s : Timed(s[j])} : Day(s[i].deadline) = day} = TimedOn(s, day)
  BY DEF TimedOn
<1>3. DailyPressure(a) = [k \in DOMAIN Ascending(DueDays(a)) |->
         [date |-> Ascending(DueDays(a))[k], planned |-> Minutes(Selected(a, TimedOn(a, Ascending(DueDays(a))[k]))),
          tasks |-> Ids(SortTasks(Selected(a, TimedOn(a, Ascending(DueDays(a))[k]))))]]
  BY <1>2 DEF DailyPressure, DueDays
<1>4. DailyPressure(b) = [k \in DOMAIN Ascending(DueDays(b)) |->
         [date |-> Ascending(DueDays(b))[k], planned |-> Minutes(Selected(b, TimedOn(b, Ascending(DueDays(b))[k]))),
          tasks |-> Ids(SortTasks(Selected(b, TimedOn(b, Ascending(DueDays(b))[k]))))]]
  BY <1>2 DEF DailyPressure, DueDays
<1>. QED
  BY <1>1, <1>3, <1>4, SameDays

LEMMA SameTotals ==
  ASSUME NEW a, NEW b, SameTasks(a, b), Apart(ToSet(a))
  PROVE  /\ Len(a) = Len(b)
         /\ SortTasks(a) = SortTasks(b)
         /\ TotalPlanned(a) = TotalPlanned(b)
<1>1. a \in TaskList /\ b \in TaskList
  BY SameMembers
<1>2. Selected(a, DOMAIN a) = a /\ Selected(b, DOMAIN b) = b
  <2>1. /\ Len(a) \in Nat /\ DOMAIN a = 1..Len(a) /\ a = [i \in 1..Len(a) |-> a[i]]
        /\ Len(b) \in Nat /\ DOMAIN b = 1..Len(b) /\ b = [i \in 1..Len(b) |-> b[i]]
    BY <1>1, TaskListShape
  <2>. QED
    BY <2>1, SelectedAll
<1>3. At(a, DOMAIN a) = At(b, DOMAIN b)
  BY DEF At, SameTasks, ToSet
<1>4. DOMAIN a \in SUBSET (DOMAIN a) /\ DOMAIN b \in SUBSET (DOMAIN b)
  OBVIOUS
<1>5. Len(a) = Len(b)
  <2>1. Len(Selected(a, DOMAIN a)) = Len(Selected(b, DOMAIN b))
    BY <1>3, <1>4, SameSelection
  <2>. QED
    BY <1>2, <2>1
<1>6. SortTasks(a) = SortTasks(b)
  <2>1. SortTasks(Selected(a, DOMAIN a)) = SortTasks(Selected(b, DOMAIN b))
    BY <1>3, <1>4, SameSorted
  <2>. QED
    BY <1>2, <2>1
<1>7. TotalPlanned(a) = TotalPlanned(b)
  <2>. DEFINE long(s) == {i \in DOMAIN s : s[i].duration # None}
  <2>1. \A i \in long(a) : \E j \in long(b) : b[j] = a[i]
    BY SameMembers
  <2>2. \A j \in long(b) : \E i \in long(a) : a[i] = b[j]
    BY SameMembers
  <2>3. long(a) \in SUBSET (DOMAIN a) /\ long(b) \in SUBSET (DOMAIN b) /\ \A i \in long(a) : a[i].duration # None
    OBVIOUS
  <2>4. TotalPlanned(a) = Minutes(Selected(a, long(a))) /\ TotalPlanned(b) = Minutes(Selected(b, long(b)))
    BY DEF TotalPlanned
  <2>. HIDE DEF long
  <2>5. At(a, long(a)) = At(b, long(b))
    BY <2>1, <2>2 DEF At
  <2>. QED
    BY <2>3, <2>4, <2>5, SameSelection
<1>. QED
  BY <1>5, <1>6, <1>7

(***************************************************************************)
(* The windows are sorted by deadline and name, which tell them apart.     *)
(***************************************************************************)
WindowKey(w) == <<w.deadline, w.name>>

InOrderOfWindows(W) == Arranged(W, KeyOrder([w \in W |-> WindowKey(w)], W))

LEMMA WindowsAt ==
  ASSUME NEW s \in TaskList, Apart(ToSet(s))
  PROVE  FeasibilityWindows(s) =
           InOrderOfWindows({Window(t) : t \in At(s, {i \in DOMAIN s : Timed(s[i])})})
<1>. DEFINE I == {i \in DOMAIN s : Timed(s[i])}  n == Cardinality(I)  X == At(s, I)
            W == {Window(t) : t \in X}  timed == Selected(s, I)
            windows == [i \in DOMAIN timed |-> Window(timed[i])]
            key == [w \in W |-> WindowKey(w)]
<1>1. /\ Numbers(timed, n, X) /\ DOMAIN timed = 1..n /\ X \subseteq Task
      /\ \A t, u \in X : t.id = u.id => t = u
  <2>1. I \in SUBSET DOMAIN s
    OBVIOUS
  <2>. HIDE DEF I
  <2>. QED
    BY <2>1, SelectedOf
<1>2. X \subseteq ToSet(s)
  BY DEF At, ToSet
<1>3. \A t, u \in X : t.name = u.name /\ t.deadline = u.deadline => t = u
  BY <1>2 DEF Apart
<1>. HIDE DEF X, n, timed
<1>4. /\ n \in Nat /\ timed \in [1..n -> X]
      /\ \A x \in X : \E k \in 1..n : timed[k] = x
      /\ \A k, l \in 1..n : timed[k] = timed[l] => k = l
  BY <1>1 DEF Numbers
<1>5. \A t, u \in X : Window(t) = Window(u) => t = u
  BY <1>1 DEF Window
<1>6. Numbers(windows, n, W)
  <2>1. windows = [i \in 1..n |-> Window(timed[i])]
    BY <1>1
  <2>2. windows \in [1..n -> W]
    BY <1>4, <2>1
  <2>3. \A w \in W : \E k \in 1..n : windows[k] = w
    BY <1>4, <2>1
  <2>4. \A k, l \in 1..n : windows[k] = windows[l] => k = l
    BY <1>4, <1>5, <2>1
  <2>. HIDE DEF windows, W
  <2>. QED
    BY <1>4, <2>2, <2>3, <2>4 DEF Numbers
<1>7. \A t \in X : WindowKey(Window(t)) = <<t.deadline, t.name>>
  BY DEF WindowKey, Window
<1>8. TellsApart(key, 2, W)
  <2>1. \A t \in X : t.deadline \in Int /\ t.name \in Int
    BY <1>1, TaskFields
  <2>2. \A w \in W : WindowKey(w) \in [1..2 -> Int]
    <3>1. TAKE w \in W
    <3>2. PICK t \in X : w = Window(t)
      OBVIOUS
    <3>3. \A c, d \in Int : <<c, d>> \in [1..2 -> Int]
      OBVIOUS
    <3>. QED
      BY <1>7, <2>1, <3>2, <3>3
  <2>3. \A v, w \in W : WindowKey(v) = WindowKey(w) => v = w
    BY <1>3, <1>7
  <2>. HIDE DEF W
  <2>. QED
    BY <2>2, <2>3 DEF TellsApart
<1>9. [i \in DOMAIN timed |-> <<timed[i].deadline, timed[i].name>>] = Along(key, windows, n)
  <2>1. \A i \in 1..n : timed[i] \in X /\ windows[i] = Window(timed[i]) /\ windows[i] \in W
    BY <1>1, <1>4
  <2>2. \A i \in 1..n : key[windows[i]] = <<timed[i].deadline, timed[i].name>>
    <3>1. TAKE i \in 1..n
    <3>2. key[windows[i]] = WindowKey(windows[i])
      BY <2>1
    <3>. QED
      BY <1>7, <2>1, <3>2
  <2>. HIDE DEF key, windows
  <2>. QED
    BY <1>1, <2>2 DEF Along
<1>10. FeasibilityWindows(s) = Sorted(windows, [i \in DOMAIN timed |-> <<timed[i].deadline, timed[i].name>>])
  BY DEF FeasibilityWindows, timed
<1>. HIDE DEF windows, W, key
<1>11. Sorted(windows, Along(key, windows, n)) = Arranged(W, KeyOrder(key, W))
  BY ONLY <1>6, <1>8, SortedArranged
<1>. QED
  BY <1>9, <1>10, <1>11 DEF InOrderOfWindows, key, W, X

LEMMA SameWindows ==
  ASSUME NEW a, NEW b, SameTasks(a, b), Apart(ToSet(a))
  PROVE  FeasibilityWindows(a) = FeasibilityWindows(b)
<1>. DEFINE timed(s) == {i \in DOMAIN s : Timed(s[i])}
<1>1. a \in TaskList /\ b \in TaskList /\ Apart(ToSet(b))
  BY SameMembers DEF SameTasks
<1>2. At(a, timed(a)) = At(b, timed(b))
  <2>1. \A i \in timed(a) : \E j \in timed(b) : b[j] = a[i]
    BY SameMembers
  <2>2. \A j \in timed(b) : \E i \in timed(a) : a[i] = b[j]
    BY SameMembers
  <2>. HIDE DEF timed
  <2>. QED
    BY <2>1, <2>2 DEF At
<1>3. FeasibilityWindows(a) = InOrderOfWindows({Window(t) : t \in At(a, timed(a))})
  BY <1>1, WindowsAt
<1>4. FeasibilityWindows(b) = InOrderOfWindows({Window(t) : t \in At(b, timed(b))})
  BY <1>1, WindowsAt
<1>. HIDE DEF timed
<1>. QED
  BY <1>2, <1>3, <1>4

LEMMA SameAnalysis ==
  ASSUME NEW a, NEW b, SameTasks(a, b), Apart(ToSet(a))
  PROVE  Analyze(a, DailyBudget) = Analyze(b, DailyBudget)
<1>. DEFINE c == ActiveTasks(a)  d == ActiveTasks(b)
<1>1. SameTasks(c, d)
  BY SameActive
<1>2. Apart(ToSet(c))
  <2>1. ToSet(c) \subseteq ToSet(a)
    BY SameMembers, ActiveElements DEF ToSet
  <2>. QED
    BY <2>1 DEF Apart
<1>3. /\ Len(c) = Len(d) /\ SortTasks(c) = SortTasks(d) /\ TotalPlanned(c) = TotalPlanned(d)
      /\ DeadlineCollisions(c) = DeadlineCollisions(d) /\ BusyDays(c) = BusyDays(d)
      /\ DailyPressure(c) = DailyPressure(d) /\ FeasibilityWindows(c) = FeasibilityWindows(d)
  <2>. HIDE DEF c, d
  <2>. QED
    BY <1>1, <1>2, SameTotals, SameCollisions, SameBusyDays, SamePressure, SameWindows
<1>4. \A s : Analyze(s, DailyBudget) =
        [totalTasks |-> Len(ActiveTasks(s)), collisions |-> DeadlineCollisions(ActiveTasks(s)),
         busyDays |-> BusyDays(ActiveTasks(s)), recommended |-> Ids(SortTasks(ActiveTasks(s))),
         planned |-> TotalPlanned(ActiveTasks(s)), windows |-> FeasibilityWindows(ActiveTasks(s)),
         pressure |-> DailyPressure(ActiveTasks(s)),
         overloads |-> OverloadWarnings(DailyPressure(ActiveTasks(s)), DailyBudget),
         overlaps |-> SchedulingPressure(FeasibilityWindows(ActiveTasks(s)))]
  BY DEF Analyze, ActiveTasks
<1>. QED
  BY <1>3, <1>4

(***************************************************************************)
(* Whatever order the database returns the tasks in, the plan is the same, *)
(* and so is the analysis if names and deadlines tell the tasks apart.     *)
(***************************************************************************)
THEOREM OrderDoesNotMatter == Spec => []OrderIndependent
<1>1. IInv => OrderIndependent
  <2>. SUFFICES ASSUME IInv, NEW p \in SetToSeqs(DOMAIN tasks)
       PROVE  LET reordered == [i \in DOMAIN tasks |-> tasks[p[i]]]
              IN  /\ Planned => GenerateCandidates(reordered) = Plan
                  /\ Analyzed /\ (\A t, u \in ToSet(tasks) :
                                    t.name = u.name /\ t.deadline = u.deadline => t = u)
                       => Analyze(reordered, DailyBudget) = Analysis
    BY DEF OrderIndependent
  <2>. DEFINE reordered == [i \in DOMAIN tasks |-> tasks[p[i]]]
  <2>1. /\ tasks \in TaskList
        /\ Analyzed => Analysis = Analyze(tasks, DailyBudget)
        /\ Planned => Plan = GenerateCandidates(tasks)
    BY AnswerShape
  <2>2. SameTasks(tasks, reordered)
    BY <2>1, Reordered, SameMembers
  <2>. HIDE DEF reordered
  <2>3. GenerateCandidates(tasks) = GenerateCandidates(reordered)
    BY <2>2, SamePlan
  <2>4. Apart(ToSet(tasks)) => Analyze(tasks, DailyBudget) = Analyze(reordered, DailyBudget)
    BY <2>2, SameAnalysis
  <2>5. (\A t, u \in ToSet(tasks) : t.name = u.name /\ t.deadline = u.deadline => t = u)
          => Apart(ToSet(tasks))
    BY DEF Apart
  <2>. QED
    BY <2>1, <2>3, <2>4, <2>5 DEF reordered
<1>. QED
  BY <1>1, Invariance, PTL
=============================================================================

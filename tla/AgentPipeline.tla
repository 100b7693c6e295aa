---------------------------- MODULE AgentPipeline ----------------------------
(***************************************************************************)
(* The agent's pipeline: what the language model answers is interpreted,   *)
(* the proposal validated, its target resolved to an id, authorised, put   *)
(* to the safety policy, and then executed, stored for a confirmation, or  *)
(* refused.  The module details the step Interpret of Confirmation, whose  *)
(* requests it extends with proposals, commands and the tasks and          *)
(* reminders that they act on.  The direct API changes these at any time   *)
(* in between.                                                             *)
(***************************************************************************)
EXTENDS Confirmation, Interpretation

CONSTANTS
  TaskIds,        \* ids of tasks
  ReminderIds,    \* ids of reminders
  Names,          \* task names, as sets of words
  Stored,         \* tasks, with their names, that exist initially
  Reminded,       \* tasks of the reminders that exist initially
  Outputs,        \* what the language model may answer
  DefaultUser,    \* default_user_id
  SingleUserMode, \* single_user_mode
  MaxEdits        \* a bound on the requests of the direct API

VARIABLES
  tasks,          \* name of each task, {} if there is none
  described,      \* whether the task has a description
  reminders,      \* task of each reminder, NoId if there is none
  fresh,          \* ids that were never given to anything
  edits,          \* requests of the direct API so far
  stage,          \* how far the proposal of each chat request has come
  proposal,       \* the proposal of each chat request
  command,        \* the command of each stored confirmation
  ran             \* history: users for whom something was executed

data == <<tasks, described, reminders, fresh>>
pvars == <<data, edits, stage, proposal, command, ran>>
allVars == <<vars, pvars>>

NoTask == {}

ASSUME PipelineAssumption ==
  /\ TaskIds \cup ReminderIds \cup Commands \subseteq Ids
  /\ TaskIds \cap ReminderIds = {} /\ (TaskIds \cup ReminderIds) \cap Commands = {}
  /\ NoTask \notin Names
  /\ Outputs \subseteq InterpretationOutput
  /\ UNION Names \subseteq Words
  /\ SingleUserMode \in BOOLEAN /\ MaxEdits \in Nat
  /\ Stored \in [TaskIds -> Names \cup {NoTask}]
  /\ Reminded \in [ReminderIds -> TaskIds \cup {NoId}]
  /\ \A r \in ReminderIds : Reminded[r] # NoId => Stored[Reminded[r]] # NoTask

(***************************************************************************)
(* A proposal, or the command it becomes, that is not there.               *)
(***************************************************************************)
NoCommand ==
  [action |-> "ANALYZE_WORKLOAD", params |-> {}, range |-> "none", said |-> NoId,
   ref |-> "none", id |-> NoId, phrase |-> {}, meant |-> {}]

PipelineInit ==
  /\ Init
  /\ tasks = Stored
  /\ described = [t \in TaskIds |-> Stored[t] # NoTask]
  /\ reminders = Reminded
  /\ fresh = {t \in TaskIds : Stored[t] = NoTask} \cup {r \in ReminderIds : Reminded[r] = NoId}
  /\ edits = 0
  /\ stage = [c \in Chats |-> "none"]
  /\ proposal = [c \in Chats |-> NoCommand]
  /\ command = [k \in Commands |-> NoCommand]
  /\ ran = {}

-----------------------------------------------------------------------------
(***************************************************************************)
(* ActionValidator.                                                        *)
(***************************************************************************)
NoResourceActions == {"CREATE_TASK", "ANALYZE_WORKLOAD", "SUGGEST_RESCHEDULING"}
UpdateActions == {"UPDATE_TASK", "UPDATE_REMINDER"}
RangeActions == {"ANALYZE_WORKLOAD", "SUGGEST_RESCHEDULING"}

RequiredParameters(action) ==
  CASE action = "CREATE_TASK"     -> {"taskName", "deadline"}
    [] action = "CREATE_REMINDER" -> {"remindAt"}
    [] OTHER                      -> {}

Valid(p) ==
  /\ p.action \in NoResourceActions <=> p.ref = "none"
  /\ p.ref = "phrase" => p.phrase # {}
  /\ RequiredParameters(p.action) \subseteq p.params
  /\ p.action \in UpdateActions => p.params # {}
  /\ p.action \in RangeActions => p.range \in {"relative", "explicit"}

(***************************************************************************)
(* ResourceResolver: the ids a proposal resolves to, none if it needs a    *)
(* clarification.  find_by_name and find_by_task_name look for the phrase  *)
(* in the names of tasks.  (The variant takes any match.)                  *)
(***************************************************************************)
Matches(p) ==
  IF p.action \in {"UPDATE_TASK", "DELETE_TASK", "CREATE_REMINDER"}
    THEN {t \in TaskIds : tasks[t] # NoTask /\ p.phrase \subseteq tasks[t]}
    ELSE {r \in ReminderIds : reminders[r] # NoId /\ p.phrase \subseteq tasks[reminders[r]]}

NoTargetActions == {"CREATE_TASK", "ANALYZE_WORKLOAD"}

AnyMatch(p) ==
  CASE p.ref = "none"   -> IF p.action \in NoTargetActions THEN {NoId} ELSE {}
    [] p.ref = "id"     -> {p.id}
    [] p.ref = "phrase" -> Matches(p)

Resolved(p) ==
  CASE p.ref = "none"   -> IF p.action \in NoTargetActions THEN {NoId} ELSE {}
    [] p.ref = "id"     -> {p.id}
    [] p.ref = "phrase" -> IF Cardinality(Matches(p)) = 1 THEN Matches(p) ELSE {}

(***************************************************************************)
(* DecisionService: authorisation before the safety policy.  (The variants *)
(* of the policy and of the order are mistakes.)                           *)
(***************************************************************************)
Authorized(user) == SingleUserMode \/ user = DefaultUser

DestructiveTasksOnly(action) == action = "DELETE_TASK"
Destructive(action) == action \in {"DELETE_TASK", "DELETE_REMINDER"}

PolicyFirst(action, user) ==
  IF Destructive(action) THEN "CONFIRMATION_REQUIRED"
  ELSE IF Authorized(user) THEN "AUTHORIZED" ELSE "NOT_CONFIGURED"

Decision(action, user) ==
  IF ~ Authorized(user) THEN "NOT_CONFIGURED"
  ELSE IF Destructive(action) THEN "CONFIRMATION_REQUIRED" ELSE "AUTHORIZED"

-----------------------------------------------------------------------------
(***************************************************************************)
(* ActionExecutor: the effect of a command on tasks and reminders.  What   *)
(* does not exist is not found, values may be rejected, the database may   *)
(* fail: execute catches every exception, and nothing changes.             *)
(***************************************************************************)
CreateTask(p) ==
  \E t \in TaskIds \cap fresh, name \in Names :
    /\ tasks' = [tasks EXCEPT ![t] = name]
    /\ described' = [described EXCEPT ![t] = "description" \in p.params]
    /\ fresh' = fresh \ {t}
    /\ UNCHANGED reminders

(***************************************************************************)
(* The description is passed on whether the proposal has one or not.       *)
(***************************************************************************)
UpdateTask(p) ==
  /\ p.id \in TaskIds /\ tasks[p.id] # NoTask
  /\ \E name \in IF "taskName" \in p.params THEN Names ELSE {tasks[p.id]} :
       tasks' = [tasks EXCEPT ![p.id] = name]
  /\ described' = [described EXCEPT ![p.id] = "description" \in p.params]
  /\ UNCHANGED <<reminders, fresh>>

(***************************************************************************)
(* The reminders of a task go with it.  (The variant leaves them.)         *)
(***************************************************************************)
RemoveTaskOnly(t) ==
  /\ t \in TaskIds /\ tasks[t] # NoTask
  /\ tasks' = [tasks EXCEPT ![t] = NoTask]
  /\ described' = [described EXCEPT ![t] = FALSE]
  /\ UNCHANGED <<reminders, fresh>>

RemoveTask(t) ==
  /\ t \in TaskIds /\ tasks[t] # NoTask
  /\ tasks' = [tasks EXCEPT ![t] = NoTask]
  /\ described' = [described EXCEPT ![t] = FALSE]
  /\ reminders' = [r \in ReminderIds |-> IF reminders[r] = t THEN NoId ELSE reminders[r]]
  /\ UNCHANGED fresh

CreateReminder(p) ==
  /\ p.id \in TaskIds /\ tasks[p.id] # NoTask
  /\ \E r \in ReminderIds \cap fresh :
       reminders' = [reminders EXCEPT ![r] = p.id] /\ fresh' = fresh \ {r}
  /\ UNCHANGED <<tasks, described>>

RemoveReminder(r) ==
  /\ r \in ReminderIds /\ reminders[r] # NoId
  /\ reminders' = [reminders EXCEPT ![r] = NoId]
  /\ UNCHANGED <<tasks, described, fresh>>

Effect(p) ==
  \/ p.action = "CREATE_TASK" /\ CreateTask(p)
  \/ p.action = "UPDATE_TASK" /\ UpdateTask(p)
  \/ p.action = "DELETE_TASK" /\ RemoveTask(p.id)
  \/ p.action = "CREATE_REMINDER" /\ CreateReminder(p)
  \/ p.action = "DELETE_REMINDER" /\ RemoveReminder(p.id)
  \/ UNCHANGED data  \* an exception, or nothing that the model shows

-----------------------------------------------------------------------------
(***************************************************************************)
(* Stages of a chat request.  All of them are in the step Interpret of     *)
(* Confirmation, until the request is answered or a command is offered.    *)
(***************************************************************************)
At(c, s) == chat[c].pc = "interpret" /\ stage[c] = s

Advance(c, s, p) == \* with p, to the next stage
  /\ stage' = [stage EXCEPT ![c] = s]
  /\ proposal' = [proposal EXCEPT ![c] = p]
  /\ UNCHANGED vars

Forget(c) ==
  /\ stage' = [stage EXCEPT ![c] = "none"]
  /\ proposal' = [proposal EXCEPT ![c] = NoCommand]

Answer(c) == \* the response that ends the request
  /\ Forget(c)
  /\ chat' = [chat EXCEPT ![c] = IdleChat]
  /\ UNCHANGED <<clock, stored, chats, failures, accepted, executed, told>>

Propose(c) ==
  /\ At(c, "none")
  /\ \E o \in Outputs :
       /\ ResponseType(o) = "ACTION_PROPOSED"
       /\ Advance(c, "validate", ProposalOf(o))
  /\ UNCHANGED <<data, edits, command, ran>>

(***************************************************************************)
(* Nothing to do, or no output that has the required shape.                *)
(***************************************************************************)
AnswerOutput(c) ==
  /\ At(c, "none")
  /\ Answer(c)
  /\ UNCHANGED <<data, edits, command, ran>>

(***************************************************************************)
(* "Yes", with or without a reference: the latest pending confirmation     *)
(* only if there is none; one that names no confirmation is not found.     *)
(***************************************************************************)
HearYes(c) ==
  /\ At(c, "none")
  /\ \E o \in Outputs :
       /\ ResponseType(o) = "CONFIRMATION"
       /\ \/ /\ ConfirmationId(o) = NoId
             /\ chat' = [chat EXCEPT ![c].pc = "latest"]
          \/ /\ ConfirmationId(o) \in Commands
             /\ stored[ConfirmationId(o)].status # "unborn"
             /\ chat' = [chat EXCEPT ![c].pc = "confirm", ![c].id = ConfirmationId(o)]
       /\ proposal' = [proposal EXCEPT ![c].said = o.id]
  /\ UNCHANGED <<clock, stored, chats, failures, accepted, executed, told>>
  /\ UNCHANGED <<data, edits, stage, command, ran>>

(***************************************************************************)
(* (The variant has no answer to a proposal that is not valid.)            *)
(***************************************************************************)
ValidateOnly(c) ==
  /\ At(c, "validate")
  /\ Valid(proposal[c])
  /\ Advance(c, "resolve", proposal[c])
  /\ UNCHANGED <<data, edits, command, ran>>

Validate(c) ==
  /\ At(c, "validate")
  /\ IF Valid(proposal[c]) THEN Advance(c, "resolve", proposal[c]) ELSE Answer(c)
  /\ UNCHANGED <<data, edits, command, ran>>

Resolve(c) ==
  LET p == proposal[c]
      meant == IF p.ref = "phrase" THEN Matches(p) ELSE Resolved(p)
  IN
  /\ At(c, "resolve")
  /\ \/ Resolved(p) = {} /\ Answer(c)
     \/ \E id \in Resolved(p) :
          Advance(c, "decide", [p EXCEPT !.id = id, !.meant = meant])
  /\ UNCHANGED <<data, edits, command, ran>>

Decide(c) ==
  LET decision == Decision(proposal[c].action, chat[c].user) IN
  /\ At(c, "decide")
  /\ \/ decision = "AUTHORIZED" /\ Advance(c, "run", proposal[c])
     \/ decision = "NOT_CONFIGURED" /\ Answer(c)
     \/ /\ decision = "CONFIRMATION_REQUIRED"
        /\ chat' = [chat EXCEPT ![c].pc = "offer"]
        /\ stage' = [stage EXCEPT ![c] = "none"]
        /\ UNCHANGED <<clock, stored, chats, failures, accepted, executed, told, proposal>>
  /\ UNCHANGED <<data, edits, command, ran>>

Run(c) ==
  /\ At(c, "run")
  /\ Effect(proposal[c])
  /\ ran' = ran \cup {chat[c].user}
  /\ Answer(c)
  /\ UNCHANGED <<edits, command>>

(***************************************************************************)
(* create of the confirmation, with the command.  (The variant goes on to  *)
(* confirm it.)                                                            *)
(***************************************************************************)
Store(c) ==
  /\ command' = [k \in Commands |-> IF stored'[k] # stored[k] THEN proposal[c] ELSE command[k]]
  /\ Forget(c)
  /\ UNCHANGED <<data, edits, ran>>

OfferAndConfirm(c) ==
  /\ chat[c].pc = "offer"
  /\ \E k \in Commands :
       /\ stored[k].status = "unborn"
       /\ stored' = [stored EXCEPT ![k] =
            [status |-> "PENDING", user |-> chat[c].user, expires_at |-> clock + TTL]]
       /\ chat' = [chat EXCEPT ![c].pc = "confirm", ![c].id = k]
  /\ UNCHANGED <<clock, chats, failures, accepted, executed, told>>
  /\ Store(c)

Offer(c) == OfferCommand(c) /\ Store(c)

(***************************************************************************)
(* "Yes": the stored command runs as authorised, without the pipeline.     *)
(***************************************************************************)
RunConfirmed(c) ==
  /\ Execute(c)
  /\ Effect(command[chat[c].id])
  /\ ran' = ran \cup {chat[c].user}
  /\ Forget(c)
  /\ UNCHANGED <<edits, command>>

ConfirmStep(c) ==
  /\ FindLatest(c) \/ ReadClock(c) \/ MarkConfirmed(c) \/ MissConfirmed(c) \/ Diagnose(c)
       \/ WriteExpired(c)
  /\ IF chat'[c].pc = "idle" THEN Forget(c) ELSE UNCHANGED <<stage, proposal>>
  /\ UNCHANGED <<data, edits, command, ran>>

FailChat(c) ==
  /\ Fail(c)
  /\ Forget(c)
  /\ UNCHANGED <<data, edits, command, ran>>

(***************************************************************************)
(* A request of the direct API: create, update or delete a task, or delete *)
(* a reminder.                                                             *)
(***************************************************************************)
Edit ==
  /\ edits < MaxEdits
  /\ edits' = edits + 1
  /\ \/ \E t \in TaskIds :
          \/ RemoveTask(t)
          \/ UpdateTask([id |-> t, params |-> {"taskName", "description"}])
     \/ CreateTask([params |-> {}])
     \/ \E r \in ReminderIds : RemoveReminder(r)
  /\ UNCHANGED vars
  /\ UNCHANGED <<stage, proposal, command, ran>>

Serve(c) ==
  \/ Propose(c) \/ AnswerOutput(c) \/ HearYes(c) \/ Validate(c) \/ Resolve(c) \/ Decide(c) \/ Run(c)
  \/ Offer(c) \/ ConfirmStep(c) \/ RunConfirmed(c)

PipelineNext ==
  \/ AdvanceClock /\ UNCHANGED pvars
  \/ Edit
  \/ \E c \in Chats : \/ Receive(c) /\ UNCHANGED pvars
                      \/ Serve(c)
                      \/ FailChat(c)

PipelineSpec == PipelineInit /\ [][PipelineNext]_allVars

(***************************************************************************)
(* As in Confirmation: accepted requests are run to their end.             *)
(***************************************************************************)
FairPipelineSpec == PipelineSpec /\ \A c \in Chats : WF_allVars(Serve(c))

-----------------------------------------------------------------------------
PipelineTypeOK ==
  /\ \A t \in TaskIds : tasks[t] \in Names \cup {NoTask} /\ (described[t] => tasks[t] # NoTask)
  /\ \A r \in ReminderIds : reminders[r] # NoId => tasks[reminders[r]] # NoTask
  /\ stage \in [Chats -> {"none", "validate", "resolve", "decide", "run"}]
  /\ \A c \in Chats : stage[c] # "none" => chat[c].pc = "interpret"

(***************************************************************************)
(* What happens to requests and stored confirmations is what Confirmation  *)
(* describes.                                                              *)
(***************************************************************************)
ImplementsConfirmation == Spec

(***************************************************************************)
(* The agent never deletes a task without a confirmation, and what it      *)
(* deletes is the one task that the user's words matched when the          *)
(* confirmation was offered, whatever was renamed or created since.        *)
(***************************************************************************)
Confirmed(k) == executed'[k] > executed[k] /\ accepted[k] = 1

DeletesWhatWasMeant ==
  [][\A t \in TaskIds :
       tasks[t] # NoTask /\ tasks'[t] = NoTask /\ edits' = edits =>
         \E k \in Commands :
           Confirmed(k) /\ command[k].action = "DELETE_TASK" /\ command[k].meant = {t}]_allVars

(***************************************************************************)
(* Nor a reminder, except with its task.                                   *)
(***************************************************************************)
RemindersKept ==
  [][\A r \in ReminderIds :
       reminders[r] # NoId /\ reminders'[r] = NoId /\ edits' = edits =>
         \E k \in Commands :
           /\ Confirmed(k)
           /\ \/ command[k].action = "DELETE_REMINDER" /\ command[k].meant = {r}
              \/ command[k].action = "DELETE_TASK" /\ command[k].meant = {reminders[r]}]_allVars

(***************************************************************************)
(* Nothing is executed for a user who is not authorised, also not by a     *)
(* confirmation, where authorisation is not checked again.                 *)
(***************************************************************************)
OnlyAuthorizedUsers == \A user \in ran : Authorized(user)

(***************************************************************************)
(* A target is what the language model named: by its id, whatever words    *)
(* come with it, or else by words that match nothing else.  An id that is  *)
(* not valid has no target.                                                *)
(***************************************************************************)
TargetIsReferred ==
  \A c \in Chats :
    LET p == proposal[c] IN
    stage[c] \in {"decide", "run"} /\ p.id # NoId =>
      p.id = p.said \/ (p.said = NoId /\ p.meant = {p.id})

(***************************************************************************)
(* A "yes" that names a confirmation confirms that one or none; only one   *)
(* that names none confirms the latest.                                    *)
(***************************************************************************)
ConfirmsReferred ==
  [][\A c \in Chats :
       chat[c].pc = "mark" /\ chat'[c].pc = "execute" =>
         proposal[c].said \in {NoId, chat[c].id}]_allVars

(***************************************************************************)
(* Every request is answered.                                              *)
(***************************************************************************)
EveryChatEnds == \A c \in Chats : chat[c].pc # "idle" ~> chat[c].pc = "idle"

(***************************************************************************)
(* action_executor.py: "PATCH semantics for nullable fields": an update    *)
(* without a description leaves the description alone.                     *)
(***************************************************************************)
DescriptionKept ==
  [][\A c \in Chats :
       At(c, "run") /\ stage'[c] = "none" /\ "description" \notin proposal[c].params
         => \A t \in TaskIds : described[t] => described'[t]]_allVars
=============================================================================

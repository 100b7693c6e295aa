------------------------- MODULE AgentPipelineProofs -------------------------
(***************************************************************************)
(* Proofs, for any tasks, reminders, names, users, outputs of the language *)
(* model and requests of the direct API, that the pipeline does with       *)
(* requests and stored confirmations what Confirmation describes, that it  *)
(* runs nothing for a user who is not authorised, and that what the agent  *)
(* deletes was confirmed and is what was meant.  What is proved of         *)
(* Confirmation holds here because the pipeline implements it.             *)
(***************************************************************************)
EXTENDS AgentPipeline, ConfirmationProofs, FiniteSetTheorems

-----------------------------------------------------------------------------
(***************************************************************************)
(* Every step of the pipeline is a step of Confirmation, or leaves its     *)
(* variables alone.                                                        *)
(***************************************************************************)
LEMMA AnswerInterprets ==
  ASSUME NEW c \in Chats, chat[c].pc = "interpret", Answer(c)
  PROVE  Interpret(c)
  BY DEF Answer, Interpret

LEMMA PipelineStepImplements ==
  ASSUME PipelineNext
  PROVE  [Next]_vars
<1>1. CASE AdvanceClock
  BY <1>1 DEF Next
<1>2. CASE Edit
  BY <1>2 DEF Edit
<1>3. ASSUME NEW c \in Chats, Receive(c) PROVE Next
  BY <1>3 DEF Next
<1>4. ASSUME NEW c \in Chats, FailChat(c) PROVE Next
  BY <1>4 DEF FailChat, Next
<1>5. ASSUME NEW c \in Chats, Serve(c) PROVE UNCHANGED vars \/ Proceed(c)
  <2>1. CASE Propose(c)
    BY <2>1 DEF Propose, Advance
  <2>2. CASE AnswerOutput(c)
    BY <2>2, AnswerInterprets DEF AnswerOutput, At, Proceed
  <2>3. CASE HearYes(c)
    <3>1. CASE chat' = [chat EXCEPT ![c].pc = "latest"]
      BY <2>3, <3>1 DEF HearYes, At, Interpret, Proceed
    <3>2. ASSUME NEW o \in Outputs, ConfirmationId(o) \in Commands,
                 stored[ConfirmationId(o)].status # "unborn",
                 chat' = [chat EXCEPT ![c].pc = "confirm", ![c].id = ConfirmationId(o)]
          PROVE  Interpret(c)
      BY <2>3, <3>2 DEF HearYes, At, Interpret
    <3>. QED
      BY <2>3, <3>1, <3>2 DEF HearYes, Proceed
  <2>4. CASE Validate(c)
    BY <2>4, AnswerInterprets DEF Validate, Advance, At, Proceed
  <2>5. CASE Resolve(c)
    BY <2>5, AnswerInterprets DEF Resolve, Advance, At, Proceed
  <2>6. CASE Decide(c)
    <3>1. CASE Advance(c, "run", proposal[c])
      BY <3>1 DEF Advance
    <3>2. CASE Answer(c)
      BY <2>6, <3>2, AnswerInterprets DEF Decide, At, Proceed
    <3>3. CASE /\ chat' = [chat EXCEPT ![c].pc = "offer"]
               /\ UNCHANGED <<clock, stored, chats, failures, accepted, executed, told>>
      BY <2>6, <3>3 DEF Decide, At, Interpret, Proceed
    <3>. QED
      BY <2>6, <3>1, <3>2, <3>3 DEF Decide
  <2>7. CASE Run(c)
    BY <2>7, AnswerInterprets DEF Run, At, Proceed
  <2>8. CASE Offer(c)
    BY <2>8 DEF Offer, Proceed
  <2>9. CASE ConfirmStep(c)
    BY <2>9 DEF ConfirmStep, Proceed
  <2>10. CASE RunConfirmed(c)
    BY <2>10 DEF RunConfirmed, Proceed
  <2>. QED
    BY <1>5, <2>1, <2>2, <2>3, <2>4, <2>5, <2>6, <2>7, <2>8, <2>9, <2>10 DEF Serve
<1>. QED
  BY <1>1, <1>2, <1>3, <1>4, <1>5 DEF PipelineNext, Next

(***************************************************************************)
(* What happens to requests and stored confirmations in the pipeline is    *)
(* what Confirmation describes.                                            *)
(***************************************************************************)
THEOREM PipelineImplements == PipelineSpec => ImplementsConfirmation
<1>1. PipelineInit => Init
  BY DEF PipelineInit
<1>2. [PipelineNext]_allVars => [Next]_vars
  BY PipelineStepImplements DEF allVars
<1>. QED
  BY <1>1, <1>2, PTL DEF PipelineSpec, ImplementsConfirmation, Spec

(***************************************************************************)
(* So its invariants hold here.                                            *)
(***************************************************************************)
LEMMA Inherited == PipelineSpec => [](TypeOK /\ Refers /\ OneShotInv)
  BY PipelineImplements, TypeAndRefers, OneShotInvariant, PTL DEF ImplementsConfirmation

-----------------------------------------------------------------------------
(***************************************************************************)
(* Tasks and reminders: a description and a reminder are those of a task.  *)
(***************************************************************************)
DataOK ==
  /\ tasks \in [TaskIds -> Names \cup {NoTask}]
  /\ described \in [TaskIds -> BOOLEAN]
  /\ reminders \in [ReminderIds -> TaskIds \cup {NoId}]
  /\ \A t \in TaskIds : described[t] => tasks[t] # NoTask
  /\ \A r \in ReminderIds : reminders[r] # NoId => tasks[reminders[r]] # NoTask

Gone(t) == tasks[t] # NoTask /\ tasks'[t] = NoTask
Lost(r) == reminders[r] # NoId /\ reminders'[r] = NoId

LEMMA Constants ==
  /\ NoTask \notin Names
  /\ TaskIds \subseteq Ids /\ ReminderIds \subseteq Ids /\ Commands \subseteq Ids
  /\ NoId \notin Ids /\ InvalidId \notin Ids /\ NoId # InvalidId
  BY PipelineAssumption, InterpretationAssumption DEF NoId, InvalidId

(***************************************************************************)
(* What each change of tasks and reminders does to them.                   *)
(***************************************************************************)
LEMMA CreateTaskKeeps ==
  ASSUME DataOK, NEW p, CreateTask(p)
  PROVE  DataOK' /\ \A t \in TaskIds : ~Gone(t)
  BY Constants DEF DataOK, CreateTask, Gone

LEMMA UpdateTaskKeeps ==
  ASSUME DataOK, NEW p, UpdateTask(p)
  PROVE  DataOK' /\ \A t \in TaskIds : ~Gone(t)
<1>1. PICK name \in Names : tasks' = [tasks EXCEPT ![p.id] = name]
  BY DEF DataOK, UpdateTask
<1>. QED
  BY <1>1, Constants DEF DataOK, UpdateTask, Gone

LEMMA RemoveTaskKeeps ==
  ASSUME DataOK, NEW t, RemoveTask(t)
  PROVE  /\ DataOK'
         /\ \A u \in TaskIds : Gone(u) => u = t
         /\ \A r \in ReminderIds : Lost(r) => reminders[r] = t
<1>1. DataOK'
  BY Constants DEF DataOK, RemoveTask
<1>2. \A u \in TaskIds : Gone(u) => u = t
  BY DEF DataOK, RemoveTask, Gone
<1>3. \A r \in ReminderIds : Lost(r) => reminders[r] = t
  BY DEF DataOK, RemoveTask, Lost
<1>. QED
  BY <1>1, <1>2, <1>3

LEMMA CreateReminderKeeps ==
  ASSUME DataOK, NEW p, CreateReminder(p)
  PROVE  DataOK' /\ \A r \in ReminderIds : ~Lost(r)
  BY Constants DEF DataOK, CreateReminder, Lost

LEMMA RemoveReminderKeeps ==
  ASSUME DataOK, NEW r, RemoveReminder(r)
  PROVE  DataOK' /\ \A s \in ReminderIds : Lost(s) => s = r
  BY Constants DEF DataOK, RemoveReminder, Lost

(***************************************************************************)
(* A command deletes nothing but its target, and the reminders of that.    *)
(***************************************************************************)
LEMMA EffectDeletes ==
  ASSUME DataOK, NEW p, Effect(p)
  PROVE  /\ DataOK'
         /\ \A t \in TaskIds : Gone(t) => p.action = "DELETE_TASK" /\ p.id = t
         /\ \A r \in ReminderIds : Lost(r) =>
              \/ p.action = "DELETE_REMINDER" /\ p.id = r
              \/ p.action = "DELETE_TASK" /\ p.id = reminders[r]
<1>1. CASE CreateTask(p)
  BY <1>1, CreateTaskKeeps DEF CreateTask, Lost
<1>2. CASE UpdateTask(p)
  BY <1>2, UpdateTaskKeeps DEF UpdateTask, Lost
<1>3. CASE p.action = "DELETE_TASK" /\ RemoveTask(p.id)
  BY <1>3, RemoveTaskKeeps
<1>4. CASE CreateReminder(p)
  BY <1>4, CreateReminderKeeps DEF CreateReminder, Gone
<1>5. CASE p.action = "DELETE_REMINDER" /\ RemoveReminder(p.id)
  BY <1>5, RemoveReminderKeeps DEF RemoveReminder, Gone
<1>6. CASE UNCHANGED data
  BY <1>6 DEF data, DataOK, Gone, Lost
<1>. QED
  BY <1>1, <1>2, <1>3, <1>4, <1>5, <1>6 DEF Effect

-----------------------------------------------------------------------------
(***************************************************************************)
(* Proposals.                                                              *)
(***************************************************************************)
Proposal ==
  [action : ActionType \cup {"none"},
   params : SUBSET {"taskName", "description", "deadline", "remindAt", "status"},
   range  : {"none", "unknown", "unbounded", "backwards", "relative", "explicit"},
   said   : Ids \cup {NoId, InvalidId},
   ref    : {"none", "id", "phrase"},
   id     : Ids \cup {NoId},
   phrase : SUBSET Words,
   meant  : SUBSET (Ids \cup {NoId})]

(***************************************************************************)
(* The reference comes from the output; once it is resolved, the target is *)
(* all that it may mean.                                                   *)
(***************************************************************************)
Referring(p) ==
  /\ p.ref = "none" => p.id = NoId
  /\ p.ref = "id" => p.id = p.said
  /\ p.ref = "phrase" => p.said = NoId

Unique(p) == p.meant = {p.id}

LEMMA NoCommandType == NoCommand \in Proposal /\ ~Destructive(NoCommand.action)
  BY DEF NoCommand, Proposal, ActionType, Destructive

LEMMA ReferenceType ==
  ASSUME NEW o \in InterpretationOutput
  PROVE  /\ Reference(o) \in {NoReference, ById(o.id), ByPhrase(o.phrase)}
         /\ Reference(o) = ById(o.id) => o.id \in Ids
         /\ Reference(o) = ByPhrase(o.phrase) => o.id = NoId
<1>1. Reference(o) = NoReference \/ Reference(o) = BuildReference(o)
  BY DEF Reference
<1>2. \/ BuildReference(o) = NoReference
      \/ BuildReference(o) = ById(o.id) /\ o.id \in Ids
      \/ BuildReference(o) = ByPhrase(o.phrase) /\ o.id = NoId
  BY DEF BuildReference
<1>3. /\ NoReference.ref = "none" /\ ById(o.id).ref = "id" /\ ByPhrase(o.phrase).ref = "phrase"
  BY DEF NoReference, ById, ByPhrase
<1>. QED
  BY <1>1, <1>2, <1>3

LEMMA ProposalType ==
  ASSUME NEW o \in Outputs
  PROVE  ProposalOf(o) \in Proposal /\ Referring(ProposalOf(o))
<1> DEFINE r == Reference(o)
<1>1. o \in InterpretationOutput
  BY PipelineAssumption
<1>2. /\ r.ref \in {"none", "id", "phrase"} /\ r.id \in Ids \cup {NoId} /\ r.phrase \in SUBSET Words
      /\ r.ref = "none" => r.id = NoId
      /\ r.ref = "id" => r.id = o.id
      /\ r.ref = "phrase" => o.id = NoId
  BY <1>1, ReferenceType DEF NoReference, ById, ByPhrase, InterpretationOutput
<1>3. /\ o.action \in ActionType \cup {"none"} /\ o.id \in Ids \cup {NoId, InvalidId}
      /\ o.params \in SUBSET {"taskName", "description", "deadline", "remindAt", "status"}
      /\ o.range \in {"none", "unknown", "unbounded", "backwards", "relative", "explicit"}
  BY <1>1 DEF InterpretationOutput
<1>4. ProposalOf(o) = [action |-> o.action, params |-> o.params, range |-> o.range, said |-> o.id,
                       ref |-> r.ref, id |-> r.id, phrase |-> r.phrase, meant |-> {}]
  BY DEF ProposalOf
<1> HIDE DEF r
<1>. QED
  BY <1>2, <1>3, <1>4 DEF Proposal, Referring

(***************************************************************************)
(* What the resolver finds is the one id that the reference may mean.      *)
(***************************************************************************)
Bound(p, id) ==
  [p EXCEPT !.id = id, !.meant = IF p.ref = "phrase" THEN Matches(p) ELSE Resolved(p)]

LEMMA ResolvedUnique ==
  ASSUME NEW p \in Proposal, Referring(p), NEW id \in Resolved(p)
  PROVE  /\ Bound(p, id) \in Proposal /\ Bound(p, id).action = p.action
         /\ Referring(Bound(p, id)) /\ Unique(Bound(p, id))
<1>1. p.ref \in {"none", "id", "phrase"} /\ p.id \in Ids \cup {NoId}
  BY DEF Proposal
<1>2. CASE p.ref = "none"
  <2>1. Resolved(p) = {NoId}
    BY <1>2 DEF Resolved
  <2>. QED
    BY <1>2, <2>1 DEF Bound, Proposal, Referring, Unique
<1>3. CASE p.ref = "id"
  <2>1. Resolved(p) = {p.id}
    BY <1>3 DEF Resolved
  <2>. QED
    BY <1>1, <1>3, <2>1 DEF Bound, Proposal, Referring, Unique
<1>4. CASE p.ref = "phrase"
  <2>1. Resolved(p) = Matches(p) /\ Cardinality(Matches(p)) = 1
    BY <1>4 DEF Resolved
  <2>2. Matches(p) \subseteq Ids
    BY Constants DEF Matches
  <2>3. IsFiniteSet(Matches(p))
    BY <2>2, FS_Subset, InterpretationAssumption
  <2>4. Matches(p) = {id}
    BY <2>1, <2>3, FS_Singleton
  <2>. QED
    BY <1>4, <2>2, <2>4 DEF Bound, Proposal, Referring, Unique
<1>. QED
  BY <1>1, <1>2, <1>3, <1>4

(***************************************************************************)
(* What a request and its proposal have in common.                         *)
(***************************************************************************)
Stages == {"none", "validate", "resolve", "decide", "run"}

Consistent(s, p, x) ==
  /\ s # "none" => x.pc = "interpret" /\ Referring(p)
  /\ s \in {"decide", "run"} \/ x.pc = "offer" => Unique(p)
  /\ s = "run" \/ x.pc = "offer" => Authorized(x.user)
  /\ s = "run" => ~Destructive(p.action)
  /\ x.pc = "latest" => p.said = NoId
  /\ x.pc \in {"confirm", "mark"} => p.said \in {NoId, x.id}

Tracked == \A c \in Chats : Consistent(stage[c], proposal[c], chat[c])

RequestsOK ==
  stage \in [Chats -> Stages] /\ proposal \in [Chats -> Proposal] /\ chat \in [Chats -> ChatState]

(***************************************************************************)
(* And a row and its command.                                              *)
(***************************************************************************)
Commanded ==
  /\ command \in [Commands -> Proposal]
  /\ \A k \in Commands :
       /\ Destructive(command[k].action) => Unique(command[k])
       /\ stored[k].status # "unborn" => Authorized(stored[k].user)

History == edits \in Nat /\ \A user \in ran : Authorized(user)

PipelineInv == DataOK /\ RequestsOK /\ Tracked /\ Commanded /\ History

(***************************************************************************)
(* A step that moves one request.                                          *)
(***************************************************************************)
Moved(c, s, p, x) ==
  /\ stage' = [stage EXCEPT ![c] = s]
  /\ proposal' = [proposal EXCEPT ![c] = p]
  /\ chat' = [chat EXCEPT ![c] = x]

LEMMA MovedKeeps ==
  ASSUME RequestsOK, Tracked, NEW c \in Chats,
         NEW s \in Stages, NEW p \in Proposal, NEW x \in ChatState,
         Moved(c, s, p, x), Consistent(s, p, x)
  PROVE  RequestsOK' /\ Tracked'
<1>1. RequestsOK'
  BY DEF RequestsOK, Moved
<1>2. /\ stage'[c] = s /\ proposal'[c] = p /\ chat'[c] = x
      /\ \A d \in Chats \ {c} :
           stage'[d] = stage[d] /\ proposal'[d] = proposal[d] /\ chat'[d] = chat[d]
  BY DEF RequestsOK, Moved
<1>3. ASSUME NEW d \in Chats PROVE Consistent(stage'[d], proposal'[d], chat'[d])
  <2>1. CASE d = c
    BY <1>2, <2>1
  <2>2. CASE d # c
    BY <1>2, <2>2 DEF Tracked
  <2>. QED
    BY <2>1, <2>2
<1>. QED
  BY <1>1, <1>3 DEF Tracked

LEMMA AnswerKeeps ==
  ASSUME RequestsOK, Tracked, NEW c \in Chats,
         Forget(c), chat' = [chat EXCEPT ![c] = IdleChat]
  PROVE  RequestsOK' /\ Tracked'
<1>1. Moved(c, "none", NoCommand, IdleChat)
  BY DEF Forget, Moved
<1>2. Consistent("none", NoCommand, IdleChat)
  BY IdleChatType DEF Consistent
<1>. QED
  BY <1>1, <1>2, MovedKeeps, IdleChatType, NoCommandType DEF Stages

LEMMA AdvanceKeeps ==
  ASSUME RequestsOK, Tracked, NEW c \in Chats, NEW s \in Stages, NEW p \in Proposal,
         Advance(c, s, p), Consistent(s, p, chat[c])
  PROVE  RequestsOK' /\ Tracked'
<1>1. Moved(c, s, p, chat[c])
  BY DEF Advance, Moved, vars, RequestsOK
<1>. QED
  BY <1>1, MovedKeeps DEF RequestsOK

(***************************************************************************)
(* Only create makes a row, and no step changes whose row it is.           *)
(***************************************************************************)
RowsKept ==
  \A k \in Commands :
    stored'[k].user = stored[k].user /\ (stored'[k].status # "unborn" => stored[k].status # "unborn")

LEMMA CommandedKept ==
  ASSUME Commanded, RowsKept, UNCHANGED command
  PROVE  Commanded'
  BY DEF Commanded, RowsKept, Unique

LEMMA ConfirmStepRows ==
  ASSUME TypeOK, Refers, NEW c \in Chats, ConfirmStep(c)
  PROVE  RowsKept
<1>1. CASE FindLatest(c) \/ ReadClock(c) \/ MissConfirmed(c) \/ Diagnose(c)
  BY <1>1 DEF FindLatest, ReadClock, MissConfirmed, Diagnose, RowsKept
<1>2. CASE MarkConfirmed(c)
  BY <1>2 DEF MarkConfirmed, Live, RowsKept, TypeOK, PendingConfirmation
<1>3. CASE WriteExpired(c)
  BY <1>3 DEF WriteExpired, Refers, HasCommand, RowsKept, TypeOK, PendingConfirmation
<1>. QED
  BY <1>1, <1>2, <1>3 DEF ConfirmStep

(***************************************************************************)
(* A "yes" on its way keeps to the confirmation that it names: the steps   *)
(* of a confirmation carry the id along, and FindLatest runs only for a    *)
(* "yes" without one.                                                      *)
(***************************************************************************)
LEMMA HearYesKeeps ==
  ASSUME RequestsOK, Tracked, NEW c \in Chats, HearYes(c)
  PROVE  RequestsOK' /\ Tracked'
<1>1. stage[c] = "none" /\ stage' = [stage EXCEPT ![c] = "none"]
  BY DEF HearYes, At, RequestsOK
<1>2. PICK o \in Outputs :
        /\ ResponseType(o) = "CONFIRMATION"
        /\ \/ ConfirmationId(o) = NoId /\ chat' = [chat EXCEPT ![c].pc = "latest"]
           \/ /\ ConfirmationId(o) \in Commands
              /\ chat' = [chat EXCEPT ![c].pc = "confirm", ![c].id = ConfirmationId(o)]
        /\ proposal' = [proposal EXCEPT ![c].said = o.id]
  BY DEF HearYes
<1>3. o.id \in Ids \cup {NoId}
  BY <1>2, PipelineAssumption DEF ResponseType, InterpretationOutput, Proposable
<1> DEFINE p == [proposal[c] EXCEPT !.said = o.id]
<1>4. p \in Proposal /\ p.said = o.id /\ proposal' = [proposal EXCEPT ![c] = p]
  <2>1. proposal[c] \in Proposal
    BY DEF RequestsOK
  <2>2. p \in Proposal /\ p.said = o.id
    BY <1>3, <2>1 DEF Proposal
  <2>3. proposal' = [proposal EXCEPT ![c] = p]
    BY <1>2
  <2>. QED
    BY <2>2, <2>3
<1>5. CASE ConfirmationId(o) = NoId /\ chat' = [chat EXCEPT ![c].pc = "latest"]
  <2> DEFINE x == [chat[c] EXCEPT !.pc = "latest"]
  <2>1. x \in ChatState /\ x.pc = "latest" /\ chat' = [chat EXCEPT ![c] = x]
    BY <1>5 DEF RequestsOK, ChatState
  <2>2. o.id = NoId
    BY <1>3, <1>5, Constants DEF ConfirmationId
  <2> HIDE DEF p, x
  <2>3. Consistent("none", p, x) /\ Moved(c, "none", p, x)
    BY <1>1, <1>4, <2>1, <2>2 DEF Consistent, Moved
  <2>. QED
    BY <1>4, <2>1, <2>3, MovedKeeps DEF Stages
<1>6. CASE /\ ConfirmationId(o) \in Commands
           /\ chat' = [chat EXCEPT ![c].pc = "confirm", ![c].id = ConfirmationId(o)]
  <2>1. ConfirmationId(o) = o.id /\ o.id \in Commands
    BY <1>6, Constants DEF ConfirmationId
  <2> DEFINE x == [chat[c] EXCEPT !.pc = "confirm", !.id = o.id]
  <2>2. x \in ChatState /\ x.pc = "confirm" /\ x.id = o.id /\ chat' = [chat EXCEPT ![c] = x]
    BY <1>6, <2>1 DEF RequestsOK, ChatState
  <2> HIDE DEF p, x
  <2>3. Consistent("none", p, x) /\ Moved(c, "none", p, x)
    BY <1>1, <1>4, <2>2 DEF Consistent, Moved
  <2>. QED
    BY <1>4, <2>2, <2>3, MovedKeeps DEF Stages
<1>. QED
  BY <1>2, <1>5, <1>6

LEMMA ConfirmStepKeeps ==
  ASSUME TypeOK, Refers, RequestsOK, Tracked, NEW c \in Chats, ConfirmStep(c)
  PROVE  RequestsOK' /\ Tracked'
<1>1. chat[c].pc \in {"latest", "confirm", "mark", "diagnose", "expire"}
  BY DEF ConfirmStep, FindLatest, ReadClock, MarkConfirmed, MissConfirmed, Diagnose, WriteExpired
<1>2. stage[c] = "none" /\ Consistent(stage[c], proposal[c], chat[c])
  BY <1>1 DEF Tracked, Consistent
<1>3. CASE chat' = [chat EXCEPT ![c] = IdleChat]
  <2>1. Forget(c)
    BY <1>3, IdleChatType DEF ConfirmStep, RequestsOK
  <2>. QED
    BY <1>3, <2>1, AnswerKeeps
<1>4. ASSUME NEW x \in ChatState, chat' = [chat EXCEPT ![c] = x],
             x.pc \in {"confirm", "mark", "execute", "diagnose", "expire"},
             x.pc \in {"confirm", "mark"} => proposal[c].said \in {NoId, x.id}
      PROVE  RequestsOK' /\ Tracked'
  <2>1. UNCHANGED <<stage, proposal>>
    BY <1>4 DEF ConfirmStep, RequestsOK
  <2>2. Moved(c, "none", proposal[c], x)
    BY <1>2, <1>4, <2>1 DEF Moved, RequestsOK
  <2>3. Consistent("none", proposal[c], x)
    BY <1>4 DEF Consistent
  <2>. QED
    BY <1>4, <2>2, <2>3, MovedKeeps DEF RequestsOK, Stages
<1>5. CASE FindLatest(c)
  <2>1. ASSUME NEW k \in PendingOf(chat[c].user),
               chat' = [chat EXCEPT ![c].pc = "confirm", ![c].id = k, ![c].copy = "PENDING"]
        PROVE  RequestsOK' /\ Tracked'
    <3> DEFINE x == [chat[c] EXCEPT !.pc = "confirm", !.id = k, !.copy = "PENDING"]
    <3>1. x \in ChatState /\ x.pc = "confirm" /\ chat' = [chat EXCEPT ![c] = x]
      BY <2>1 DEF RequestsOK, ChatState, PendingOf, Status
    <3>2. proposal[c].said = NoId
      BY <1>2, <1>5 DEF FindLatest, Consistent
    <3> HIDE DEF x
    <3>. QED
      BY <1>4, <3>1, <3>2
  <2>. QED
    BY <1>3, <1>5, <2>1 DEF FindLatest
<1>6. CASE ReadClock(c)
  <2> DEFINE x == [chat[c] EXCEPT !.pc = "mark", !.now = clock]
  <2>1. /\ x \in ChatState /\ x.pc = "mark" /\ x.id = chat[c].id
        /\ chat' = [chat EXCEPT ![c] = x]
    BY <1>6 DEF ReadClock, RequestsOK, ChatState, TypeOK
  <2>2. proposal[c].said \in {NoId, chat[c].id}
    BY <1>2, <1>6 DEF ReadClock, Consistent
  <2> HIDE DEF x
  <2>. QED
    BY <1>4, <2>1, <2>2
<1>7. ASSUME NEW pc \in {"execute", "expire"}, chat' = [chat EXCEPT ![c].pc = pc]
      PROVE  RequestsOK' /\ Tracked'
  <2> DEFINE x == [chat[c] EXCEPT !.pc = pc]
  <2>1. x \in ChatState /\ x.pc = pc /\ chat' = [chat EXCEPT ![c] = x]
    BY <1>7 DEF RequestsOK, ChatState
  <2> HIDE DEF x
  <2>. QED
    BY <1>4, <2>1
<1>8. CASE MissConfirmed(c)
  <2>1. PICK copy \in Status \cup {NoCopy} :
          chat' = [chat EXCEPT ![c].pc = "diagnose", ![c].copy = copy]
    BY <1>8 DEF MissConfirmed, TypeOK, ChatState, Status
  <2> DEFINE x == [chat[c] EXCEPT !.pc = "diagnose", !.copy = copy]
  <2>2. x \in ChatState /\ x.pc = "diagnose" /\ chat' = [chat EXCEPT ![c] = x]
    BY <2>1 DEF RequestsOK, ChatState
  <2> HIDE DEF x
  <2>. QED
    BY <1>4, <2>2
<1>9. CASE MarkConfirmed(c) \/ Diagnose(c) \/ WriteExpired(c)
  BY <1>3, <1>7, <1>9 DEF MarkConfirmed, Diagnose, WriteExpired
<1>. QED
  BY <1>5, <1>6, <1>8, <1>9 DEF ConfirmStep

(***************************************************************************)
(* The steps that leave tasks, reminders, rows and commands alone.         *)
(***************************************************************************)
LEMMA QuietKeeps ==
  ASSUME DataOK, Commanded, History, UNCHANGED <<data, edits, command, ran>>, RowsKept
  PROVE  DataOK' /\ Commanded' /\ History'
<1>1. DataOK'
  BY DEF DataOK, data
<1>2. History'
  BY DEF History
<1>. QED
  BY <1>1, <1>2, CommandedKept

LEMMA DecideKeeps ==
  ASSUME RequestsOK, Tracked, NEW c \in Chats, Decide(c)
  PROVE  RequestsOK' /\ Tracked'
<1> DEFINE p == proposal[c]
<1>1. /\ chat[c].pc = "interpret" /\ stage[c] = "decide" /\ p \in Proposal
      /\ chat[c] \in ChatState /\ Referring(p) /\ Unique(p)
  BY DEF Decide, At, RequestsOK, Tracked, Consistent
<1>2. CASE Decision(p.action, chat[c].user) = "AUTHORIZED" /\ Advance(c, "run", p)
  <2>1. Consistent("run", p, chat[c])
    BY <1>1, <1>2 DEF Decision, Consistent
  <2>. QED
    BY <1>1, <1>2, <2>1, AdvanceKeeps DEF Stages
<1>3. CASE Answer(c)
  BY <1>3, AnswerKeeps DEF Answer
<1>4. CASE /\ Decision(p.action, chat[c].user) = "CONFIRMATION_REQUIRED"
           /\ chat' = [chat EXCEPT ![c].pc = "offer"]
           /\ stage' = [stage EXCEPT ![c] = "none"]
           /\ UNCHANGED proposal
  <2> DEFINE x == [chat[c] EXCEPT !.pc = "offer"]
  <2>1. /\ x \in ChatState /\ x.pc = "offer" /\ x.user = chat[c].user
        /\ chat' = [chat EXCEPT ![c] = x]
    BY <1>4 DEF RequestsOK, ChatState
  <2>2. Authorized(chat[c].user)
    BY <1>4 DEF Decision
  <2> HIDE DEF x
  <2>3. Consistent("none", p, x) /\ Moved(c, "none", p, x)
    BY <1>1, <1>4, <2>1, <2>2 DEF Consistent, Moved, RequestsOK
  <2>. QED
    BY <1>1, <2>1, <2>3, MovedKeeps DEF Stages
<1>. QED
  BY <1>2, <1>3, <1>4 DEF Decide

LEMMA OfferKeeps ==
  ASSUME TypeOK, RequestsOK, Tracked, Commanded, NEW c \in Chats, Offer(c)
  PROVE  RequestsOK' /\ Tracked' /\ Commanded'
<1>1. PICK k \in Commands :
        /\ stored[k].status = "unborn"
        /\ stored' = [stored EXCEPT ![k] =
             [status |-> "PENDING", user |-> chat[c].user, expires_at |-> clock + TTL]]
  BY DEF Offer, OfferCommand
<1>2. Unique(proposal[c]) /\ Authorized(chat[c].user) /\ proposal[c] \in Proposal
  BY DEF Offer, OfferCommand, Tracked, Consistent, RequestsOK
<1>3. /\ stored'[k].user = chat[c].user
      /\ \A j \in Commands \ {k} : stored'[j] = stored[j]
  BY <1>1 DEF TypeOK
<1>4. command' = [j \in Commands |-> IF stored'[j] # stored[j] THEN proposal[c] ELSE command[j]]
  BY DEF Offer, Store
<1>5. Commanded'
  BY <1>2, <1>3, <1>4 DEF Commanded, Unique
<1>. QED
  BY <1>5, AnswerKeeps DEF Offer, OfferCommand, Store

LEMMA PipelineStart ==
  PipelineInit => PipelineInv
<1> SUFFICES ASSUME PipelineInit PROVE PipelineInv
  OBVIOUS
<1>1. DataOK
  BY PipelineAssumption, Constants DEF PipelineInit, DataOK
<1>2. RequestsOK
  BY IdleChatType, NoCommandType DEF PipelineInit, Init, RequestsOK, Stages
<1>3. Tracked
  BY IdleChatType DEF PipelineInit, Init, Tracked, Consistent
<1>4. Commanded
  BY NoCommandType DEF PipelineInit, Init, Commanded
<1>5. History
  BY DEF PipelineInit, History
<1>. QED
  BY <1>1, <1>2, <1>3, <1>4, <1>5 DEF PipelineInv

LEMMA PipelineStep ==
  ASSUME TypeOK, Refers, OneShotInv, PipelineInv, [PipelineNext]_allVars
  PROVE  PipelineInv'
<1> USE DEF PipelineInv
<1>1. CASE AdvanceClock /\ UNCHANGED pvars
  <2>1. RowsKept /\ UNCHANGED <<data, edits, command, ran>>
    BY <1>1 DEF AdvanceClock, RowsKept, pvars
  <2>2. RequestsOK' /\ Tracked'
    BY <1>1 DEF AdvanceClock, pvars, RequestsOK, Tracked
  <2>. QED
    BY <2>1, <2>2, QuietKeeps
<1>2. CASE Edit
  <2>1. DataOK'
    BY <1>2, RemoveTaskKeeps, UpdateTaskKeeps, CreateTaskKeeps, RemoveReminderKeeps DEF Edit
  <2>2. RequestsOK' /\ Tracked'
    BY <1>2 DEF Edit, vars, RequestsOK, Tracked
  <2>3. Commanded'
    BY <1>2, CommandedKept DEF Edit, vars, RowsKept
  <2>4. History'
    BY <1>2 DEF Edit, History
  <2>. QED
    BY <2>1, <2>2, <2>3, <2>4
<1>3. ASSUME NEW c \in Chats, Receive(c), UNCHANGED pvars PROVE PipelineInv'
  <2>1. PICK user \in Users : chat' = [chat EXCEPT ![c] = NewChat(user)]
    BY <1>3 DEF Receive
  <2>2. stage[c] = "none"
    BY <1>3 DEF Receive, Tracked, Consistent
  <2>3. Moved(c, "none", proposal[c], NewChat(user))
    BY <1>3, <2>1, <2>2 DEF Moved, pvars, RequestsOK
  <2>4. Consistent("none", proposal[c], NewChat(user))
    BY NewChatType DEF Consistent
  <2>5. RequestsOK' /\ Tracked'
    BY <2>3, <2>4, NewChatType, MovedKeeps DEF RequestsOK, Stages
  <2>6. RowsKept
    BY <1>3, MarkExpiredType DEF Receive, RowsKept
  <2>. QED
    BY <1>3, <2>5, <2>6, QuietKeeps DEF pvars
<1>4. ASSUME NEW c \in Chats, FailChat(c) PROVE PipelineInv'
  <2>1. RequestsOK' /\ Tracked'
    BY <1>4, AnswerKeeps DEF FailChat, Fail
  <2>2. RowsKept
    BY <1>4 DEF FailChat, Fail, RowsKept
  <2>. QED
    BY <1>4, <2>1, <2>2, QuietKeeps DEF FailChat
<1>5. ASSUME UNCHANGED <<stored, data, edits, command, ran>>, RequestsOK', Tracked'
      PROVE  PipelineInv'
  BY <1>5, QuietKeeps DEF RowsKept
<1>6. ASSUME NEW c \in Chats, Answer(c), UNCHANGED <<data, edits, command, ran>>
      PROVE  PipelineInv'
  BY <1>5, <1>6, AnswerKeeps DEF Answer
<1>7. ASSUME NEW c \in Chats, NEW s \in Stages, NEW p \in Proposal, Advance(c, s, p),
             UNCHANGED <<data, edits, command, ran>>, Consistent(s, p, chat[c])
      PROVE  PipelineInv'
  BY <1>5, <1>7, AdvanceKeeps DEF Advance, vars
<1>8. ASSUME NEW c \in Chats, Propose(c) PROVE PipelineInv'
  <2>1. PICK o \in Outputs : Advance(c, "validate", ProposalOf(o))
    BY <1>8 DEF Propose
  <2>2. Consistent("validate", ProposalOf(o), chat[c])
    BY <1>8, ProposalType DEF Propose, At, Consistent
  <2>. QED
    BY <1>7, <1>8, <2>1, <2>2, ProposalType DEF Propose, Stages
<1>9. ASSUME NEW c \in Chats, AnswerOutput(c) PROVE PipelineInv'
  BY <1>6, <1>9 DEF AnswerOutput
<1>10. ASSUME NEW c \in Chats, HearYes(c) PROVE PipelineInv'
  BY <1>5, <1>10, HearYesKeeps DEF HearYes
<1>11. ASSUME NEW c \in Chats, Validate(c) PROVE PipelineInv'
  <2>1. chat[c].pc = "interpret" /\ Referring(proposal[c]) /\ proposal[c] \in Proposal
    BY <1>11 DEF Validate, At, Tracked, Consistent, RequestsOK
  <2>2. Consistent("resolve", proposal[c], chat[c])
    BY <2>1 DEF Consistent
  <2>. QED
    BY <1>6, <1>7, <1>11, <2>1, <2>2 DEF Validate, Stages
<1>12. ASSUME NEW c \in Chats, Resolve(c) PROVE PipelineInv'
  <2>1. chat[c].pc = "interpret" /\ Referring(proposal[c]) /\ proposal[c] \in Proposal
    BY <1>12 DEF Resolve, At, Tracked, Consistent, RequestsOK
  <2>2. ASSUME NEW id \in Resolved(proposal[c]), Advance(c, "decide", Bound(proposal[c], id))
        PROVE  PipelineInv'
    <3>1. Consistent("decide", Bound(proposal[c], id), chat[c])
      BY <2>1, ResolvedUnique DEF Consistent
    <3>. QED
      BY <1>7, <1>12, <2>1, <2>2, <3>1, ResolvedUnique DEF Resolve, Stages
  <2>. QED
    BY <1>6, <1>12, <2>2 DEF Resolve, Bound
<1>13. ASSUME NEW c \in Chats, Decide(c) PROVE PipelineInv'
  BY <1>5, <1>13, DecideKeeps DEF Decide, Advance, Answer, vars
<1>14. ASSUME NEW c \in Chats, Run(c) PROVE PipelineInv'
  <2>1. Authorized(chat[c].user)
    BY <1>14 DEF Run, At, Tracked, Consistent
  <2>2. DataOK'
    BY <1>14, EffectDeletes DEF Run
  <2>3. RequestsOK' /\ Tracked'
    BY <1>14, AnswerKeeps DEF Run, Answer
  <2>4. Commanded'
    BY <1>14, CommandedKept DEF Run, Answer, RowsKept
  <2>5. History'
    BY <1>14, <2>1 DEF Run, History
  <2>. QED
    BY <2>2, <2>3, <2>4, <2>5
<1>15. ASSUME NEW c \in Chats, Offer(c) PROVE PipelineInv'
  <2>1. DataOK' /\ History'
    BY <1>15 DEF Offer, Store, data, DataOK, History
  <2>. QED
    BY <1>15, <2>1, OfferKeeps
<1>16. ASSUME NEW c \in Chats, ConfirmStep(c) PROVE PipelineInv'
  BY <1>16, ConfirmStepKeeps, ConfirmStepRows, QuietKeeps DEF ConfirmStep
<1>17. ASSUME NEW c \in Chats, RunConfirmed(c) PROVE PipelineInv'
  <2>1. Authorized(chat[c].user)
    BY <1>17 DEF RunConfirmed, Execute, Refers, HasCommand, OneShotInv, Winner, Commanded
  <2>2. DataOK'
    BY <1>17, EffectDeletes DEF RunConfirmed
  <2>3. RequestsOK' /\ Tracked'
    BY <1>17, AnswerKeeps DEF RunConfirmed, Execute
  <2>4. Commanded'
    BY <1>17, CommandedKept DEF RunConfirmed, Execute, RowsKept
  <2>5. History'
    BY <1>17, <2>1 DEF RunConfirmed, History
  <2>. QED
    BY <2>2, <2>3, <2>4, <2>5
<1>18. CASE UNCHANGED allVars
  <2>1. RequestsOK' /\ Tracked' /\ UNCHANGED stored
    BY <1>18 DEF allVars, vars, pvars, RequestsOK, Tracked
  <2>. QED
    BY <1>18, <2>1, QuietKeeps DEF allVars, pvars, RowsKept
<1>. QED
  BY <1>1, <1>2, <1>3, <1>4, <1>8, <1>9, <1>10, <1>11, <1>12, <1>13, <1>14, <1>15, <1>16, <1>17,
     <1>18
  DEF PipelineNext, Serve

LEMMA PipelineInvariant == PipelineSpec => [](TypeOK /\ Refers /\ OneShotInv /\ PipelineInv)
  BY Inherited, PipelineStart, PipelineStep, PTL DEF PipelineSpec

-----------------------------------------------------------------------------
(***************************************************************************)
(* Tasks, reminders and the stages of requests have their types: no        *)
(* reminder and no description without its task.                           *)
(***************************************************************************)
THEOREM PipelineTypes == PipelineSpec => []PipelineTypeOK
<1>1. PipelineInv => PipelineTypeOK
  BY DEF PipelineInv, DataOK, RequestsOK, Tracked, Consistent, Stages, PipelineTypeOK
<1>. QED
  BY <1>1, PipelineInvariant, PTL

(***************************************************************************)
(* Nothing is executed for a user who is not authorised, also not by a     *)
(* confirmation, where authorisation is not checked again.                 *)
(***************************************************************************)
THEOREM OnlyForAuthorized == PipelineSpec => []OnlyAuthorizedUsers
<1>1. PipelineInv => OnlyAuthorizedUsers
  BY DEF PipelineInv, History, OnlyAuthorizedUsers
<1>. QED
  BY <1>1, PipelineInvariant, PTL

(***************************************************************************)
(* The target that is decided on and run is what the language model named: *)
(* by its id, or else by words that match nothing else.                    *)
(***************************************************************************)
THEOREM TargetReferred == PipelineSpec => []TargetIsReferred
<1>1. PipelineInv => TargetIsReferred
  <2> SUFFICES ASSUME PipelineInv, NEW c \in Chats,
                      stage[c] \in {"decide", "run"}, proposal[c].id # NoId
               PROVE  \/ proposal[c].id = proposal[c].said
                      \/ proposal[c].said = NoId /\ proposal[c].meant = {proposal[c].id}
    BY DEF TargetIsReferred
  <2>1. Referring(proposal[c]) /\ Unique(proposal[c])
    BY DEF PipelineInv, Tracked, Consistent
  <2>2. proposal[c].ref \in {"none", "id", "phrase"}
    BY DEF PipelineInv, RequestsOK, Proposal
  <2>. QED
    BY <2>1, <2>2 DEF Referring, Unique
<1>. QED
  BY <1>1, PipelineInvariant, PTL

(***************************************************************************)
(* Which step deletes something: a request of the direct API, or a         *)
(* confirmed command, whose target is all it may mean.                     *)
(***************************************************************************)
LEMMA OnlyConfirmedDelete ==
  ASSUME TypeOK, Refers, OneShotInv, PipelineInv, [PipelineNext]_allVars, edits' = edits,
         (\E t \in TaskIds : Gone(t)) \/ (\E r \in ReminderIds : Lost(r))
  PROVE  \E k \in Commands :
           /\ Confirmed(k) /\ Effect(command[k])
           /\ Destructive(command[k].action) => Unique(command[k])
<1>1. CASE UNCHANGED data
  BY <1>1 DEF data, Gone, Lost
<1>2. CASE Edit
  BY <1>2 DEF Edit, PipelineInv, History
<1>3. ASSUME NEW c \in Chats, Run(c) PROVE FALSE
  <2>1. ~Destructive(proposal[c].action)
    BY <1>3 DEF Run, At, PipelineInv, Tracked, Consistent
  <2>. QED
    BY <1>3, <2>1, EffectDeletes DEF Run, PipelineInv, Destructive
<1>4. ASSUME NEW c \in Chats, RunConfirmed(c)
      PROVE  \E k \in Commands :
               /\ Confirmed(k) /\ Effect(command[k])
               /\ Destructive(command[k].action) => Unique(command[k])
  <2> DEFINE k == chat[c].id
  <2>1. k \in Commands /\ accepted[k] = 1 /\ executed[k] = 0
    BY <1>4 DEF RunConfirmed, Execute, Refers, HasCommand, OneShotInv, Winner
  <2>2. executed'[k] = 1
    BY <1>4, <2>1 DEF RunConfirmed, Execute, TypeOK
  <2>3. Effect(command[k])
    BY <1>4 DEF RunConfirmed
  <2> HIDE DEF k
  <2>. QED
    BY <2>1, <2>2, <2>3 DEF Confirmed, PipelineInv, Commanded
<1>. QED
  BY <1>1, <1>2, <1>3, <1>4
  DEF PipelineNext, Serve, pvars, allVars, FailChat, Propose, AnswerOutput, HearYes, Validate,
      Resolve, Decide, Offer, Store, ConfirmStep

(***************************************************************************)
(* The agent never deletes a task without a confirmation, and what it      *)
(* deletes is the one task that the user's words matched when the          *)
(* confirmation was offered, whatever was renamed or created since.        *)
(***************************************************************************)
THEOREM DeletesOnlyWhatWasMeant == PipelineSpec => DeletesWhatWasMeant
<1> DEFINE Meant ==
      \A t \in TaskIds :
        tasks[t] # NoTask /\ tasks'[t] = NoTask /\ edits' = edits =>
          \E k \in Commands :
            Confirmed(k) /\ command[k].action = "DELETE_TASK" /\ command[k].meant = {t}
<1>1. TypeOK /\ Refers /\ OneShotInv /\ PipelineInv /\ [PipelineNext]_allVars => Meant
  <2> SUFFICES ASSUME TypeOK, Refers, OneShotInv, PipelineInv, [PipelineNext]_allVars,
                      NEW t \in TaskIds, Gone(t), edits' = edits
               PROVE  \E k \in Commands :
                        Confirmed(k) /\ command[k].action = "DELETE_TASK" /\ command[k].meant = {t}
    BY DEF Gone
  <2>1. PICK k \in Commands :
          /\ Confirmed(k) /\ Effect(command[k])
          /\ Destructive(command[k].action) => Unique(command[k])
    BY OnlyConfirmedDelete
  <2>2. command[k].action = "DELETE_TASK" /\ command[k].id = t
    BY <2>1, EffectDeletes DEF PipelineInv
  <2>. QED
    BY <2>1, <2>2 DEF Destructive, Unique
<1>2. PipelineSpec => [][Meant]_allVars
  BY <1>1, PipelineInvariant, PTL DEF PipelineSpec
<1>. QED
  BY <1>2 DEF DeletesWhatWasMeant

(***************************************************************************)
(* Nor a reminder, except with its task.                                   *)
(***************************************************************************)
THEOREM RemindersOnlyAsMeant == PipelineSpec => RemindersKept
<1> DEFINE Meant ==
      \A r \in ReminderIds :
        reminders[r] # NoId /\ reminders'[r] = NoId /\ edits' = edits =>
          \E k \in Commands :
            /\ Confirmed(k)
            /\ \/ command[k].action = "DELETE_REMINDER" /\ command[k].meant = {r}
               \/ command[k].action = "DELETE_TASK" /\ command[k].meant = {reminders[r]}
<1>1. TypeOK /\ Refers /\ OneShotInv /\ PipelineInv /\ [PipelineNext]_allVars => Meant
  <2> SUFFICES ASSUME TypeOK, Refers, OneShotInv, PipelineInv, [PipelineNext]_allVars,
                      NEW r \in ReminderIds, Lost(r), edits' = edits
               PROVE  \E k \in Commands :
                        /\ Confirmed(k)
                        /\ \/ command[k].action = "DELETE_REMINDER" /\ command[k].meant = {r}
                           \/ command[k].action = "DELETE_TASK" /\ command[k].meant = {reminders[r]}
    BY DEF Lost
  <2>1. PICK k \in Commands :
          /\ Confirmed(k) /\ Effect(command[k])
          /\ Destructive(command[k].action) => Unique(command[k])
    BY OnlyConfirmedDelete
  <2>2. \/ command[k].action = "DELETE_REMINDER" /\ command[k].id = r
        \/ command[k].action = "DELETE_TASK" /\ command[k].id = reminders[r]
    BY <2>1, EffectDeletes DEF PipelineInv
  <2>. QED
    BY <2>1, <2>2 DEF Destructive, Unique
<1>2. PipelineSpec => [][Meant]_allVars
  BY <1>1, PipelineInvariant, PTL DEF PipelineSpec
<1>. QED
  BY <1>2 DEF RemindersKept

(***************************************************************************)
(* A "yes" that names a confirmation confirms that one or none; only one   *)
(* that names none confirms the latest.                                    *)
(***************************************************************************)
THEOREM ConfirmsTheReferred == PipelineSpec => ConfirmsReferred
<1>1. PipelineInv =>
        \A c \in Chats :
          chat[c].pc = "mark" /\ chat'[c].pc = "execute" => proposal[c].said \in {NoId, chat[c].id}
  BY DEF PipelineInv, Tracked, Consistent
<1>2. PipelineSpec =>
        [][\A c \in Chats :
             chat[c].pc = "mark" /\ chat'[c].pc = "execute" =>
               proposal[c].said \in {NoId, chat[c].id}]_allVars
  BY <1>1, PipelineInvariant, PTL DEF PipelineSpec
<1>. QED
  BY <1>2 DEF ConfirmsReferred
=============================================================================

---------------------------- MODULE Interpretation ----------------------------
(***************************************************************************)
(* AgentInterpreter: what the language model answers to a message is not   *)
(* trusted.  The adapter lets through what has the shape of an             *)
(* InterpretationOutput; the interpreter turns that into a proposal with a *)
(* reference to its target, a confirmation, or an answer to the user.      *)
(***************************************************************************)
EXTENDS Integers, FiniteSets

CONSTANTS
  Ids,          \* UUIDs: of tasks, reminders, confirmations, or of nothing
  Words         \* words of which a description consists

NoId == 0         \* null
InvalidId == -1   \* a string that is no UUID

ASSUME InterpretationAssumption == {NoId, InvalidId} \cap Ids = {} /\ IsFiniteSet(Ids)

ActionType == {"CREATE_TASK", "UPDATE_TASK", "DELETE_TASK", "CREATE_REMINDER",
               "UPDATE_REMINDER", "DELETE_REMINDER", "ANALYZE_WORKLOAD", "SUGGEST_RESCHEDULING"}

(***************************************************************************)
(* phrase is the description, {} if it is null or empty; params are the    *)
(* keys of the parameters; range stands for the date range among them.     *)
(***************************************************************************)
InterpretationOutput ==
  [type   : {"ACTION_PROPOSED", "NEEDS_CLARIFICATION", "CONFIRMATION", "REJECTED", "CONVERSATION"},
   action : ActionType \cup {"none"},
   id     : Ids \cup {NoId, InvalidId},
   phrase : SUBSET Words,
   params : SUBSET {"taskName", "description", "deadline", "remindAt", "status"},
   range  : {"none", "unknown", "unbounded", "backwards", "relative", "explicit"}]

(***************************************************************************)
(* _build_resource_reference: the id, if there is one; the words only if   *)
(* there is none.  (The variant prefers the words.)                        *)
(***************************************************************************)
NoReference == [ref |-> "none", id |-> NoId, phrase |-> {}]
ById(id) == [ref |-> "id", id |-> id, phrase |-> {}]
ByPhrase(phrase) == [ref |-> "phrase", id |-> NoId, phrase |-> phrase]

BuildReferenceByWords(o) ==
  CASE o.phrase # {}                 -> ByPhrase(o.phrase)
    [] o.phrase = {} /\ o.id \in Ids -> ById(o.id)
    [] OTHER                         -> NoReference

BuildReference(o) ==
  CASE o.id \in Ids                   -> ById(o.id)
    [] o.id = NoId /\ o.phrase # {}   -> ByPhrase(o.phrase)
    [] OTHER                          -> NoReference

NoReferenceActions == {"CREATE_TASK", "ANALYZE_WORKLOAD", "SUGGEST_RESCHEDULING"}

Reference(o) == IF o.action \in NoReferenceActions THEN NoReference ELSE BuildReference(o)

(***************************************************************************)
(* The proposal; said is the id of the output that it was made from, meant *)
(* will be what its words match when they are resolved.                    *)
(***************************************************************************)
ProposalOf(o) ==
  LET r == Reference(o) IN
  [action |-> o.action, params |-> o.params, range |-> o.range, said |-> o.id,
   ref |-> r.ref, id |-> r.id, phrase |-> r.phrase, meant |-> {}]

(***************************************************************************)
(* The type of the response.  (The variant drops a confirmation reference  *)
(* that is not valid.)                                                     *)
(***************************************************************************)
Proposable(o) ==
  o.action # "none" /\ (o.action \in NoReferenceActions \/ BuildReference(o) # NoReference)

ResponseTypeDropping(o) ==
  CASE o.type = "ACTION_PROPOSED"    -> IF Proposable(o) THEN o.type ELSE "CLARIFICATION_REQUIRED"
    [] o.type = "NEEDS_CLARIFICATION" -> "CLARIFICATION_REQUIRED"
    [] OTHER                          -> o.type

ResponseType(o) ==
  CASE o.type = "ACTION_PROPOSED"     -> IF Proposable(o) THEN o.type ELSE "CLARIFICATION_REQUIRED"
    [] o.type = "CONFIRMATION"        -> IF o.id = InvalidId THEN "CLARIFICATION_REQUIRED" ELSE o.type
    [] o.type = "NEEDS_CLARIFICATION" -> "CLARIFICATION_REQUIRED"
    [] OTHER                          -> o.type

ConfirmationId(o) == IF o.id \in Ids THEN o.id ELSE NoId
=============================================================================

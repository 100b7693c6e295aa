--------------------------- MODULE MCAgentPipeline ---------------------------
(***************************************************************************)
(* Two tasks, one of whose names contains the other, with one reminder;    *)
(* outputs of the language model for every action, well formed, incomplete *)
(* and ambiguous, and confirmations with every kind of reference.          *)
(***************************************************************************)
EXTENDS AgentPipeline, TLC

Act(action, id, phrase, params, range) ==
  [type |-> "ACTION_PROPOSED", action |-> action, id |-> id, phrase |-> phrase,
   params |-> params, range |-> range]
Say(type, id) ==
  [type |-> type, action |-> "none", id |-> id, phrase |-> {}, params |-> {}, range |-> "none"]

WordSets == {{"report"}, {"report", "draft"}}
AllWords == {"report", "draft"}
AllIds == {1, 2, 3, 11, 12, 21, 22}
TwoTasks == <<{"report"}, {"report", "draft"}, {}>>
OneReminder == 11 :> 2 @@ 12 :> 0

ToDelete == {
  Act("DELETE_TASK", 0, {"report"}, {}, "none"),
  Act("DELETE_TASK", 0, {"draft"}, {}, "none"),
  Act("DELETE_TASK", 1, {"draft"}, {}, "none"),
  Act("DELETE_REMINDER", 0, {"report"}, {}, "none")}

ToChange == {
  Act("UPDATE_TASK", 0, {"draft"}, {"taskName"}, "none"),
  Act("UPDATE_TASK", 1, {}, {"description"}, "none"),
  Act("CREATE_TASK", 0, {"report"}, {"taskName", "deadline"}, "none"),
  Act("CREATE_REMINDER", 0, {"draft"}, {"remindAt"}, "none"),
  Act("UPDATE_REMINDER", 11, {}, {"status"}, "none"),
  Act("ANALYZE_WORKLOAD", 0, {}, {}, "relative")}

ToRefuse == {
  Act("UPDATE_TASK", 2, {}, {}, "none"),
  Act("CREATE_TASK", 0, {}, {"taskName"}, "none"),
  Act("SUGGEST_RESCHEDULING", 0, {}, {}, "relative"),
  Act("ANALYZE_WORKLOAD", 0, {}, {}, "backwards"),
  Act("DELETE_TASK", 0, {}, {}, "none"),
  Act("DELETE_TASK", -1, {"draft"}, {}, "none"),
  Act("none", 1, {}, {}, "none")}

ToConfirm == {Say("CONFIRMATION", id) : id \in {0, -1, 1, 21, 22}}

ToTalk == {Say(type, 0) : type \in {"NEEDS_CLARIFICATION", "REJECTED", "CONVERSATION"}}

AllOutputs == ToDelete \cup ToChange \cup ToRefuse \cup ToConfirm \cup ToTalk
=============================================================================

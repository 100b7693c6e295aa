----------------------------- MODULE ServerProofs -----------------------------
(***************************************************************************)
(* Proofs about the server, for any number of requests and connections,    *)
(* with any number of outages.                                             *)
(***************************************************************************)
EXTENDS Server, TLAPS

USE ServerAssumption

PcStates == {"idle", "queued", "running", "replied", "refused", "raised", "unhandled"}
WorkStates == {"none", "open", "committed", "lost"}
Statuses == {"none", "ok", "refused", "error", "not ready", "failed"}
Replies == [status : Statuses, id : Ids \cup {Unbound}]

-----------------------------------------------------------------------------
(***************************************************************************)
(* Plans are sequences of steps, and every write in them is followed by    *)
(* its commit.                                                             *)
(***************************************************************************)
Guarded(plan) ==
  \A i \in 1..Len(plan) :
    plan[i] \in {"mark", "write"} => i < Len(plan) /\ plan[i + 1] = "commit"

LEMMA TailGuarded ==
  ASSUME NEW plan \in Seq(Steps), plan # <<>>, Guarded(plan)
  PROVE  /\ Tail(plan) \in Seq(Steps)
         /\ Guarded(Tail(plan))
         /\ Head(plan) \in Steps
         /\ Head(plan) \in {"mark", "write"} => Tail(plan) # <<>> /\ Head(Tail(plan)) = "commit"
<1>1. Tail(plan) \in Seq(Steps) /\ Head(plan) \in Steps /\ Len(plan) \in Nat /\ Len(plan) >= 1
  OBVIOUS
<1>2. Len(Tail(plan)) = Len(plan) - 1 /\ \A i \in 1..Len(Tail(plan)) : Tail(plan)[i] = plan[i + 1]
  OBVIOUS
<1>3. Guarded(Tail(plan))
  <2> SUFFICES ASSUME NEW i \in 1..Len(Tail(plan)), Tail(plan)[i] \in {"mark", "write"}
               PROVE  i < Len(Tail(plan)) /\ Tail(plan)[i + 1] = "commit"
    BY DEF Guarded
  <2>1. plan[i + 1] \in {"mark", "write"} /\ i + 1 \in 1..Len(plan)
    BY <1>1, <1>2
  <2>2. i + 1 < Len(plan) /\ plan[(i + 1) + 1] = "commit"
    BY <2>1 DEF Guarded
  <2>. QED
    BY <1>1, <1>2, <2>2
<1>4. ASSUME Head(plan) \in {"mark", "write"}
      PROVE  Tail(plan) # <<>> /\ Head(Tail(plan)) = "commit"
  <2>1. plan[1] \in {"mark", "write"}
    BY <1>4
  <2>2. 1 < Len(plan) /\ plan[1 + 1] = "commit"
    BY <1>1, <2>1 DEF Guarded
  <2>3. Len(Tail(plan)) >= 1
    BY <1>1, <1>2, <2>2
  <2>4. Tail(plan)[1] = "commit"
    BY <1>2, <2>2, <2>3
  <2>5. Tail(plan) # <<>>
    BY <2>3
  <2>6. Head(Tail(plan)) = Tail(plan)[1]
    BY <1>1, <2>5
  <2>. QED
    BY <2>4, <2>5, <2>6
<1>. QED
  BY <1>1, <1>3, <1>4

LEMMA PlansGuarded ==
  /\ \A k \in Kinds : \A plan \in Plans[k] : plan \in Seq(Steps) /\ Guarded(plan)
  /\ \A plan \in ChatPlans : plan \in Seq(Steps) /\ Guarded(plan)
<1>1. ASSUME NEW plan,
             \/ plan = <<>> \/ plan = <<"read">> \/ plan = <<"write", "commit", "reload">>
             \/ plan = <<"write", "commit">> \/ plan = <<"read", "interpret">>
             \/ plan = <<"mark", "commit", "interpret">> \/ plan = <<"read", "generate">>
             \/ plan = <<"mark", "commit", "reload", "write", "commit">>
      PROVE  plan \in Seq(Steps) /\ Guarded(plan)
  <2>1. CASE plan = <<>>
    BY <2>1 DEF Guarded
  <2>2. CASE plan = <<"read">>
    BY <2>2 DEF Guarded, Steps, Statements
  <2>3. CASE plan = <<"write", "commit", "reload">>
    BY <2>3 DEF Guarded, Steps, Statements
  <2>4. CASE plan = <<"write", "commit">>
    BY <2>4 DEF Guarded, Steps, Statements
  <2>5. CASE plan = <<"read", "interpret">>
    BY <2>5 DEF Guarded, Steps, Statements
  <2>6. CASE plan = <<"mark", "commit", "interpret">>
    BY <2>6 DEF Guarded, Steps, Statements
  <2>7. CASE plan = <<"read", "generate">>
    BY <2>7 DEF Guarded, Steps, Statements
  <2>8. CASE plan = <<"mark", "commit", "reload", "write", "commit">>
    BY <2>8 DEF Guarded, Steps, Statements
  <2>. QED
    BY <1>1, <2>1, <2>2, <2>3, <2>4, <2>5, <2>6, <2>7, <2>8
<1>2. \A plan \in ChatPlans : plan \in Seq(Steps) /\ Guarded(plan)
  BY <1>1 DEF ChatPlans
<1>3. ASSUME NEW k \in Kinds, NEW plan \in Plans[k]
      PROVE  plan \in Seq(Steps) /\ Guarded(plan)
  <2>1. k = "health" => plan = <<>>
    BY <1>3 DEF Plans, Kinds
  <2>2. k = "ready" => plan = <<"read">>
    BY <1>3 DEF Plans, Kinds
  <2>3. k = "read" => plan = <<"read">>
    BY <1>3 DEF Plans, Kinds
  <2>4. k = "write" => plan = <<"write", "commit", "reload">> \/ plan = <<"write", "commit">>
    BY <1>3 DEF Plans, Kinds
  <2>5. k = "chat" => plan = <<"read", "interpret">> \/ plan = <<"mark", "commit", "interpret">>
    BY <1>3 DEF Plans, Kinds
  <2>. QED
    BY <1>1, <2>1, <2>2, <2>3, <2>4, <2>5 DEF Kinds
<1>. QED
  BY <1>2, <1>3

-----------------------------------------------------------------------------
(***************************************************************************)
(* The types.                                                              *)
(***************************************************************************)
LEMMA InitTypes == Init => TypeOK
<1> SUFFICES ASSUME Init PROVE TypeOK
  OBVIOUS
<1>1. up \in BOOLEAN /\ dead \subseteq Connections /\ received \in 0..MaxRequests /\ outages \in 0..MaxOutages
  BY DEF Init
<1>2. /\ pc \in [Requests -> PcStates] /\ kind \in [Requests -> Kinds]
      /\ conn \in [Requests -> Connections \cup {None}] /\ work \in [Requests -> WorkStates]
      /\ todo \in [Requests -> Seq(Steps)]
  BY DEF Init, PcStates, Kinds, WorkStates
<1>3. /\ given \in [Requests -> CallerIds \cup {None}] /\ cid \in [Requests -> Ids]
      /\ context \in [Requests -> Ids \cup {Unbound}]
      /\ lines \in [Requests -> SUBSET (Ids \cup {Unbound})]
  BY DEF Init, Ids
<1>4. reply \in [Requests -> Replies] /\ excuse \in [Requests -> BOOLEAN]
  BY DEF Init, Replies, NoReply, Statuses
<1>. QED
  BY <1>1, <1>2, <1>3, <1>4 DEF TypeOK, PcStates, WorkStates, Replies, Statuses

(***************************************************************************)
(* The helpers that the actions share.                                     *)
(***************************************************************************)
LEMMA HelperTypes ==
  ASSUME TypeOK, NEW r \in Requests
  PROVE  /\ Released(r) \in [Requests -> Connections \cup {None}]
         /\ RolledBack(r) \in [Requests -> WorkStates]
         /\ \A id \in Ids \cup {Unbound} :
              /\ Bound(r, id) \in [Requests -> Ids \cup {Unbound}]
              /\ Logged(r, id) \in [Requests -> SUBSET (Ids \cup {Unbound})]
         /\ \A status \in Statuses : Reply(r, status) => reply' \in [Requests -> Replies]
<1>1. Released(r) \in [Requests -> Connections \cup {None}]
  BY DEF TypeOK, Released
<1>2. RolledBack(r) \in [Requests -> WorkStates]
  BY DEF TypeOK, RolledBack, WorkStates
<1>3. ASSUME NEW id \in Ids \cup {Unbound}
      PROVE  /\ Bound(r, id) \in [Requests -> Ids \cup {Unbound}]
             /\ Logged(r, id) \in [Requests -> SUBSET (Ids \cup {Unbound})]
  BY DEF TypeOK, Bound, Logged
<1>4. ASSUME NEW status \in Statuses, Reply(r, status) PROVE reply' \in [Requests -> Replies]
  BY <1>4 DEF TypeOK, Reply, Replies, Statuses
<1>. QED
  BY <1>1, <1>2, <1>3, <1>4

LEMMA RaiseTypes ==
  ASSUME TypeOK, NEW r \in Requests, NEW outside \in BOOLEAN, Raise(r, outside)
  PROVE  TypeOK'
<1>1. todo' \in [Requests -> Seq(Steps)]
  <2>1. <<>> \in Seq(Steps)
    OBVIOUS
  <2>. QED
    BY <2>1 DEF TypeOK, Raise
<1>6. excuse' \in [Requests -> BOOLEAN]
  <2>1. (excuse[r] \/ outside) \in BOOLEAN
    OBVIOUS
  <2>. QED
    BY <2>1 DEF TypeOK, Raise
<1>2. conn' \in [Requests -> Connections \cup {None}] /\ work' \in [Requests -> WorkStates]
  <2>1. conn \in [Requests -> Connections \cup {None}] /\ work \in [Requests -> WorkStates]
    BY DEF TypeOK, WorkStates
  <2>2. \/ conn' = Released(r) /\ work' = RolledBack(r)
        \/ conn' = conn /\ work' = work
    BY DEF Raise
  <2>. QED
    BY <2>1, <2>2, HelperTypes
<1>3. pc' \in [Requests -> PcStates]
  BY DEF TypeOK, Raise, PcStates
<1>4. reply' \in [Requests -> Replies]
  <2>1. reply \in [Requests -> Replies] /\ "error" \in Statuses /\ "not ready" \in Statuses
    BY DEF TypeOK, Replies, Statuses
  <2>. QED
    BY <2>1, HelperTypes DEF Raise
<1>5. lines' \in [Requests -> SUBSET (Ids \cup {Unbound})]
  BY HelperTypes DEF TypeOK, Raise
<1>. QED
  BY <1>1, <1>2, <1>3, <1>4, <1>5, <1>6
  DEF TypeOK, Raise, database, PcStates, WorkStates, Replies, Statuses

LEMMA ReceiveTypes ==
  ASSUME TypeOK, NEW r \in Requests, Receive(r)
  PROVE  TypeOK'
<1>1. PICK k \in Kinds, id \in CallerIds \cup {None} :
        /\ kind' = [kind EXCEPT ![r] = k] /\ given' = [given EXCEPT ![r] = id]
        /\ cid' = [cid EXCEPT ![r] = ResolveId(r, id)] /\ context' = Bound(r, ResolveId(r, id))
  BY DEF Receive
<1>2. ResolveId(r, id) \in Ids
  BY DEF ResolveId, Ids
<1>3. kind' \in [Requests -> Kinds] /\ given' \in [Requests -> CallerIds \cup {None}]
  BY <1>1 DEF TypeOK
<1>4. cid' \in [Requests -> Ids] /\ context' \in [Requests -> Ids \cup {Unbound}]
  BY <1>1, <1>2, HelperTypes DEF TypeOK
<1>5. received' \in 0..MaxRequests
  <2>1. received \in 0..MaxRequests /\ received < MaxRequests /\ received' = received + 1
    BY DEF TypeOK, Receive
  <2>. QED
    BY <2>1
<1>9. /\ pc' \in [Requests -> PcStates] /\ work' \in [Requests -> WorkStates]
      /\ lines' \in [Requests -> SUBSET (Ids \cup {Unbound})]
  BY DEF TypeOK, Receive, PcStates, WorkStates
<1>6. todo' \in [Requests -> Seq(Steps)]
  <2>1. <<>> \in Seq(Steps)
    OBVIOUS
  <2>. QED
    BY <2>1 DEF TypeOK, Receive
<1>7. reply' \in [Requests -> Replies]
  <2>1. reply \in [Requests -> Replies] /\ NoReply \in Replies
    BY DEF TypeOK, Replies, Statuses, NoReply
  <2>. QED
    BY <2>1 DEF Receive
<1>8. excuse' \in [Requests -> BOOLEAN]
  <2>1. (~ up) \in BOOLEAN
    OBVIOUS
  <2>. QED
    BY <2>1 DEF TypeOK, Receive
<1>. QED
  BY <1>3, <1>4, <1>5, <1>6, <1>7, <1>8, <1>9
  DEF TypeOK, Receive, PcStates, WorkStates, Replies, Statuses

LEMMA DoneTypes ==
  ASSUME TypeOK, NEW r \in Requests, todo[r] # <<>>, Done(r)
  PROVE  todo' \in [Requests -> Seq(Steps)]
<1>1. todo[r] \in Seq(Steps)
  BY DEF TypeOK
<1>2. Tail(todo[r]) \in Seq(Steps)
  BY <1>1
<1>. QED
  BY <1>2 DEF TypeOK, Done

LEMMA StepTypes ==
  ASSUME TypeOK, NEW r \in Requests, Handle(r)
  PROVE  TypeOK'
<1>1. CASE Reject(r)
  BY <1>1 DEF TypeOK, Reject, database, handling, tracing
<1>2. CASE Start(r)
  <2>1. todo' \in [Requests -> Seq(Steps)]
    <3>1. PICK plan \in Plans[kind[r]] : todo' = [todo EXCEPT ![r] = plan]
      BY <1>2 DEF Start
    <3>2. plan \in Seq(Steps)
      BY PlansGuarded, Zenon DEF TypeOK
    <3>. QED
      BY <3>1, <3>2 DEF TypeOK
  <2>. QED
    BY <1>2, <2>1 DEF TypeOK, Start, database, tracing
<1>3. CASE AdapterFails(r)
  BY <1>3 DEF TypeOK, AdapterFails, database, handling, tracing
<1>4. CASE Checkout(r)
  <2>1. PICK k \in Free : conn' = [conn EXCEPT ![r] = k] /\ dead' = PrePing(k)
    BY <1>4 DEF Checkout
  <2>2. conn' \in [Requests -> Connections \cup {None}] /\ dead' \subseteq Connections
    BY <2>1 DEF TypeOK, Free, PrePing
  <2>. QED
    BY <1>4, <2>2 DEF TypeOK, Checkout, tracing
<1>5. CASE CheckoutFails(r)
  BY <1>5, RaiseTypes DEF CheckoutFails
<1>6. CASE Execute(r)
  <2>1. todo' \in [Requests -> Seq(Steps)]
    BY <1>6, DoneTypes DEF Execute, At
  <2>. QED
    BY <1>6, <2>1 DEF TypeOK, Execute, database, tracing
<1>7. CASE ExecuteFails(r)
  BY <1>7, RaiseTypes DEF ExecuteFails
<1>8. CASE Commit(r)
  <2>1. CASE Broken(r)
    BY <1>8, <2>1, RaiseTypes DEF Commit
  <2>2. CASE ~ Broken(r)
    <3>1. todo[r] # <<>> /\ Done(r) /\ conn' = Released(r)
      BY <1>8, <2>2 DEF Commit, At
    <3>2. todo' \in [Requests -> Seq(Steps)]
      BY <3>1, DoneTypes
    <3>3. conn' \in [Requests -> Connections \cup {None}]
      BY <3>1, HelperTypes
    <3>. QED
      BY <1>8, <2>2, <3>2, <3>3 DEF TypeOK, Commit, database, tracing
  <2>. QED
    BY <2>1, <2>2
<1>9. CASE Interpret(r)
  <2>1. CASE Raise(r, TRUE)
    BY <2>1, RaiseTypes
  <2>2. CASE ~ Raise(r, TRUE)
    <3>1. todo' \in [Requests -> Seq(Steps)]
      BY <1>9, <2>2, PlansGuarded DEF Interpret, TypeOK
    <3>. QED
      BY <1>9, <2>2, <3>1 DEF TypeOK, Interpret, database, tracing
  <2>. QED
    BY <2>1, <2>2
<1>10. CASE Generate(r)
  <2>1. todo' \in [Requests -> Seq(Steps)]
    BY <1>10, DoneTypes DEF Generate, At
  <2>. QED
    BY <1>10, <2>1 DEF TypeOK, Generate, database, tracing
<1>11. CASE Refuse(r)
  <2>1. conn' \in [Requests -> Connections \cup {None}] /\ work' \in [Requests -> WorkStates]
    <3>1. conn \in [Requests -> Connections \cup {None}] /\ work \in [Requests -> WorkStates]
      BY DEF TypeOK, WorkStates
    <3>2. \/ conn' = Released(r) /\ work' = RolledBack(r)
          \/ conn' = conn /\ work' = work
      BY <1>11 DEF Refuse
    <3>. QED
      BY <3>1, <3>2, HelperTypes
  <2>. QED
    BY <1>11, <2>1 DEF TypeOK, Refuse, database, tracing, WorkStates
<1>12. CASE Return(r)
  <2>1. reply' \in [Requests -> Replies] /\ conn' \in [Requests -> Connections \cup {None}]
    <3>1. conn \in [Requests -> Connections \cup {None}] /\ "ok" \in Statuses
      BY DEF TypeOK, Statuses
    <3>2. Reply(r, "ok") /\ (conn' = Released(r) \/ conn' = conn)
      BY <1>12 DEF Return
    <3>. QED
      BY <3>1, <3>2, HelperTypes
  <2>. QED
    BY <1>12, <2>1 DEF TypeOK, Return, database, tracing, Replies, Statuses
<1>13. ASSUME Close(r), Complete(r)
       PROVE  /\ conn' \in [Requests -> Connections \cup {None}] /\ work' \in [Requests -> WorkStates]
              /\ lines' \in [Requests -> SUBSET (Ids \cup {Unbound})]
              /\ context' \in [Requests -> Ids \cup {Unbound}] /\ pc' \in [Requests -> PcStates]
  BY <1>13, HelperTypes DEF Close, Complete, TypeOK, PcStates
<1>14. CASE Finish(r)
  BY <1>13, <1>14 DEF TypeOK, Finish, database, PcStates, WorkStates
<1>15. CASE FinishRefused(r)
  <2>1. reply' \in [Requests -> Replies]
    BY <1>15, HelperTypes DEF FinishRefused, Statuses
  <2>. QED
    BY <1>13, <1>15, <2>1 DEF TypeOK, FinishRefused, database, PcStates, WorkStates, Replies, Statuses
<1>16. CASE Unwind(r)
  <2>1. /\ conn' \in [Requests -> Connections \cup {None}] /\ work' \in [Requests -> WorkStates]
        /\ context' \in [Requests -> Ids \cup {Unbound}]
    BY <1>16, HelperTypes DEF Unwind, Close
  <2>. QED
    BY <1>16, <2>1 DEF TypeOK, Unwind, database, WorkStates
<1>17. CASE HandleUnhandled(r)
  <2>1. reply' \in [Requests -> Replies] /\ lines' \in [Requests -> SUBSET (Ids \cup {Unbound})]
    BY <1>17, HelperTypes DEF HandleUnhandled, Statuses, TypeOK
  <2>. QED
    BY <1>17, <2>1 DEF TypeOK, HandleUnhandled, database, handling, Replies, Statuses
<1>. QED
  BY <1>1, <1>2, <1>3, <1>4, <1>5, <1>6, <1>7, <1>8, <1>9, <1>10, <1>11, <1>12, <1>14, <1>15, <1>16, <1>17
  DEF Handle

LEMMA NextTypes == TypeOK /\ [Next]_vars => TypeOK'
<1> SUFFICES ASSUME TypeOK, [Next]_vars PROVE TypeOK'
  OBVIOUS
<1>1. CASE Outage
  <2>1. excuse' \in [Requests -> BOOLEAN]
    <3>1. \A r \in Requests : (excuse[r] \/ pc[r] # "idle") \in BOOLEAN
      OBVIOUS
    <3>. QED
      BY <1>1, <3>1 DEF Outage
  <2>2. outages' \in 0..MaxOutages
    <3>1. outages \in 0..MaxOutages /\ outages < MaxOutages /\ outages' = outages + 1
      BY <1>1 DEF TypeOK, Outage
    <3>. QED
      BY <3>1
  <2>3. up' \in BOOLEAN /\ dead' \subseteq Connections
    BY <1>1 DEF Outage
  <2>. QED
    BY <1>1, <2>1, <2>2, <2>3 DEF TypeOK, Outage, handling, tracing
<1>2. CASE Recover
  BY <1>2 DEF TypeOK, Recover, handling, tracing
<1>3. CASE UNCHANGED vars
  BY <1>3 DEF TypeOK, vars, database, handling, tracing
<1>. QED
  BY <1>1, <1>2, <1>3, StepTypes, ReceiveTypes DEF Next

(***************************************************************************)
(* Every variable keeps its type.                                          *)
(***************************************************************************)
THEOREM TypeCorrect == Spec => []TypeOK
  BY InitTypes, NextTypes, PTL DEF Spec

-----------------------------------------------------------------------------
(***************************************************************************)
(* A step of a request leaves the others alone, and breaks no connection.  *)
(***************************************************************************)
Same(q) ==
  /\ pc'[q] = pc[q] /\ todo'[q] = todo[q] /\ conn'[q] = conn[q] /\ work'[q] = work[q]
  /\ given'[q] = given[q] /\ cid'[q] = cid[q] /\ context'[q] = context[q]
  /\ lines'[q] = lines[q] /\ reply'[q] = reply[q] /\ excuse'[q] = excuse[q]

Undisturbed(r) == up' = up /\ dead' \subseteq dead /\ \A q \in Requests \ {r} : Same(q)

Domains ==
  /\ DOMAIN pc = Requests /\ DOMAIN todo = Requests /\ DOMAIN conn = Requests
  /\ DOMAIN work = Requests /\ DOMAIN lines = Requests /\ DOMAIN context = Requests
  /\ DOMAIN reply = Requests /\ DOMAIN excuse = Requests

LEMMA TypedDomains == TypeOK => Domains
  BY DEF TypeOK, Domains

LEMMA RaiseUndisturbed ==
  ASSUME TypeOK, NEW r \in Requests, NEW outside, Raise(r, outside)
  PROVE  Undisturbed(r)
<1>1. \A q \in Requests \ {r} : conn'[q] = conn[q] /\ work'[q] = work[q]
  <2>1. \/ conn' = Released(r) /\ work' = RolledBack(r)
        \/ conn' = conn /\ work' = work
    BY DEF Raise
  <2>. QED
    BY <2>1, TypedDomains DEF Domains, Released, RolledBack
<1>2. \A q \in Requests \ {r} : pc'[q] = pc[q] /\ reply'[q] = reply[q]
  BY TypedDomains DEF Domains, Raise, Reply
<1>3. \A q \in Requests \ {r} : lines'[q] = lines[q]
  BY TypedDomains DEF Domains, Raise, Logged
<1>4. \A q \in Requests \ {r} : todo'[q] = todo[q] /\ excuse'[q] = excuse[q]
  BY TypedDomains DEF Domains, Raise
<1>5. UNCHANGED <<database, given, cid, context>>
  BY DEF Raise
<1>. QED
  BY <1>1, <1>2, <1>3, <1>4, <1>5 DEF Undisturbed, Same, database

LEMMA HandleUndisturbed ==
  ASSUME TypeOK, NEW r \in Requests, Handle(r)
  PROVE  Undisturbed(r)
<1> USE DEF Undisturbed, Same, database, handling, tracing
<1>1. CASE Reject(r)
  BY <1>1 DEF Reject
<1>2. CASE Start(r)
  BY <1>2 DEF Start
<1>3. CASE AdapterFails(r)
  BY <1>3 DEF AdapterFails
<1>4. CASE Checkout(r)
  BY <1>4 DEF Checkout, PrePing
<1>5. CASE CheckoutFails(r)
  BY <1>5, RaiseUndisturbed DEF CheckoutFails
<1>6. CASE Execute(r)
  BY <1>6 DEF Execute, Done
<1>7. CASE ExecuteFails(r)
  BY <1>7, RaiseUndisturbed DEF ExecuteFails
<1>8. CASE Commit(r)
  <2>1. CASE Raise(r, FALSE)
    BY <2>1, RaiseUndisturbed
  <2>2. CASE ~ Raise(r, FALSE)
    <3>1. /\ conn' = [conn EXCEPT ![r] = None] /\ work' = [work EXCEPT ![r] = "committed"]
          /\ todo' = [todo EXCEPT ![r] = Tail(@)]
          /\ UNCHANGED <<database, pc, kind, tracing, reply, excuse>>
      BY <1>8, <2>2 DEF Commit, Released, Done
    <3>. QED
      BY <3>1, TypedDomains DEF Domains
  <2>. QED
    BY <2>1, <2>2
<1>9. CASE Interpret(r)
  <2>1. CASE Raise(r, TRUE)
    BY <2>1, RaiseUndisturbed
  <2>2. CASE ~ Raise(r, TRUE)
    <3>1. PICK plan \in ChatPlans : todo' = [todo EXCEPT ![r] = plan]
      BY <1>9, <2>2 DEF Interpret
    <3>2. UNCHANGED <<database, pc, kind, conn, work, tracing, reply, excuse>>
      BY <1>9, <2>2 DEF Interpret
    <3>. QED
      BY <3>1, <3>2, TypedDomains DEF Domains
  <2>. QED
    BY <2>1, <2>2
<1>10. CASE Generate(r)
  BY <1>10 DEF Generate, Done
<1>11. CASE Refuse(r)
  <2>1. \A q \in Requests \ {r} : conn'[q] = conn[q] /\ work'[q] = work[q]
    <3>1. \/ conn' = Released(r) /\ work' = RolledBack(r)
          \/ conn' = conn /\ work' = work
      BY <1>11 DEF Refuse
    <3>. QED
      BY <3>1, TypedDomains DEF Domains, Released, RolledBack
  <2>. QED
    BY <1>11, <2>1 DEF Refuse
<1>12. CASE Return(r)
  <2>1. \A q \in Requests \ {r} : conn'[q] = conn[q]
    BY <1>12, TypedDomains DEF Domains, Return, Released
  <2>. QED
    BY <1>12, <2>1 DEF Return, Reply
<1>13. CASE Finish(r)
  BY <1>13 DEF Finish, Close, Complete, Released, RolledBack, Logged, Bound
<1>14. CASE FinishRefused(r)
  BY <1>14 DEF FinishRefused, Close, Complete, Released, RolledBack, Logged, Bound, Reply
<1>15. CASE Unwind(r)
  BY <1>15 DEF Unwind, Close, Released, RolledBack, Bound
<1>16. CASE HandleUnhandled(r)
  BY <1>16 DEF HandleUnhandled, Logged, Reply
<1>. QED
  BY <1>1, <1>2, <1>3, <1>4, <1>5, <1>6, <1>7, <1>8, <1>9, <1>10, <1>11, <1>12, <1>13, <1>14, <1>15, <1>16
  DEF Handle

LEMMA ReceiveUndisturbed ==
  ASSUME TypeOK, NEW r \in Requests, Receive(r)
  PROVE  Undisturbed(r)
  BY DEF Undisturbed, Same, Receive, Bound

(***************************************************************************)
(* What has to hold of each request, besides NoLeak.                       *)
(***************************************************************************)
Correlated(r) ==
  /\ lines[r] \subseteq {cid[r]}
  /\ reply[r] # NoReply => reply[r].id = cid[r]
  /\ cid[r] = IF given[r] = None THEN r ELSE given[r]
  /\ context[r] = IF pc[r] \in {"idle", "unhandled"} THEN Unbound ELSE cid[r]

(***************************************************************************)
(* While the database is unreachable, or the connection of the request is  *)
(* broken, the request is already excused.                                 *)
(***************************************************************************)
Excused(r) ==
  /\ pc[r] # "idle" /\ (~ up \/ conn[r] \in dead) => excuse[r]
  /\ pc[r] \in {"raised", "unhandled"} => excuse[r]
  /\ reply[r].status \in {"error", "not ready", "failed"} => excuse[r]

(***************************************************************************)
(* A transaction that has written is about to commit.                      *)
(***************************************************************************)
Committing(r) ==
  /\ Guarded(todo[r])
  /\ pc[r] = "queued" => work[r] = "none"
  /\ pc[r] = "running" =>
       \/ work[r] \in {"none", "committed"}
       \/ work[r] = "open" /\ todo[r] # <<>> /\ Head(todo[r]) = "commit"
  /\ pc[r] \notin {"idle", "replied"} => reply[r] = NoReply
  /\ reply[r].status = "ok" => work[r] \in {"none", "committed"}

Inv ==
  /\ TypeOK
  /\ NoLeak
  /\ \A r \in Requests : Correlated(r) /\ Excused(r) /\ Committing(r)

(***************************************************************************)
(* What a step of r has to achieve: the rest follows from Undisturbed.     *)
(***************************************************************************)
Holding == {"running", "replied", "refused", "raised"}

Sound(r) ==
  /\ conn'[r] \in Free \cup {conn[r], None}
  /\ conn'[r] # None => pc'[r] \in Holding
  /\ Correlated(r)' /\ Excused(r)' /\ Committing(r)'

LEMMA SoundStep ==
  ASSUME Inv, NEW r \in Requests, TypeOK', Undisturbed(r), Sound(r)
  PROVE  Inv'
<1>1. NoLeak'
  <2>1. ASSUME NEW q \in Requests, conn'[q] # None PROVE pc'[q] \in Holding
    BY <2>1 DEF Inv, NoLeak, Undisturbed, Same, Sound, Holding
  <2>2. ASSUME NEW p \in Requests, NEW q \in Requests, conn'[p] = conn'[q], conn'[p] # None
        PROVE  p = q
    BY <2>2 DEF Inv, NoLeak, Undisturbed, Same, Sound, Free
  <2>. QED
    BY <2>1, <2>2 DEF NoLeak, Holding
<1>2. ASSUME NEW q \in Requests PROVE Correlated(q)' /\ Excused(q)' /\ Committing(q)'
  <2>1. CASE q = r
    BY <2>1 DEF Sound
  <2>2. CASE q # r
    <3>1. Same(q) /\ up' = up /\ dead' \subseteq dead
      BY <2>2 DEF Undisturbed
    <3>2. Correlated(q) /\ Excused(q) /\ Committing(q)
      BY DEF Inv
    <3>3. Correlated(q)'
      BY <3>1, <3>2 DEF Correlated, Same
    <3>4. Excused(q)'
      BY <3>1, <3>2 DEF Excused, Same
    <3>5. Committing(q)'
      BY <3>1, <3>2 DEF Committing, Same, Guarded
    <3>. QED
      BY <3>3, <3>4, <3>5
  <2>. QED
    BY <2>1, <2>2
<1>. QED
  BY <1>1, <1>2 DEF Inv

LEMMA RaiseSound ==
  ASSUME Inv, NEW r \in Requests, NEW outside \in BOOLEAN, Raise(r, outside),
         pc[r] = "running", outside \/ excuse[r]
  PROVE  Sound(r)
<1>. Domains /\ Correlated(r) /\ Excused(r) /\ Committing(r)
  BY TypedDomains DEF Inv
<1>1. excuse'[r] /\ todo'[r] = <<>> /\ cid'[r] = cid[r] /\ given'[r] = given[r] /\ context'[r] = context[r]
  BY DEF Raise, Domains
<1>2. conn'[r] \in {conn[r], None} /\ lines'[r] \subseteq lines[r] \cup {context[r]}
  <2>1. conn' = conn \/ conn' = Released(r)
    BY DEF Raise
  <2>2. lines' = lines \/ lines' = Logged(r, context[r])
    BY DEF Raise
  <2>. QED
    BY <2>1, <2>2 DEF Domains, Released, Logged
<1>3. \/ pc'[r] = "raised" /\ reply'[r] = reply[r]
      \/ pc'[r] = "replied" /\ reply'[r] = [status |-> "error", id |-> cid[r]]
      \/ pc'[r] = "replied" /\ reply'[r] = [status |-> "not ready", id |-> cid[r]]
  <2>1. \/ pc' = [pc EXCEPT ![r] = "raised"] /\ reply' = reply
        \/ pc' = [pc EXCEPT ![r] = "replied"] /\ Reply(r, "error")
        \/ pc' = [pc EXCEPT ![r] = "replied"] /\ Reply(r, "not ready")
    BY DEF Raise
  <2>. QED
    BY <2>1 DEF Domains, Reply
<1>4. reply[r] = NoReply /\ context[r] = cid[r] /\ lines[r] \subseteq {cid[r]}
  BY DEF Committing, Correlated
<1>5. Correlated(r)'
  <2>1. pc'[r] \notin {"idle", "unhandled"} /\ lines'[r] \subseteq {cid'[r]}
    BY <1>1, <1>2, <1>3, <1>4
  <2>2. reply'[r] # NoReply => reply'[r].id = cid'[r]
    <3>1. \A status : [status |-> status, id |-> cid[r]].id = cid[r]
      OBVIOUS
    <3>. QED
      BY ONLY <1>1, <1>3, <1>4, <3>1
  <2>3. cid'[r] = IF given'[r] = None THEN r ELSE given'[r]
    BY <1>1 DEF Correlated
  <2>. QED
    BY <1>1, <1>4, <2>1, <2>2, <2>3 DEF Correlated
<1>6. Excused(r)'
  BY <1>1 DEF Excused
<1>7. Committing(r)'
  <2>1. Guarded(<<>>)
    BY DEF Guarded
  <2>2. reply'[r].status # "ok"
    <3>1. NoReply.status = "none"
      BY DEF NoReply
    <3>2. \A status : [status |-> status, id |-> cid[r]].status = status
      OBVIOUS
    <3>. QED
      BY ONLY <1>3, <1>4, <3>1, <3>2
  <2>. QED
    BY <1>1, <1>3, <1>4, <2>1, <2>2 DEF Committing
<1>. QED
  BY <1>2, <1>3, <1>5, <1>6, <1>7 DEF Sound, Holding

LEMMA ReceiveSound ==
  ASSUME Inv, NEW r \in Requests, Receive(r)
  PROVE  Sound(r)
<1>. Domains /\ DOMAIN cid = Requests /\ DOMAIN given = Requests
  BY TypedDomains DEF Inv, TypeOK
<1>1. PICK id \in CallerIds \cup {None} :
        given'[r] = id /\ cid'[r] = ResolveId(r, id) /\ context'[r] = ResolveId(r, id)
  BY DEF Receive, Bound, Domains
<1>2. /\ pc'[r] = "queued" /\ work'[r] = "none" /\ lines'[r] = {} /\ reply'[r] = NoReply
      /\ excuse'[r] = ~ up /\ todo'[r] = <<>> /\ conn'[r] = conn[r] /\ up' = up /\ dead' = dead
  BY DEF Receive, Domains
<1>3. conn[r] = None /\ None \notin dead
  BY DEF Inv, NoLeak, Receive, TypeOK
<1>4. Correlated(r)'
  BY <1>1, <1>2 DEF Correlated, ResolveId
<1>5. Excused(r)'
  <2>1. ~ up => excuse'[r]
    BY <1>2
  <2>2. NoReply.status = "none"
    BY DEF NoReply
  <2>. QED
    BY <1>2, <1>3, <2>1, <2>2 DEF Excused
<1>6. Committing(r)'
  <2>1. Guarded(<<>>)
    BY DEF Guarded
  <2>. QED
    BY <1>2, <2>1 DEF Committing, NoReply
<1>. QED
  BY <1>2, <1>3, <1>4, <1>5, <1>6 DEF Sound

(***************************************************************************)
(* Steps inside the middleware that neither log nor answer.                *)
(***************************************************************************)
LEMMA QuietSound ==
  ASSUME NEW r \in Requests, Correlated(r), UNCHANGED <<tracing, reply>>,
         pc[r] \notin {"idle", "unhandled"}, pc'[r] \notin {"idle", "unhandled"}
  PROVE  Correlated(r)'
  BY DEF Correlated, tracing

LEMMA HandleSound ==
  ASSUME Inv, NEW r \in Requests, Handle(r)
  PROVE  Sound(r)
<1>. /\ Domains /\ Correlated(r) /\ Excused(r) /\ Committing(r)
     /\ conn[r] # None => pc[r] \in Holding
  BY TypedDomains DEF Inv, NoLeak, Holding
<1>. None \notin dead /\ todo[r] \in Seq(Steps)
  BY DEF Inv, TypeOK
<1>1. CASE Reject(r)
  <2>1. pc[r] = "queued" /\ pc'[r] = "refused" /\ UNCHANGED <<database, handling, tracing, reply, excuse>>
    BY <1>1 DEF Reject, Domains
  <2>2. Correlated(r)'
    BY <2>1, QuietSound
  <2>3. Excused(r)' /\ Committing(r)'
    BY <2>1 DEF Excused, Committing, database, handling, Guarded
  <2>. QED
    BY <2>1, <2>2, <2>3 DEF Sound, Holding, handling
<1>2. CASE Start(r)
  <2>1. /\ pc[r] = "queued" /\ pc'[r] = "running"
        /\ UNCHANGED <<database, kind, conn, work, tracing, reply, excuse>>
    BY <1>2 DEF Start, Domains
  <2>2. Guarded(todo'[r])
    <3>1. PICK plan \in Plans[kind[r]] : todo' = [todo EXCEPT ![r] = plan]
      BY <1>2 DEF Start
    <3>2. kind[r] \in Kinds
      BY DEF Inv, TypeOK
    <3>3. Guarded(plan)
      BY <3>2, PlansGuarded, Zenon
    <3>. QED
      BY <3>1, <3>3 DEF Domains
  <2>3. Correlated(r)'
    BY <2>1, QuietSound
  <2>4. Excused(r)'
    BY <2>1 DEF Excused, database
  <2>5. Committing(r)'
    BY <2>1, <2>2 DEF Committing, Guarded
  <2>. QED
    BY <2>1, <2>3, <2>4, <2>5 DEF Sound, Holding
<1>3. CASE AdapterFails(r)
  <2>1. /\ pc[r] = "queued" /\ pc'[r] = "raised" /\ excuse'[r]
        /\ UNCHANGED <<database, handling, tracing, reply>>
    BY <1>3 DEF AdapterFails, Domains
  <2>2. Correlated(r)'
    BY <2>1, QuietSound
  <2>3. Excused(r)' /\ Committing(r)'
    BY <2>1 DEF Excused, Committing, database, handling, Guarded
  <2>. QED
    BY <2>1, <2>2, <2>3 DEF Sound, Holding, handling
<1>4. CASE Checkout(r)
  <2>1. /\ pc[r] = "running" /\ up /\ up' = up
        /\ UNCHANGED <<pc, kind, todo, work, tracing, reply, excuse>>
    BY <1>4 DEF Checkout, At
  <2>2. PICK k \in Free : conn' = [conn EXCEPT ![r] = k] /\ dead' = dead \ {k}
    BY <1>4 DEF Checkout, PrePing
  <2>3. conn'[r] = k
    BY <2>2 DEF Domains
  <2>4. Correlated(r)'
    BY <2>1, QuietSound
  <2>5. Excused(r)'
    <3>1. conn'[r] \notin dead'
      BY <2>2, <2>3
    <3>. QED
      BY ONLY <2>1, <3>1, Excused(r) DEF Excused
  <2>6. Committing(r)'
    BY ONLY <2>1, Committing(r) DEF Committing, Guarded
  <2>. QED
    BY <2>1, <2>3, <2>4, <2>5, <2>6 DEF Sound, Holding
<1>5. CASE CheckoutFails(r)
  BY <1>5, RaiseSound DEF CheckoutFails, At
<1>6. CASE Execute(r)
  <2>1. /\ pc[r] = "running" /\ todo[r] # <<>> /\ todo'[r] = Tail(todo[r])
        /\ UNCHANGED <<database, pc, kind, conn, tracing, reply, excuse>>
    BY <1>6 DEF Execute, At, Done, Domains
  <2>2. work'[r] = IF Head(todo[r]) \in {"mark", "write"} THEN "open" ELSE work[r]
    BY <1>6 DEF Execute, Domains
  <2>3. Head(todo[r]) # "commit"
    BY <1>6 DEF Execute, At, Statements
  <2>4. /\ Guarded(todo'[r])
        /\ Head(todo[r]) \in {"mark", "write"} => todo'[r] # <<>> /\ Head(todo'[r]) = "commit"
    BY <2>1, TailGuarded DEF Committing
  <2>5. Correlated(r)'
    BY <2>1, QuietSound
  <2>6. Excused(r)'
    BY <2>1 DEF Excused, database
  <2>7. Committing(r)'
    <3>1. reply[r] = NoReply /\ NoReply.status = "none"
      BY <2>1 DEF Committing, NoReply
    <3>. QED
      BY <2>1, <2>2, <2>3, <2>4, <3>1 DEF Committing
  <2>. QED
    BY <2>1, <2>5, <2>6, <2>7 DEF Sound, Holding
<1>7. CASE ExecuteFails(r)
  <2>1. pc[r] = "running" /\ ((Raise(r, FALSE) /\ Broken(r)) \/ Raise(r, TRUE))
    BY <1>7 DEF ExecuteFails, At
  <2>2. Broken(r) => excuse[r]
    BY <2>1 DEF Broken, Excused
  <2>. QED
    BY <2>1, <2>2, RaiseSound
<1>8. CASE Commit(r)
  <2>1. CASE Broken(r)
    <3>1. pc[r] = "running" /\ Raise(r, FALSE)
      BY <1>8, <2>1 DEF Commit, At
    <3>2. excuse[r]
      BY <2>1, <3>1 DEF Broken, Excused
    <3>. QED
      BY <3>1, <3>2, RaiseSound
  <2>2. CASE ~ Broken(r)
    <3>1. /\ pc[r] = "running" /\ todo[r] # <<>> /\ todo'[r] = Tail(todo[r])
          /\ conn'[r] = None /\ work'[r] = "committed"
          /\ UNCHANGED <<database, pc, kind, tracing, reply, excuse>>
      BY <1>8, <2>2 DEF Commit, At, Done, Released, Domains
    <3>2. Guarded(todo'[r])
      BY <3>1, TailGuarded DEF Committing
    <3>3. Correlated(r)'
      BY <3>1, QuietSound
    <3>4. Excused(r)' /\ Committing(r)'
      BY <3>1, <3>2 DEF Excused, Committing, database
    <3>. QED
      BY <3>1, <3>3, <3>4 DEF Sound, Holding
  <2>. QED
    BY <2>1, <2>2
<1>9. CASE Interpret(r)
  <2>1. CASE Raise(r, TRUE)
    BY <1>9, <2>1, RaiseSound DEF Interpret, At
  <2>2. CASE ~ Raise(r, TRUE)
    <3>1. /\ pc[r] = "running" /\ Head(todo[r]) = "interpret"
          /\ UNCHANGED <<database, pc, kind, conn, work, tracing, reply, excuse>>
      BY <1>9, <2>2 DEF Interpret, At
    <3>2. Guarded(todo'[r])
      <4>1. PICK plan \in ChatPlans : todo' = [todo EXCEPT ![r] = plan]
        BY <1>9, <2>2 DEF Interpret
      <4>2. Guarded(plan)
        BY PlansGuarded, Zenon
      <4>. QED
        BY <4>1, <4>2 DEF Domains
    <3>3. Correlated(r)'
      BY <3>1, QuietSound
    <3>4. Excused(r)'
      BY <3>1 DEF Excused, database
    <3>5. Committing(r)'
      BY <3>1, <3>2 DEF Committing
    <3>. QED
      BY <3>1, <3>3, <3>4, <3>5 DEF Sound, Holding
  <2>. QED
    BY <2>1, <2>2
<1>10. CASE Generate(r)
  <2>1. /\ pc[r] = "running" /\ todo[r] # <<>> /\ Head(todo[r]) = "generate" /\ todo'[r] = Tail(todo[r])
        /\ UNCHANGED <<database, pc, kind, conn, work, tracing, reply, excuse>>
    BY <1>10 DEF Generate, At, Done, Domains
  <2>2. Guarded(todo'[r])
    BY <2>1, TailGuarded DEF Committing
  <2>3. Correlated(r)'
    BY <2>1, QuietSound
  <2>4. Excused(r)'
    BY <2>1 DEF Excused, database
  <2>5. Committing(r)'
    BY <2>1, <2>2 DEF Committing
  <2>. QED
    BY <2>1, <2>3, <2>4, <2>5 DEF Sound, Holding
<1>11. CASE Refuse(r)
  <2>1. /\ pc[r] = "running" /\ pc'[r] = "refused" /\ UNCHANGED <<database, kind, todo, tracing, reply, excuse>>
    BY <1>11 DEF Refuse, Domains
  <2>2. conn'[r] \in {conn[r], None}
    <3>1. conn' = conn \/ conn' = Released(r)
      BY <1>11 DEF Refuse
    <3>. QED
      BY <3>1 DEF Released, Domains
  <2>3. Correlated(r)'
    BY <2>1, QuietSound
  <2>4. Excused(r)'
    BY <2>1, <2>2 DEF Excused, database
  <2>5. Committing(r)'
    <3>1. reply[r] = NoReply /\ NoReply.status = "none"
      BY <2>1 DEF Committing, NoReply
    <3>. QED
      BY <2>1, <3>1 DEF Committing
  <2>. QED
    BY <2>1, <2>2, <2>3, <2>4, <2>5 DEF Sound, Holding
<1>12. CASE Return(r)
  <2>1. /\ pc[r] = "running" /\ pc'[r] = "replied" /\ todo[r] = <<>>
        /\ reply'[r] = [status |-> "ok", id |-> cid[r]]
        /\ UNCHANGED <<database, kind, todo, work, tracing, excuse>>
    BY <1>12 DEF Return, Reply, Domains
  <2>2. conn'[r] \in {conn[r], None}
    <3>1. conn' = conn \/ conn' = Released(r)
      BY <1>12 DEF Return
    <3>. QED
      BY <3>1 DEF Released, Domains
  <2>3. reply'[r].status = "ok" /\ reply'[r].id = cid[r]
    BY ONLY <2>1
  <2>4. Correlated(r)'
    BY <2>1, <2>3 DEF Correlated, tracing
  <2>5. Excused(r)'
    BY <2>1, <2>2, <2>3 DEF Excused, database
  <2>6. Committing(r)'
    BY <2>1, <2>3 DEF Committing
  <2>. QED
    BY <2>1, <2>2, <2>4, <2>5, <2>6 DEF Sound, Holding
<1>13. ASSUME Close(r) PROVE conn'[r] = None /\ (work[r] \in {"none", "committed"} => work'[r] = work[r])
  BY <1>13 DEF Close, Released, RolledBack, Domains
<1>14. ASSUME Complete(r), pc[r] \in {"replied", "refused"}
       PROVE  /\ pc'[r] = "idle" /\ context'[r] = Unbound
              /\ lines'[r] \subseteq {cid[r]}
  BY <1>14 DEF Complete, Bound, Logged, Correlated, Domains
<1>15. CASE Finish(r)
  <2>1. /\ pc[r] = "replied" /\ Close(r) /\ Complete(r)
        /\ UNCHANGED <<database, kind, todo, given, cid, reply, excuse>>
    BY <1>15 DEF Finish
  <2>2. Correlated(r)'
    BY <1>14, <2>1 DEF Correlated
  <2>3. Excused(r)'
    BY <1>14, <2>1 DEF Excused
  <2>4. Committing(r)'
    BY <1>13, <1>14, <2>1 DEF Committing
  <2>. QED
    BY <1>13, <2>1, <2>2, <2>3, <2>4 DEF Sound
<1>16. CASE FinishRefused(r)
  <2>1. /\ pc[r] = "refused" /\ Close(r) /\ Complete(r)
        /\ reply'[r] = [status |-> "refused", id |-> cid[r]]
        /\ UNCHANGED <<database, kind, todo, given, cid, excuse>>
    BY <1>16 DEF FinishRefused, Reply, Domains
  <2>2. reply'[r].status = "refused" /\ reply'[r].id = cid[r]
    BY ONLY <2>1
  <2>3. Correlated(r)'
    BY <1>14, <2>1, <2>2 DEF Correlated
  <2>4. Excused(r)'
    BY <1>14, <2>1, <2>2 DEF Excused
  <2>5. Committing(r)'
    BY <1>14, <2>1, <2>2 DEF Committing
  <2>. QED
    BY <1>13, <2>1, <2>3, <2>4, <2>5 DEF Sound
<1>17. CASE Unwind(r)
  <2>1. /\ pc[r] = "raised" /\ pc'[r] = "unhandled" /\ Close(r) /\ context'[r] = Unbound
        /\ UNCHANGED <<database, kind, todo, given, cid, lines, reply, excuse>>
    BY <1>17 DEF Unwind, Bound, Domains
  <2>2. Correlated(r)'
    BY <2>1 DEF Correlated
  <2>3. Excused(r)'
    BY <2>1 DEF Excused
  <2>4. Committing(r)'
    <3>1. reply[r] = NoReply /\ NoReply.status = "none"
      BY <2>1 DEF Committing, NoReply
    <3>. QED
      BY <2>1, <3>1 DEF Committing
  <2>. QED
    BY <1>13, <2>1, <2>2, <2>3, <2>4 DEF Sound
<1>18. CASE HandleUnhandled(r)
  <2>1. /\ pc[r] = "unhandled" /\ pc'[r] = "idle" /\ lines'[r] = lines[r] \cup {cid[r]}
        /\ reply'[r] = [status |-> "failed", id |-> cid[r]]
        /\ UNCHANGED <<database, handling, given, cid, context, excuse>>
    BY <1>18 DEF HandleUnhandled, Reply, Logged, Domains
  <2>2. reply'[r].status = "failed" /\ reply'[r].id = cid[r]
    BY ONLY <2>1
  <2>3. conn[r] = None
    BY <2>1 DEF Holding
  <2>4. Correlated(r)'
    BY <2>1, <2>2 DEF Correlated
  <2>5. Excused(r)'
    BY <2>1, <2>2 DEF Excused
  <2>6. Committing(r)'
    BY <2>1, <2>2 DEF Committing, handling
  <2>. QED
    BY <2>1, <2>3, <2>4, <2>5, <2>6 DEF Sound, handling
<1>. QED
  BY <1>1, <1>2, <1>3, <1>4, <1>5, <1>6, <1>7, <1>8, <1>9, <1>10, <1>11, <1>12, <1>15, <1>16, <1>17, <1>18
  DEF Handle

(***************************************************************************)
(* An outage only touches whether the database is up, the connections that *)
(* are broken, and the excuses of the requests in progress.                *)
(***************************************************************************)
LEMMA OutageInv == ASSUME Inv, Outage PROVE Inv'
<1>1. TypeOK'
  BY NextTypes DEF Inv, Next
<1>2. NoLeak'
  BY DEF Inv, NoLeak, Outage, handling
<1>3. ASSUME NEW r \in Requests PROVE Correlated(r)' /\ Excused(r)' /\ Committing(r)'
  <2>1. Correlated(r) /\ Excused(r) /\ Committing(r)
    BY DEF Inv
  <2>2. Correlated(r)' /\ Committing(r)'
    BY <2>1 DEF Outage, Correlated, Committing, Guarded, handling, tracing
  <2>3. (pc[r] # "idle" \/ excuse[r]) => excuse'[r]
    BY DEF Outage
  <2>4. Excused(r)'
    BY <2>1, <2>3 DEF Outage, Excused
  <2>. QED
    BY <2>2, <2>4
<1>. QED
  BY <1>1, <1>2, <1>3 DEF Inv

LEMMA RecoverInv == ASSUME Inv, Recover PROVE Inv'
<1>1. TypeOK'
  BY NextTypes DEF Inv, Next
<1>2. NoLeak'
  BY DEF Inv, NoLeak, Recover, handling
<1>3. ASSUME NEW r \in Requests PROVE Correlated(r)' /\ Excused(r)' /\ Committing(r)'
  <2>1. Correlated(r) /\ Excused(r) /\ Committing(r)
    BY DEF Inv
  <2>2. Correlated(r)' /\ Committing(r)'
    BY <2>1 DEF Recover, Correlated, Committing, Guarded, handling, tracing
  <2>3. Excused(r)'
    BY <2>1 DEF Recover, Excused, handling
  <2>. QED
    BY <2>2, <2>3
<1>. QED
  BY <1>1, <1>2, <1>3 DEF Inv

LEMMA StutterInv == ASSUME Inv, UNCHANGED vars PROVE Inv'
<1>1. TypeOK'
  BY NextTypes DEF Inv
<1>2. NoLeak'
  BY DEF Inv, NoLeak, vars, handling
<1>3. ASSUME NEW r \in Requests PROVE Correlated(r)' /\ Excused(r)' /\ Committing(r)'
  <2>1. Correlated(r) /\ Excused(r) /\ Committing(r)
    BY DEF Inv
  <2>2. UNCHANGED <<up, dead, pc, todo, conn, work, given, cid, context, lines, reply, excuse>>
    BY DEF vars, database, handling, tracing
  <2>3. Correlated(r)'
    BY <2>1, <2>2 DEF Correlated
  <2>4. Excused(r)'
    BY <2>1, <2>2 DEF Excused
  <2>5. Committing(r)'
    BY <2>1, <2>2 DEF Committing, Guarded
  <2>. QED
    BY <2>3, <2>4, <2>5
<1>. QED
  BY <1>1, <1>2, <1>3 DEF Inv

LEMMA InitInv == Init => Inv
<1> SUFFICES ASSUME Init PROVE Inv
  OBVIOUS
<1>1. NoLeak
  BY DEF Init, NoLeak
<1>2. ASSUME NEW r \in Requests PROVE Correlated(r) /\ Excused(r) /\ Committing(r)
  <2>1. Guarded(<<>>) /\ NoReply.status = "none"
    BY DEF Guarded, NoReply
  <2>2. Correlated(r)
    BY DEF Init, Correlated
  <2>. QED
    BY <2>1, <2>2 DEF Init, Excused, Committing
<1>. QED
  BY <1>1, <1>2, InitTypes DEF Inv

LEMMA StepInv == Inv /\ [Next]_vars => Inv'
<1> SUFFICES ASSUME Inv, [Next]_vars PROVE Inv'
  OBVIOUS
<1>1. TypeOK'
  BY NextTypes DEF Inv
<1>2. ASSUME NEW r \in Requests, Handle(r) PROVE Inv'
  BY <1>1, <1>2, HandleUndisturbed, HandleSound, SoundStep DEF Inv
<1>3. ASSUME NEW r \in Requests, Receive(r) PROVE Inv'
  BY <1>1, <1>3, ReceiveUndisturbed, ReceiveSound, SoundStep DEF Inv
<1>. QED
  BY <1>2, <1>3, OutageInv, RecoverInv, StutterInv DEF Next

LEMMA Invariance == Spec => []Inv
  BY InitInv, StepInv, PTL DEF Spec

-----------------------------------------------------------------------------
(***************************************************************************)
(* However a request ends, its connection is back in the pool.             *)
(***************************************************************************)
THEOREM NothingLeaks == Spec => []NoLeak
<1>1. Inv => NoLeak
  BY DEF Inv
<1>. QED
  BY <1>1, Invariance, PTL

(***************************************************************************)
(* No log line and no response ever carries the correlation id of another  *)
(* request, or none.                                                       *)
(***************************************************************************)
THEOREM CorrelationIsOwn == Spec => []OwnCorrelation
<1>1. Inv => OwnCorrelation
  BY DEF Inv, OwnCorrelation, Correlated
<1>. QED
  BY <1>1, Invariance, PTL

(***************************************************************************)
(* No request fails because of an outage that was over when it came.       *)
(***************************************************************************)
THEOREM FailuresHaveCauses == Spec => []FailureHasCause
<1>1. Inv => FailureHasCause
  BY DEF Inv, FailureHasCause, Excused
<1>. QED
  BY <1>1, Invariance, PTL

(***************************************************************************)
(* No success is reported for writes that are not committed.               *)
(***************************************************************************)
THEOREM SuccessesAreCommitted == Spec => []SuccessIsCommitted
<1>1. Inv => SuccessIsCommitted
  BY DEF Inv, SuccessIsCommitted, Committing
<1>. QED
  BY <1>1, Invariance, PTL
=============================================================================

------------------------------- MODULE Server -------------------------------
(***************************************************************************)
(* The web server around the handlers: the correlation middleware, the     *)
(* session of each request, the connection pool that the sessions share,   *)
(* and the exception handlers.                                             *)
(*                                                                         *)
(* What a handler does is only a plan here, the sequence of the things it  *)
(* has yet to do that need a connection or take long.  Handlers run        *)
(* concurrently; the database may become unreachable at any time, which    *)
(* breaks every open connection, and come back.                            *)
(*                                                                         *)
(* A session takes a connection from the pool with its first statement and *)
(* keeps it until it commits, rolls back or is closed.                     *)
(***************************************************************************)
EXTENDS Integers, Sequences, FiniteSets

CONSTANTS
  Requests,     \* HTTP requests that can be in progress together
  Connections,  \* connections that the engine may open, pool_size + max_overflow
  CallerIds,    \* valid correlation ids that callers send
  MaxRequests,  \* a bound on the requests that are ever received
  MaxOutages    \* a bound on how often the database becomes unreachable

None == "none"       \* no connection
Unbound == "-"       \* default of the context variable
NoReply == [status |-> "none", id |-> Unbound]

ASSUME ServerAssumption ==
  /\ None \notin Connections \cup CallerIds
  /\ Unbound \notin Requests \cup CallerIds
  /\ Requests \cap CallerIds = {}
  /\ MaxRequests \in Nat /\ MaxOutages \in Nat

VARIABLES
  up,           \* whether the database can be reached
  dead,         \* connections that an outage broke
  received,     \* requests received so far
  outages,      \* outages so far
  pc,           \* where each request is
  kind,         \* what it asks for
  todo,         \* what its handler has yet to do
  conn,         \* the connection that its session holds
  work,         \* what became of its writes
  given,        \* the correlation id of the caller, if it is valid
  cid,          \* correlation_id in the scope of the request
  context,      \* the context variable in the task of the request
  lines,        \* history: correlation ids of the log lines about the request
  reply,        \* the response, with its X-Correlation-ID
  excuse        \* history: whether something outside failed during the request

database == <<up, dead, received, outages>>
handling == <<kind, todo, conn, work>>
tracing == <<given, cid, context, lines>>
vars == <<database, pc, handling, tracing, reply, excuse>>

Kinds == {"health", "ready", "read", "write", "chat"}
Ids == CallerIds \cup Requests   \* a uuid4 is named after its request

-----------------------------------------------------------------------------
(***************************************************************************)
(* Plans.  A "read" is a statement outside of the modules' try blocks that *)
(* changes nothing, a "mark" an UPDATE there, a "write" one inside, which  *)
(* is rolled back when it fails.  After a commit the attributes of the     *)
(* rows are expired: the answer reloads them, in a new transaction.        *)
(***************************************************************************)
Statements == {"read", "mark", "write", "reload"}

(***************************************************************************)
(* cleanup_expired commits only if it has marked a row.                    *)
(***************************************************************************)
Plans == [k \in Kinds |->
  CASE k = "health" -> {<<>>}
    [] k = "ready"  -> {<<"read">>}
    [] k = "read"   -> {<<"read">>}
    [] k = "write"  -> {<<"write", "commit", "reload">>, <<"write", "commit">>}
    [] k = "chat"   -> {<<"read", "interpret">>, <<"mark", "commit", "interpret">>}]

(***************************************************************************)
(* What an interpreted message leads to: an answer at once; one after a    *)
(* query; an expired confirmation or a deletion; a creation, an update or  *)
(* the offer of a confirmation; a confirmed deletion; the analysis of the  *)
(* workload, which the language model phrases.                             *)
(***************************************************************************)
ChatPlans ==
  {<<>>, <<"read">>, <<"write", "commit">>, <<"write", "commit", "reload">>,
   <<"mark", "commit", "reload", "write", "commit">>, <<"read", "generate">>}

-----------------------------------------------------------------------------
(***************************************************************************)
(* The context variable belongs to the task of the request, and the worker *)
(* thread gets a copy.                                                     *)
(***************************************************************************)
Bound(r, id) == [context EXCEPT ![r] = id]

(***************************************************************************)
(* resolve_correlation_id: a valid id is kept, any other is replaced.      *)
(***************************************************************************)
ResolveId(r, id) == IF id \in CallerIds THEN id ELSE r

(***************************************************************************)
(* A log line carries the id that is bound where it is written.            *)
(***************************************************************************)
Logged(r, id) == [lines EXCEPT ![r] = @ \cup {id}]

(***************************************************************************)
(* CorrelationMiddleware, on the way in.  (given is None for a missing and *)
(* for an invalid id.)                                                     *)
(***************************************************************************)
Receive(r) ==
  /\ pc[r] = "idle"
  /\ received < MaxRequests
  /\ received' = received + 1
  /\ \E k \in Kinds, id \in CallerIds \cup {None} :
       /\ kind' = [kind EXCEPT ![r] = k]
       /\ given' = [given EXCEPT ![r] = id]
       /\ cid' = [cid EXCEPT ![r] = ResolveId(r, id)]
       /\ context' = Bound(r, ResolveId(r, id))
  /\ pc' = [pc EXCEPT ![r] = "queued"]
  /\ work' = [work EXCEPT ![r] = "none"]
  /\ lines' = [lines EXCEPT ![r] = {}]
  /\ reply' = [reply EXCEPT ![r] = NoReply]
  /\ excuse' = [excuse EXCEPT ![r] = ~ up]
  /\ todo' = [todo EXCEPT ![r] = <<>>]
  /\ UNCHANGED <<up, dead, outages, conn>>

(***************************************************************************)
(* A request that does not validate is refused before the handler runs, as *)
(* is one with a value that a module rejects before its first statement.   *)
(***************************************************************************)
Reject(r) ==
  /\ pc[r] = "queued"
  /\ kind[r] \in {"read", "write", "chat"}
  /\ pc' = [pc EXCEPT ![r] = "refused"]
  /\ UNCHANGED <<database, handling, tracing, reply, excuse>>

(***************************************************************************)
(* A worker thread runs the handler.                                       *)
(***************************************************************************)
Start(r) ==
  /\ pc[r] = "queued"
  /\ pc' = [pc EXCEPT ![r] = "running"]
  /\ \E plan \in Plans[kind[r]] : todo' = [todo EXCEPT ![r] = plan]
  /\ UNCHANGED <<database, kind, conn, work, tracing, reply, excuse>>

(***************************************************************************)
(* get_llm builds the adapter of the language model before the handler     *)
(* runs: what it raises does not pass through the try block of agent_chat. *)
(***************************************************************************)
AdapterFails(r) ==
  /\ pc[r] = "queued"
  /\ kind[r] = "chat"
  /\ pc' = [pc EXCEPT ![r] = "raised"]
  /\ excuse' = [excuse EXCEPT ![r] = TRUE]
  /\ UNCHANGED <<database, handling, tracing, reply>>

-----------------------------------------------------------------------------
At(r, ops) == pc[r] = "running" /\ todo[r] # <<>> /\ Head(todo[r]) \in ops

Done(r) == todo' = [todo EXCEPT ![r] = Tail(@)]

Free == Connections \ {conn[r] : r \in Requests}

(***************************************************************************)
(* What the session gives back to the pool, and what that means for the    *)
(* writes that it has not committed.                                       *)
(***************************************************************************)
Released(r) == [conn EXCEPT ![r] = None]
RolledBack(r) == [work EXCEPT ![r] = IF @ = "open" THEN "lost" ELSE @]

(***************************************************************************)
(* A response passes through send_wrapper, which replaces the header.      *)
(***************************************************************************)
Reply(r, status) == reply' = [reply EXCEPT ![r] = [status |-> status, id |-> cid[r]]]

(***************************************************************************)
(* An exception in a handler; outside tells whether something outside has  *)
(* failed.  agent_chat answers ERROR and the readiness probe 503, after it *)
(* has closed its session; both log the exception.  The others let it      *)
(* propagate.  The modules roll back what they write.                      *)
(***************************************************************************)
Raise(r, outside) ==
  /\ excuse' = [excuse EXCEPT ![r] = @ \/ outside]
  /\ todo' = [todo EXCEPT ![r] = <<>>]
  /\ IF kind[r] = "ready" \/ Head(todo[r]) \in {"write", "commit"}
       THEN conn' = Released(r) /\ work' = RolledBack(r)
       ELSE UNCHANGED <<conn, work>>
  /\ CASE kind[r] = "chat"  -> pc' = [pc EXCEPT ![r] = "replied"] /\ Reply(r, "error")
       [] kind[r] = "ready" -> pc' = [pc EXCEPT ![r] = "replied"] /\ Reply(r, "not ready")
       [] OTHER             -> pc' = [pc EXCEPT ![r] = "raised"] /\ UNCHANGED reply
  /\ lines' = IF kind[r] \in {"chat", "ready"} THEN Logged(r, context[r]) ELSE lines
  /\ UNCHANGED <<database, kind, given, cid, context>>

(***************************************************************************)
(* pool_pre_ping: a connection is tried, and opened anew if it is broken,  *)
(* before the session gets it.  (The variant hands it out as it is.)       *)
(***************************************************************************)
HandOut(k) == dead
PrePing(k) == dead \ {k}

Checkout(r) ==
  /\ At(r, Statements)
  /\ conn[r] = None
  /\ up
  /\ \E k \in Free : conn' = [conn EXCEPT ![r] = k] /\ dead' = PrePing(k)
  /\ UNCHANGED <<up, received, outages, pc, kind, todo, work, tracing, reply, excuse>>

(***************************************************************************)
(* No connection can be opened; or none was given back for 30 seconds.     *)
(* (The variant waits until the database is back.)                         *)
(***************************************************************************)
CheckoutTimesOut(r) ==
  /\ At(r, Statements)
  /\ conn[r] = None
  /\ up /\ Free = {}
  /\ Raise(r, TRUE)

CheckoutFails(r) ==
  /\ At(r, Statements)
  /\ conn[r] = None
  /\ up => Free = {}
  /\ Raise(r, TRUE)

Broken(r) == conn[r] \in dead

Execute(r) ==
  /\ At(r, Statements)
  /\ conn[r] # None
  /\ ~ Broken(r)
  /\ work' = [work EXCEPT ![r] = IF Head(todo[r]) \in {"mark", "write"} THEN "open" ELSE @]
  /\ Done(r)
  /\ UNCHANGED <<database, pc, kind, conn, tracing, reply, excuse>>

(***************************************************************************)
(* The connection broke under the session, or the row that is written or   *)
(* reloaded is not there: deleted by somebody else, or the chat named none.*)
(***************************************************************************)
ExecuteFails(r) ==
  /\ At(r, Statements)
  /\ conn[r] # None
  /\ \/ Broken(r) /\ Raise(r, FALSE)
     \/ ~ Broken(r) /\ Head(todo[r]) \in {"write", "reload"} /\ Raise(r, TRUE)

(***************************************************************************)
(* (The variant rolls back and does not raise.)                            *)
(***************************************************************************)
CommitOrRollback(r) ==
  /\ At(r, {"commit"})
  /\ conn' = Released(r)
  /\ work' = IF Broken(r) THEN RolledBack(r) ELSE [work EXCEPT ![r] = "committed"]
  /\ Done(r)
  /\ UNCHANGED <<database, pc, kind, tracing, reply, excuse>>

Commit(r) ==
  /\ At(r, {"commit"})
  /\ \/ /\ ~ Broken(r)
        /\ conn' = Released(r)
        /\ work' = [work EXCEPT ![r] = "committed"]
        /\ Done(r)
        /\ UNCHANGED <<database, pc, kind, tracing, reply, excuse>>
     \/ Broken(r) /\ Raise(r, FALSE)

(***************************************************************************)
(* The language model.  Its failure ends the interpretation; the response  *)
(* generator falls back to a template.  A transaction stays open.          *)
(***************************************************************************)
Interpret(r) ==
  /\ At(r, {"interpret"})
  /\ \/ /\ \E plan \in ChatPlans : todo' = [todo EXCEPT ![r] = plan]
        /\ UNCHANGED <<database, pc, kind, conn, work, tracing, reply, excuse>>
     \/ Raise(r, TRUE)

Generate(r) ==
  /\ At(r, {"generate"})
  /\ Done(r)
  /\ UNCHANGED <<database, pc, kind, conn, work, tracing, reply, excuse>>

(***************************************************************************)
(* Something is not found, or not valid: a module has rolled back.         *)
(***************************************************************************)
Refuse(r) ==
  /\ pc[r] = "running"
  /\ \/ /\ kind[r] = "read" /\ todo[r] = <<>>
        /\ UNCHANGED <<conn, work>>
     \/ /\ kind[r] = "write" /\ At(r, {"commit"})
        /\ conn' = Released(r) /\ work' = RolledBack(r)
  /\ pc' = [pc EXCEPT ![r] = "refused"]
  /\ UNCHANGED <<database, kind, todo, tracing, reply, excuse>>

(***************************************************************************)
(* The handler returns, and the response is sent.  The probe has closed    *)
(* its session before; get_uow closes the others after it.                 *)
(***************************************************************************)
Return(r) ==
  /\ pc[r] = "running"
  /\ todo[r] = <<>>
  /\ pc' = [pc EXCEPT ![r] = "replied"]
  /\ Reply(r, "ok")
  /\ IF kind[r] = "ready" THEN conn' = Released(r) ELSE UNCHANGED conn
  /\ UNCHANGED <<database, kind, todo, work, tracing, excuse>>

-----------------------------------------------------------------------------
(***************************************************************************)
(* The middleware, on the way out: "Request completed" and the reset of    *)
(* the context variable.                                                   *)
(***************************************************************************)
Complete(r) ==
  /\ lines' = Logged(r, context[r])
  /\ context' = Bound(r, Unbound)
  /\ pc' = [pc EXCEPT ![r] = "idle"]

(***************************************************************************)
(* get_uow closes the session, in its finally.  (The variant has none, and *)
(* closes it only if the handler has returned.)                            *)
(***************************************************************************)
CloseIfReturned(r) ==
  /\ conn' = IF pc[r] = "replied" THEN Released(r) ELSE conn
  /\ work' = RolledBack(r)

Close(r) == conn' = Released(r) /\ work' = RolledBack(r)

Finish(r) ==
  /\ pc[r] = "replied"
  /\ Close(r)
  /\ Complete(r)
  /\ UNCHANGED <<database, kind, todo, given, cid, reply, excuse>>

(***************************************************************************)
(* The handlers of main.py for the exceptions that mean 404 and 400 run    *)
(* inside the middleware.                                                  *)
(***************************************************************************)
FinishRefused(r) ==
  /\ pc[r] = "refused"
  /\ Close(r)
  /\ Reply(r, "refused")
  /\ Complete(r)
  /\ UNCHANGED <<database, kind, todo, given, cid, excuse>>

(***************************************************************************)
(* The one for every other exception runs outside: the context variable    *)
(* has been reset, and nothing replaces the header.                        *)
(***************************************************************************)
Unwind(r) ==
  /\ pc[r] = "raised"
  /\ Close(r)
  /\ context' = Bound(r, Unbound)
  /\ pc' = [pc EXCEPT ![r] = "unhandled"]
  /\ UNCHANGED <<database, kind, todo, given, cid, lines, reply, excuse>>

(***************************************************************************)
(* It logs within correlation_context and sets the header itself.  (The    *)
(* variant relies on the middleware.)                                      *)
(***************************************************************************)
HandleOutside(r) ==
  /\ pc[r] = "unhandled"
  /\ lines' = Logged(r, context[r])
  /\ Reply(r, "failed")
  /\ pc' = [pc EXCEPT ![r] = "idle"]
  /\ UNCHANGED <<database, handling, given, cid, context, excuse>>

HandleUnhandled(r) ==
  /\ pc[r] = "unhandled"
  /\ lines' = Logged(r, cid[r])
  /\ Reply(r, "failed")
  /\ pc' = [pc EXCEPT ![r] = "idle"]
  /\ UNCHANGED <<database, handling, given, cid, context, excuse>>

-----------------------------------------------------------------------------
Outage ==
  /\ up /\ outages < MaxOutages
  /\ up' = FALSE
  /\ outages' = outages + 1
  /\ dead' = Connections
  /\ excuse' = [r \in Requests |-> excuse[r] \/ pc[r] # "idle"]
  /\ UNCHANGED <<received, pc, handling, tracing, reply>>

Recover ==
  /\ ~ up
  /\ up' = TRUE
  /\ UNCHANGED <<dead, received, outages, pc, handling, tracing, reply, excuse>>

Init ==
  /\ up = TRUE /\ dead = {} /\ received = 0 /\ outages = 0
  /\ pc = [r \in Requests |-> "idle"]
  /\ kind = [r \in Requests |-> "health"]
  /\ todo = [r \in Requests |-> <<>>]
  /\ conn = [r \in Requests |-> None]
  /\ work = [r \in Requests |-> "none"]
  /\ given = [r \in Requests |-> None]
  /\ cid = [r \in Requests |-> r]
  /\ context = [r \in Requests |-> Unbound]
  /\ lines = [r \in Requests |-> {}]
  /\ reply = [r \in Requests |-> NoReply]
  /\ excuse = [r \in Requests |-> FALSE]

Handle(r) ==
  \/ Reject(r) \/ Start(r) \/ AdapterFails(r)
  \/ Checkout(r) \/ CheckoutFails(r) \/ Execute(r) \/ ExecuteFails(r) \/ Commit(r)
  \/ Interpret(r) \/ Generate(r) \/ Refuse(r) \/ Return(r)
  \/ Finish(r) \/ FinishRefused(r) \/ Unwind(r) \/ HandleUnhandled(r)

Next ==
  \/ Outage \/ Recover
  \/ \E r \in Requests : Receive(r) \/ Handle(r)

Spec == Init /\ [][Next]_vars

(***************************************************************************)
(* The server runs every request it has received to its end: statements,   *)
(* calls of the language model and waits for a connection end.             *)
(* Nothing makes the database come back.                                   *)
(***************************************************************************)
FairSpec == Spec /\ \A r \in Requests : WF_vars(Handle(r))

-----------------------------------------------------------------------------
Steps == Statements \cup {"commit", "interpret", "generate"}

TypeOK ==
  /\ up \in BOOLEAN /\ dead \subseteq Connections
  /\ received \in 0..MaxRequests /\ outages \in 0..MaxOutages
  /\ pc \in [Requests -> {"idle", "queued", "running", "replied", "refused", "raised", "unhandled"}]
  /\ kind \in [Requests -> Kinds]
  /\ todo \in [Requests -> Seq(Steps)]
  /\ conn \in [Requests -> Connections \cup {None}]
  /\ work \in [Requests -> {"none", "open", "committed", "lost"}]
  /\ given \in [Requests -> CallerIds \cup {None}]
  /\ cid \in [Requests -> Ids]
  /\ context \in [Requests -> Ids \cup {Unbound}]
  /\ lines \in [Requests -> SUBSET (Ids \cup {Unbound})]
  /\ reply \in [Requests -> [status : {"none", "ok", "refused", "error", "not ready", "failed"},
                             id : Ids \cup {Unbound}]]
  /\ excuse \in [Requests -> BOOLEAN]

(***************************************************************************)
(* No two sessions share a connection, and a request that is over holds    *)
(* none, however it ended.                                                 *)
(***************************************************************************)
NoLeak ==
  /\ \A r, q \in Requests : conn[r] = conn[q] /\ conn[r] # None => r = q
  /\ \A r \in Requests : conn[r] # None => pc[r] \in {"running", "replied", "refused", "raised"}

(***************************************************************************)
(* The response to a request and every log line about it carry the same    *)
(* correlation id, which is the caller's if it is valid; also when the     *)
(* exception handler runs outside of the middleware, and whatever other    *)
(* requests are in progress.                                               *)
(***************************************************************************)
OwnCorrelation ==
  \A r \in Requests :
    /\ lines[r] \subseteq {cid[r]}
    /\ reply[r] # NoReply => reply[r].id = cid[r]
    /\ cid[r] = IF given[r] = None THEN r ELSE given[r]

(***************************************************************************)
(* No request fails without a cause outside: the database was unreachable  *)
(* during the request, no connection became free, the language model       *)
(* failed, or the row it is about is not there.  In particular an earlier  *)
(* outage does not make requests fail when it is over.                     *)
(***************************************************************************)
FailureHasCause ==
  \A r \in Requests : reply[r].status \in {"error", "not ready", "failed"} => excuse[r]

(***************************************************************************)
(* A request that succeeds has committed all its writes.                   *)
(***************************************************************************)
SuccessIsCommitted ==
  \A r \in Requests : reply[r].status = "ok" => work[r] \in {"none", "committed"}

(***************************************************************************)
(* Every request is answered, also while the database is unreachable and   *)
(* while other requests hold every connection.                             *)
(***************************************************************************)
EveryRequestAnswered ==
  \A r \in Requests : pc[r] # "idle" ~> pc[r] = "idle" /\ reply[r] # NoReply
=============================================================================

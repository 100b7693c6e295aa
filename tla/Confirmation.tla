---------------------------- MODULE Confirmation ----------------------------
(***************************************************************************)
(* Pending confirmations: a chat request whose action is destructive       *)
(* stores the command and asks the user; a later chat request that says    *)
(* "yes" turns the record CONFIRMED and executes the command.  Modelled    *)
(* are PendingConfirmationModule with its repository and the branches of   *)
(* the agent handler that call it, for any number of chat requests in      *)
(* progress on one database (READ COMMITTED).                              *)
(*                                                                         *)
(* Each request has an ORM session of its own.  What the session has       *)
(* loaded stays in its identity map and is not read again, so a request    *)
(* may decide on a copy of the row that is older than the row.  An UPDATE  *)
(* and the commit right after it are one step.                             *)
(***************************************************************************)
EXTENDS Integers, FiniteSets

CONSTANTS
  Commands,     \* ids of stored confirmations, ordered as UUIDs are
  Chats,        \* chat requests that can be in progress together
  Users,        \* values of user_id; one of them may stand for NULL
  TTL,          \* pending_confirmation_ttl_seconds
  MaxTime,      \* the clock stops here (a bound)
  MaxChats,     \* a bound on the chat requests that ever start
  MaxFailures   \* a bound on crashes and database errors

ASSUME ConfirmationAssumption ==
  /\ Commands \subseteq Nat
  /\ TTL \in Nat \ {0}
  /\ MaxTime \in Nat
  /\ MaxChats \in Nat
  /\ MaxFailures \in Nat
  /\ Users # {}

VARIABLES
  clock,        \* datetime.now(timezone.utc)
  stored,       \* committed rows of `pending_confirmations`
  chat,         \* the progress of each chat request
  chats,        \* chat requests started so far
  failures,     \* crashes and database errors so far
  accepted,     \* history: per command, how often a request won the confirmation
  executed,     \* history: per command, calls of ActionExecutor.execute
  told          \* history: per command, the outcomes reported for it

vars == <<clock, stored, chat, chats, failures, accepted, executed, told>>

Times == 0..MaxTime
Status == {"PENDING", "CONFIRMED", "EXPIRED", "CANCELLED"}
ConfirmOutcome == {"CONFIRMED", "ALREADY_CONFIRMED", "EXPIRED", "CANCELLED"}

PendingConfirmation ==
  [status : Status \cup {"unborn"}, user : Users, expires_at : 0..(MaxTime + TTL)]

NoCopy == "none"  \* the session has not loaded the row

ChatState ==
  [pc   : {"idle", "interpret", "offer", "latest", "confirm", "mark", "diagnose",
           "expire", "execute"},
   user : Users,
   id   : Commands \cup {-1},
   now  : Times,
   copy : Status \cup {NoCopy}]   \* status of the row in the identity map

NewChat(user) == [pc |-> "interpret", user |-> user, id |-> -1, now |-> 0, copy |-> NoCopy]

AnyUser == CHOOSE u \in Users : TRUE
IdleChat == [NewChat(AnyUser) EXCEPT !.pc = "idle"]

TypeOK ==
  /\ clock \in Times
  /\ stored \in [Commands -> PendingConfirmation]
  /\ chat \in [Chats -> ChatState]
  /\ chats \in 0..MaxChats
  /\ failures \in 0..MaxFailures
  /\ accepted \in [Commands -> Nat]
  /\ executed \in [Commands -> Nat]
  /\ told \in [Commands -> SUBSET ConfirmOutcome]

Init ==
  /\ clock = 0
  /\ stored = [k \in Commands |->
                 [status |-> "unborn", user |-> AnyUser, expires_at |-> 0]]
  /\ chat = [c \in Chats |-> IdleChat]
  /\ chats = 0
  /\ failures = 0
  /\ accepted = [k \in Commands |-> 0]
  /\ executed = [k \in Commands |-> 0]
  /\ told = [k \in Commands |-> {}]

-----------------------------------------------------------------------------
AdvanceClock ==
  /\ clock < MaxTime
  /\ clock' = clock + 1
  /\ UNCHANGED <<stored, chat, chats, failures, accepted, executed, told>>

(***************************************************************************)
(* A request arrives; cleanup_expired marks every PENDING row whose TTL    *)
(* has passed, and commits.                                                *)
(***************************************************************************)
PastTTL(row, now) == row.status = "PENDING" /\ row.expires_at < now

MarkExpired(now) ==
  [k \in Commands |->
     IF PastTTL(stored[k], now) THEN [stored[k] EXCEPT !.status = "EXPIRED"] ELSE stored[k]]

Receive(c) ==
  /\ chat[c].pc = "idle"
  /\ chats < MaxChats
  /\ chats' = chats + 1
  /\ stored' = MarkExpired(clock)
  /\ \E user \in Users : chat' = [chat EXCEPT ![c] = NewChat(user)]
  /\ UNCHANGED <<clock, failures, accepted, executed, told>>

(***************************************************************************)
(* The language model's answer, any time later: something that needs no    *)
(* confirmation (or refers to one that does not exist, which is not        *)
(* found), a destructive action that the pipeline lets through, or a       *)
(* confirmation with or without a reference id.                            *)
(***************************************************************************)
Interpret(c) ==
  /\ chat[c].pc = "interpret"
  /\ \/ chat' = [chat EXCEPT ![c] = IdleChat]
     \/ chat' = [chat EXCEPT ![c].pc = "offer"]
     \/ chat' = [chat EXCEPT ![c].pc = "latest"]
     \/ \E k \in Commands :
          /\ stored[k].status # "unborn"
          /\ chat' = [chat EXCEPT ![c].pc = "confirm", ![c].id = k]
  /\ UNCHANGED <<clock, stored, chats, failures, accepted, executed, told>>

(***************************************************************************)
(* create: store the command with its expiry.                              *)
(***************************************************************************)
OfferCommand(c) ==
  /\ chat[c].pc = "offer"
  /\ \E k \in Commands :
       /\ stored[k].status = "unborn"
       /\ stored' = [stored EXCEPT ![k] =
            [status |-> "PENDING", user |-> chat[c].user, expires_at |-> clock + TTL]]
  /\ chat' = [chat EXCEPT ![c] = IdleChat]
  /\ UNCHANGED <<clock, chats, failures, accepted, executed, told>>

(***************************************************************************)
(* find_latest_pending_by_user: the newest PENDING row of the user, by     *)
(* created_at and id, whether its TTL has passed or not.  The row stays    *)
(* in the identity map.                                                    *)
(***************************************************************************)
PendingOf(user) == {k \in Commands : stored[k].status = "PENDING" /\ stored[k].user = user}

Newer(j, k) ==
  \/ stored[j].expires_at > stored[k].expires_at
  \/ stored[j].expires_at = stored[k].expires_at /\ j > k

FindLatest(c) ==
  LET mine == PendingOf(chat[c].user) IN
  /\ chat[c].pc = "latest"
  /\ \/ /\ mine = {}
        /\ chat' = [chat EXCEPT ![c] = IdleChat]
     \/ \E k \in mine :
          /\ \A j \in mine \ {k} : Newer(k, j)
          /\ chat' = [chat EXCEPT ![c].pc = "confirm", ![c].id = k, ![c].copy = "PENDING"]
  /\ UNCHANGED <<clock, stored, chats, failures, accepted, executed, told>>

(***************************************************************************)
(* confirm reads the clock ...                                             *)
(***************************************************************************)
ReadClock(c) ==
  /\ chat[c].pc = "confirm"
  /\ chat' = [chat EXCEPT ![c].pc = "mark", ![c].now = clock]
  /\ UNCHANGED <<clock, stored, chats, failures, accepted, executed, told>>

(***************************************************************************)
(* ... and tries the conditional UPDATE of mark_confirmed.  One row: this  *)
(* request won, commits and goes on to execute the command.  No row: the   *)
(* ORM has still applied the UPDATE to the copy in the identity map, if    *)
(* the copy satisfies the WHERE clause.  The variants of Live are WHERE    *)
(* clauses that forget a condition.                                        *)
(***************************************************************************)
LiveAnyStatus(status, row, user, now) ==
  status # "unborn" /\ row.user = user /\ row.expires_at > now
LiveAnyUser(status, row, user, now) ==
  status = "PENDING" /\ row.expires_at > now
LiveUnlessExpired(status, row, user, now) ==
  status \in {"PENDING", "EXPIRED"} /\ row.user = user /\ row.expires_at > now
Live(status, row, user, now) ==
  status = "PENDING" /\ row.user = user /\ row.expires_at > now

MarkConfirmed(c) ==
  LET k == chat[c].id IN
  /\ chat[c].pc = "mark"
  /\ Live(stored[k].status, stored[k], chat[c].user, chat[c].now)
  /\ stored' = [stored EXCEPT ![k].status = "CONFIRMED"]
  /\ accepted' = [accepted EXCEPT ![k] = @ + 1]
  /\ told' = [told EXCEPT ![k] = @ \cup {"CONFIRMED"}]
  /\ chat' = [chat EXCEPT ![c].pc = "execute"]
  /\ UNCHANGED <<clock, chats, failures, executed>>

MissConfirmed(c) ==
  LET k == chat[c].id IN
  /\ chat[c].pc = "mark"
  /\ ~Live(stored[k].status, stored[k], chat[c].user, chat[c].now)
  /\ chat' = [chat EXCEPT ![c].pc = "diagnose",
                          ![c].copy = IF Live(@, stored[k], chat[c].user, chat[c].now)
                                        THEN "CONFIRMED" ELSE @]
  /\ UNCHANGED <<clock, stored, chats, failures, accepted, executed, told>>

(***************************************************************************)
(* Why did no row match?  get_by_id answers from the identity map, or      *)
(* reads the row.  A row that is not the user's is not found; one that is  *)
(* still PENDING, by that reading, is taken for expired.  (In the variant  *)
(* one that is CONFIRMED falls through to the same branch.)                *)
(***************************************************************************)
Outcome(status) == IF status = "CONFIRMED" THEN "ALREADY_CONFIRMED" ELSE status

DiagnoseFallsThrough(c) ==
  LET k     == chat[c].id
      known == IF chat[c].copy # NoCopy THEN chat[c].copy ELSE stored[k].status
      mine  == stored[k].user = chat[c].user
      left  == {"PENDING", "CONFIRMED"}
  IN
  /\ chat[c].pc = "diagnose"
  /\ chat' = [chat EXCEPT ![c] = IF mine /\ known \in left
                                   THEN [chat[c] EXCEPT !.pc = "expire"] ELSE IdleChat]
  /\ told' = [told EXCEPT ![k] = IF mine /\ known \notin left THEN @ \cup {known} ELSE @]
  /\ UNCHANGED <<clock, stored, chats, failures, accepted, executed>>

Diagnose(c) ==
  LET k     == chat[c].id
      known == IF chat[c].copy # NoCopy THEN chat[c].copy ELSE stored[k].status
      mine  == stored[k].user = chat[c].user
  IN
  /\ chat[c].pc = "diagnose"
  /\ \/ /\ ~mine
        /\ chat' = [chat EXCEPT ![c] = IdleChat]
        /\ UNCHANGED told
     \/ /\ mine /\ known # "PENDING"
        /\ chat' = [chat EXCEPT ![c] = IdleChat]
        /\ told' = [told EXCEPT ![k] = @ \cup {Outcome(known)}]
     \/ /\ mine /\ known = "PENDING"
        /\ chat' = [chat EXCEPT ![c].pc = "expire"]
        /\ UNCHANGED told
  /\ UNCHANGED <<clock, stored, chats, failures, accepted, executed>>

(***************************************************************************)
(* The flush of status = EXPIRED: an UPDATE by id alone.  (The variant     *)
(* reports it and does not commit it.)                                     *)
(***************************************************************************)
ReportExpired(c) ==
  /\ chat[c].pc = "expire"
  /\ told' = [told EXCEPT ![chat[c].id] = @ \cup {"EXPIRED"}]
  /\ chat' = [chat EXCEPT ![c] = IdleChat]
  /\ UNCHANGED <<clock, stored, chats, failures, accepted, executed>>

WriteExpired(c) ==
  LET k == chat[c].id IN
  /\ chat[c].pc = "expire"
  /\ stored' = [stored EXCEPT ![k].status = "EXPIRED"]
  /\ told' = [told EXCEPT ![k] = @ \cup {"EXPIRED"}]
  /\ chat' = [chat EXCEPT ![c] = IdleChat]
  /\ UNCHANGED <<clock, chats, failures, accepted, executed>>

(***************************************************************************)
(* ActionExecutor.execute of the stored command, in a transaction of its   *)
(* own.  Its result, success or failure, is reported and not stored.  (The *)
(* variant looks at the row once more.)                                    *)
(***************************************************************************)
ExecuteIfConfirmed(c) ==
  /\ chat[c].pc = "execute"
  /\ stored[chat[c].id].status = "CONFIRMED"
  /\ executed' = [executed EXCEPT ![chat[c].id] = @ + 1]
  /\ chat' = [chat EXCEPT ![c] = IdleChat]
  /\ UNCHANGED <<clock, stored, chats, failures, accepted, told>>

Execute(c) ==
  /\ chat[c].pc = "execute"
  /\ executed' = [executed EXCEPT ![chat[c].id] = @ + 1]
  /\ chat' = [chat EXCEPT ![c] = IdleChat]
  /\ UNCHANGED <<clock, stored, chats, failures, accepted, told>>

(***************************************************************************)
(* The server crashes or the database fails: the request is over, whatever *)
(* it has committed stays.                                                 *)
(***************************************************************************)
Fail(c) ==
  /\ chat[c].pc # "idle"
  /\ failures < MaxFailures
  /\ failures' = failures + 1
  /\ chat' = [chat EXCEPT ![c] = IdleChat]
  /\ UNCHANGED <<clock, stored, chats, accepted, executed, told>>

Proceed(c) ==
  \/ Interpret(c)
  \/ OfferCommand(c)
  \/ FindLatest(c)
  \/ ReadClock(c)
  \/ MarkConfirmed(c)
  \/ MissConfirmed(c)
  \/ Diagnose(c)
  \/ WriteExpired(c)
  \/ Execute(c)

Next ==
  \/ AdvanceClock
  \/ \E c \in Chats : Receive(c) \/ Proceed(c) \/ Fail(c)

Spec == Init /\ [][Next]_vars

(***************************************************************************)
(* The server runs every request it has accepted to its end; the language  *)
(* model client has a timeout, so Interpret ends too.                      *)
(***************************************************************************)
FairSpec == Spec /\ \A c \in Chats : WF_vars(Proceed(c))

-----------------------------------------------------------------------------
(***************************************************************************)
(* However many requests confirm a command at the same time, it is         *)
(* executed at most once, and only by a request that won the confirmation. *)
(***************************************************************************)
ExecutedAtMostOnce ==
  \A k \in Commands : executed[k] =< accepted[k] /\ accepted[k] =< 1

(***************************************************************************)
(* A command is only ever executed for the user it was stored for.         *)
(***************************************************************************)
RunsForOwner ==
  \A c \in Chats : chat[c].pc = "execute" => stored[chat[c].id].user = chat[c].user

(***************************************************************************)
(* A refusal is final for whoever says "yes" afterwards: once any outcome  *)
(* was reported for a command, be it that it was processed, was cancelled  *)
(* or has expired, no other request wins it, not even one that read the    *)
(* clock before the expiry and writes after the refusal.  (The one that    *)
(* won it before the refusal may execute it after.)                        *)
(***************************************************************************)
RefusalIsFinal ==
  [][\A k \in Commands : told[k] # {} => accepted'[k] = accepted[k]]_vars

(***************************************************************************)
(* "the conditional update only fails for an expired row": a row is marked *)
(* EXPIRED, and a user told so, only after its TTL, although the request   *)
(* that writes it decides on the row or the copy it read before, and may   *)
(* write over what another request has committed since (over CONFIRMED,    *)
(* too, if that request had read the clock before the expiry).             *)
(***************************************************************************)
ExpiredIsTrue ==
  \A k \in Commands : stored[k].status = "EXPIRED" \/ "EXPIRED" \in told[k]
    => stored[k].expires_at =< clock

(***************************************************************************)
(* A confirmed command is executed, unless its request crashes first.      *)
(***************************************************************************)
ConfirmedIsExecuted ==
  \A k \in Commands : accepted[k] > 0 ~> executed[k] > 0 \/ failures > 0

(***************************************************************************)
(* pending_confirmation_module.py: "The result outcome always              *)
(* distinguishes the reason the transition failed": what is reported as    *)
(* already processed was confirmed before.                                 *)
(***************************************************************************)
OutcomeIsTrue ==
  \A k \in Commands : "ALREADY_CONFIRMED" \in told[k] => accepted[k] > 0

(***************************************************************************)
(* The stored rows and the requests implement a one-shot command.          *)
(***************************************************************************)
Phase(k) ==
  IF executed[k] > 0 THEN "done"
  ELSE IF accepted[k] > 0 THEN "accepted"
  ELSE IF stored[k].status = "unborn" THEN "none"
  ELSE IF stored[k].status = "PENDING" THEN "offered"
  ELSE "lapsed"

Shot == INSTANCE OneShot WITH phase <- [k \in Commands |-> Phase(k)]

ImplementsOneShot == Shot!OneShotSpec
=============================================================================

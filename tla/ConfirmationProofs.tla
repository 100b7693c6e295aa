------------------------- MODULE ConfirmationProofs -------------------------
(***************************************************************************)
(* Proofs, for any number of commands, users and concurrent requests, any  *)
(* TTL and any bounds, that a confirmed command is executed at most once   *)
(* and for its owner, that a refusal is final, and that what is said to    *)
(* have expired has.                                                       *)
(***************************************************************************)
EXTENDS Confirmation, TLAPS

(***************************************************************************)
(* A request that has picked a command refers to a row that exists.        *)
(***************************************************************************)
HasCommand(c) == chat[c].pc \in {"confirm", "mark", "diagnose", "expire", "execute"}

Refers ==
  \A c \in Chats : HasCommand(c) =>
    /\ chat[c].id \in Commands
    /\ stored[chat[c].id].status # "unborn"

LEMMA AnyUserType == AnyUser \in Users
  BY ConfirmationAssumption DEF AnyUser

LEMMA IdleChatType ==
  IdleChat \in ChatState /\ IdleChat.pc = "idle" /\ IdleChat.copy = NoCopy
  BY AnyUserType, ConfirmationAssumption DEF IdleChat, NewChat, ChatState, NoCopy, Times

LEMMA NewChatType ==
  ASSUME NEW user \in Users
  PROVE  /\ NewChat(user) \in ChatState
         /\ NewChat(user).pc = "interpret" /\ NewChat(user).copy = NoCopy
  BY ConfirmationAssumption DEF NewChat, ChatState, NoCopy, Times

(***************************************************************************)
(* A step that leaves the rows alone, and in which one request goes on     *)
(* with the command it has or drops it, keeps Refers.                      *)
(***************************************************************************)
LEMMA RefersKept ==
  ASSUME TypeOK, Refers, NEW c \in Chats, NEW x \in ChatState,
         chat' = [chat EXCEPT ![c] = x],
         \A k \in Commands : stored'[k].status = "unborn" => stored[k].status = "unborn",
         \/ x.pc \in {"idle", "interpret", "offer", "latest"}
         \/ x.id \in Commands /\ stored[x.id].status # "unborn"
  PROVE  Refers'
  BY DEF Refers, HasCommand, TypeOK, ChatState

LEMMA MarkExpiredType ==
  ASSUME TypeOK
  PROVE  /\ MarkExpired(clock) \in [Commands -> PendingConfirmation]
         /\ \A k \in Commands : /\ MarkExpired(clock)[k].user = stored[k].user
                                /\ MarkExpired(clock)[k].status = stored[k].status
                                     \/ /\ stored[k].status = "PENDING"
                                        /\ MarkExpired(clock)[k].status = "EXPIRED"
  BY DEF MarkExpired, PastTTL, TypeOK, PendingConfirmation, Status

(***************************************************************************)
(* Every variable keeps its type.                                          *)
(***************************************************************************)
LEMMA TypeAndRefers == Spec => [](TypeOK /\ Refers)
<1>1. Init => TypeOK /\ Refers
  BY AnyUserType, IdleChatType, ConfirmationAssumption
  DEF Init, TypeOK, Times, PendingConfirmation, Refers, HasCommand
<1>2. TypeOK /\ Refers /\ [Next]_vars => TypeOK' /\ Refers'
  <2> SUFFICES ASSUME TypeOK, Refers, [Next]_vars PROVE TypeOK' /\ Refers'
    OBVIOUS
  <2> USE ConfirmationAssumption
  <2>1. CASE AdvanceClock
    BY <2>1 DEF AdvanceClock, TypeOK, Times, Refers, HasCommand
  <2>2. ASSUME NEW c \in Chats, Receive(c) PROVE TypeOK' /\ Refers'
    <3>1. PICK user \in Users : chat' = [chat EXCEPT ![c] = NewChat(user)]
      BY <2>2 DEF Receive
    <3>2. TypeOK'
      BY <2>2, <3>1, NewChatType, MarkExpiredType DEF Receive, TypeOK
    <3>3. Refers'
      BY <2>2, <3>1, NewChatType, MarkExpiredType, RefersKept DEF Receive
    <3>. QED
      BY <3>2, <3>3
  <2>3. ASSUME NEW c \in Chats, Interpret(c) PROVE TypeOK' /\ Refers'
    <3>1. PICK x \in ChatState :
            /\ chat' = [chat EXCEPT ![c] = x]
            /\ \/ x.pc \in {"idle", "interpret", "offer", "latest"}
               \/ x.id \in Commands /\ stored[x.id].status # "unborn"
      <4>1. CASE chat' = [chat EXCEPT ![c] = IdleChat]
        BY <4>1, IdleChatType
      <4>2. ASSUME NEW pc \in {"offer", "latest"}, chat' = [chat EXCEPT ![c].pc = pc]
            PROVE  \E x \in ChatState :
                     /\ chat' = [chat EXCEPT ![c] = x]
                     /\ \/ x.pc \in {"idle", "interpret", "offer", "latest"}
                        \/ x.id \in Commands /\ stored[x.id].status # "unborn"
        <5> DEFINE y == [chat[c] EXCEPT !.pc = pc]
        <5>1. y \in ChatState /\ y.pc = pc
          BY DEF TypeOK, ChatState
        <5>2. chat' = [chat EXCEPT ![c] = y]
          BY <4>2 DEF TypeOK, ChatState
        <5>. QED
          BY <5>1, <5>2
      <4>4. ASSUME NEW k \in Commands, stored[k].status # "unborn",
                   chat' = [chat EXCEPT ![c].pc = "confirm", ![c].id = k]
            PROVE  \E x \in ChatState :
                     /\ chat' = [chat EXCEPT ![c] = x]
                     /\ \/ x.pc \in {"idle", "interpret", "offer", "latest"}
                        \/ x.id \in Commands /\ stored[x.id].status # "unborn"
        <5> DEFINE y == [chat[c] EXCEPT !.pc = "confirm", !.id = k]
        <5>1. y \in ChatState /\ y.id = k
          BY DEF TypeOK, ChatState
        <5>2. chat' = [chat EXCEPT ![c] = y]
          BY <4>4 DEF TypeOK, ChatState
        <5>. QED
          BY <5>1, <5>2, <4>4
      <4>. QED
        BY <2>3, <4>1, <4>2, <4>4 DEF Interpret
    <3>. QED
      BY <2>3, <3>1, RefersKept DEF Interpret, TypeOK
  <2>4. ASSUME NEW c \in Chats, OfferCommand(c) PROVE TypeOK' /\ Refers'
    <3>1. TypeOK'
      BY <2>4, IdleChatType DEF OfferCommand, TypeOK, ChatState, PendingConfirmation, Status, Times
    <3>2. \A k \in Commands : stored'[k].status = "unborn" => stored[k].status = "unborn"
      BY <2>4 DEF OfferCommand, TypeOK
    <3>. QED
      BY <2>4, <3>1, <3>2, IdleChatType, RefersKept DEF OfferCommand
  <2>5. ASSUME NEW c \in Chats, FindLatest(c) PROVE TypeOK' /\ Refers'
    <3>1. CASE chat' = [chat EXCEPT ![c] = IdleChat]
      BY <2>5, <3>1, IdleChatType, RefersKept DEF FindLatest, TypeOK
    <3>2. CASE \E k \in PendingOf(chat[c].user) :
                 chat' = [chat EXCEPT ![c].pc = "confirm", ![c].id = k, ![c].copy = "PENDING"]
      <4>1. PICK k \in PendingOf(chat[c].user) :
                   chat' = [chat EXCEPT ![c].pc = "confirm", ![c].id = k, ![c].copy = "PENDING"]
        BY <3>2
      <4>2. k \in Commands /\ stored[k].status # "unborn"
        BY DEF PendingOf
      <4> DEFINE x == [chat[c] EXCEPT !.pc = "confirm", !.id = k, !.copy = "PENDING"]
      <4>3. x \in ChatState /\ x.id = k
        BY <4>2 DEF TypeOK, ChatState, Status
      <4>4. chat' = [chat EXCEPT ![c] = x]
        BY <4>1 DEF TypeOK, ChatState
      <4> HIDE DEF x
      <4>. QED
        BY <2>5, <4>2, <4>3, <4>4, RefersKept DEF FindLatest, TypeOK
    <3>. QED
      BY <2>5, <3>1, <3>2 DEF FindLatest
  <2>6. ASSUME NEW c \in Chats, ReadClock(c) PROVE TypeOK' /\ Refers'
    <3> DEFINE x == [chat[c] EXCEPT !.pc = "mark", !.now = clock]
    <3>a. x \in ChatState
      BY DEF TypeOK, ChatState
    <3>b. chat' = [chat EXCEPT ![c] = x]
      BY <2>6 DEF ReadClock, TypeOK, ChatState
    <3>1. chat' \in [Chats -> ChatState]
      BY <3>a, <3>b DEF TypeOK
    <3>2. TypeOK'
      BY <2>6, <3>1 DEF ReadClock, TypeOK
    <3>3. HasCommand(c) /\ \A d \in Chats : HasCommand(d)' => HasCommand(d) /\ chat'[d].id = chat[d].id
      BY <2>6 DEF ReadClock, TypeOK, ChatState, HasCommand
    <3>4. Refers'
      BY <2>6, <3>3 DEF ReadClock, Refers
    <3>. QED
      BY <3>2, <3>4
  <2>7. ASSUME NEW c \in Chats, MarkConfirmed(c) PROVE TypeOK' /\ Refers'
    <3>1. chat[c].id \in Commands
      BY <2>7 DEF MarkConfirmed, Refers, HasCommand
    <3>2. stored' \in [Commands -> PendingConfirmation]
      BY <2>7, <3>1 DEF MarkConfirmed, TypeOK, PendingConfirmation, Status
    <3>3. chat' \in [Chats -> ChatState]
      BY <2>7 DEF MarkConfirmed, TypeOK, ChatState
    <3>4. TypeOK'
      BY <2>7, <3>1, <3>2, <3>3 DEF MarkConfirmed, TypeOK, ConfirmOutcome
    <3>5. Refers'
      BY <2>7, <3>1 DEF MarkConfirmed, TypeOK, ChatState, PendingConfirmation, Refers, HasCommand
    <3>. QED
      BY <3>4, <3>5
  <2>8. ASSUME NEW c \in Chats, MissConfirmed(c) PROVE TypeOK' /\ Refers'
    <3>1. PICK copy \in Status \cup {NoCopy} :
            chat' = [chat EXCEPT ![c].pc = "diagnose", ![c].copy = copy]
      BY <2>8 DEF MissConfirmed, TypeOK, ChatState, Status
    <3> DEFINE x == [chat[c] EXCEPT !.pc = "diagnose", !.copy = copy]
    <3>2. x \in ChatState /\ x.id = chat[c].id
      BY DEF TypeOK, ChatState
    <3>3. chat' = [chat EXCEPT ![c] = x]
      BY <3>1 DEF TypeOK, ChatState
    <3>4. chat[c].id \in Commands /\ stored[chat[c].id].status # "unborn"
      BY <2>8 DEF MissConfirmed, Refers, HasCommand
    <3> HIDE DEF x
    <3>5. TypeOK'
      BY <2>8, <3>2, <3>3 DEF MissConfirmed, TypeOK
    <3>6. UNCHANGED stored
      BY <2>8 DEF MissConfirmed
    <3>7. Refers'
      BY <3>2, <3>3, <3>4, <3>6, RefersKept
    <3>. QED
      BY <3>5, <3>7
  <2>9. ASSUME NEW c \in Chats, Diagnose(c) PROVE TypeOK' /\ Refers'
    <3> DEFINE k == chat[c].id
               known == IF chat[c].copy # NoCopy THEN chat[c].copy ELSE stored[k].status
    <3>1. k \in Commands /\ known \in Status
      BY <2>9 DEF Diagnose, Refers, HasCommand, TypeOK, ChatState, PendingConfirmation, NoCopy
    <3>2. known # "PENDING" => Outcome(known) \in ConfirmOutcome
      BY <3>1 DEF Outcome, Status, ConfirmOutcome
    <3>3. told' \in [Commands -> SUBSET ConfirmOutcome]
      BY <2>9, <3>1, <3>2 DEF Diagnose, TypeOK
    <3>4. chat' = [chat EXCEPT ![c] = IdleChat] \/ chat' = [chat EXCEPT ![c].pc = "expire"]
      BY <2>9 DEF Diagnose
    <3>5. chat' \in [Chats -> ChatState] /\ Refers'
      BY <2>9, <3>4, IdleChatType DEF Diagnose, TypeOK, ChatState, Refers, HasCommand
    <3>. QED
      BY <2>9, <3>3, <3>5 DEF Diagnose, TypeOK
  <2>10. ASSUME NEW c \in Chats, WriteExpired(c) PROVE TypeOK' /\ Refers'
    <3>1. chat[c].id \in Commands /\ stored[chat[c].id].status # "unborn"
      BY <2>10 DEF WriteExpired, Refers, HasCommand
    <3>2. TypeOK'
      BY <2>10, <3>1, IdleChatType
      DEF WriteExpired, TypeOK, PendingConfirmation, Status, ConfirmOutcome
    <3>3. \A k \in Commands : stored'[k].status = "unborn" => stored[k].status = "unborn"
      BY <2>10, <3>1 DEF WriteExpired, TypeOK, PendingConfirmation
    <3>. QED
      BY <2>10, <3>2, <3>3, IdleChatType, RefersKept DEF WriteExpired
  <2>11. ASSUME NEW c \in Chats, Execute(c) PROVE TypeOK' /\ Refers'
    <3>1. PICK k \in Commands : executed' = [executed EXCEPT ![k] = executed[k] + 1]
      BY <2>11 DEF Execute, Refers, HasCommand
    <3>2. executed' \in [Commands -> Nat]
      BY <3>1 DEF TypeOK
    <3>3. chat' \in [Chats -> ChatState]
      BY <2>11, IdleChatType DEF Execute, TypeOK
    <3>4. TypeOK'
      BY <2>11, <3>2, <3>3 DEF Execute, TypeOK
    <3>. QED
      BY <2>11, <3>4, IdleChatType, RefersKept DEF Execute
  <2>12. ASSUME NEW c \in Chats, Fail(c) PROVE TypeOK' /\ Refers'
    <3>1. TypeOK'
      BY <2>12, IdleChatType DEF Fail, TypeOK
    <3>. QED
      BY <2>12, <3>1, IdleChatType, RefersKept DEF Fail
  <2>13. CASE UNCHANGED vars
    BY <2>13 DEF vars, TypeOK, Refers, HasCommand
  <2>. QED
    BY <2>1, <2>2, <2>3, <2>4, <2>5, <2>6, <2>7, <2>8, <2>9, <2>10, <2>11, <2>12, <2>13
    DEF Next, Proceed
<1>. QED
  BY <1>1, <1>2, PTL DEF Spec

(***************************************************************************)
(* Every variable keeps its type.                                          *)
(***************************************************************************)
THEOREM TypeCorrect == Spec => []TypeOK
  BY TypeAndRefers, PTL

-----------------------------------------------------------------------------
(***************************************************************************)
(* The inductive invariant.  A command that was accepted is not PENDING    *)
(* any more, so that no second request can win it; the request that won it *)
(* is the only one that may execute it, and has not done so yet; and what  *)
(* a session's identity map tells about a row that is not PENDING is true  *)
(* at least in that.                                                       *)
(***************************************************************************)
Fresh(k) == accepted[k] = 0 /\ executed[k] = 0 /\ told[k] = {}

Executing(c, k) == chat[c].pc = "execute" /\ chat[c].id = k

Claimed(k) ==
  /\ accepted[k] =< 1 /\ executed[k] =< accepted[k]
  /\ stored[k].status = "unborn" => Fresh(k)
  /\ stored[k].status = "PENDING" => Fresh(k)

Winner(c) ==
  chat[c].pc = "execute" =>
    /\ accepted[chat[c].id] = 1 /\ executed[chat[c].id] = 0
    /\ stored[chat[c].id].user = chat[c].user
    /\ \A d \in Chats \ {c} : ~Executing(d, chat[c].id)

Copied(c) ==
  chat[c].copy \notin {NoCopy, "PENDING"} =>
    chat[c].pc = "diagnose" /\ stored[chat[c].id].status # "PENDING"

OneShotInv ==
  /\ \A k \in Commands : Claimed(k)
  /\ \A c \in Chats : Winner(c) /\ Copied(c)

(***************************************************************************)
(* A step in which one request goes to a step other than "execute" and     *)
(* "diagnose", no status becomes PENDING, and the history is the same.     *)
(***************************************************************************)
LEMMA QuietStep ==
  ASSUME TypeOK, Refers, OneShotInv, NEW c \in Chats, NEW x \in ChatState,
         chat' = [chat EXCEPT ![c] = x],
         x.pc \notin {"execute", "diagnose"}, x.copy \in {NoCopy, "PENDING"},
         \A k \in Commands : /\ stored'[k].status \in {"unborn", "PENDING"} =>
                                  stored'[k].status = stored[k].status
                             /\ stored'[k].user = stored[k].user,
         UNCHANGED <<accepted, executed, told>>
  PROVE  OneShotInv'
<1>1. \A k \in Commands : Claimed(k)'
  BY DEF OneShotInv, Claimed, Fresh, TypeOK
<1>2. ASSUME NEW d \in Chats PROVE Winner(d)' /\ Copied(d)'
  <2>1. chat'[c] = x /\ (d # c => chat'[d] = chat[d])
    BY DEF TypeOK
  <2>2. CASE d = c
    BY <2>1, <2>2 DEF Winner, Copied
  <2>3. CASE d # c
    <3>1. Winner(d) /\ Copied(d)
      BY DEF OneShotInv
    <3>2. HasCommand(d) => chat[d].id \in Commands
      BY DEF Refers
    <3>3. Copied(d)'
      BY <2>1, <2>3, <3>1, <3>2 DEF Copied, HasCommand
    <3>4. Winner(d)'
      BY <2>1, <2>3, <3>1, <3>2 DEF Winner, Executing, HasCommand, TypeOK
    <3>. QED
      BY <3>3, <3>4
  <2>. QED
    BY <2>2, <2>3
<1>. QED
  BY <1>1, <1>2 DEF OneShotInv

(***************************************************************************)
(* Interpret and FindLatest only move their request.                       *)
(***************************************************************************)
Moves(c, x) ==
  /\ chat' = [chat EXCEPT ![c] = x]
  /\ x.pc \notin {"execute", "diagnose"}
  /\ x.copy \in {NoCopy, "PENDING"}

LEMMA InterpretMoves ==
  ASSUME TypeOK, OneShotInv, NEW c \in Chats, Interpret(c)
  PROVE  \E x \in ChatState : Moves(c, x)
<1> DEFINE Move(x) == Moves(c, x)
<1>0. chat[c].copy \in {NoCopy, "PENDING"}
  BY DEF Interpret, OneShotInv, Copied
<1>1. CASE chat' = [chat EXCEPT ![c] = IdleChat]
  BY <1>1, IdleChatType DEF Moves
<1>2. ASSUME NEW pc \in {"offer", "latest"}, chat' = [chat EXCEPT ![c].pc = pc]
      PROVE  \E x \in ChatState : Move(x)
  <2> DEFINE y == [chat[c] EXCEPT !.pc = pc]
  <2>1. y \in ChatState /\ y.pc = pc /\ y.copy = chat[c].copy
    BY DEF TypeOK, ChatState
  <2>2. chat' = [chat EXCEPT ![c] = y]
    BY <1>2 DEF TypeOK, ChatState
  <2> HIDE DEF y
  <2>. QED
    BY <1>0, <2>1, <2>2 DEF Moves
<1>3. ASSUME NEW k \in Commands, chat' = [chat EXCEPT ![c].pc = "confirm", ![c].id = k]
      PROVE  \E x \in ChatState : Move(x)
  <2> DEFINE y == [chat[c] EXCEPT !.pc = "confirm", !.id = k]
  <2>1. y \in ChatState /\ y.pc = "confirm" /\ y.copy = chat[c].copy
    BY DEF TypeOK, ChatState
  <2>2. chat' = [chat EXCEPT ![c] = y]
    BY <1>3 DEF TypeOK, ChatState
  <2> HIDE DEF y
  <2>. QED
    BY <1>0, <2>1, <2>2 DEF Moves
<1>. QED
  BY <1>1, <1>2, <1>3 DEF Interpret

LEMMA FindLatestMoves ==
  ASSUME TypeOK, NEW c \in Chats, FindLatest(c)
  PROVE  \E x \in ChatState : Moves(c, x)
<1>1. CASE chat' = [chat EXCEPT ![c] = IdleChat]
  BY <1>1, IdleChatType DEF Moves
<1>2. ASSUME NEW k \in PendingOf(chat[c].user),
             chat' = [chat EXCEPT ![c].pc = "confirm", ![c].id = k, ![c].copy = "PENDING"]
      PROVE  \E x \in ChatState : Moves(c, x)
  <2> DEFINE y == [chat[c] EXCEPT !.pc = "confirm", !.id = k, !.copy = "PENDING"]
  <2>1. y \in ChatState /\ y.pc = "confirm" /\ y.copy = "PENDING"
    BY DEF TypeOK, ChatState, PendingOf, Status
  <2>2. chat' = [chat EXCEPT ![c] = y]
    BY <1>2 DEF TypeOK, ChatState
  <2> HIDE DEF y
  <2>. QED
    BY <2>1, <2>2 DEF Moves
<1>. QED
  BY <1>1, <1>2 DEF FindLatest

(***************************************************************************)
(* A step that ends a request with an outcome reported for a row that is   *)
(* not PENDING any more.                                                   *)
(***************************************************************************)
LEMMA ToldStep ==
  ASSUME TypeOK, Refers, OneShotInv, NEW c \in Chats, NEW k \in Commands, NEW outcome,
         chat' = [chat EXCEPT ![c] = IdleChat],
         told' = [told EXCEPT ![k] = told[k] \cup {outcome}],
         stored'[k].status \notin {"unborn", "PENDING"}, stored'[k].user = stored[k].user,
         \A j \in Commands \ {k} : stored'[j] = stored[j],
         UNCHANGED <<accepted, executed>>
  PROVE  OneShotInv'
<1>1. \A j \in Commands : Claimed(j)'
  BY DEF OneShotInv, Claimed, Fresh, TypeOK
<1>2. chat'[c] = IdleChat /\ \A d \in Chats \ {c} : chat'[d] = chat[d]
  BY DEF TypeOK
<1>3. ASSUME NEW d \in Chats PROVE Winner(d)' /\ Copied(d)'
  <2>1. Winner(d) /\ Copied(d) /\ (HasCommand(d) => chat[d].id \in Commands)
    BY DEF OneShotInv, Refers
  <2>2. Copied(d)'
    BY <1>2, <2>1, IdleChatType DEF Copied, HasCommand
  <2>3. Winner(d)'
    BY <1>2, <2>1, IdleChatType DEF Winner, Executing, HasCommand
  <2>. QED
    BY <2>2, <2>3
<1>. QED
  BY <1>1, <1>3 DEF OneShotInv

(***************************************************************************)
(* One step per action.  Only four of them touch what OneShotInv relates:  *)
(* OfferCommand, MarkConfirmed, MissConfirmed (the copy) and Execute;      *)
(* WriteExpired and Diagnose add to what the user was told.                *)
(***************************************************************************)
LEMMA OneShotInvariant == Spec => []OneShotInv
<1>1. Init => OneShotInv
  BY IdleChatType DEF Init, OneShotInv, Claimed, Fresh, Winner, Copied
<1>2. TypeOK /\ Refers /\ OneShotInv /\ [Next]_vars => OneShotInv'
  <2> SUFFICES ASSUME TypeOK, Refers, OneShotInv, [Next]_vars PROVE OneShotInv'
    OBVIOUS
  <2>1. CASE AdvanceClock
    BY <2>1 DEF AdvanceClock, OneShotInv, Claimed, Fresh, Winner, Copied, Executing
  <2>2. ASSUME NEW c \in Chats, Receive(c) PROVE OneShotInv'
    <3>1. PICK user \in Users : chat' = [chat EXCEPT ![c] = NewChat(user)]
      BY <2>2 DEF Receive
    <3>. QED
      BY <2>2, <3>1, NewChatType, MarkExpiredType, QuietStep DEF Receive
  <2>3. ASSUME NEW c \in Chats, Interpret(c) PROVE OneShotInv'
    BY <2>3, InterpretMoves, QuietStep DEF Interpret, Moves
  <2>4. ASSUME NEW c \in Chats, OfferCommand(c) PROVE OneShotInv'
    <3>1. PICK k \in Commands :
            /\ stored[k].status = "unborn"
            /\ stored' = [stored EXCEPT ![k] =
                 [status |-> "PENDING", user |-> chat[c].user, expires_at |-> clock + TTL]]
      BY <2>4 DEF OfferCommand
    <3>2. \A j \in Commands : Claimed(j)'
      BY <2>4, <3>1 DEF OfferCommand, OneShotInv, Claimed, Fresh, TypeOK
    <3>3. ASSUME NEW d \in Chats PROVE Winner(d)' /\ Copied(d)'
      <4>1. HasCommand(d) => chat[d].id \in Commands \ {k}
        BY <3>1 DEF Refers
      <4>2. chat'[d] = chat[d] \/ chat'[d] = IdleChat
        BY <2>4 DEF OfferCommand, TypeOK
      <4>3. \A j \in Commands \ {k} : stored'[j] = stored[j]
        BY <3>1 DEF TypeOK
      <4>4. \A e \in Chats, j \in Commands : Executing(e, j)' => Executing(e, j)
        BY <2>4, IdleChatType DEF OfferCommand, Executing, TypeOK
      <4>5. Winner(d) /\ Copied(d)
        BY DEF OneShotInv
      <4>6. Winner(d)'
        BY <2>4, <4>1, <4>2, <4>3, <4>4, <4>5, IdleChatType DEF OfferCommand, Winner, HasCommand
      <4>7. Copied(d)'
        BY <2>4, <4>1, <4>2, <4>3, <4>5, IdleChatType DEF OfferCommand, Copied, HasCommand
      <4>. QED
        BY <4>6, <4>7
    <3>. QED
      BY <3>2, <3>3 DEF OneShotInv
  <2>5. ASSUME NEW c \in Chats, FindLatest(c) PROVE OneShotInv'
    BY <2>5, FindLatestMoves, QuietStep DEF FindLatest, Moves
  <2>6. ASSUME NEW c \in Chats, ReadClock(c) PROVE OneShotInv'
    BY <2>6 DEF ReadClock, TypeOK, ChatState, OneShotInv, Claimed, Fresh, Winner, Copied, Executing
  <2>7. ASSUME NEW c \in Chats, MarkConfirmed(c) PROVE OneShotInv'
    <3>1. PICK k \in Commands :
            /\ k = chat[c].id /\ stored[k].status = "PENDING" /\ stored[k].user = chat[c].user
            /\ stored' = [stored EXCEPT ![k].status = "CONFIRMED"]
            /\ accepted' = [accepted EXCEPT ![k] = accepted[k] + 1]
            /\ told' = [told EXCEPT ![k] = told[k] \cup {"CONFIRMED"}]
      BY <2>7 DEF MarkConfirmed, Live, Refers, HasCommand
    <3>2. Fresh(k)
      BY <3>1 DEF OneShotInv, Claimed
    <3>3. \A j \in Commands : Claimed(j)'
      BY <2>7, <3>1, <3>2 DEF MarkConfirmed, OneShotInv, Claimed, Fresh, TypeOK, PendingConfirmation
    <3>4. \A d \in Chats : ~Executing(d, k)
      BY <3>2 DEF OneShotInv, Winner, Executing, Fresh
    <3>5. \A d \in Chats \ {c} : chat'[d] = chat[d]
      BY <2>7 DEF MarkConfirmed, TypeOK
    <3>6. /\ chat'[c].pc = "execute" /\ chat'[c].id = k
          /\ chat'[c].user = chat[c].user /\ chat'[c].copy = chat[c].copy
      BY <2>7, <3>1 DEF MarkConfirmed, TypeOK, ChatState
    <3>7. \A j \in Commands : stored'[j].user = stored[j].user
      BY <3>1 DEF TypeOK, PendingConfirmation
    <3>8. \A j \in Commands : stored'[j].status = "PENDING" => stored[j].status = "PENDING"
      BY <3>1 DEF TypeOK, PendingConfirmation
    <3>9. Winner(c)' /\ Copied(c)'
      <4>1. accepted'[k] = 1 /\ executed'[k] = 0
        BY <2>7, <3>1, <3>2 DEF MarkConfirmed, Fresh, TypeOK
      <4>2. Copied(c)'
        BY <2>7, <3>6 DEF MarkConfirmed, OneShotInv, Copied
      <4>. QED
        BY <4>1, <4>2, <3>1, <3>4, <3>5, <3>6, <3>7 DEF Winner, Executing
    <3>10. ASSUME NEW d \in Chats \ {c} PROVE Winner(d)' /\ Copied(d)'
      <4>1. Winner(d) /\ Copied(d)
        BY DEF OneShotInv
      <4>2. HasCommand(d) => chat[d].id \in Commands
        BY DEF Refers
      <4>3. Copied(d)'
        BY <4>1, <4>2, <3>5, <3>8 DEF Copied, HasCommand
      <4>4. chat[d].pc = "execute" => chat[d].id # k
        BY <3>4 DEF Executing
      <4>5. Winner(d)'
        BY <2>7, <4>1, <4>2, <4>4, <3>1, <3>5, <3>6, <3>7
        DEF MarkConfirmed, Winner, Executing, HasCommand, TypeOK
      <4>. QED
        BY <4>3, <4>5
    <3>. QED
      BY <3>3, <3>9, <3>10 DEF OneShotInv
  <2>8. ASSUME NEW c \in Chats, MissConfirmed(c) PROVE OneShotInv'
    <3> DEFINE k == chat[c].id
    <3>1. k \in Commands /\ ~Live(stored[k].status, stored[k], chat[c].user, chat[c].now)
      BY <2>8 DEF MissConfirmed, Refers, HasCommand
    <3>2. \A d \in Chats \ {c} : chat'[d] = chat[d]
      BY <2>8 DEF MissConfirmed, TypeOK
    <3>3. /\ chat'[c].pc = "diagnose" /\ chat'[c].id = k
          /\ chat'[c].copy = IF Live(chat[c].copy, stored[k], chat[c].user, chat[c].now)
                               THEN "CONFIRMED" ELSE chat[c].copy
      BY <2>8 DEF MissConfirmed, TypeOK, ChatState
    <3>4. chat[c].copy \in {NoCopy, "PENDING"}
      BY <2>8 DEF MissConfirmed, OneShotInv, Copied
    <3>5. Copied(c)'
      BY <2>8, <3>1, <3>3, <3>4 DEF MissConfirmed, Copied, Live, NoCopy
    <3>6. \A j \in Commands : Claimed(j)'
      BY <2>8 DEF MissConfirmed, OneShotInv, Claimed, Fresh
    <3>7. ASSUME NEW d \in Chats PROVE Winner(d)'
      <4>1. CASE d = c
        BY <3>3, <4>1 DEF Winner, Executing
      <4>2. CASE d # c
        <5>1. chat'[d] = chat[d]
          BY <3>2, <4>2
        <5>2. Winner(d) /\ UNCHANGED <<accepted, executed, stored>>
          BY <2>8 DEF MissConfirmed, OneShotInv
        <5>3. \A e \in Chats, j \in Commands \cup {-1} : Executing(e, j)' => Executing(e, j)
          BY <3>2, <3>3 DEF Executing
        <5>4. chat[d].id \in Commands \cup {-1}
          BY DEF TypeOK, ChatState
        <5>. QED
          BY <5>1, <5>2, <5>3, <5>4 DEF Winner
      <4>. QED
        BY <4>1, <4>2
    <3>8. ASSUME NEW d \in Chats \ {c} PROVE Copied(d)'
      BY <2>8, <3>2 DEF MissConfirmed, OneShotInv, Copied
    <3>. QED
      BY <3>5, <3>6, <3>7, <3>8 DEF OneShotInv
  <2>9. ASSUME NEW c \in Chats, Diagnose(c) PROVE OneShotInv'
    <3> DEFINE k == chat[c].id
               known == IF chat[c].copy # NoCopy THEN chat[c].copy ELSE stored[k].status
    <3>1. k \in Commands /\ stored[k].status # "unborn"
      BY <2>9 DEF Diagnose, Refers, HasCommand
    <3>2. CASE UNCHANGED told /\ chat' = [chat EXCEPT ![c] = IdleChat]
      BY <2>9, <3>2, IdleChatType, QuietStep DEF Diagnose
    <3>3. CASE known = "PENDING" /\ UNCHANGED told /\ chat' = [chat EXCEPT ![c].pc = "expire"]
      <4> DEFINE y == [chat[c] EXCEPT !.pc = "expire"]
      <4>1. y \in ChatState /\ y.pc = "expire" /\ y.copy = chat[c].copy
        BY DEF TypeOK, ChatState
      <4>2. chat' = [chat EXCEPT ![c] = y]
        BY <3>3 DEF TypeOK, ChatState
      <4>3. chat[c].copy \in {NoCopy, "PENDING"}
        BY <3>3
      <4> HIDE DEF y
      <4>. QED
        BY <2>9, <3>3, <4>1, <4>2, <4>3, QuietStep DEF Diagnose
    <3>4. CASE /\ known # "PENDING" /\ chat' = [chat EXCEPT ![c] = IdleChat]
               /\ told' = [told EXCEPT ![k] = told[k] \cup {Outcome(known)}]
      <4>1. stored[k].status # "PENDING"
        BY <3>4 DEF OneShotInv, Copied
      <4>. QED
        BY <2>9, <3>1, <3>4, <4>1, ToldStep DEF Diagnose
    <3>. QED
      BY <2>9, <3>2, <3>3, <3>4 DEF Diagnose
  <2>10. ASSUME NEW c \in Chats, WriteExpired(c) PROVE OneShotInv'
    <3>1. PICK k \in Commands :
            /\ stored[k].status # "unborn"
            /\ stored' = [stored EXCEPT ![k].status = "EXPIRED"]
            /\ told' = [told EXCEPT ![k] = told[k] \cup {"EXPIRED"}]
      BY <2>10 DEF WriteExpired, Refers, HasCommand
    <3>2. /\ stored'[k].status = "EXPIRED" /\ stored'[k].user = stored[k].user
          /\ \A j \in Commands \ {k} : stored'[j] = stored[j]
      BY <3>1 DEF TypeOK, PendingConfirmation
    <3>. QED
      BY <2>10, <3>1, <3>2, ToldStep DEF WriteExpired
  <2>11. ASSUME NEW c \in Chats, Execute(c) PROVE OneShotInv'
    <3>1. PICK k \in Commands :
            /\ k = chat[c].id
            /\ executed' = [executed EXCEPT ![k] = executed[k] + 1]
      BY <2>11 DEF Execute, Refers, HasCommand
    <3>2. /\ accepted[k] = 1 /\ executed[k] = 0
          /\ \A d \in Chats \ {c} : ~Executing(d, k)
      BY <2>11, <3>1 DEF Execute, OneShotInv, Winner
    <3>3. executed'[k] = 1 /\ \A j \in Commands \ {k} : executed'[j] = executed[j]
      BY <3>1, <3>2 DEF TypeOK
    <3>4. ASSUME NEW j \in Commands PROVE Claimed(j)'
      BY <2>11, <3>2, <3>3 DEF Execute, OneShotInv, Claimed, Fresh
    <3>5. chat'[c] = IdleChat /\ \A d \in Chats \ {c} : chat'[d] = chat[d]
      BY <2>11 DEF Execute, TypeOK
    <3>6. Winner(c)' /\ Copied(c)'
      BY <3>5, IdleChatType DEF Winner, Copied
    <3>7. ASSUME NEW d \in Chats \ {c} PROVE Winner(d)' /\ Copied(d)'
      <4>1. Winner(d) /\ Copied(d)
        BY DEF OneShotInv
      <4>2. Copied(d)'
        BY <2>11, <3>5, <4>1 DEF Execute, Copied
      <4>3. CASE chat[d].pc = "execute"
        <5>1. chat[d].id \in Commands \ {k}
          BY <3>2, <4>3 DEF Executing, Refers, HasCommand
        <5>2. \A e \in Chats : Executing(e, chat[d].id)' => Executing(e, chat[d].id)
          BY <3>5, IdleChatType DEF Executing
        <5>. QED
          BY <2>11, <3>3, <3>5, <4>1, <4>2, <5>1, <5>2 DEF Execute, Winner, Executing
      <4>4. CASE chat[d].pc # "execute"
        BY <3>5, <4>2, <4>4 DEF Winner
      <4>. QED
        BY <4>3, <4>4
    <3>. QED
      BY <3>4, <3>6, <3>7 DEF OneShotInv
  <2>12. ASSUME NEW c \in Chats, Fail(c) PROVE OneShotInv'
    BY <2>12, IdleChatType, QuietStep DEF Fail
  <2>13. CASE UNCHANGED vars
    BY <2>13 DEF vars, OneShotInv, Claimed, Fresh, Winner, Copied, Executing
  <2>. QED
    BY <2>1, <2>2, <2>3, <2>4, <2>5, <2>6, <2>7, <2>8, <2>9, <2>10, <2>11, <2>12, <2>13
    DEF Next, Proceed
<1>. QED
  BY <1>1, <1>2, TypeAndRefers, PTL DEF Spec

(***************************************************************************)
(* However many requests confirm a command at the same time, it is         *)
(* executed at most once, and only by a request that won the confirmation. *)
(***************************************************************************)
THEOREM AtMostOnce == Spec => []ExecutedAtMostOnce
<1>1. OneShotInv => ExecutedAtMostOnce
  BY DEF OneShotInv, Claimed, ExecutedAtMostOnce
<1>. QED
  BY <1>1, OneShotInvariant, PTL

(***************************************************************************)
(* A command is only ever executed for the user it was stored for.         *)
(***************************************************************************)
THEOREM OwnerOnly == Spec => []RunsForOwner
<1>1. OneShotInv => RunsForOwner
  BY DEF OneShotInv, Winner, RunsForOwner
<1>. QED
  BY <1>1, OneShotInvariant, PTL

(***************************************************************************)
(* Once an outcome was reported for a command, no other request wins it:   *)
(* such a command is not PENDING (Claimed), which is what MarkConfirmed,   *)
(* the only step that counts an acceptance, finds in the row itself.       *)
(***************************************************************************)
THEOREM RefusalFinal == Spec => RefusalIsFinal
<1> DEFINE Kept == \A k \in Commands : told[k] # {} => accepted'[k] = accepted[k]
<1>1. TypeOK /\ OneShotInv /\ [Next]_vars => [Kept]_vars
  <2> SUFFICES ASSUME TypeOK, OneShotInv, Next PROVE Kept
    OBVIOUS
  <2>1. ASSUME NEW c \in Chats, MarkConfirmed(c) PROVE Kept
    <3>1. stored[chat[c].id].status = "PENDING"
      BY <2>1 DEF MarkConfirmed, Live
    <3>2. \A k \in Commands : told[k] # {} => k # chat[c].id
      BY <3>1 DEF OneShotInv, Claimed, Fresh
    <3>. QED
      BY <2>1, <3>2 DEF MarkConfirmed, TypeOK
  <2>2. CASE UNCHANGED accepted
    BY <2>2
  <2>3. UNCHANGED accepted \/ \E c \in Chats : MarkConfirmed(c)
    BY DEF Next, Proceed, AdvanceClock, Receive, Interpret, OfferCommand, FindLatest,
           ReadClock, MissConfirmed, Diagnose, WriteExpired, Execute, Fail
  <2>. QED
    BY <2>1, <2>2, <2>3
<1>2. Spec => [][Kept]_vars
  BY <1>1, TypeCorrect, OneShotInvariant, PTL DEF Spec
<1>. QED
  BY <1>2 DEF RefusalIsFinal

-----------------------------------------------------------------------------
(***************************************************************************)
(* What a request has concluded stays right while others go on: from the   *)
(* clock it has read, and from the row or the copy by which it is going to *)
(* take the command for expired.                                           *)
(***************************************************************************)
Over(k) == stored[k].expires_at =< clock

Taken(c) ==
  /\ stored[chat[c].id].user = chat[c].user
  /\ \/ chat[c].copy = "PENDING"
     \/ chat[c].copy = NoCopy /\ stored[chat[c].id].status = "PENDING"

Judged(c) ==
  /\ chat[c].copy # "EXPIRED"
  /\ chat[c].pc = "mark" => chat[c].now =< clock
  /\ chat[c].pc = "diagnose" /\ Taken(c) => Over(chat[c].id)
  /\ chat[c].pc = "expire" => Over(chat[c].id)

ExpiryInv == ExpiredIsTrue /\ \A c \in Chats : Judged(c)

(***************************************************************************)
(* What every step does to the rows and the clock.                         *)
(***************************************************************************)
Onward ==
  /\ clock =< clock'
  /\ \A k \in Commands : stored[k].status # "unborn" =>
       /\ stored'[k].expires_at = stored[k].expires_at
       /\ stored'[k].user = stored[k].user
       /\ stored'[k].status = "PENDING" => stored[k].status = "PENDING"

LEMMA StepsOnward ==
  ASSUME TypeOK, Refers, [Next]_vars
  PROVE  Onward
<1>1. CASE UNCHANGED stored /\ (UNCHANGED clock \/ AdvanceClock)
  BY <1>1, ConfirmationAssumption DEF Onward, AdvanceClock, TypeOK, Times
<1>2. ASSUME NEW c \in Chats, Receive(c) PROVE Onward
  BY <1>2, ConfirmationAssumption
  DEF Receive, MarkExpired, PastTTL, Onward, TypeOK, Times, PendingConfirmation
<1>3. ASSUME NEW c \in Chats, OfferCommand(c) PROVE Onward
  BY <1>3, ConfirmationAssumption DEF OfferCommand, Onward, TypeOK, Times, PendingConfirmation
<1>4. ASSUME NEW c \in Chats, MarkConfirmed(c) \/ WriteExpired(c) PROVE Onward
  BY <1>4, ConfirmationAssumption
  DEF MarkConfirmed, WriteExpired, Onward, TypeOK, Times, PendingConfirmation
<1>5. \/ UNCHANGED stored /\ (UNCHANGED clock \/ AdvanceClock)
      \/ \E c \in Chats : Receive(c) \/ OfferCommand(c) \/ MarkConfirmed(c) \/ WriteExpired(c)
  BY DEF Next, Proceed, AdvanceClock, Interpret, FindLatest, ReadClock, MissConfirmed,
         Diagnose, Execute, Fail, vars
<1>. QED
  BY <1>1, <1>2, <1>3, <1>4, <1>5

LEMMA OverKept ==
  ASSUME TypeOK, TypeOK', Onward, NEW k \in Commands, stored[k].status # "unborn", Over(k)
  PROVE  Over(k)'
  BY ConfirmationAssumption DEF Over, Onward, TypeOK, Times, PendingConfirmation

LEMMA JudgedKept ==
  ASSUME TypeOK, TypeOK', Refers, Onward, NEW d \in Chats, Judged(d), chat'[d] = chat[d]
  PROVE  Judged(d)'
<1>1. chat[d].pc = "mark" => chat[d].now =< clock'
  BY ConfirmationAssumption DEF Judged, Onward, TypeOK, ChatState, Times
<1>2. ASSUME chat[d].pc \in {"diagnose", "expire"} PROVE Judged(d)'
  <2>1. chat[d].id \in Commands /\ stored[chat[d].id].status # "unborn"
    BY <1>2 DEF Refers, HasCommand
  <2>2. Taken(d)' => Taken(d)
    BY <2>1 DEF Taken, Onward
  <2>3. Over(chat[d].id) => Over(chat[d].id)'
    BY <2>1, OverKept DEF Over
  <2>. QED
    BY <1>1, <2>2, <2>3 DEF Judged, Over
<1>. QED
  BY <1>1, <1>2 DEF Judged

(***************************************************************************)
(* The rows and answers that say expired: a step adds at most one that is  *)
(* over.                                                                   *)
(***************************************************************************)
Expired(k) == stored[k].status = "EXPIRED" \/ "EXPIRED" \in told[k]

LEMMA ExpiredKept ==
  ASSUME TypeOK, TypeOK', Onward, ExpiredIsTrue,
         \A k \in Commands : Expired(k)' => stored[k].status # "unborn" /\ (Expired(k) \/ Over(k))
  PROVE  ExpiredIsTrue'
<1>1. ASSUME NEW k \in Commands, Expired(k)' PROVE Over(k)'
  <2>1. stored[k].status # "unborn" /\ Over(k)
    BY <1>1 DEF ExpiredIsTrue, Expired, Over
  <2>. QED
    BY <2>1, OverKept
<1>. QED
  BY <1>1 DEF ExpiredIsTrue, Expired, Over

LEMMA ExpiryInvariant == Spec => []ExpiryInv
<1>1. Init => ExpiryInv
  BY IdleChatType DEF Init, ExpiryInv, ExpiredIsTrue, Judged, NoCopy
<1>2. TypeOK /\ TypeOK' /\ Refers /\ OneShotInv /\ ExpiryInv /\ [Next]_vars => ExpiryInv'
  <2> SUFFICES ASSUME TypeOK, TypeOK', Refers, OneShotInv, ExpiryInv, [Next]_vars
               PROVE  ExpiryInv'
    OBVIOUS
  <2>1. Onward
    BY StepsOnward
  <2>2. \A k \in Commands : Expired(k) => stored[k].status # "unborn"
    BY DEF OneShotInv, Claimed, Fresh, Expired
  <2>3. ExpiredIsTrue /\ \A d \in Chats : Judged(d)
    BY DEF ExpiryInv
  \* only one request moves, and it is enough that what it has next is right
  <2> DEFINE Right(c) ==
        /\ ExpiredIsTrue'
        /\ \A d \in Chats \ {c} : chat'[d] = chat[d]
        /\ Judged(c)'
  <2>4. ASSUME NEW c \in Chats, Right(c) PROVE ExpiryInv'
    BY <2>1, <2>3, <2>4, JudgedKept DEF ExpiryInv
  <2>5. ASSUME UNCHANGED <<stored, told>> PROVE ExpiredIsTrue'
    BY <2>1, <2>2, <2>3, <2>5, ExpiredKept DEF Expired
  <2>6. CASE AdvanceClock
    BY <2>1, <2>3, <2>5, <2>6, JudgedKept DEF AdvanceClock, ExpiryInv
  <2>7. ASSUME NEW c \in Chats, Receive(c) PROVE Right(c)
    <3>1. PICK user \in Users : chat' = [chat EXCEPT ![c] = NewChat(user)]
      BY <2>7 DEF Receive
    <3>2. Judged(c)' /\ \A d \in Chats \ {c} : chat'[d] = chat[d]
      BY <3>1, NewChatType DEF Judged, TypeOK, NoCopy
    <3>3. \A k \in Commands : Expired(k)' => stored[k].status # "unborn" /\ (Expired(k) \/ Over(k))
      BY <2>2, <2>7, ConfirmationAssumption
      DEF Receive, MarkExpired, PastTTL, Expired, Over, TypeOK, PendingConfirmation, Times
    <3>. QED
      BY <2>1, <2>3, <3>2, <3>3, ExpiredKept
  <2>8. ASSUME NEW c \in Chats, Interpret(c) PROVE Right(c)
    BY <2>3, <2>5, <2>8, IdleChatType DEF Interpret, Judged, NoCopy, TypeOK, ChatState
  <2>9. ASSUME NEW c \in Chats, OfferCommand(c) PROVE Right(c)
    <3>1. Judged(c)' /\ \A d \in Chats \ {c} : chat'[d] = chat[d]
      BY <2>9, IdleChatType DEF OfferCommand, Judged, TypeOK, NoCopy
    <3>2. \A k \in Commands : Expired(k)' => Expired(k)
      BY <2>9 DEF OfferCommand, Expired, TypeOK
    <3>. QED
      BY <2>1, <2>2, <2>3, <3>1, <3>2, ExpiredKept
  <2>10. ASSUME NEW c \in Chats, FindLatest(c) PROVE Right(c)
    <3>1. UNCHANGED <<clock, stored, told>>
      BY <2>10 DEF FindLatest
    <3>2. CASE chat' = [chat EXCEPT ![c] = IdleChat]
      BY <2>5, <3>1, <3>2, IdleChatType DEF Judged, NoCopy, TypeOK
    <3>3. ASSUME NEW k \in Commands,
                 chat' = [chat EXCEPT ![c].pc = "confirm", ![c].id = k, ![c].copy = "PENDING"]
          PROVE  Right(c)
      BY <2>5, <3>1, <3>3 DEF Judged, TypeOK, ChatState
    <3>. QED
      BY <2>10, <3>2, <3>3 DEF FindLatest, PendingOf
  <2>11. ASSUME NEW c \in Chats, ReadClock(c) PROVE Right(c)
    BY <2>3, <2>5, <2>11, ConfirmationAssumption DEF ReadClock, Judged, TypeOK, ChatState, Times
  <2>12. ASSUME NEW c \in Chats, MarkConfirmed(c) PROVE Right(c)
    <3>1. Judged(c)' /\ \A d \in Chats \ {c} : chat'[d] = chat[d]
      BY <2>3, <2>12 DEF MarkConfirmed, Judged, TypeOK, ChatState
    <3>2. \A k \in Commands : Expired(k)' => Expired(k)
      BY <2>12 DEF MarkConfirmed, Expired, TypeOK
    <3>. QED
      BY <2>1, <2>2, <2>3, <3>1, <3>2, ExpiredKept
  <2>13. ASSUME NEW c \in Chats, MissConfirmed(c) PROVE Right(c)
    <3> DEFINE k == chat[c].id
    <3>1. k \in Commands /\ stored[k].status # "unborn"
      BY <2>13 DEF MissConfirmed, Refers, HasCommand
    <3>2. /\ chat'[c].pc = "diagnose" /\ chat'[c].id = k /\ chat'[c].user = chat[c].user
          /\ chat'[c].copy = IF Live(chat[c].copy, stored[k], chat[c].user, chat[c].now)
                               THEN "CONFIRMED" ELSE chat[c].copy
          /\ UNCHANGED <<clock, stored>>
      BY <2>13 DEF MissConfirmed, TypeOK, ChatState
    <3>3. chat[c].now \in Int /\ stored[k].expires_at \in Int /\ clock \in Int
      <4>1. chat[c].now \in Times /\ stored[k].expires_at \in 0..(MaxTime + TTL) /\ clock \in Times
        BY <3>1 DEF TypeOK, ChatState, PendingConfirmation
      <4>. QED
        BY <4>1, ConfirmationAssumption DEF Times
    <3>4. chat[c].now =< clock
      BY <2>3, <2>13 DEF Judged, MissConfirmed
    <3>5. ASSUME Taken(c)' PROVE stored[k].expires_at =< clock
      <4>1. ~(stored[k].expires_at > chat[c].now)
        BY <2>13, <3>2, <3>5 DEF Taken, MissConfirmed, Live, NoCopy
      <4>. QED
        BY <3>3, <3>4, <4>1
    <3>6. chat'[c].copy # "EXPIRED"
      BY <2>3, <3>2 DEF Judged
    <3>7. Judged(c)'
      BY <3>2, <3>5, <3>6 DEF Judged, Over
    <3>. QED
      BY <2>5, <2>13, <3>7 DEF MissConfirmed, TypeOK
  <2>14. ASSUME NEW c \in Chats, Diagnose(c) PROVE Right(c)
    <3> DEFINE k == chat[c].id
               known == IF chat[c].copy # NoCopy THEN chat[c].copy ELSE stored[k].status
               mine == stored[k].user = chat[c].user
    <3>1. k \in Commands /\ stored[k].status # "unborn"
      BY <2>14 DEF Diagnose, Refers, HasCommand
    <3>2. Judged(c) /\ chat[c].pc = "diagnose" /\ UNCHANGED <<clock, stored>>
      BY <2>3, <2>14 DEF Diagnose
    <3>3. \A d \in Chats \ {c} : chat'[d] = chat[d]
      BY <2>14 DEF Diagnose, TypeOK
    <3>4. CASE chat' = [chat EXCEPT ![c] = IdleChat] /\ UNCHANGED told
      BY <2>5, <3>2, <3>3, <3>4, IdleChatType DEF Judged, NoCopy, TypeOK
    <3>5. CASE /\ known # "PENDING" /\ chat' = [chat EXCEPT ![c] = IdleChat]
               /\ told' = [told EXCEPT ![k] = told[k] \cup {Outcome(known)}]
      <4>1. Outcome(known) = "EXPIRED" => stored[k].status = "EXPIRED"
        BY <3>2 DEF Judged, Outcome
      <4>2. \A j \in Commands : Expired(j)' => Expired(j)
        BY <3>1, <3>2, <3>5, <4>1 DEF Expired, TypeOK
      <4>3. Judged(c)'
        BY <3>5, IdleChatType DEF Judged, NoCopy, TypeOK
      <4>. QED
        BY <2>1, <2>2, <2>3, <3>3, <4>2, <4>3, ExpiredKept
    <3>6. CASE /\ mine /\ known = "PENDING" /\ UNCHANGED told
               /\ chat' = [chat EXCEPT ![c].pc = "expire"]
      <4>1. Over(k)
        BY <3>2, <3>6 DEF Judged, Taken
      <4>2. chat'[c].pc = "expire" /\ chat'[c].id = k /\ chat'[c].copy = chat[c].copy
        BY <3>6 DEF TypeOK, ChatState
      <4>3. Judged(c)'
        BY <3>2, <4>1, <4>2 DEF Judged, Over
      <4>. QED
        BY <2>5, <3>2, <3>3, <3>6, <4>3
    <3>. QED
      BY <2>14, <3>4, <3>5, <3>6 DEF Diagnose
  <2>15. ASSUME NEW c \in Chats, WriteExpired(c) PROVE Right(c)
    <3>1. chat[c].id \in Commands /\ stored[chat[c].id].status # "unborn" /\ Over(chat[c].id)
      BY <2>3, <2>15 DEF WriteExpired, Refers, HasCommand, Judged
    <3>2. Judged(c)' /\ \A d \in Chats \ {c} : chat'[d] = chat[d]
      BY <2>15, IdleChatType DEF WriteExpired, Judged, TypeOK, NoCopy
    <3>3. \A k \in Commands : Expired(k)' => Expired(k) \/ k = chat[c].id
      BY <2>15, <3>1 DEF WriteExpired, Expired, TypeOK
    <3>. QED
      BY <2>1, <2>2, <2>3, <3>1, <3>2, <3>3, ExpiredKept
  <2>16. ASSUME NEW c \in Chats, Execute(c) \/ Fail(c) PROVE Right(c)
    BY <2>5, <2>16, IdleChatType DEF Execute, Fail, Judged, NoCopy, TypeOK
  <2>17. CASE UNCHANGED vars
    BY <2>1, <2>3, <2>5, <2>17, JudgedKept DEF vars, ExpiryInv
  <2>. QED
    BY <2>4, <2>6, <2>7, <2>8, <2>9, <2>10, <2>11, <2>12, <2>13, <2>14, <2>15, <2>16, <2>17
    DEF Next, Proceed
<1>. QED
  BY <1>1, <1>2, TypeAndRefers, OneShotInvariant, PTL DEF Spec

(***************************************************************************)
(* No row is marked EXPIRED, and nobody is told so, before the TTL of the  *)
(* command is over, whatever the request that decides so has read and      *)
(* whatever others have committed since.                                   *)
(***************************************************************************)
THEOREM ExpiryTrue == Spec => []ExpiredIsTrue
<1>1. ExpiryInv => ExpiredIsTrue
  BY DEF ExpiryInv
<1>. QED
  BY <1>1, ExpiryInvariant, PTL

-----------------------------------------------------------------------------
(***************************************************************************)
(* The stored rows and the requests implement a one-shot command.  What    *)
(* OneShotInv says of a row is what makes its phase well defined: a row    *)
(* that is offered was not accepted, one that was accepted is not offered  *)
(* again.                                                                  *)
(***************************************************************************)
PhaseStep(k, from, to) ==
  Phase(k) = from /\ Phase(k)' = to /\ \A j \in Commands \ {k} : Phase(j)' = Phase(j)

LEMMA StepImplements ==
  ASSUME NEW k \in Commands, NEW from, NEW to, PhaseStep(k, from, to)
  PROVE  Shot!Step(k, from, to)
  BY DEF PhaseStep, Shot!Step

LEMMA LapseImplements ==
  ASSUME NEW S \in SUBSET Commands,
         \A k \in S : Phase(k) = "offered" /\ Phase(k)' = "lapsed",
         \A k \in Commands \ S : Phase(k)' = Phase(k)
  PROVE  Shot!PhaseNext
<1>1. Shot!Lapse(S)
  BY DEF Shot!Lapse
<1>. QED
  BY <1>1 DEF Shot!PhaseNext

LEMMA PhasesKept ==
  ASSUME UNCHANGED <<stored, accepted, executed>>
  PROVE  UNCHANGED [k \in Commands |-> Phase(k)]
  BY DEF Phase

LEMMA ImplementsStep ==
  ASSUME TypeOK, Refers, OneShotInv, [Next]_vars
  PROVE  Shot!PhaseNext \/ UNCHANGED [k \in Commands |-> Phase(k)]
<1>1. \A k \in Commands : stored[k].status \in {"unborn", "PENDING"} => accepted[k] = 0 /\ executed[k] = 0
  BY DEF OneShotInv, Claimed, Fresh
<1>2. ASSUME NEW c \in Chats, Receive(c) PROVE Shot!PhaseNext
  <2> DEFINE S == {k \in Commands : PastTTL(stored[k], clock)}
  <2>1. /\ stored' = [k \in Commands |-> IF k \in S THEN [stored[k] EXCEPT !.status = "EXPIRED"]
                                                    ELSE stored[k]]
        /\ UNCHANGED <<accepted, executed>>
    BY <1>2 DEF Receive, MarkExpired
  <2>2. ASSUME NEW k \in S PROVE Phase(k) = "offered" /\ Phase(k)' = "lapsed"
    <3>1. stored'[k].status = "EXPIRED" /\ stored[k].status = "PENDING"
      BY <2>1 DEF TypeOK, PendingConfirmation, PastTTL
    <3>. QED
      BY <1>1, <2>1, <3>1 DEF Phase
  <2>3. \A k \in Commands \ S : Phase(k)' = Phase(k)
    BY <2>1 DEF Phase
  <2>4. S \in SUBSET Commands
    OBVIOUS
  <2> HIDE DEF S
  <2>. QED
    BY <2>2, <2>3, <2>4, LapseImplements
<1>3. ASSUME NEW c \in Chats, OfferCommand(c) PROVE Shot!PhaseNext
  <2>1. PICK k \in Commands :
          /\ stored[k].status = "unborn"
          /\ stored' = [stored EXCEPT ![k] =
               [status |-> "PENDING", user |-> chat[c].user, expires_at |-> clock + TTL]]
    BY <1>3 DEF OfferCommand
  <2>2. PhaseStep(k, "none", "offered")
    BY <1>1, <1>3, <2>1 DEF OfferCommand, TypeOK, PhaseStep, Phase
  <2>. QED
    BY <2>2, StepImplements DEF Shot!PhaseNext
<1>4. ASSUME NEW c \in Chats, MarkConfirmed(c) PROVE Shot!PhaseNext
  <2>1. PICK k \in Commands :
          /\ stored[k].status = "PENDING"
          /\ stored' = [stored EXCEPT ![k].status = "CONFIRMED"]
          /\ accepted' = [accepted EXCEPT ![k] = accepted[k] + 1]
    BY <1>4 DEF MarkConfirmed, Live, Refers, HasCommand
  <2>2. accepted'[k] = 1 /\ \A j \in Commands \ {k} : accepted'[j] = accepted[j]
    BY <1>1, <2>1 DEF TypeOK
  <2>3. PhaseStep(k, "offered", "accepted")
    BY <1>1, <1>4, <2>1, <2>2 DEF MarkConfirmed, TypeOK, PhaseStep, Phase
  <2>. QED
    BY <2>3, StepImplements DEF Shot!PhaseNext
<1>5. ASSUME NEW c \in Chats, WriteExpired(c)
      PROVE  Shot!PhaseNext \/ UNCHANGED [k \in Commands |-> Phase(k)]
  <2>1. PICK k \in Commands :
          /\ stored[k].status # "unborn"
          /\ stored' = [stored EXCEPT ![k].status = "EXPIRED"]
    BY <1>5 DEF WriteExpired, Refers, HasCommand
  <2>2. stored'[k].status = "EXPIRED" /\ \A j \in Commands \ {k} : stored'[j] = stored[j]
    BY <2>1 DEF TypeOK, PendingConfirmation
  <2>3. \A j \in Commands \ {k} : Phase(j)' = Phase(j)
    BY <1>5, <2>2 DEF WriteExpired, Phase
  <2>4. CASE stored[k].status = "PENDING"
    <3>1. Phase(k) = "offered" /\ Phase(k)' = "lapsed"
      BY <1>1, <1>5, <2>2, <2>4 DEF WriteExpired, Phase
    <3>. QED
      BY <2>3, <3>1, LapseImplements
  <2>5. CASE stored[k].status # "PENDING"
    <3>1. Phase(k)' = Phase(k)
      BY <1>5, <2>1, <2>2, <2>5 DEF WriteExpired, Phase
    <3>. QED
      BY <2>3, <3>1
  <2>. QED
    BY <2>4, <2>5
<1>6. ASSUME NEW c \in Chats, Execute(c) PROVE Shot!PhaseNext
  <2>1. PICK k \in Commands : k = chat[c].id /\ executed' = [executed EXCEPT ![k] = executed[k] + 1]
    BY <1>6 DEF Execute, Refers, HasCommand
  <2>2. accepted[k] = 1 /\ executed[k] = 0
    BY <1>6, <2>1 DEF Execute, OneShotInv, Winner
  <2>3. executed'[k] = 1 /\ \A j \in Commands \ {k} : executed'[j] = executed[j]
    BY <2>1, <2>2 DEF TypeOK
  <2>4. PhaseStep(k, "accepted", "done")
    BY <1>6, <2>2, <2>3 DEF Execute, PhaseStep, Phase
  <2>. QED
    BY <2>4, StepImplements DEF Shot!PhaseNext
<1>7. ASSUME NEW c \in Chats,
             Interpret(c) \/ FindLatest(c) \/ ReadClock(c) \/ MissConfirmed(c) \/ Diagnose(c) \/ Fail(c)
      PROVE  UNCHANGED <<stored, accepted, executed>>
  BY <1>7 DEF Interpret, FindLatest, ReadClock, MissConfirmed, Diagnose, Fail
<1>8. CASE AdvanceClock \/ UNCHANGED vars
  BY <1>8, PhasesKept DEF AdvanceClock, vars
<1>. QED
  BY <1>2, <1>3, <1>4, <1>5, <1>6, <1>7, <1>8, PhasesKept DEF Next, Proceed

(***************************************************************************)
(* Whatever requests do, and wherever they fail, a stored confirmation is  *)
(* offered once, then lapses or is accepted, and runs at most once after   *)
(* that.                                                                   *)
(***************************************************************************)
THEOREM OneShotImplemented == Spec => ImplementsOneShot
<1>1. Init => Shot!PhaseInit
  BY DEF Init, Phase, Shot!PhaseInit
<1>2. Spec => [][Shot!PhaseNext]_([k \in Commands |-> Phase(k)])
  BY ImplementsStep, TypeAndRefers, OneShotInvariant, PTL DEF Spec
<1>. QED
  BY <1>1, <1>2, PTL DEF Spec, ImplementsOneShot, Shot!OneShotSpec
=============================================================================

--------------------------- MODULE MessengerLinks ---------------------------
(***************************************************************************)
(* A messenger is bound to a profile by a token that its webhook brings    *)
(* back (src/src/integrations/integrations.service.ts), and notices go to  *)
(* the chat that is bound (messenger-delivery.service.ts).  One provider.  *)
(* A row of a connection is unique for its user, and for its chat.         *)
(***************************************************************************)
(* A definition marked "mutant" is the one below it with a mistake in it;  *)
(* it is used nowhere.                                                     *)
EXTENDS Naturals

CONSTANTS
  User,
  Chat,
  Token,  \* bounds the links ever made
  Call,   \* requests in flight
  None    \* no row

VARIABLES
  token,       \* MessengerLinkToken: the user and whether it is fresh, used or expired
  connection,  \* MessengerConnection: the row of each user
  call,        \* the state of each request in flight
  brought,     \* history: the chats a token of a user was brought back from
  given        \* history: the chats a notice of a user was sent to

vars == <<token, connection, call, brought, given>>
-----------------------------------------------------------------------------
Idle == [pc |-> "idle"]

TokenRow == [user: User, state: {"fresh", "used", "expired"}]
Row == [chat: Chat, active: BOOLEAN]

CallState ==
  {Idle}
    \cup [pc: {"bind"}, token: Token, user: User, chat: Chat]
    \cup [pc: {"unlink"}, user: User]
    \cup [pc: {"send"}, user: User, chat: Chat]

Active(u) == connection[u] # None /\ connection[u].active

Goto(h, local) == call' = [call EXCEPT ![h] = local]
Done(h) == Goto(h, Idle)

Init ==
  /\ token = [t \in Token |-> None]
  /\ connection = [u \in User |-> None]
  /\ call = [h \in Call |-> Idle]
  /\ brought = {}
  /\ given = {}
-----------------------------------------------------------------------------
CreateLink(u, t) ==
  /\ token[t] = None
  /\ token' = [token EXCEPT ![t] = [user |-> u, state |-> "fresh"]]
  /\ UNCHANGED <<connection, call, brought, given>>

Expire(t) ==
  /\ token[t] # None /\ token[t].state = "fresh"
  /\ token' = [token EXCEPT ![t].state = "expired"]
  /\ UNCHANGED <<connection, call, brought, given>>

\* The webhook: the token is looked at before the transaction.
ReadToken(h, t, c) ==
  /\ call[h] = Idle
  /\ token[t] # None /\ token[t].state = "fresh"
  /\ Goto(h, [pc |-> "bind", token |-> t, user |-> token[t].user, chat |-> c])
  /\ UNCHANGED <<token, connection, brought, given>>

\* The row of another user that holds the chat, active or not.
Holder(u, c) == {v \in User \ {u} : connection[v] # None /\ connection[v].chat = c}

BindAnyway(h) ==  \* mutant
  /\ call[h].pc = "bind"
  /\ token' = [token EXCEPT ![call[h].token].state = "used"]
  /\ connection' = [connection EXCEPT ![call[h].user] = [chat |-> call[h].chat, active |-> TRUE]]
  /\ brought' = brought \cup {<<call[h].user, call[h].chat>>}
  /\ Done(h)
  /\ UNCHANGED given

\* The transaction marks the token, revokes the holder and writes the row.  The
\* revoked row keeps its chat, the write of the other is a duplicate, and the
\* whole is rolled back.
Bind(h) ==
  /\ call[h].pc = "bind"
  /\ Holder(call[h].user, call[h].chat) = {}
  /\ token' = [token EXCEPT ![call[h].token].state = "used"]
  /\ connection' = [connection EXCEPT ![call[h].user] = [chat |-> call[h].chat, active |-> TRUE]]
  /\ brought' = brought \cup {<<call[h].user, call[h].chat>>}
  /\ Done(h)
  /\ UNCHANGED given

BindRefused(h) ==
  /\ call[h].pc = "bind"
  /\ Holder(call[h].user, call[h].chat) # {}
  /\ Done(h)
  /\ UNCHANGED <<token, connection, brought, given>>

Unlink(h, u) ==
  /\ call[h] = Idle
  /\ Active(u)
  /\ Goto(h, [pc |-> "unlink", user |-> u])
  /\ UNCHANGED <<token, connection, brought, given>>

Revoke(h) ==
  /\ call[h].pc = "unlink"
  /\ connection' = [connection EXCEPT ![call[h].user].active = FALSE]
  /\ Done(h)
  /\ UNCHANGED <<token, brought, given>>

\* A notice is sent to the chat that was bound when the row was read.
SendToUser(h, u) ==
  /\ call[h] = Idle
  /\ Active(u)
  /\ Goto(h, [pc |-> "send", user |-> u, chat |-> connection[u].chat])
  /\ UNCHANGED <<token, connection, brought, given>>

SendToChat(h) ==
  /\ call[h].pc = "send"
  /\ given' = given \cup {<<call[h].user, call[h].chat>>}
  /\ Done(h)
  /\ UNCHANGED <<token, connection, brought>>

\* The outside service, the database or the process fails.
Fail(h) ==
  /\ call[h] # Idle
  /\ Done(h)
  /\ UNCHANGED <<token, connection, brought, given>>

Step(h) ==
  \/ \E t \in Token, c \in Chat : ReadToken(h, t, c)
  \/ Bind(h) \/ BindRefused(h)
  \/ \E u \in User : Unlink(h, u) \/ SendToUser(h, u)
  \/ Revoke(h) \/ SendToChat(h) \/ Fail(h)

Next ==
  \/ \E u \in User, t \in Token : CreateLink(u, t)
  \/ \E t \in Token : Expire(t)
  \/ \E h \in Call : Step(h)
-----------------------------------------------------------------------------
(* Properties                                                               *)

\* Every variable keeps its type.
TypeOK ==
  /\ token \in [Token -> TokenRow \cup {None}]
  /\ connection \in [User -> Row \cup {None}]
  /\ call \in [Call -> CallState]
  /\ brought \subseteq User \X Chat
  /\ given \subseteq User \X Chat

\* A notice of a user goes only to a chat that brought a token of that user back, and
\* a chat that is bound is held by nobody else, not even by a revoked row: the
\* take-over at integrations.service.ts:138 cannot happen.
ChatServesOneUser ==
  /\ given \subseteq brought
  /\ \A u, v \in User :
       u # v /\ Active(u) /\ connection[v] # None => connection[v].chat # connection[u].chat
=============================================================================

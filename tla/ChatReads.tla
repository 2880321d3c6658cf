----------------------------- MODULE ChatReads ------------------------------
(***************************************************************************)
(* What one of the two participants of a dialog has read                   *)
(* (src/src/chat/chat.service.ts, chat-read.util.ts).  The row of the      *)
(* other is a copy of this one: no request changes both.                   *)
(*                                                                         *)
(* A participant has one cursor, lastReadAt: what the other one sent up to *)
(* that time counts as read.  Besides it, one message may be marked unread *)
(* (unreadAnchorMessageId), or the dialog as a whole (isMarkedUnread).     *)
(* A message gets its createdAt when the transaction that makes it inserts *)
(* it, and others see it when that transaction commits: messages may       *)
(* appear in another order than their times.                               *)
(*                                                                         *)
(* Time is a counter that every insertion moves, so no two messages have   *)
(* the same createdAt.                                                     *)
(*                                                                         *)
(* A definition marked "mutant" is one below it with a mistake in it: it   *)
(* is used nowhere, and shows that the properties tell the two apart.      *)
(***************************************************************************)
EXTENDS Naturals, FiniteSets

CONSTANTS
  MessageId, \* uuids for messages: bounds how many are sent
  Handler,   \* requests in flight: bounds the concurrency
  None       \* SQL NULL

VARIABLES
  clock,    \* the time of the last insertion
  message,  \* the Message rows
  reader,   \* the ConversationParticipant row
  handler,  \* the local state of each request in flight
  seen,     \* history: what there was to see each time the cursor was set
  raced     \* history: two requests that set the cursor have overlapped

vars == <<clock, message, reader, handler, seen, raced>>
-----------------------------------------------------------------------------
Time == 0..Cardinality(MessageId)

\* "inserted" by a transaction still open, "sent" once it is committed.
\* "own" is one the participant has sent; "hidden", one hidden for them.
MessageRow == [status: {"inserted", "sent"}, own: BOOLEAN, createdAt: Time,
               hidden: BOOLEAN]

Absent == [status |-> "absent"]

\* Removed with its last attachment; its uuid is not used again.
Removed == [status |-> "removed"]

\* A lastReadAt of 0 stands for NULL: every message is later.
ReaderRow == [lastReadAt: Time, anchor: MessageId \cup {None}, marked: BOOLEAN]

\* The messages there, and those a transaction had inserted without committing.
View == [sent: SUBSET MessageId, open: SUBSET MessageId]

Idle == [pc |-> "idle"]

HandlerState ==
  {Idle}
    \cup [pc: {"create"}, id: MessageId]
    \cup [pc: {"read"}, at: Time, saw: View]
    \cup [pc: {"unread"}, at: Time, saw: View, anchor: MessageId]
    \cup [pc: {"mark"}]

ASSUME NoneAssumption == None \notin MessageId

Sent == {m \in MessageId : message[m].status = "sent"}
Visible == {m \in Sent : ~message[m].hidden}
Incoming == {m \in Visible : ~message[m].own}

CurrentView ==
  [sent |-> Sent, open |-> {m \in MessageId : message[m].status = "inserted"}]

\* The createdAt of the last of some messages.
Latest(ms) ==
  CHOOSE t \in {message[m].createdAt : m \in ms} :
    \A m \in ms : message[m].createdAt <= t

Goto(h, local) == handler' = [handler EXCEPT ![h] = local]
Done(h) == Goto(h, Idle)

\* A request that will set the cursor is admitted.
Enter(h, local) ==
  /\ handler[h] = Idle
  /\ Goto(h, local)
  /\ raced' = (raced \/ \E g \in Handler : handler[g].pc \in {"read", "unread"})

\* What the request saw has been seen.
See(h) ==
  seen' = [sent |-> seen.sent \cup handler[h].saw.sent,
           open |-> seen.open \cup handler[h].saw.open]
-----------------------------------------------------------------------------
(* countUnreadMessages                                                      *)

CursorUnread == {m \in Incoming : message[m].createdAt > reader.lastReadAt}

\* The message marked unread counts once, whoever sent it, while it can be seen.
AnchorUnread == Visible \cap {reader.anchor}

UnreadCount == Cardinality(CursorUnread \cup AnchorUnread)

-----------------------------------------------------------------------------
Init ==
  /\ clock = 0
  /\ message = [m \in MessageId |-> Absent]
  /\ reader = [lastReadAt |-> 0, anchor |-> None, marked |-> FALSE]
  /\ handler = [h \in Handler |-> Idle]
  /\ seen = CurrentView
  /\ raced = FALSE
-----------------------------------------------------------------------------
(* POST .../messages, send_message: createMessage                           *)

CreateMessage(h, m, own) ==
  /\ handler[h] = Idle
  /\ message[m] = Absent
  /\ clock' = clock + 1
  /\ message' = [message EXCEPT ![m] = [status |-> "inserted", own |-> own,
                                        createdAt |-> clock', hidden |-> FALSE]]
  /\ Goto(h, [pc |-> "create", id |-> m])
  /\ UNCHANGED <<reader, seen, raced>>

CommitMessage(h) ==
  /\ handler[h].pc = "create"
  /\ message' = [message EXCEPT ![handler[h].id].status = "sent"]
  /\ Done(h)
  /\ UNCHANGED <<clock, reader, seen, raced>>
-----------------------------------------------------------------------------
(* mark_read, GET .../messages: markConversationAsRead                      *)

\* The latest message of the dialog, sent or received, hidden or not; now,
\* where there is none.
ReadAt == IF Sent = {} THEN clock ELSE Latest(Sent)

MarkAsRead(h) ==
  /\ Enter(h, [pc |-> "read", at |-> ReadAt, saw |-> CurrentView])
  /\ UNCHANGED <<clock, message, reader, seen>>

ReadNow(h) ==  \* mutant
  [lastReadAt |-> clock, anchor |-> None, marked |-> FALSE]

ReadRow(h) ==
  [lastReadAt |-> handler[h].at, anchor |-> None, marked |-> FALSE]

WriteRead(h) ==
  /\ handler[h].pc = "read"
  /\ reader' = ReadRow(h)
  /\ See(h)
  /\ Done(h)
  /\ UNCHANGED <<clock, message, raced>>
-----------------------------------------------------------------------------
(* markConversationUnread: one message that the participant can see.        *)

MarkUnread(h, m) ==
  /\ m \in Visible
  /\ Enter(h, [pc |-> "unread", at |-> Latest(Visible),
               saw |-> CurrentView, anchor |-> m])
  /\ UNCHANGED <<clock, message, reader, seen>>

UnreadFromAnchor(h) ==  \* mutant
  [lastReadAt |-> message[handler[h].anchor].createdAt - 1,
   anchor |-> handler[h].anchor, marked |-> FALSE]

UnreadRow(h) ==
  [lastReadAt |-> handler[h].at, anchor |-> handler[h].anchor, marked |-> FALSE]

WriteUnread(h) ==
  /\ handler[h].pc = "unread"
  /\ reader' = UnreadRow(h)
  /\ See(h)
  /\ Done(h)
  /\ UNCHANGED <<clock, message, raced>>
-----------------------------------------------------------------------------
(* markConversationDialogUnread                                             *)

MayMarkDialog == UnreadCount = 0

MarkDialogUnread(h) ==
  /\ handler[h] = Idle
  /\ MayMarkDialog
  /\ Goto(h, [pc |-> "mark"])
  /\ UNCHANGED <<clock, message, reader, seen, raced>>

WriteMark(h) ==
  /\ handler[h].pc = "mark"
  /\ reader' = [reader EXCEPT !.marked = TRUE, !.anchor = None]
  /\ Done(h)
  /\ UNCHANGED <<clock, message, seen, raced>>
-----------------------------------------------------------------------------
(* removeMessage, hideMessages: for one participant only, and for good.     *)
HideMessage(m) ==
  /\ m \in Visible
  /\ message' = [message EXCEPT ![m].hidden = TRUE]
  /\ UNCHANGED <<clock, reader, handler, seen, raced>>

\* removeAttachment: the last attachment of a message without text takes the
\* message with it.  The column of the anchor is no foreign key.
RemoveMessage(m) ==
  /\ m \in Sent
  /\ message' = [message EXCEPT ![m] = Removed]
  /\ UNCHANGED <<clock, reader, handler, seen, raced>>

Next ==
  \/ \E h \in Handler :
       \/ CommitMessage(h)
       \/ MarkAsRead(h) \/ WriteRead(h)
       \/ WriteUnread(h)
       \/ MarkDialogUnread(h) \/ WriteMark(h)
       \/ \E m \in MessageId :
            \/ MarkUnread(h, m)
            \/ \E own \in BOOLEAN : CreateMessage(h, m, own)
  \/ \E m \in MessageId : HideMessage(m) \/ RemoveMessage(m)

Spec == Init /\ [][Next]_vars
-----------------------------------------------------------------------------
(* Properties                                                               *)

\* markConversationAsRead: the cursor moves to the last message, never to the
\* present: nothing that was inserted after the request looked counts as read.
\* (What was inserted before and committed after does, unseen, if it is older
\* than the last message or the dialog was empty.)
NothingReadUnseen == Incoming \subseteq CursorUnread \cup seen.sent \cup seen.open

\* markConversationAsRead, markConversationUnread: what was there at any time the
\* cursor was set counts as read from then on, though messages are hidden and
\* removed, the last one too, unless two requests that set it overlapped: the one
\* that looked first may write last.
SeenIsRead == raced \/ CursorUnread \cap seen.sent = {}
=============================================================================

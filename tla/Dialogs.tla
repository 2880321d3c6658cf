------------------------------- MODULE Dialogs -------------------------------
(***************************************************************************)
(* The dialogs of a chat: finding or making one, hiding it, and a message  *)
(* that makes it show again (src/src/chat/chat.service.ts).                *)
(*                                                                         *)
(* No index of the database says that two profiles have one dialog.  Of    *)
(* the messages only matters who has not read one; sending them is in      *)
(* ChatMessages, reading in ChatReads.  A profile takes part in a dialog   *)
(* for good, so that assertParticipant is a guard.                         *)
(*                                                                         *)
(* A definition marked "mutant" is one below it with a mistake in it; it   *)
(* is used nowhere.                                                        *)
(***************************************************************************)
EXTENDS Naturals, FiniteSets

CONSTANTS
  Profile,
  Manager,      \* the profiles of role MANAGER
  Conversation, \* ids: bounds how many there can be
  Handler       \* requests in flight: bounds the concurrency

VARIABLES
  between, \* the participants of each: one of the notes, two of a dialog, none yet
  hidden,  \* of each, who has hiddenAt set
  unread,  \* of each, who has a message of the other to read
  knew,    \* of each, who has it hidden over a message unread or being sent
  raced,   \* participants whose dialog was looked for by two requests at once
  handler  \* the local state of each request in flight

vars == <<between, hidden, unread, knew, raced, handler>>
-----------------------------------------------------------------------------
Idle == [pc |-> "idle"]

Goto(h, local) == handler' = [handler EXCEPT ![h] = local]
Done(h) == Goto(h, Idle)

Init ==
  /\ between = [c \in Conversation |-> {}]
  /\ hidden = [c \in Conversation |-> {}]
  /\ unread = [c \in Conversation |-> {}]
  /\ knew = [c \in Conversation |-> {}]
  /\ raced = {}
  /\ handler = [h \in Handler |-> Idle]

\* The transactions that have shown a dialog and not committed yet: each holds the row
\* of the conversation, and those of the participants it shows it to.
Sending(c) == {h \in Handler : handler[h].pc = "commit" /\ handler[h].to = c}
Locked(c) == UNION {handler[h].shown : h \in Sending(c)}
-----------------------------------------------------------------------------
(* findOrCreateConversation, findOrCreateNotesConversation                  *)

FoundOpen(u, ps) == {c \in Conversation : between[c] = ps /\ u \notin hidden[c]}  \* mutant

\* findFirst
Found(u, ps) == {c \in Conversation : between[c] = ps}

MakesOne(ps) == {h \in Handler : handler[h].pc = "create" /\ handler[h].participants = ps}

FindOrCreate(h, u, v) ==
  /\ handler[h] = Idle
  /\ LET ps == {u, v}
     IN  IF Found(u, ps) # {}
         THEN \E c \in Found(u, ps) : Goto(h, [pc |-> "unhide", by |-> u, to |-> c])
         ELSE /\ u \notin Manager \/ u = v
              /\ Goto(h, [pc |-> "create", participants |-> ps])
  /\ raced' = IF MakesOne({u, v}) # {} THEN raced \cup {{u, v}} ELSE raced
  /\ UNCHANGED <<between, hidden, unread, knew>>

\* unhideConversationForUser
Unhide(h) ==
  /\ handler[h].pc = "unhide"
  /\ LET c == handler[h].to
         u == handler[h].by
     IN  /\ u \notin Locked(c)
         /\ hidden' = [hidden EXCEPT ![c] = @ \ {u}]
         /\ knew' = [knew EXCEPT ![c] = @ \ {u}]
  /\ Done(h)
  /\ UNCHANGED <<between, unread, raced>>

Create(h) ==
  /\ handler[h].pc = "create"
  /\ \E c \in Conversation :
       /\ between[c] = {}
       /\ between' = [between EXCEPT ![c] = handler[h].participants]
  /\ Done(h)
  /\ UNCHANGED <<hidden, unread, knew, raced>>
-----------------------------------------------------------------------------
\* hideConversation
HideConversation(u, c) ==
  /\ u \in between[c] \ Locked(c)
  /\ hidden' = [hidden EXCEPT ![c] = @ \cup {u}]
  /\ knew' = [knew EXCEPT ![c] = IF u \in unread[c] \/ Sending(c) # {}
                                THEN @ \cup {u} ELSE @ \ {u}]
  /\ UNCHANGED <<between, unread, raced, handler>>

\* listMessages
ListMessages(u, c) ==
  /\ u \in between[c]
  /\ unread' = [unread EXCEPT ![c] = @ \ {u}]
  /\ UNCHANGED <<between, hidden, knew, raced, handler>>
-----------------------------------------------------------------------------
(* createMessageInTransaction                                               *)

CreateMessage(h, u, c) ==
  /\ handler[h] = Idle
  /\ u \in between[c]
  /\ Goto(h, [pc |-> "show", by |-> u, to |-> c])
  /\ UNCHANGED <<between, hidden, unread, knew, raced>>

ShowsToSender(u, c) == hidden[c] \cap {u}  \* mutant

\* The rows that updateMany finds hidden.
ShowsTo(u, c) == hidden[c]

\* The conversation is written first: of two messages of one dialog the second waits.
ShowConversation(h) ==
  /\ handler[h].pc = "show"
  /\ LET c == handler[h].to
     IN  /\ Sending(c) = {}
         /\ Goto(h, [pc |-> "commit", by |-> handler[h].by, to |-> c,
                     shown |-> ShowsTo(handler[h].by, c)])
  /\ UNCHANGED <<between, hidden, unread, knew, raced>>

CommitMessage(h) ==
  /\ handler[h].pc = "commit"
  /\ LET c == handler[h].to
     IN  /\ hidden' = [hidden EXCEPT ![c] = @ \ handler[h].shown]
         /\ knew' = [knew EXCEPT ![c] = @ \ handler[h].shown]
         /\ unread' = [unread EXCEPT ![c] = @ \cup (between[c] \ {handler[h].by})]
  /\ Done(h)
  /\ UNCHANGED <<between, raced>>

\* Before the commit the transaction may be lost.
Fail(h) ==
  /\ handler[h] # Idle
  /\ Done(h)
  /\ UNCHANGED <<between, hidden, unread, knew, raced>>
-----------------------------------------------------------------------------
Request(h) ==
  \E u \in Profile :
    \/ \E v \in Profile : FindOrCreate(h, u, v)
    \/ \E c \in Conversation : CreateMessage(h, u, c)

Continue(h) == Unhide(h) \/ Create(h) \/ ShowConversation(h) \/ CommitMessage(h) \/ Fail(h)

Next ==
  \/ \E h \in Handler : Request(h) \/ Continue(h)
  \/ \E u \in Profile, c \in Conversation : HideConversation(u, c) \/ ListMessages(u, c)

Spec == Init /\ [][Next]_vars

\* listConversations
ListConversations(u) == {c \in Conversation : u \in between[c] /\ u \notin hidden[c]}

\* getUnreadCount, of dialogs rather than of messages
GetUnreadCount(u) == Cardinality({c \in ListConversations(u) : u \in unread[c]})
-----------------------------------------------------------------------------
(* Properties                                                               *)

\* The badge counts every dialog with something to read, but for those its reader has
\* hidden over it: hidden dialogs do not count (chat.service.ts:140), so a message has
\* to show its dialog again to everybody, however sending, hiding and looking for the
\* dialog overlap.
HiddenHasNothingNew ==
  \A u \in Profile :
    GetUnreadCount(u)
      = Cardinality({c \in Conversation : u \in unread[c] \ knew[c]})

\* Two profiles have one dialog, and a profile one set of notes, hidden or not, unless
\* two requests looked for it at once: nothing but the look before the insert keeps
\* it so (chat.service.ts:255, :326).
OneDialogEach ==
  \A c, d \in Conversation :
    /\ between[c] = between[d] /\ between[c] \notin raced \cup {{}}
    => c = d
=============================================================================

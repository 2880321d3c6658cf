---------------------------- MODULE TaskComments ----------------------------
(***************************************************************************)
(* The comments of one task (src/src/tasks/tasks.service.ts), their files, *)
(* the read cursors, and the room in which the two sides of the task hear  *)
(* of them (src/src/tasks/task-comments.gateway.ts).                       *)
(*                                                                         *)
(* A handler is cut at its awaits: what it read or checked before an await *)
(* may be stale after it.  A request that is refused changes nothing and   *)
(* is no action.  A comment has its createdAt before the transaction that  *)
(* makes it and its files commits, which is when others see it: comments   *)
(* may appear in another order than their times.                           *)
(*                                                                         *)
(* Time is a counter that every createdAt moves, so no two comments have   *)
(* the same.                                                               *)
(*                                                                         *)
(* A definition marked "mutant" is one below it with a mistake in it; it   *)
(* is used nowhere.                                                        *)
(***************************************************************************)
EXTENDS Naturals, FiniteSets

CONSTANTS
  Owner,      \* the profile the task belongs to
  Executor,   \* the profiles that may be its executor
  None,       \* null
  CommentId,  \* uuids: bounds how many comments are written
  File,       \* keys of objects uploaded under tasks/<id>/
  Text,       \* contents after trim
  Blank,      \* the empty content
  Handler     \* requests in flight: bounds the concurrency

ASSUME OwnerAssumption == Owner \notin Executor /\ None \notin Executor \cup {Owner}
ASSUME BlankAssumption == Blank \in Text
ASSUME NoneAssumption == None \notin CommentId

VARIABLES
  executor, \* task.executorId
  comment,  \* the TaskComment rows with their TaskCommentMedia rows
  object,   \* the objects in the storage
  pinned,   \* the comments with a TaskCommentPin row
  clock,    \* the last createdAt given
  cursor,   \* the TaskCommentReadState rows: lastReadAt, 0 for none
  heard,    \* history: the last event of each comment the room of the task was told
  handler,  \* the local state of each request in flight
  seen,     \* history: the comments a finished look-up of each reader covered
  overtaken, \* history: the times of comments that were yet to appear when such a
             \* look-up found a later one
  blind,    \* history: the readers who marked a task that had no comment
  doomed,   \* history: comments whose deletion was begun
  raced     \* history: comments two requests overlapped on, or one failed on

vars == <<executor, comment, object, pinned, clock, cursor, heard, handler,
          seen, overtaken, blind, doomed, raced>>
store == <<comment, object, pinned, clock>>
history == <<seen, overtaken, blind, doomed, raced>>
-----------------------------------------------------------------------------
User == Executor \cup {Owner}

Absent == [state |-> "absent"]

CommentRow ==
  [state: {"present", "gone"}, author: User, text: Text, media: SUBSET File,
   at: Nat, replyTo: CommentId \cup {None}]

Event == {"none", "deleted"} \cup Text

Present == {c \in CommentId : comment[c].state = "present"}
Gone == {c \in CommentId : comment[c].state = "gone"}

Idle == [pc |-> "idle"]

HandlerState ==
  {Idle}
    \cup [pc: {"reply", "insert"}, user: User, text: Text, media: SUBSET File,
          replyTo: CommentId \cup {None}]
    \cup [pc: {"commit"}, user: User, text: Text, media: SUBSET File,
          replyTo: CommentId \cup {None}, at: Nat]
    \cup [pc: {"announce"}, on: CommentId, text: Text]
    \cup [pc: {"edit", "announceEdit"}, on: CommentId, text: Text]
    \cup [pc: {"files"}, on: CommentId, left: SUBSET File]
    \cup [pc: {"announceDelete"}, on: CommentId]
    \cup [pc: {"pin"}, on: CommentId]
    \cup [pc: {"latest"}, user: User]
    \cup [pc: {"mark"}, user: User, at: Nat, saw: SUBSET CommentId, passed: SUBSET Nat]

Goto(h, local) == handler' = [handler EXCEPT ![h] = local]
Done(h) == Goto(h, Idle)

\* Requests under way that write the comment, or have yet to tell of it.
AtWork(c) ==
  {h \in Handler : /\ handler[h].pc \in {"announce", "edit", "announceEdit",
                                         "files", "announceDelete"}
                   /\ handler[h].on = c}

\* assertParticipant
Participant == {Owner, executor} \ {None}

\* resolveOtherParticipantId
Peer(u) == IF u = Owner THEN executor ELSE Owner

\* lastReadAt of the viewer and of the other side, 0 for none
LastReadAt(u) == IF u = None THEN 0 ELSE cursor[u]

\* isCommentRead: one's own by the other side's cursor, the rest by one's own.
IsRead(c, viewer) ==
  LET reader == IF comment[c].author = viewer THEN Peer(viewer) ELSE viewer
  IN  comment[c].at <= LastReadAt(reader)

\* countUnreadComments
Unread(u) == {c \in Present : comment[c].author # u /\ cursor[u] < comment[c].at}
-----------------------------------------------------------------------------
Init ==
  /\ executor \in Executor \cup {None}
  /\ comment = [c \in CommentId |-> Absent]
  /\ object = File
  /\ pinned = {}
  /\ clock = 0
  /\ cursor = [u \in User |-> 0]
  /\ heard = [c \in CommentId |-> "none"]
  /\ handler = [h \in Handler |-> Idle]
  /\ seen = [u \in User |-> {}]
  /\ overtaken = [u \in User |-> {}]
  /\ blind = {}
  /\ doomed = {}
  /\ raced = {}
-----------------------------------------------------------------------------
(* The owner gives the task to an executor, or to another one.              *)

ChangeExecutor(e) ==
  /\ e # executor
  /\ executor' = e
  /\ UNCHANGED <<store, cursor, heard, handler, history>>
-----------------------------------------------------------------------------
(* createComment                                                            *)

MayWriteAnything(text, media) == TRUE  \* mutant

MayWrite(text, media) == text # Blank \/ media # {}

\* The keys need the prefix of the task: nothing says that they are new.
CreateComment(h, u, text, media, reply) ==
  /\ handler[h] = Idle
  /\ u \in Participant
  /\ MayWrite(text, media)
  /\ Goto(h, [pc |-> IF reply = None THEN "insert" ELSE "reply",
              user |-> u, text |-> text, media |-> media, replyTo |-> reply])
  /\ UNCHANGED <<executor, store, cursor, heard, history>>

FindReply(h) ==
  /\ handler[h].pc = "reply"
  /\ IF handler[h].replyTo \in Present
     THEN Goto(h, [handler[h] EXCEPT !.pc = "insert"])
     ELSE Done(h)
  /\ UNCHANGED <<executor, store, cursor, heard, history>>

\* now(), the default of createdAt, is evaluated as the create begins.
StampComment(h) ==
  /\ handler[h].pc = "insert"
  /\ clock' = clock + 1
  /\ Goto(h, [pc |-> "commit", user |-> handler[h].user, text |-> handler[h].text,
              media |-> handler[h].media, replyTo |-> handler[h].replyTo, at |-> clock'])
  /\ UNCHANGED <<executor, comment, object, pinned, cursor, heard, history>>

\* The row and those of its files are there with the commit; other comments may
\* have been stamped and committed since.  The foreign key refuses a reply to what
\* is gone by now.
InsertComment(h, c) ==
  /\ handler[h].pc = "commit"
  /\ comment[c] = Absent
  /\ handler[h].replyTo \in Present \cup {None}
  /\ comment' = [comment EXCEPT ![c] =
       [state |-> "present", author |-> handler[h].user, text |-> handler[h].text,
        media |-> handler[h].media, at |-> handler[h].at, replyTo |-> handler[h].replyTo]]
  /\ Goto(h, [pc |-> "announce", on |-> c, text |-> handler[h].text])
  /\ UNCHANGED <<executor, object, pinned, clock, cursor, heard, history>>

InsertFails(h) ==
  /\ handler[h].pc = "commit"
  /\ handler[h].replyTo \notin Present \cup {None}
  /\ Done(h)
  /\ UNCHANGED <<executor, store, cursor, heard, history>>

Tell(c, event) == heard' = [heard EXCEPT ![c] = event]

AnnounceIfNotified(h) ==  \* mutant
  /\ handler[h].pc = "announce"
  /\ heard' \in {heard, [heard EXCEPT ![handler[h].on] = handler[h].text]}
  /\ Done(h)
  /\ UNCHANGED <<executor, store, cursor, history>>

\* The task is touched, the notifications are awaited and their errors logged;
\* only then is the room told, of the row as it was inserted.
Announce(h) ==
  /\ handler[h].pc = "announce"
  /\ Tell(handler[h].on, handler[h].text)
  /\ Done(h)
  /\ UNCHANGED <<executor, store, cursor, history>>
-----------------------------------------------------------------------------
(* updateComment: by the author, who alone may.                             *)

\* assertCanModifyComment
CanModify(c, u) == comment[c].author = u

UpdateComment(h, u, c, text) ==
  /\ handler[h] = Idle
  /\ u \in Participant
  /\ c \in Present
  /\ CanModify(c, u)
  /\ MayWrite(text, comment[c].media)
  /\ text # comment[c].text
  /\ Goto(h, [pc |-> "edit", on |-> c, text |-> text])
  /\ raced' = IF AtWork(c) = {} THEN raced ELSE raced \cup {c}
  /\ UNCHANGED <<executor, store, cursor, heard, seen, overtaken, blind, doomed>>

\* The update fails on a comment that is gone.
WriteEdit(h) ==
  /\ handler[h].pc = "edit"
  /\ LET c == handler[h].on IN
     IF c \in Present
     THEN /\ comment' = [comment EXCEPT ![c].text = handler[h].text]
          /\ Goto(h, [handler[h] EXCEPT !.pc = "announceEdit"])
     ELSE /\ UNCHANGED comment
          /\ Done(h)
  /\ UNCHANGED <<executor, object, pinned, clock, cursor, heard, history>>

AnnounceEdit(h) ==
  /\ handler[h].pc = "announceEdit"
  /\ Tell(handler[h].on, handler[h].text)
  /\ Done(h)
  /\ UNCHANGED <<executor, store, cursor, history>>
-----------------------------------------------------------------------------
(* deleteComment: the objects one by one, then the row, then the room.      *)

DeleteComment(h, u, c) ==
  /\ handler[h] = Idle
  /\ u \in Participant
  /\ c \in Present
  /\ CanModify(c, u)
  /\ Goto(h, [pc |-> "files", on |-> c, left |-> comment[c].media])
  /\ doomed' = doomed \cup {c}
  /\ raced' = IF AtWork(c) = {} THEN raced ELSE raced \cup {c}
  /\ UNCHANGED <<executor, store, cursor, heard, seen, overtaken, blind>>

DeleteFile(h, f) ==
  /\ handler[h].pc = "files"
  /\ f \in handler[h].left
  /\ object' = object \ {f}
  /\ Goto(h, [handler[h] EXCEPT !.left = @ \ {f}])
  /\ UNCHANGED <<executor, comment, pinned, clock, cursor, heard, history>>

\* The storage refuses: the comment stays, without what is deleted already.
DeleteFileFails(h) ==
  /\ handler[h].pc = "files"
  /\ handler[h].left # {}
  /\ Done(h)
  /\ UNCHANGED <<executor, store, cursor, heard, history>>

\* Pins go with their comment, answers to it forget what they answer.
RemoveRow(c) ==
  /\ comment' = [d \in CommentId |->
       IF d = c THEN [comment[c] EXCEPT !.state = "gone", !.replyTo = None]
       ELSE IF d \in Present /\ comment[d].replyTo = c
            THEN [comment[d] EXCEPT !.replyTo = None] ELSE comment[d]]
  /\ pinned' = pinned \ {c}

DeleteRowFirst(h) ==  \* mutant
  /\ handler[h].pc = "files"
  /\ LET c == handler[h].on IN
     IF c \in Present
     THEN RemoveRow(c) /\ Goto(h, [pc |-> "announceDelete", on |-> c])
     ELSE UNCHANGED <<comment, pinned>> /\ Done(h)
  /\ UNCHANGED <<executor, object, clock, cursor, heard, history>>

\* The delete fails when another has been first.
DeleteRow(h) ==
  /\ handler[h].pc = "files"
  /\ handler[h].left = {}
  /\ LET c == handler[h].on IN
     IF c \in Present
     THEN RemoveRow(c) /\ Goto(h, [pc |-> "announceDelete", on |-> c])
     ELSE UNCHANGED <<comment, pinned>> /\ Done(h)
  /\ UNCHANGED <<executor, object, clock, cursor, heard, history>>

AnnounceDelete(h) ==
  /\ handler[h].pc = "announceDelete"
  /\ Tell(handler[h].on, "deleted")
  /\ Done(h)
  /\ UNCHANGED <<executor, store, cursor, history>>
-----------------------------------------------------------------------------
(* pinComment                                                               *)

PinComment(h, u, c) ==
  /\ handler[h] = Idle
  /\ u \in Participant
  /\ c \in Present
  /\ Goto(h, [pc |-> "pin", on |-> c])
  /\ UNCHANGED <<executor, store, cursor, heard, history>>

\* The upsert; its foreign key refuses a comment that is gone.
WritePin(h) ==
  /\ handler[h].pc = "pin"
  /\ pinned' = pinned \cup ({handler[h].on} \cap Present)
  /\ Done(h)
  /\ UNCHANGED <<executor, comment, object, clock, cursor, heard, history>>

UnpinComment(u, c) ==
  /\ u \in Participant
  /\ c \in pinned
  /\ pinned' = pinned \ {c}
  /\ UNCHANGED <<executor, comment, object, clock, cursor, heard, handler, history>>
-----------------------------------------------------------------------------
(* markTaskCommentsAsRead, which listComments calls before it reads a page:  *)
(* whatever the page shows, all that there is is marked.                    *)

MarkRead(h, u) ==
  /\ handler[h] = Idle
  /\ u \in Participant
  /\ Goto(h, [pc |-> "latest", user |-> u])
  /\ UNCHANGED <<executor, store, cursor, heard, history>>

\* createdAt of the last comment; without one, the time it is.
Latest == IF Present = {} THEN clock
          ELSE CHOOSE t \in {comment[c].at : c \in Present} :
                 \A c \in Present : comment[c].at <= t

\* createdAt of the comments that are stamped and yet to be committed
OnTheirWay == {handler[g].at : g \in {h \in Handler : handler[h].pc = "commit"}}

FindLatest(h) ==
  /\ handler[h].pc = "latest"
  /\ Goto(h, [pc |-> "mark", user |-> handler[h].user, at |-> Latest, saw |-> Present,
              passed |-> {t \in OnTheirWay : t <= Latest}])
  /\ UNCHANGED <<executor, store, cursor, heard, history>>

ReadAtNow(h) == {clock}  \* mutant

\* Without a comment the time is taken when the answer arrives.
ReadAt(h) ==
  IF handler[h].saw = {} THEN handler[h].at..clock ELSE {handler[h].at}

WriteRead(h) ==
  /\ handler[h].pc = "mark"
  /\ LET u == handler[h].user IN
     /\ \E t \in ReadAt(h) : cursor' = [cursor EXCEPT ![u] = t]
     /\ seen' = [seen EXCEPT ![u] = @ \cup handler[h].saw]
     /\ overtaken' = [overtaken EXCEPT ![u] = @ \cup handler[h].passed]
     /\ blind' = IF handler[h].saw = {} THEN blind \cup {u} ELSE blind
  /\ Done(h)
  /\ UNCHANGED <<executor, store, heard, doomed, raced>>
-----------------------------------------------------------------------------
\* The process dies: what was under way is lost.
Crash ==
  /\ \E h \in Handler : handler[h] # Idle
  /\ handler' = [h \in Handler |-> Idle]
  /\ raced' = raced \cup {c \in CommentId : AtWork(c) # {}}
  /\ UNCHANGED <<executor, store, cursor, heard, seen, overtaken, blind, doomed>>

Step(h) ==
  \/ FindReply(h)
  \/ StampComment(h)
  \/ \E c \in CommentId : InsertComment(h, c)
  \/ InsertFails(h)
  \/ Announce(h)
  \/ WriteEdit(h)
  \/ AnnounceEdit(h)
  \/ \E f \in File : DeleteFile(h, f)
  \/ DeleteFileFails(h)
  \/ DeleteRow(h)
  \/ AnnounceDelete(h)
  \/ WritePin(h)
  \/ FindLatest(h)
  \/ WriteRead(h)

Request(h) ==
  \E u \in User :
    \/ \E t \in Text, m \in SUBSET File, r \in Present \cup {None} :
         CreateComment(h, u, t, m, r)
    \/ \E c \in CommentId, t \in Text : UpdateComment(h, u, c, t)
    \/ \E c \in CommentId : DeleteComment(h, u, c)
    \/ \E c \in CommentId : PinComment(h, u, c)
    \/ MarkRead(h, u)

Next ==
  \/ \E e \in Executor : ChangeExecutor(e)
  \/ \E u \in User, c \in CommentId : UnpinComment(u, c)
  \/ \E h \in Handler : Request(h) \/ Step(h)
  \/ Crash

Spec == Init /\ [][Next]_vars
-----------------------------------------------------------------------------
(* What a participant is shown beside a page of comments.                   *)

\* searchComments
SearchComments(u, found) ==
  {[comment |-> c, isRead |-> IsRead(c, u)] : c \in {d \in Present : comment[d].text \in found}}

\* listCommentAttachments
ListCommentAttachments == {p \in Present \X File : p[2] \in comment[p[1]].media}

\* listCommentPins, each with the comment it is of.
ListCommentPins == {<<c, comment[c].state>> : c \in pinned}
-----------------------------------------------------------------------------
(* Properties                                                               *)

\* No comment is empty, whatever edits of it overlap (tasks.service.ts:2744, 2896:
\* each looks at the attachments it read before it writes the text).
NoEmptyComment ==
  \A c \in Present : comment[c].text # Blank \/ comment[c].media # {}

\* A comment that is gone leaves no file and no pin behind, and one that lacks a
\* file shares it with a comment whose deletion was begun (tasks.service.ts:2945:
\* the files go first, and the first failure leaves the comment without some).
FilesGoWithComment ==
  /\ \A c \in Gone : comment[c].media \cap object = {}
  /\ \A p \in ListCommentPins : p[2] = "present"
  /\ \A a \in ListCommentAttachments :
       a[2] \in object \/ \E d \in doomed : a[2] \in comment[d].media

\* What no look-up of a participant covered is unread, for him in the count and for
\* its author in the receipt, whatever is committed between the look and the write
\* of the cursor (tasks.service.ts:2552-2562: it is the createdAt of the last comment
\* found, not the time).  Two cases are not: he marked the task when it had no comment,
\* and the comment was stamped and not committed when a look-up found a later one.
NothingReadUnseen ==
  \A u \in Participant \ blind : \A c \in Present \ seen[u] :
    comment[c].at \notin overtaken[u] =>
    /\ comment[c].author # u => c \in Unread(u)
    /\ comment[c].author = Peer(u) =>
         [comment |-> c, isRead |-> FALSE] \in SearchComments(Peer(u), Text)

\* Once no request works on a comment, the last the room heard of it is what the
\* table says, unless two requests overlapped on it or the process died
\* (tasks.service.ts:2871: whatever becomes of the notifications before).
RoomAgrees ==
  \A c \in CommentId \ raced : AtWork(c) = {} =>
    heard[c] = CASE c \in Present -> comment[c].text
                 [] c \in Gone -> "deleted"
                 [] OTHER -> "none"
=============================================================================

---------------------------- MODULE ChatMessages ----------------------------
(***************************************************************************)
(* The messages of one dialog between a company and a profile that may     *)
(* apply to its posts (src/src/chat/chat.service.ts): what a message       *)
(* consists of, the pins on it, and who may write the first one.           *)
(*                                                                         *)
(* A message is its text, of which only whether there is any matters, and  *)
(* its attachments, each a row and an object in the storage.               *)
(*                                                                         *)
(* A handler is cut at its awaits; a transaction is one step; a request    *)
(* that is refused changes nothing and is no action.                       *)
(*                                                                         *)
(* A definition marked "mutant" is one below it with a mistake in it: it   *)
(* is used nowhere, and shows that the properties tell the two apart.      *)
(***************************************************************************)
EXTENDS Naturals, FiniteSets

CONSTANTS
  Company,   \* the owner of the posts
  Applicant, \* the other participant
  MessageId, \* uuids for messages: bounds how many are sent
  Item,      \* places for attachments: bounds how many a message has
  Handler    \* requests in flight: bounds the concurrency

VARIABLES
  message,     \* the Message rows with their MessageMedia rows
  pin,         \* the MessagePin rows: the scope of each participant's pin
  file,        \* the attachments whose object is in the storage
  applied,     \* a PostApplication of the applicant to a post of the company
  handler,     \* the local state of each request in flight
  raced,       \* history: what two requests at once were about to change of a message
  interrupted  \* history: the process has died with requests in flight

vars == <<message, pin, file, applied, handler, raced, interrupted>>
-----------------------------------------------------------------------------
User == {Company, Applicant}

Scope == {"PERSONAL", "SHARED"}

MessageRow == [sender: User, text: BOOLEAN, media: SUBSET Item]

Absent == [media |-> "absent"]
Removed == [media |-> "removed"]

Idle == [pc |-> "idle"]

\* For the history, a request on its way to a message carries whether what gave
\* it the right to write may have changed.
HandlerState ==
  {Idle} \cup [pc: {"cover"}]
    \cup [pc: {"send"}, row: MessageRow, raced: BOOLEAN]
    \cup [pc: {"update"}, on: MessageId, text: BOOLEAN]
    \cup [pc: {"deleteFile", "deleteRow"}, on: MessageId, item: Item, last: BOOLEAN]
    \cup [pc: {"pin"}, on: MessageId, user: User, scope: Scope]

Sent == {m \in MessageId : message[m] \notin {Absent, Removed}}

Wrote(u) == \E m \in Sent : message[m].sender = u

IsEmpty(row) == ~row.text /\ row.media = {}

Goto(h, local) == handler' = [handler EXCEPT ![h] = local]
Done(h) == Goto(h, Idle)

Editing == {"update", "deleteFile", "deleteRow"}

\* Requests of one of these kinds at work on the message.
Contend(m, kinds) == {m} \cap {handler[h].on : h \in {g \in Handler : handler[g].pc \in kinds}}

\* The messages under way whose writers' rights have just changed.
Overtaken ==
  [h \in Handler |-> IF handler[h].pc = "send" /\ handler[h].row.sender = Applicant
                     THEN [handler[h] EXCEPT !.raced = TRUE] ELSE handler[h]]
-----------------------------------------------------------------------------
Init ==
  /\ message = [m \in MessageId |-> Absent]
  /\ pin = [m \in MessageId |-> [u \in User |-> "none"]]
  /\ file = {}
  /\ applied = FALSE
  /\ handler = [h \in Handler |-> Idle]
  /\ raced = {}
  /\ interrupted = FALSE
-----------------------------------------------------------------------------
(* Applying to a post: the application, then the cover letter, which is     *)
(* exempt from the rule below.                                              *)

Apply(h) ==
  /\ ~applied
  /\ handler[h] = Idle
  /\ applied' = TRUE
  /\ handler' = [Overtaken EXCEPT ![h] = [pc |-> "cover"]]
  /\ UNCHANGED <<message, pin, file, raced, interrupted>>

NewMessage(m, row) ==
  /\ message[m] = Absent
  /\ message' = [message EXCEPT ![m] = row]
  /\ file' = file \cup ({m} \X row.media)

SendCoverLetter(h, m) ==
  /\ handler[h].pc = "cover"
  /\ NewMessage(m, [sender |-> Applicant, text |-> TRUE, media |-> {}])
  /\ Done(h)
  /\ UNCHANGED <<pin, applied, raced, interrupted>>
-----------------------------------------------------------------------------
(* createMessage                                                            *)

MayWriteAfterAny(u) == u = Applicant /\ applied => Sent # {}  \* mutant

\* assertApplicantMayWrite: after applying, wait for the company to write.
MayWrite(u) == u = Applicant /\ applied => Wrote(Company)

\* The attachments have been uploaded before.
CreateMessage(h, row) ==
  /\ ~IsEmpty(row)
  /\ MayWrite(row.sender)
  /\ handler[h] = Idle
  /\ Goto(h, [pc |-> "send", row |-> row, raced |-> FALSE])
  /\ UNCHANGED <<message, pin, file, applied, raced, interrupted>>

InsertMessage(h, m) ==
  /\ handler[h].pc = "send"
  /\ NewMessage(m, handler[h].row)
  /\ Done(h)
  /\ UNCHANGED <<pin, applied, raced, interrupted>>
-----------------------------------------------------------------------------
(* updateMessage: by the sender, who alone may.                             *)

MayEmpty(m, text) == TRUE  \* mutant

MayUpdate(m, text) == text \/ message[m].media # {}

UpdateMessage(h, m, text) ==
  /\ m \in Sent
  /\ MayUpdate(m, text)
  /\ handler[h] = Idle
  /\ Goto(h, [pc |-> "update", on |-> m, text |-> text])
  /\ raced' = raced \cup ({"content"} \X Contend(m, Editing))
  /\ UNCHANGED <<message, pin, file, applied, interrupted>>

\* The update fails on a message that is gone.
WriteContent(h) ==
  /\ handler[h].pc = "update"
  /\ message' = IF handler[h].on \in Sent
                THEN [message EXCEPT ![handler[h].on].text = handler[h].text]
                ELSE message
  /\ Done(h)
  /\ UNCHANGED <<pin, file, applied, raced, interrupted>>
-----------------------------------------------------------------------------
(* removeAttachment: by the sender.                                         *)

\* Neither text nor another attachment would be left.
LeavesNothing(m, x) == ~message[m].text /\ message[m].media = {x}

RemoveAttachment(h, m, x) ==
  /\ m \in Sent
  /\ x \in message[m].media
  /\ handler[h] = Idle
  /\ Goto(h, [pc |-> "deleteFile", on |-> m, item |-> x, last |-> LeavesNothing(m, x)])
  /\ raced' = raced \cup ({"content"} \X Contend(m, Editing))
  /\ UNCHANGED <<message, pin, file, applied, interrupted>>

\* deleteObject succeeds, or fails and ends the request.
DeleteFile(h) ==
  /\ handler[h].pc = "deleteFile"
  /\ \/ /\ file' = file \ {<<handler[h].on, handler[h].item>>}
        /\ Goto(h, [handler[h] EXCEPT !.pc = "deleteRow"])
     \/ Done(h) /\ UNCHANGED file
  /\ UNCHANGED <<message, pin, applied, raced, interrupted>>

\* onDelete: Cascade
PinsAfter(m, gone) ==
  IF gone THEN [pin EXCEPT ![m] = [u \in User |-> "none"]] ELSE pin

\* The transaction: it fails if the row is gone, and takes the message, with
\* the pins on it, if that was found to be left with nothing.
DeleteRow(h) ==
  /\ handler[h].pc = "deleteRow"
  /\ LET m == handler[h].on
         x == handler[h].item
         gone == handler[h].last
     IN IF m \in Sent /\ x \in message[m].media
        THEN /\ message' = [message EXCEPT
                              ![m] = IF gone THEN Removed ELSE [message[m] EXCEPT !.media = @ \ {x}]]
             /\ pin' = PinsAfter(m, gone)
             /\ handler' = [(IF gone /\ message[m].sender = Company
                             THEN Overtaken ELSE handler) EXCEPT ![h] = Idle]
        ELSE Done(h) /\ UNCHANGED <<message, pin>>
  /\ UNCHANGED <<file, applied, raced, interrupted>>
-----------------------------------------------------------------------------
(* pinMessage                                                               *)

Others(m, u) == {pin[m][v] : v \in User \ {u}}

MayPin(m, u, scope) ==
  IF scope = "SHARED" THEN Others(m, u) = {"none"} ELSE "SHARED" \notin Others(m, u)

PinMessage(h, m, u, scope) ==
  /\ m \in Sent
  /\ MayPin(m, u, scope)
  /\ handler[h] = Idle
  /\ Goto(h, [pc |-> "pin", on |-> m, user |-> u, scope |-> scope])
  /\ raced' = raced \cup ({"pin"} \X Contend(m, {"pin"}))
  /\ UNCHANGED <<message, pin, file, applied, interrupted>>

\* The upsert on the unique pair fails if the message is gone.
UpsertPin(h) ==
  /\ handler[h].pc = "pin"
  /\ pin' = IF handler[h].on \in Sent
            THEN [pin EXCEPT ![handler[h].on][handler[h].user] = handler[h].scope]
            ELSE pin
  /\ Done(h)
  /\ UNCHANGED <<message, file, applied, raced, interrupted>>

\* Only one's own pin is taken off.
Unpin(m, u) ==
  /\ pin[m][u] # "none"
  /\ pin' = [pin EXCEPT ![m][u] = "none"]
  /\ UNCHANGED <<message, file, applied, handler, raced, interrupted>>
-----------------------------------------------------------------------------
(* The process dies with what was in flight.                                *)
Crash ==
  /\ \E h \in Handler : handler[h] # Idle
  /\ handler' = [h \in Handler |-> Idle]
  /\ interrupted' = TRUE
  /\ UNCHANGED <<message, pin, file, applied, raced>>

Next ==
  \/ \E h \in Handler :
       \/ Apply(h) \/ WriteContent(h) \/ DeleteFile(h) \/ DeleteRow(h) \/ UpsertPin(h)
       \/ \E row \in MessageRow : CreateMessage(h, row)
       \/ \E m \in MessageId :
            \/ SendCoverLetter(h, m) \/ InsertMessage(h, m)
            \/ \E text \in BOOLEAN : UpdateMessage(h, m, text)
            \/ \E x \in Item : RemoveAttachment(h, m, x)
            \/ \E u \in User, scope \in Scope : PinMessage(h, m, u, scope)
  \/ \E m \in MessageId, u \in User : Unpin(m, u)
  \/ Crash

Spec == Init /\ [][Next]_vars
-----------------------------------------------------------------------------
(* What a participant is shown beside the messages.                         *)

\* listMessagePins
ListMessagePins(u) ==
  {p \in Sent \X User :
     LET scope == pin[p[1]][p[2]]
     IN scope = "SHARED" \/ (p[2] = u /\ scope = "PERSONAL")}

\* listAttachments
ListAttachments == {a \in Sent \X Item : a[2] \in message[a[1]].media}
-----------------------------------------------------------------------------
(* Properties                                                               *)

\* updateMessage, removeAttachment ("a message cannot be empty"), pinMessage: a message
\* has text or an attachment, every attachment listed its object but while it is being
\* taken off, and nobody is shown a pin of one message twice, unless two requests of a
\* kind overlapped on the message, or the process died.
MessageStands ==
  /\ \A m \in Sent :
       /\ <<"content", m>> \in raced \/ ~IsEmpty(message[m])
       /\ <<"pin", m>> \in raced \/ \A u \in User :
            Cardinality({v \in User : <<m, v>> \in ListMessagePins(u)}) <= 1
  /\ interrupted \/ \A a \in ListAttachments \ file :
       \E h \in Handler : handler[h].pc = "deleteRow" /\ a = <<handler[h].on, handler[h].item>>

\* getApplicantWriteBlockReason: once applied, and but for the cover letter,
\* the applicant's messages follow one of the company's, unless the application
\* came, or the company's message went, while one was on its way.
ApplicantWaits ==
  [][\A h \in Handler :
       handler[h].pc = "send" /\ message' # message /\ handler'[h] = Idle =>
         \/ handler[h].raced
         \/ handler[h].row.sender = Company
         \/ ~applied
         \/ Wrote(Company)]_vars
=============================================================================

----------------------------- MODULE ChatProofs -----------------------------
(* Safety of the cursor of a dialog, for any number of messages and of       *)
(* requests that overlap; then of what its messages consist of, and of who   *)
(* may write them.                                                           *)
EXTENDS Chat, WellFoundedInduction, FiniteSetTheorems, TLAPS
-----------------------------------------------------------------------------
Row == [status: {"inserted", "sent"}, own: BOOLEAN, createdAt: Nat, hidden: BOOLEAN]

State ==
  {Idle}
    \cup [pc: {"create"}, id: MessageId]
    \cup [pc: {"read"}, at: Nat, saw: View]
    \cup [pc: {"unread"}, at: Nat, saw: View, anchor: MessageId]
    \cup [pc: {"mark"}]

Types ==
  /\ clock \in Nat
  /\ message \in [MessageId -> Row \cup {Absent, Removed}]
  /\ reader \in [lastReadAt: Nat, anchor: MessageId \cup {None}, marked: BOOLEAN]
  /\ handler \in [Handler -> State]
  /\ seen \in View
  /\ raced \in BOOLEAN

Live(m) == message[m].status \in {"inserted", "sent"}

\* A look at the dialog when its cursor was to be set to a time: it has whatever is not
\* later, and of what it took for sent nothing is about to appear.
Looked(at, view) ==
  /\ at <= clock
  /\ \A m \in MessageId : Live(m) /\ message[m].createdAt <= at => m \in view.sent \cup view.open
  /\ \A m \in view.sent : message[m].status \in {"sent", "removed"}

\* What can still be seen of some messages is not later than a time.
Upto(at, ms) == \A m \in ms : m \in Visible => message[m].createdAt <= at

Setting(h) == handler[h].pc \in {"read", "unread"}

\* A request that will set the cursor sets it past all that has been seen.
HandlerInv(h) ==
  /\ handler[h].pc = "create" => message[handler[h].id].status = "inserted"
  /\ Setting(h) =>
       /\ Looked(handler[h].at, handler[h].saw)
       /\ Upto(handler[h].at, handler[h].saw.sent)
       /\ raced \/ Upto(handler[h].at, seen.sent)

ReadsInv ==
  /\ Types
  /\ \A m \in MessageId : Live(m) => message[m].createdAt <= clock
  /\ \A h \in Handler : HandlerInv(h)
  /\ \A g, h \in Handler :
       g # h /\ handler[g].pc = "create" /\ handler[h].pc = "create"
         => handler[g].id # handler[h].id
  /\ Looked(reader.lastReadAt, seen)
  /\ raced \/ Upto(reader.lastReadAt, seen.sent)
  /\ raced \/ \A g, h \in Handler : Setting(g) /\ Setting(h) => g = h
-----------------------------------------------------------------------------
LEMMA StateShape ==
  ASSUME NEW c \in State
  PROVE  /\ c.pc = "create" => c.id \in MessageId
         /\ c.pc \in {"read", "unread"} => c.at \in Nat /\ c.saw \in View
         /\ c.pc = "unread" => c.anchor \in MessageId
  BY DEF State, Idle

LEMMA RowShape ==
  ASSUME Types, NEW m \in MessageId
  PROVE  /\ Live(m) => message[m] \in Row /\ message[m].createdAt \in Nat
         /\ message[m].status = "sent" => message[m].hidden \in BOOLEAN
         /\ message[m] = Absent => message[m].status = "absent"
         /\ message[m].status \in {"absent", "inserted", "sent", "removed"}
  BY DEF Types, Row, Absent, Removed, Live

\* Some sent messages, if there is one, have a last one.
LEMMA LatestIsLast ==
  ASSUME ReadsInv, NEW ms \in SUBSET Sent, ms # {}
  PROVE  /\ Latest(ms) \in Nat /\ Latest(ms) <= clock
         /\ \A m \in ms : message[m].createdAt <= Latest(ms)
<1> DEFINE Times == {message[m].createdAt : m \in ms}
           Ages == {clock - t : t \in Times}
<1>1. \A t \in Times : t \in Nat /\ t <= clock
  BY RowShape DEF ReadsInv, Sent, Live
<1>2. Ages \subseteq Nat /\ Ages # {}
  BY <1>1 DEF ReadsInv, Types
<1>3. PICK a \in Ages : \A b \in Ages : ~ (<<b, a>> \in OpToRel(<, Nat))
  <2> HIDE DEF Ages
  <2> QED
    BY <1>2, WFMin, NatLessThanWellFounded
<1>4. \A b \in Ages : a <= b
  <2> HIDE DEF Ages
  <2>1. \A b \in Ages : ~(b < a)
    BY <1>2, <1>3, Zenon DEF OpToRel
  <2> QED
    BY <1>2, <2>1
<1>5. PICK t \in Times : a = clock - t
  OBVIOUS
<1>6. \A s \in Times : s <= t
  <2> SUFFICES ASSUME NEW s \in Times PROVE s <= t
    OBVIOUS
  <2>1. clock - s \in Ages
    OBVIOUS
  <2>2. clock - t <= clock - s
    BY <1>4, <1>5, <2>1
  <2> QED
    BY <1>1, <2>2 DEF ReadsInv, Types
<1>7. Latest(ms) \in Times /\ \A m \in ms : message[m].createdAt <= Latest(ms)
  <2>1. \E s \in Times : \A m \in ms : message[m].createdAt <= s
    BY <1>6
  <2> QED
    BY <2>1 DEF Latest
<1> QED
  BY <1>1, <1>7

\* A message is inserted later than all before, and then only goes on: it is sent,
\* hidden, removed.  What has been looked at stays so.
GoesOn(m) ==
  /\ Live(m)' => \/ Live(m) /\ message'[m].createdAt = message[m].createdAt
                 \/ message[m].status = "absent" /\ message'[m].createdAt > clock
  /\ message[m].status \in {"sent", "removed"} =>
       /\ message'[m].status \in {"sent", "removed"}
       /\ m \in Visible' => m \in Visible

LEMMA LookKept ==
  ASSUME ReadsInv, Types', clock <= clock', \A m \in MessageId : GoesOn(m),
         NEW at \in Nat, NEW view \in View, Looked(at, view)
  PROVE  /\ Looked(at, view)'
         /\ \A t \in Nat : Upto(t, view.sent) => Upto(t, view.sent)'
<1>1. clock \in Nat /\ clock' \in Nat /\ view.sent \subseteq MessageId
  BY DEF ReadsInv, Types, View
<1>2. ASSUME NEW m \in MessageId, Live(m)', message'[m].createdAt <= at
      PROVE  m \in view.sent \cup view.open
  <2>1. message'[m].createdAt \in Nat
    BY <1>2, RowShape DEF Types, Row, Live, Absent, Removed
  <2>2. Live(m) /\ message[m].createdAt <= at
    BY <1>1, <1>2, <2>1 DEF GoesOn, Looked
  <2> QED
    BY <2>2 DEF Looked
<1>3. \A m \in view.sent : message'[m].status \in {"sent", "removed"}
  BY <1>1 DEF GoesOn, Looked
<1>4. ASSUME NEW t \in Nat, Upto(t, view.sent), NEW m \in view.sent, m \in Visible'
      PROVE  message'[m].createdAt <= t
  <2>1. m \in MessageId /\ message[m].status \in {"sent", "removed"}
    BY <1>1 DEF Looked
  <2>2. m \in Visible /\ Live(m)'
    BY <1>4, <2>1 DEF GoesOn, Visible, Sent, Live
  <2>3. message'[m].createdAt = message[m].createdAt
    BY <2>1, <2>2 DEF GoesOn
  <2> QED
    BY <1>4, <2>2, <2>3 DEF Upto
<1>5. at <= clock'
  BY <1>1 DEF Looked
<1> QED
  BY <1>2, <1>3, <1>4, <1>5 DEF Looked, Upto

\* The messages change, and at most a request that inserts one.
LEMMA MessagesMove ==
  ASSUME ReadsInv, Types', clock <= clock', \A m \in MessageId : GoesOn(m),
         \A m \in MessageId : Live(m)' => message'[m].createdAt <= clock',
         UNCHANGED <<reader, seen, raced>>,
         \A h \in Handler : /\ Setting(h)' => handler'[h] = handler[h]
                            /\ handler'[h].pc = "create" => message'[handler'[h].id].status = "inserted",
         \A g, h \in Handler :
           g # h /\ handler'[g].pc = "create" /\ handler'[h].pc = "create"
             => handler'[g].id # handler'[h].id
  PROVE  ReadsInv'
<1>1. seen \in View /\ reader.lastReadAt \in Nat /\ Looked(reader.lastReadAt, seen)
  BY DEF ReadsInv, Types
<1>2. Looked(reader.lastReadAt, seen)'
      /\ \A t \in Nat : Upto(t, seen.sent) => Upto(t, seen.sent)'
  <2>1. ASSUME NEW at \in Nat, NEW view \in View, Looked(at, view)
        PROVE  Looked(at, view)' /\ \A t \in Nat : Upto(t, view.sent) => Upto(t, view.sent)'
    BY <2>1, LookKept
  <2> QED
    BY <1>1, <2>1
<1>3. ASSUME NEW h \in Handler PROVE HandlerInv(h)'
  <2> SUFFICES ASSUME Setting(h)'
               PROVE  /\ Looked(handler[h].at, handler[h].saw)'
                      /\ Upto(handler[h].at, handler[h].saw.sent)'
                      /\ raced \/ Upto(handler[h].at, seen.sent)'
    BY DEF HandlerInv, Setting
  <2>1. /\ handler'[h] = handler[h] /\ Setting(h)
        /\ handler[h].at \in Nat /\ handler[h].saw \in View
    BY StateShape DEF ReadsInv, Types, Setting
  <2>2. /\ Looked(handler[h].at, handler[h].saw)
        /\ Upto(handler[h].at, handler[h].saw.sent)
        /\ raced \/ Upto(handler[h].at, seen.sent)
    BY <2>1 DEF ReadsInv, HandlerInv
  <2>3. /\ Looked(handler[h].at, handler[h].saw)'
        /\ Upto(handler[h].at, handler[h].saw.sent)'
    <3>1. ASSUME NEW at \in Nat, NEW view \in View, Looked(at, view), Upto(at, view.sent)
          PROVE  Looked(at, view)' /\ Upto(at, view.sent)'
      BY <3>1, LookKept
    <3> QED
      BY <2>1, <2>2, <3>1
  <2>4. raced \/ Upto(handler[h].at, seen.sent)'
    BY <1>2, <2>1, <2>2
  <2> QED
    BY <2>1, <2>3, <2>4
<1>4. \A g, h \in Handler : Setting(g)' /\ Setting(h)' => Setting(g) /\ Setting(h)
  BY DEF Setting
<1>5. raced' \/ Upto(reader.lastReadAt, seen.sent)'
  BY <1>1, <1>2 DEF ReadsInv
<1> QED
  BY <1>2, <1>3, <1>4, <1>5 DEF ReadsInv

\* One request goes on to something else.
LEMMA OneGoesOn ==
  ASSUME Types, NEW h \in Handler, NEW c \in State, Goto(h, c)
  PROVE  /\ handler' \in [Handler -> State] /\ handler'[h] = c
         /\ \A g \in Handler \ {h} : handler'[g] = handler[g]
  BY DEF Types, Goto

LEMMA CreateInv ==
  ASSUME ReadsInv, NEW h \in Handler, NEW m \in MessageId, NEW own \in BOOLEAN,
         CreateMessage(h, m, own)
  PROVE  ReadsInv'
<1> DEFINE row == [status |-> "inserted", own |-> own, createdAt |-> clock + 1, hidden |-> FALSE]
<1>1. clock \in Nat /\ clock' = clock + 1 /\ row \in Row /\ message' = [message EXCEPT ![m] = row]
  BY DEF CreateMessage, ReadsInv, Types, Row
<1>2. [pc |-> "create", id |-> m] \in State
  BY DEF State
<1>3. /\ handler' \in [Handler -> State] /\ handler'[h] = [pc |-> "create", id |-> m]
      /\ \A g \in Handler \ {h} : handler'[g] = handler[g]
  BY <1>2, OneGoesOn DEF CreateMessage, ReadsInv
<1>4. row.status = "inserted" /\ row.createdAt = clock + 1
  OBVIOUS
<1> HIDE DEF row
<1>5. message'[m] = row /\ message[m].status = "absent"
      /\ \A n \in MessageId \ {m} : message'[n] = message[n]
  BY <1>1 DEF CreateMessage, ReadsInv, Types, Absent
<1>6. Types'
  <2>1. clock' \in Nat
    BY <1>1
  <2>2. message' \in [MessageId -> Row \cup {Absent, Removed}]
    BY <1>1 DEF ReadsInv, Types
  <2>3. UNCHANGED <<reader, seen, raced>>
    BY DEF CreateMessage
  <2> QED
    BY <1>3, <2>1, <2>2, <2>3 DEF ReadsInv, Types
<1>7. ASSUME NEW n \in MessageId PROVE GoesOn(n)
  BY <1>1, <1>4, <1>5 DEF GoesOn, Live, Visible, Sent
<1>8. ASSUME NEW n \in MessageId, Live(n)' PROVE message'[n].createdAt <= clock'
  <2>1. CASE n = m
    BY <1>1, <1>4, <1>5, <2>1
  <2>2. CASE n # m
    <3>1. Live(n) /\ message'[n] = message[n]
      BY <1>5, <1>8, <2>2 DEF Live
    <3>2. message[n].createdAt \in Nat /\ message[n].createdAt <= clock
      BY <3>1, RowShape DEF ReadsInv
    <3> QED
      BY <1>1, <3>1, <3>2
  <2> QED
    BY <2>1, <2>2
<1>9. ASSUME NEW g \in Handler, g # h, handler'[g].pc = "create"
      PROVE  handler[g].id \in MessageId /\ handler[g].id # m
             /\ message[handler[g].id].status = "inserted"
  BY <1>3, <1>5, <1>9, StateShape DEF ReadsInv, Types, HandlerInv
<1>10. \A g \in Handler : /\ Setting(g)' => handler'[g] = handler[g]
                          /\ handler'[g].pc = "create" => message'[handler'[g].id].status = "inserted"
  BY <1>3, <1>4, <1>5, <1>9 DEF Setting
<1>11. \A f, g \in Handler :
         f # g /\ handler'[f].pc = "create" /\ handler'[g].pc = "create"
           => handler'[f].id # handler'[g].id
  BY <1>3, <1>9 DEF ReadsInv
<1>12. clock <= clock' /\ UNCHANGED <<reader, seen, raced>>
  BY <1>1 DEF CreateMessage
<1> QED
  BY <1>6, <1>7, <1>8, <1>10, <1>11, <1>12, MessagesMove

\* A row that stays live keeps its time; one that is gone has none.
LEMMA OneMoves ==
  ASSUME ReadsInv, NEW m \in MessageId, NEW row \in Row \cup {Removed},
         message' = [message EXCEPT ![m] = row],
         \/ message[m].status = "inserted" /\ row.status = "sent"
         \/ message[m].status = "sent" /\ row.status \in {"sent", "removed"}
              /\ (row.status = "sent" /\ ~row.hidden => m \in Visible),
         row.status = "sent" => row.createdAt = message[m].createdAt,
         handler' \in [Handler -> State],
         \A h \in Handler :
           \/ handler'[h] = handler[h]
           \/ handler'[h] = Idle /\ handler[h].pc = "create" /\ handler[h].id = m,
         message[m].status = "inserted" => \E h \in Handler :
           handler'[h] = Idle /\ handler[h].pc = "create" /\ handler[h].id = m,
         UNCHANGED <<clock, reader, seen, raced>>
  PROVE  ReadsInv'
<1>1. /\ message'[m] = row /\ Live(m)
      /\ \A n \in MessageId \ {m} : message'[n] = message[n]
  BY DEF ReadsInv, Types, Live
<1>2. Types'
  BY DEF ReadsInv, Types
<1>3. ASSUME NEW n \in MessageId PROVE GoesOn(n)
  BY <1>1 DEF GoesOn, Live, Visible, Sent, Removed
<1>4. ASSUME NEW n \in MessageId, Live(n)' PROVE message'[n].createdAt <= clock'
  BY <1>1, <1>4 DEF ReadsInv, Live, Row, Removed
<1>5. ASSUME NEW g \in Handler, handler'[g].pc = "create"
      PROVE  handler'[g] = handler[g] /\ message'[handler'[g].id].status = "inserted"
  <2>1. handler'[g] = handler[g] /\ handler[g].pc = "create" /\ handler[g].id \in MessageId
        /\ message[handler[g].id].status = "inserted"
    BY <1>5, StateShape DEF ReadsInv, Types, HandlerInv, Idle
  <2>2. handler[g].id # m
    BY <1>5, <2>1 DEF ReadsInv, Idle
  <2> QED
    BY <1>1, <2>1, <2>2
<1>6. \A g \in Handler : Setting(g)' => handler'[g] = handler[g]
  BY DEF Setting, Idle
<1>7. \A f, g \in Handler :
        f # g /\ handler'[f].pc = "create" /\ handler'[g].pc = "create"
          => handler'[f].id # handler'[g].id
  BY <1>5 DEF ReadsInv
<1>8. clock <= clock'
  BY DEF ReadsInv, Types
<1> QED
  BY <1>2, <1>3, <1>4, <1>5, <1>6, <1>7, <1>8, MessagesMove

LEMMA CommitInv == ASSUME ReadsInv, NEW h \in Handler, CommitMessage(h) PROVE ReadsInv'
<1> DEFINE m == handler[h].id
           row == [message[m] EXCEPT !.status = "sent"]
<1>1. m \in MessageId /\ handler[h].pc = "create" /\ message[m].status = "inserted"
  BY StateShape DEF CommitMessage, ReadsInv, Types, HandlerInv
<1>2. message[m] \in Row
  BY <1>1, RowShape DEF ReadsInv, Live
<1>3. row \in Row /\ row.status = "sent" /\ row.createdAt = message[m].createdAt
  BY <1>2 DEF Row
<1>4. message' = [message EXCEPT ![m] = row]
  BY <1>1 DEF CommitMessage, ReadsInv, Types
<1>5. /\ handler' \in [Handler -> State] /\ handler'[h] = Idle
      /\ \A g \in Handler \ {h} : handler'[g] = handler[g]
  BY OneGoesOn DEF CommitMessage, Done, ReadsInv, State
<1>6. UNCHANGED <<clock, reader, seen, raced>>
  BY DEF CommitMessage
<1>7. \A g \in Handler :
        \/ handler'[g] = handler[g]
        \/ handler'[g] = Idle /\ handler[g].pc = "create" /\ handler[g].id = m
  BY <1>1, <1>5
<1>8. handler'[h] = Idle /\ handler[h].pc = "create" /\ handler[h].id = m
  BY <1>1, <1>5
<1> HIDE DEF m, row
<1> QED
  BY <1>1, <1>3, <1>4, <1>5, <1>6, <1>7, <1>8, OneMoves

LEMMA HideInv == ASSUME ReadsInv, NEW m \in MessageId, HideMessage(m) PROVE ReadsInv'
<1> DEFINE row == [message[m] EXCEPT !.hidden = TRUE]
<1>1. message[m] \in Row /\ message[m].status = "sent" /\ m \in Visible
  BY RowShape DEF HideMessage, Visible, Sent, Live, ReadsInv
<1>2. row \in Row /\ row.status = "sent" /\ row.createdAt = message[m].createdAt
  BY <1>1 DEF Row
<1>3. message' = [message EXCEPT ![m] = row] /\ UNCHANGED <<clock, reader, handler, seen, raced>>
  BY DEF HideMessage, ReadsInv, Types
<1>4. handler' \in [Handler -> State]
  BY <1>3 DEF ReadsInv, Types
<1> HIDE DEF row
<1> QED
  BY <1>1, <1>2, <1>3, <1>4, OneMoves

LEMMA RemoveInv == ASSUME ReadsInv, NEW m \in MessageId, RemoveMessage(m) PROVE ReadsInv'
<1>1. message[m].status = "sent" /\ Removed.status = "removed" /\ Removed \in Row \cup {Removed}
  BY DEF RemoveMessage, Sent, Removed
<1>2. message' = [message EXCEPT ![m] = Removed] /\ UNCHANGED <<clock, reader, handler, seen, raced>>
  BY DEF RemoveMessage
<1>3. handler' \in [Handler -> State]
  BY <1>2 DEF ReadsInv, Types
<1> QED
  BY <1>1, <1>2, <1>3, OneMoves
-----------------------------------------------------------------------------
\* A request that will set the cursor to a time enters: it has looked at all there is,
\* and none of what can be seen is later.
LEMMA EnterInv ==
  ASSUME ReadsInv, NEW h \in Handler, NEW c \in State, Enter(h, c),
         c.pc \in {"read", "unread"}, c.at <= clock, c.saw = CurrentView,
         Upto(c.at, MessageId), UNCHANGED <<clock, message, reader, seen>>
  PROVE  ReadsInv'
<1>1. /\ handler' \in [Handler -> State] /\ handler'[h] = c
      /\ \A g \in Handler \ {h} : handler'[g] = handler[g]
  BY OneGoesOn DEF Enter, ReadsInv
<1>2. raced' \in BOOLEAN /\ (raced => raced')
      /\ (raced' \/ \A g \in Handler : ~Setting(g))
  BY DEF Enter, Setting, ReadsInv, Types
<1>3. Types'
  BY <1>1, <1>2 DEF ReadsInv, Types
<1>4. c.saw.sent = Sent /\ c.saw.open = {m \in MessageId : message[m].status = "inserted"}
  BY DEF CurrentView
<1>5. Looked(c.at, c.saw) /\ Upto(c.at, c.saw.sent) /\ Upto(c.at, seen.sent)
  <2>1. Sent \subseteq MessageId /\ seen.sent \subseteq MessageId
    BY DEF Sent, ReadsInv, Types, View
  <2> QED
    BY <1>4, <2>1 DEF Looked, Upto, Live, Sent
<1>6. ASSUME NEW g \in Handler PROVE HandlerInv(g)'
  <2>1. CASE g = h
    BY <1>1, <1>5, <2>1 DEF HandlerInv, Setting, Looked, Upto, Live, Visible, Sent
  <2>2. CASE g # h
    BY <1>1, <1>2, <2>2 DEF ReadsInv, HandlerInv, Setting, Looked, Upto, Live, Visible, Sent
  <2> QED
    BY <2>1, <2>2
<1>7. Looked(reader.lastReadAt, seen)' /\ (raced' \/ Upto(reader.lastReadAt, seen.sent)')
  BY <1>2 DEF ReadsInv, Looked, Upto, Live, Visible, Sent
<1>8. raced' \/ \A f, g \in Handler : Setting(f)' /\ Setting(g)' => f = g
  BY <1>1, <1>2 DEF Setting
<1>9. \A f, g \in Handler :
        f # g /\ handler'[f].pc = "create" /\ handler'[g].pc = "create"
          => handler'[f].id # handler'[g].id
  BY <1>1 DEF ReadsInv
<1>10. \A m \in MessageId : Live(m)' => message'[m].createdAt <= clock'
  BY DEF ReadsInv, Live
<1> QED
  BY <1>3, <1>6, <1>7, <1>8, <1>9, <1>10 DEF ReadsInv

LEMMA ViewIsView == ASSUME Types PROVE CurrentView \in View
  BY DEF CurrentView, View, Sent

LEMMA MarkAsReadInv == ASSUME ReadsInv, NEW h \in Handler, MarkAsRead(h) PROVE ReadsInv'
<1> DEFINE c == [pc |-> "read", at |-> ReadAt, saw |-> CurrentView]
<1>1. ReadAt \in Nat /\ ReadAt <= clock /\ \A m \in Sent : message[m].createdAt <= ReadAt
  <2>1. CASE Sent = {}
    BY <2>1 DEF ReadAt, ReadsInv, Types
  <2>2. CASE Sent # {}
    <3>1. ReadAt = Latest(Sent) /\ Sent \in SUBSET Sent
      BY <2>2 DEF ReadAt
    <3> QED
      BY <2>2, <3>1, LatestIsLast
  <2> QED
    BY <2>1, <2>2
<1>2. c \in State /\ c.pc = "read" /\ c.at = ReadAt /\ c.saw = CurrentView
  BY <1>1, ViewIsView DEF ReadsInv, State
<1>3. Upto(ReadAt, MessageId)
  BY <1>1 DEF Upto, Visible
<1>4. Enter(h, c) /\ UNCHANGED <<clock, message, reader, seen>>
  BY DEF MarkAsRead
<1> HIDE DEF c
<1> QED
  BY <1>1, <1>2, <1>3, <1>4, EnterInv

LEMMA MarkUnreadInv ==
  ASSUME ReadsInv, NEW h \in Handler, NEW m \in MessageId, MarkUnread(h, m)
  PROVE  ReadsInv'
<1> DEFINE at == Latest(Visible)
           c == [pc |-> "unread", at |-> at, saw |-> CurrentView, anchor |-> m]
<1>1. at \in Nat /\ at <= clock /\ \A n \in Visible : message[n].createdAt <= at
  <2>1. Visible \in SUBSET Sent /\ Visible # {}
    BY DEF MarkUnread, Visible
  <2> QED
    BY <2>1, LatestIsLast
<1>2. Enter(h, c) /\ UNCHANGED <<clock, message, reader, seen>>
  BY DEF MarkUnread
<1> HIDE DEF at
<1>3. c \in State /\ c.pc = "unread" /\ c.at = at /\ c.saw = CurrentView
  BY <1>1, ViewIsView DEF ReadsInv, State
<1>4. Upto(at, MessageId)
  BY <1>1 DEF Upto
<1> HIDE DEF c
<1> QED
  BY <1>1, <1>2, <1>3, <1>4, EnterInv

\* The cursor is set to what the request has looked at.
LEMMA WriteInv ==
  ASSUME ReadsInv, NEW h \in Handler, Setting(h), See(h), Done(h),
         reader' \in [lastReadAt: Nat, anchor: MessageId \cup {None}, marked: BOOLEAN],
         reader'.lastReadAt = handler[h].at, UNCHANGED <<clock, message, raced>>
  PROVE  ReadsInv'
<1> DEFINE at == handler[h].at
           saw == handler[h].saw
<1>1. /\ handler' \in [Handler -> State] /\ handler'[h] = Idle
      /\ \A g \in Handler \ {h} : handler'[g] = handler[g]
  BY OneGoesOn DEF Done, ReadsInv, State
<1>2. at \in Nat /\ saw \in View /\ seen \in View
  BY StateShape DEF Setting, ReadsInv, Types
<1>3. Looked(at, saw) /\ Upto(at, saw.sent) /\ (raced \/ Upto(at, seen.sent))
  BY DEF ReadsInv, HandlerInv
<1>4. seen'.sent = seen.sent \cup saw.sent /\ seen'.open = seen.open \cup saw.open
      /\ seen' \in View
  BY <1>2 DEF See, View
<1>5. reader'.lastReadAt = at
  OBVIOUS
<1> HIDE DEF at, saw
<1>6. Types'
  BY <1>1, <1>4 DEF ReadsInv, Types
<1>7. Looked(reader.lastReadAt, seen)'
  BY <1>3, <1>4, <1>5 DEF ReadsInv, Looked, Live
<1>8. raced' \/ Upto(reader.lastReadAt, seen.sent)'
  BY <1>3, <1>4, <1>5 DEF Upto, Visible, Sent
<1>9. ASSUME NEW g \in Handler PROVE HandlerInv(g)'
  <2>1. CASE g = h
    BY <1>1, <2>1 DEF HandlerInv, Setting, Idle
  <2>2. CASE g # h
    <3>1. Setting(g) => raced
      BY <2>2 DEF ReadsInv
    <3> QED
      BY <1>1, <2>2, <3>1 DEF ReadsInv, HandlerInv, Setting, Looked, Upto, Live, Visible, Sent
  <2> QED
    BY <2>1, <2>2
<1>10. raced' \/ \A f, g \in Handler : Setting(f)' /\ Setting(g)' => f = g
  BY <1>1 DEF ReadsInv, Setting, Idle
<1>11. \A f, g \in Handler :
         f # g /\ handler'[f].pc = "create" /\ handler'[g].pc = "create"
           => handler'[f].id # handler'[g].id
  BY <1>1 DEF ReadsInv, Idle
<1>12. \A m \in MessageId : Live(m)' => message'[m].createdAt <= clock'
  BY DEF ReadsInv, Live
<1> QED
  BY <1>6, <1>7, <1>8, <1>9, <1>10, <1>11, <1>12 DEF ReadsInv

\* The dialog as a whole is marked: the cursor stays.
LEMMA MarkInv ==
  ASSUME ReadsInv, NEW h \in Handler, NEW c \in State, c.pc \in {"mark", "idle"}, Goto(h, c),
         reader' \in [lastReadAt: Nat, anchor: MessageId \cup {None}, marked: BOOLEAN],
         reader'.lastReadAt = reader.lastReadAt, UNCHANGED <<clock, message, seen, raced>>
  PROVE  ReadsInv'
<1>1. /\ handler' \in [Handler -> State] /\ handler'[h] = c
      /\ \A g \in Handler \ {h} : handler'[g] = handler[g]
  BY OneGoesOn DEF ReadsInv
<1>2. Types'
  BY <1>1 DEF ReadsInv, Types
<1>3. ASSUME NEW g \in Handler PROVE HandlerInv(g)'
  BY <1>1 DEF ReadsInv, HandlerInv, Setting, Looked, Upto, Live, Visible, Sent
<1>4. Looked(reader.lastReadAt, seen)' /\ (raced' \/ Upto(reader.lastReadAt, seen.sent)')
  BY DEF ReadsInv, Looked, Upto, Live, Visible, Sent
<1>5. raced' \/ \A f, g \in Handler : Setting(f)' /\ Setting(g)' => f = g
  BY <1>1 DEF ReadsInv, Setting
<1>6. \A f, g \in Handler :
        f # g /\ handler'[f].pc = "create" /\ handler'[g].pc = "create"
          => handler'[f].id # handler'[g].id
  BY <1>1 DEF ReadsInv
<1>7. \A m \in MessageId : Live(m)' => message'[m].createdAt <= clock'
  BY DEF ReadsInv, Live
<1> QED
  BY <1>2, <1>3, <1>4, <1>5, <1>6, <1>7 DEF ReadsInv
-----------------------------------------------------------------------------
LEMMA InitInv == Init => ReadsInv
<1> SUFFICES ASSUME Init PROVE ReadsInv
  OBVIOUS
<1>1. \A m \in MessageId : message[m].status = "absent"
  BY DEF Init, Absent
<1>2. Sent = {} /\ seen.sent = {}
  BY <1>1 DEF Init, Sent, CurrentView
<1>3. Types
  <2>1. CurrentView \in View
    BY DEF CurrentView, View, Sent
  <2> QED
    BY <2>1 DEF Init, Types, State
<1>4. Looked(reader.lastReadAt, seen) /\ Upto(reader.lastReadAt, seen.sent)
  BY <1>1, <1>2 DEF Init, Looked, Upto, Live
<1>5. \A h \in Handler : handler[h].pc = "idle"
  BY DEF Init, Idle
<1> QED
  BY <1>1, <1>3, <1>4, <1>5 DEF ReadsInv, HandlerInv, Setting, Live

LEMMA NextInv == ReadsInv /\ [Next]_vars => ReadsInv'
<1> SUFFICES ASSUME ReadsInv, [Next]_vars PROVE ReadsInv'
  OBVIOUS
<1>1. ASSUME NEW h \in Handler, WriteRead(h) PROVE ReadsInv'
  <2>1. handler[h].at \in Nat
    BY <1>1, StateShape DEF WriteRead, ReadsInv, Types
  <2>2. /\ reader' \in [lastReadAt: Nat, anchor: MessageId \cup {None}, marked: BOOLEAN]
        /\ reader'.lastReadAt = handler[h].at
    BY <1>1, <2>1 DEF WriteRead, ReadRow
  <2> QED
    BY <1>1, <2>2, WriteInv DEF WriteRead, Setting
<1>2. ASSUME NEW h \in Handler, WriteUnread(h) PROVE ReadsInv'
  <2>1. handler[h].at \in Nat /\ handler[h].anchor \in MessageId
    BY <1>2, StateShape DEF WriteUnread, ReadsInv, Types
  <2>2. /\ reader' \in [lastReadAt: Nat, anchor: MessageId \cup {None}, marked: BOOLEAN]
        /\ reader'.lastReadAt = handler[h].at
    BY <1>2, <2>1 DEF WriteUnread, UnreadRow
  <2> QED
    BY <1>2, <2>2, WriteInv DEF WriteUnread, Setting
<1>3. ASSUME NEW h \in Handler, MarkDialogUnread(h) PROVE ReadsInv'
  <2>1. [pc |-> "mark"] \in State
    BY DEF State
  <2> QED
    BY <1>3, <2>1, MarkInv DEF MarkDialogUnread, ReadsInv, Types
<1>4. ASSUME NEW h \in Handler, WriteMark(h) PROVE ReadsInv'
  <2>1. Idle \in State /\ Idle.pc = "idle"
    BY DEF State, Idle
  <2>2. /\ reader' \in [lastReadAt: Nat, anchor: MessageId \cup {None}, marked: BOOLEAN]
        /\ reader'.lastReadAt = reader.lastReadAt
    BY <1>4 DEF WriteMark, ReadsInv, Types
  <2> QED
    BY <1>4, <2>1, <2>2, MarkInv DEF WriteMark, Done
<1>5. CASE UNCHANGED vars
  BY <1>5 DEF vars, ReadsInv, Types, HandlerInv, Setting, Looked, Upto, Live, Visible, Sent
<1> QED
  BY <1>1, <1>2, <1>3, <1>4, <1>5, CommitInv, CreateInv, MarkAsReadInv, MarkUnreadInv,
     HideInv, RemoveInv DEF Next

\* The invariant holds in every state of a dialog.
THEOREM Invariance == Spec => []ReadsInv
  BY InitInv, NextInv, PTL DEF Spec

\* Whatever was inserted after a request looked at the dialog stays unread
\* (chat.service.ts:790), for any number of messages and of requests.
THEOREM NothingIsReadUnseen == Spec => []NothingReadUnseen
<1>1. ReadsInv => NothingReadUnseen
  <2> SUFFICES ASSUME ReadsInv, NEW m \in Incoming, m \notin CursorUnread
               PROVE  m \in seen.sent \cup seen.open
    BY DEF NothingReadUnseen
  <2>1. m \in MessageId /\ Live(m)
    BY DEF Incoming, Visible, Sent, Live
  <2>2. message[m].createdAt \in Nat /\ reader.lastReadAt \in Nat
        /\ ~(message[m].createdAt > reader.lastReadAt)
    BY <2>1, RowShape DEF CursorUnread, ReadsInv, Types
  <2> QED
    BY <2>1, <2>2 DEF ReadsInv, Looked
<1> QED
  BY <1>1, Invariance, PTL

\* What the cursor was once set past stays read (chat.service.ts:776, :1058), unless two
\* requests that set it overlapped, for any number of messages and of requests.
THEOREM SeenStaysRead == Spec => []SeenIsRead
<1>1. ReadsInv => SeenIsRead
  <2> SUFFICES ASSUME ReadsInv, ~raced, NEW m \in CursorUnread, m \in seen.sent PROVE FALSE
    BY DEF SeenIsRead
  <2>1. m \in MessageId /\ Live(m) /\ m \in Visible
        /\ message[m].createdAt > reader.lastReadAt
    BY DEF CursorUnread, Incoming, Visible, Sent, Live
  <2>2. message[m].createdAt \in Nat /\ reader.lastReadAt \in Nat
    BY <2>1, RowShape DEF ReadsInv, Types
  <2> QED
    BY <2>1, <2>2 DEF ReadsInv, Upto
<1> QED
  BY <1>1, Invariance, PTL
-----------------------------------------------------------------------------
(* What messages consist of, for any number of messages, attachments and     *)
(* requests: what a request found of a message is so when it writes, unless  *)
(* another was at work on the message too.                                   *)

ContentTypes ==
  /\ content \in [MessageId -> Contents!MessageRow \cup {Contents!Absent, Contents!Removed}]
  /\ pin \in [MessageId -> [Contents!User -> {"none"} \cup Contents!Scope]]
  /\ writing \in [Handler -> Contents!HandlerState]

Edits(l, m) == l.pc \in Contents!Editing /\ l.on = m
Pinning(l, m) == l.pc = "pin" /\ l.on = m

\* What a request is about to write leaves the message something.
EditFits(l) ==
  l.on \in Contents!Sent =>
    /\ l.pc = "update" => l.text \/ content[l.on].media # {}
    /\ l.pc # "update" /\ ~l.last =>
         content[l.on].text \/ content[l.on].media \ {l.item} # {}

MessagesStand ==
  \A m \in MessageId : <<"content", m>> \notin contended =>
    /\ \A g, h \in Handler : Edits(writing[g], m) /\ Edits(writing[h], m) => g = h
    /\ \A h \in Handler : Edits(writing[h], m) => EditFits(writing[h])
    /\ m \in Contents!Sent => ~Contents!IsEmpty(content[m])

\* A shared pin is the only one.
PinsApart(p) == \A u, v \in Contents!User : u # v /\ p[u] = "SHARED" => p[v] = "none"

\* What is asked of the pins of the others.
PinFits(p, u, scope) ==
  \A v \in Contents!User \ {u} :
    IF scope = "SHARED" THEN p[v] = "none" ELSE p[v] # "SHARED"

PinsStand ==
  \A m \in MessageId : <<"pin", m>> \notin contended =>
    /\ \A g, h \in Handler : Pinning(writing[g], m) /\ Pinning(writing[h], m) => g = h
    /\ \A h \in Handler : Pinning(writing[h], m) => PinFits(pin[m], writing[h].user, writing[h].scope)
    /\ PinsApart(pin[m])

\* An object that is missing is one whose row is about to go.
Dropping(a) == \E h \in Handler : writing[h].pc = "deleteRow" /\ a = <<writing[h].on, writing[h].item>>

FilesStand ==
  died \/ \A m \in Contents!Sent : \A x \in content[m].media : <<m, x>> \in file \/ Dropping(<<m, x>>)

\* A message under way has something, and its sender may write it.
SendFits(l) ==
  l.pc = "send" =>
    /\ ~Contents!IsEmpty(l.row)
    /\ l.raced \/ l.row.sender = Company \/ ~applied \/ Contents!Wrote(Company)

OnSent(l) == l.pc \in Contents!Editing \cup {"pin"} => content[l.on] # Contents!Absent

ContentInv ==
  /\ ContentTypes
  /\ MessagesStand
  /\ PinsStand
  /\ FilesStand
  /\ \A h \in Handler : SendFits(writing[h]) /\ OnSent(writing[h])

\* The shapes of a request's local state.
LEMMA WritingShapes ==
  ASSUME NEW l \in Contents!HandlerState
  PROVE  /\ l.pc \in Contents!Editing \cup {"pin"} => l.on \in MessageId
         /\ l.pc = "update" => l.text \in BOOLEAN
         /\ l.pc \in {"deleteFile", "deleteRow"} => l.item \in Item /\ l.last \in BOOLEAN
         /\ l.pc = "pin" => l.user \in Contents!User /\ l.scope \in Contents!Scope
         /\ l.pc = "send" => l.row \in Contents!MessageRow /\ l.raced \in BOOLEAN
  BY DEF Contents!HandlerState, Contents!Editing, Contents!Idle

LEMMA WritingStates ==
  /\ Contents!Idle \in Contents!HandlerState /\ Contents!Idle.pc = "idle"
  /\ [pc |-> "cover"] \in Contents!HandlerState
  /\ \A r \in Contents!MessageRow, b \in BOOLEAN :
       [pc |-> "send", row |-> r, raced |-> b] \in Contents!HandlerState
  /\ \A m \in MessageId, t \in BOOLEAN :
       [pc |-> "update", on |-> m, text |-> t] \in Contents!HandlerState
  /\ \A p \in {"deleteFile", "deleteRow"}, m \in MessageId, x \in Item, b \in BOOLEAN :
       [pc |-> p, on |-> m, item |-> x, last |-> b] \in Contents!HandlerState
  /\ \A m \in MessageId, u \in Contents!User, s \in Contents!Scope :
       [pc |-> "pin", on |-> m, user |-> u, scope |-> s] \in Contents!HandlerState
  BY DEF Contents!HandlerState, Contents!Idle

LEMMA MessageShape ==
  ASSUME NEW r \in Contents!MessageRow
  PROVE  /\ r # Contents!Absent /\ r # Contents!Removed
         /\ r.sender \in Contents!User /\ r.text \in BOOLEAN /\ r.media \in SUBSET Item
         /\ r = [sender |-> r.sender, text |-> r.text, media |-> r.media]
<1>1. DOMAIN r = {"sender", "text", "media"}
  BY DEF Contents!MessageRow
<1>2. DOMAIN Contents!Absent = {"media"} /\ DOMAIN Contents!Removed = {"media"}
  BY DEF Contents!Absent, Contents!Removed
<1>3. "text" \in DOMAIN r /\ "text" \notin DOMAIN Contents!Absent /\ "text" \notin DOMAIN Contents!Removed
  BY <1>1, <1>2
<1>4. r # Contents!Absent /\ r # Contents!Removed
  BY <1>3
<1>5. /\ r.sender \in Contents!User /\ r.text \in BOOLEAN /\ r.media \in SUBSET Item
      /\ r = [sender |-> r.sender, text |-> r.text, media |-> r.media]
  BY DEF Contents!MessageRow
<1> QED
  BY <1>4, <1>5

LEMMA RemovedIsNotAbsent == Contents!Removed # Contents!Absent
<1>1. Contents!Removed.media # Contents!Absent.media
  BY DEF Contents!Removed, Contents!Absent
<1> QED
  BY <1>1

LEMMA SentAre ==
  ASSUME ContentTypes
  PROVE  /\ Contents!Sent \subseteq MessageId
         /\ \A m \in MessageId : m \in Contents!Sent <=> content[m] \in Contents!MessageRow
         /\ \A m \in Contents!Sent : content[m] # Contents!Absent
  BY MessageShape DEF ContentTypes, Contents!Sent
-----------------------------------------------------------------------------
(* What a step keeps of each part.                                           *)

\* A request goes on with the same change of a message.
SameEdit(k, l) ==
  /\ k.pc \in Contents!Editing /\ k.on = l.on
  /\ l.pc = "update" <=> k.pc = "update"
  /\ l.pc = "update" => l.text = k.text
  /\ l.pc # "update" => l.item = k.item /\ l.last = k.last

\* A message under way is still one, and its sender may still write it or is overtaken.
SameSend(k, l) ==
  /\ k.pc = "send" /\ l.row = k.row
  /\ k.raced => l.raced
  /\ \/ l.raced
     \/ l.row.sender = Company
     \/ (applied' => applied) /\ (Contents!Wrote(Company) => Contents!Wrote(Company)')

WriterStays(k, l) ==
  /\ l.pc \in Contents!Editing => SameEdit(k, l)
  /\ l.pc = "pin" => l = k
  /\ l.pc = "send" => SameSend(k, l)

\* A message that is changed is one that nobody is about to change now.
ContentStays(m) ==
  \/ content'[m] = content[m]
  \/ <<"content", m>> \in contended'
  \/ /\ m \in Contents!Sent' => ~Contents!IsEmpty(content'[m])
     /\ \A g \in Handler : ~Edits(writing'[g], m)

\* Pins go, or nobody is about to pin now.
PinStays(m) ==
  \/ \A u \in Contents!User : pin'[m][u] = pin[m][u] \/ pin'[m][u] = "none"
  \/ <<"pin", m>> \in contended'
  \/ /\ PinsApart(pin'[m])
     /\ \A g \in Handler : ~Pinning(writing'[g], m)

LEMMA MessagesStay ==
  ASSUME ContentInv, contended \subseteq contended', \A m \in MessageId : ContentStays(m),
         \A g \in Handler : WriterStays(writing[g], writing'[g])
  PROVE  MessagesStand'
<1> SUFFICES ASSUME NEW m \in MessageId, <<"content", m>> \notin contended'
             PROVE  /\ \A g, h \in Handler :
                         Edits(writing'[g], m) /\ Edits(writing'[h], m) => g = h
                    /\ \A h \in Handler : Edits(writing'[h], m) => EditFits(writing[h])'
                    /\ m \in Contents!Sent' => ~Contents!IsEmpty(content'[m])
  BY DEF MessagesStand, Edits, Contents!Editing, Contents!IsEmpty
<1>1. /\ \A g, h \in Handler : Edits(writing[g], m) /\ Edits(writing[h], m) => g = h
      /\ \A h \in Handler : Edits(writing[h], m) => EditFits(writing[h])
      /\ m \in Contents!Sent => ~Contents!IsEmpty(content[m])
  BY DEF ContentInv, MessagesStand
<1>2. \A g \in Handler : Edits(writing'[g], m) =>
        Edits(writing[g], m) /\ SameEdit(writing[g], writing'[g])
  BY DEF Edits, WriterStays, SameEdit
<1>3. CASE content'[m] = content[m]
  <2>1. m \in Contents!Sent' <=> m \in Contents!Sent
    BY <1>3 DEF Contents!Sent, Contents!Absent, Contents!Removed
  <2>2. ASSUME NEW h \in Handler, Edits(writing'[h], m) PROVE EditFits(writing[h])'
    <3> PICK k, l : k = writing[h] /\ l = writing'[h]
      OBVIOUS
    <3>1. EditFits(k) /\ SameEdit(k, l) /\ k.on = m /\ l.on = m
      BY <1>1, <1>2, <2>2 DEF Edits
    <3> QED
      BY <1>3, <2>1, <3>1 DEF EditFits, SameEdit
  <2> QED
    BY <1>1, <1>2, <1>3, <2>1, <2>2 DEF Contents!IsEmpty
<1>4. CASE /\ m \in Contents!Sent' => ~Contents!IsEmpty(content'[m])
           /\ \A g \in Handler : ~Edits(writing'[g], m)
  BY <1>4
<1> QED
  BY <1>3, <1>4 DEF ContentStays

LEMMA PinsStay ==
  ASSUME ContentInv, contended \subseteq contended', \A m \in MessageId : PinStays(m),
         \A g \in Handler : WriterStays(writing[g], writing'[g])
  PROVE  PinsStand'
<1> SUFFICES ASSUME NEW m \in MessageId, <<"pin", m>> \notin contended'
             PROVE  /\ \A g, h \in Handler :
                         Pinning(writing'[g], m) /\ Pinning(writing'[h], m) => g = h
                    /\ \A h \in Handler : Pinning(writing'[h], m) =>
                         PinFits(pin'[m], writing'[h].user, writing'[h].scope)
                    /\ PinsApart(pin'[m])
  BY DEF PinsStand, Pinning, PinFits, PinsApart, Contents!User
<1>1. /\ \A g, h \in Handler : Pinning(writing[g], m) /\ Pinning(writing[h], m) => g = h
      /\ \A h \in Handler : Pinning(writing[h], m) =>
           PinFits(pin[m], writing[h].user, writing[h].scope)
      /\ PinsApart(pin[m])
  BY DEF ContentInv, PinsStand
<1>2. \A g \in Handler : Pinning(writing'[g], m) => Pinning(writing[g], m) /\ writing'[g] = writing[g]
  BY DEF Pinning, WriterStays
<1>3. CASE \A u \in Contents!User : pin'[m][u] = pin[m][u] \/ pin'[m][u] = "none"
  BY <1>1, <1>2, <1>3 DEF PinFits, PinsApart
<1>4. CASE /\ PinsApart(pin'[m])
           /\ \A g \in Handler : ~Pinning(writing'[g], m)
  BY <1>4
<1> QED
  BY <1>3, <1>4 DEF PinStays

LEMMA FilesStay ==
  ASSUME FilesStand, died => died', file \subseteq file',
         \A m \in Contents!Sent' :
           \/ m \in Contents!Sent /\ content'[m].media \subseteq content[m].media
           \/ \A x \in content'[m].media : <<m, x>> \in file',
         \A h \in Handler : writing[h].pc = "deleteRow" =>
           \/ writing'[h].pc = "deleteRow" /\ writing'[h] = writing[h]
           \/ writing[h].on \in Contents!Sent' => writing[h].item \notin content'[writing[h].on].media
  PROVE  FilesStand'
<1> SUFFICES ASSUME ~died', NEW m \in Contents!Sent', NEW x \in content'[m].media,
                    <<m, x>> \notin file'
             PROVE  \E h \in Handler : /\ writing'[h].pc = "deleteRow"
                                       /\ <<m, x>> = <<writing'[h].on, writing'[h].item>>
  BY DEF FilesStand, Dropping
<1>1. m \in Contents!Sent /\ x \in content[m].media /\ <<m, x>> \notin file
  OBVIOUS
<1>2. PICK h \in Handler : writing[h].pc = "deleteRow" /\ <<m, x>> = <<writing[h].on, writing[h].item>>
  BY <1>1 DEF FilesStand, Dropping
<1>3. writing[h].on = m /\ writing[h].item = x
  BY <1>2
<1> QED
  BY <1>2, <1>3

\* Together: whatever each part asks of a step.
LEMMA PartsStay ==
  ASSUME ContentInv, ContentTypes', contended \subseteq contended',
         \A g \in Handler : WriterStays(writing[g], writing'[g]),
         \A m \in MessageId :
           /\ ContentStays(m) /\ PinStays(m)
           /\ content[m] # Contents!Absent => content'[m] # Contents!Absent,
         FilesStand'
  PROVE  ContentInv'
<1>1. MessagesStand' /\ PinsStand'
  BY MessagesStay, PinsStay
<1>2. ASSUME NEW g \in Handler PROVE SendFits(writing[g])' /\ OnSent(writing[g])'
  <2> PICK k, l : k = writing[g] /\ l = writing'[g]
    OBVIOUS
  <2>1. SendFits(k) /\ OnSent(k) /\ WriterStays(k, l) /\ k \in Contents!HandlerState
    BY DEF ContentInv, ContentTypes
  <2>2. l.pc = "send" =>
          /\ ~Contents!IsEmpty(l.row)
          /\ l.raced \/ l.row.sender = Company \/ ~applied' \/ Contents!Wrote(Company)'
    BY <2>1 DEF SendFits, WriterStays, SameSend
  <2>3. l.pc \in Contents!Editing \cup {"pin"} =>
          k.pc \in Contents!Editing \cup {"pin"} /\ l.on = k.on
    BY <2>1 DEF WriterStays, SameEdit
  <2>4. l.pc \in Contents!Editing \cup {"pin"} => content'[l.on] # Contents!Absent
    BY <2>1, <2>3, WritingShapes DEF OnSent
  <2> QED
    BY <2>2, <2>4 DEF SendFits, OnSent, Contents!IsEmpty, Contents!Editing, Contents!Absent
<1> QED
  BY <1>1, <1>2 DEF ContentInv
-----------------------------------------------------------------------------
(* One lemma per operation.                                                  *)

\* A message under way that is overtaken.
LEMMA MarkedSend ==
  \A k, f, d, e : k = [pc |-> "send", row |-> f, raced |-> d] =>
    [k EXCEPT !.raced = e] = [pc |-> "send", row |-> f, raced |-> e]
  OBVIOUS

LEMMA OvertakenSend ==
  ASSUME NEW k \in Contents!HandlerState, k.pc = "send", NEW b \in {TRUE}
  PROVE  LET l == [k EXCEPT !.raced = b]
         IN l \in Contents!HandlerState /\ l.pc = "send" /\ l.row = k.row /\ l.raced = b
<1>1. PICK r \in Contents!MessageRow : \E c : k = [pc |-> "send", row |-> r, raced |-> c]
  BY DEF Contents!HandlerState, Contents!Idle
<1>2. [k EXCEPT !.raced = b] = [pc |-> "send", row |-> r, raced |-> b]
  <2>1. \A e : [k EXCEPT !.raced = e] = [pc |-> "send", row |-> r, raced |-> e]
    BY <1>1, MarkedSend, SMT
  <2> QED
    BY <2>1, Zenon
<1>3. b \in BOOLEAN
  OBVIOUS
<1> QED
  BY <1>1, <1>2, <1>3, WritingStates

LEMMA OvertakenAre ==
  ASSUME ContentTypes
  PROVE  /\ Contents!Overtaken \in [Handler -> Contents!HandlerState]
         /\ \A g \in Handler :
              /\ Contents!Overtaken[g].pc = writing[g].pc
              /\ writing[g].pc # "send" => Contents!Overtaken[g] = writing[g]
              /\ writing[g].pc = "send" =>
                   /\ Contents!Overtaken[g].row = writing[g].row
                   /\ writing[g].raced => Contents!Overtaken[g].raced
                   /\ writing[g].row.sender = Applicant => Contents!Overtaken[g].raced
<1> SUFFICES ASSUME NEW g \in Handler
             PROVE  LET k == writing[g]
                        o == Contents!Overtaken[g]
                    IN /\ o \in Contents!HandlerState /\ o.pc = k.pc
                       /\ k.pc # "send" => o = k
                       /\ k.pc = "send" =>
                            /\ o.row = k.row
                            /\ k.raced => o.raced
                            /\ k.row.sender = Applicant => o.raced
  BY DEF Contents!Overtaken
<1> PICK k, b : k = writing[g] /\ b = TRUE
  OBVIOUS
<1>1. k \in Contents!HandlerState
  BY DEF ContentTypes
<1>2. CASE k.pc = "send" /\ k.row.sender = Applicant
  <2>1. Contents!Overtaken[g] = [k EXCEPT !.raced = b]
    BY <1>2 DEF Contents!Overtaken
  <2>2. /\ Contents!Overtaken[g] \in Contents!HandlerState /\ Contents!Overtaken[g].pc = "send"
        /\ Contents!Overtaken[g].row = k.row /\ Contents!Overtaken[g].raced = b
    BY <1>1, <1>2, <2>1, OvertakenSend
  <2>3. b
    OBVIOUS
  <2> QED
    BY <1>2, <2>2, <2>3, Zenon
<1>3. CASE ~(k.pc = "send" /\ k.row.sender = Applicant)
  <2>1. Contents!Overtaken[g] = k
    BY <1>3 DEF Contents!Overtaken
  <2> QED
    BY <1>1, <1>3, <2>1
<1> QED
  BY <1>2, <1>3

\* A request that is let in with what it found changes nothing yet.
LEMMA Enters ==
  ASSUME ContentInv, UNCHANGED <<content, pin, file, applied, died>>,
         contended \subseteq contended',
         NEW h \in Handler, NEW l \in Contents!HandlerState,
         writing[h] = Contents!Idle, writing' = [writing EXCEPT ![h] = l],
         SendFits(l), OnSent(l),
         l.pc \in Contents!Editing =>
           /\ EditFits(l)
           /\ <<"content", l.on>> \in contended' \/ \A g \in Handler : ~Edits(writing[g], l.on),
         l.pc = "pin" =>
           /\ PinFits(pin[l.on], l.user, l.scope)
           /\ <<"pin", l.on>> \in contended' \/ \A g \in Handler : ~Pinning(writing[g], l.on)
  PROVE  ContentInv'
<1>1. ContentTypes'
  BY DEF ContentInv, ContentTypes
<1>2. \A g \in Handler : writing'[g] = IF g = h THEN l ELSE writing[g]
  BY DEF ContentInv, ContentTypes
<1>3. Contents!Sent' = Contents!Sent
  BY DEF Contents!Sent, Contents!Absent, Contents!Removed
<1>4. MessagesStand'
  <2> SUFFICES ASSUME NEW m \in MessageId, <<"content", m>> \notin contended'
               PROVE  /\ \A f, g \in Handler :
                           Edits(writing'[f], m) /\ Edits(writing'[g], m) => f = g
                      /\ \A g \in Handler : Edits(writing'[g], m) => EditFits(writing[g])'
                      /\ m \in Contents!Sent => ~Contents!IsEmpty(content[m])
    BY <1>3 DEF MessagesStand, Edits, Contents!Editing, Contents!IsEmpty
  <2>1. /\ \A f, g \in Handler : Edits(writing[f], m) /\ Edits(writing[g], m) => f = g
        /\ \A g \in Handler : Edits(writing[g], m) => EditFits(writing[g])
        /\ m \in Contents!Sent => ~Contents!IsEmpty(content[m])
    BY DEF ContentInv, MessagesStand
  <2>2. Edits(l, m) => EditFits(l) /\ \A g \in Handler : ~Edits(writing[g], m)
    BY DEF Edits
  <2>3. \A f, g \in Handler : Edits(writing'[f], m) /\ Edits(writing'[g], m) => f = g
    BY <1>2, <2>1, <2>2, Zenon
  <2>4. ASSUME NEW g \in Handler, Edits(writing'[g], m) PROVE EditFits(writing[g])'
    <3>1. EditFits(writing'[g])
      BY <1>2, <2>1, <2>2, <2>4, Zenon
    <3> QED
      BY <1>3, <3>1 DEF EditFits
  <2> QED
    BY <2>1, <2>3, <2>4
<1>5. PinsStand'
  <2> SUFFICES ASSUME NEW m \in MessageId, <<"pin", m>> \notin contended'
               PROVE  /\ \A f, g \in Handler :
                           Pinning(writing'[f], m) /\ Pinning(writing'[g], m) => f = g
                      /\ \A g \in Handler : Pinning(writing'[g], m) =>
                           PinFits(pin[m], writing'[g].user, writing'[g].scope)
                      /\ PinsApart(pin[m])
    BY DEF PinsStand, Pinning, PinFits, PinsApart, Contents!User
  <2>1. /\ \A f, g \in Handler : Pinning(writing[f], m) /\ Pinning(writing[g], m) => f = g
        /\ \A g \in Handler : Pinning(writing[g], m) =>
             PinFits(pin[m], writing[g].user, writing[g].scope)
        /\ PinsApart(pin[m])
    BY DEF ContentInv, PinsStand
  <2>2. Pinning(l, m) =>
          PinFits(pin[m], l.user, l.scope) /\ \A g \in Handler : ~Pinning(writing[g], m)
    BY DEF Pinning
  <2> QED
    BY <1>2, <2>1, <2>2, Zenon
<1>6. FilesStand'
  <2>1. writing[h].pc # "deleteRow"
    BY WritingStates
  <2>2. FilesStand
    BY DEF ContentInv
  <2> QED
    BY <1>2, <1>3, <2>1, <2>2, FilesStay
<1>7. ASSUME NEW g \in Handler PROVE SendFits(writing[g])' /\ OnSent(writing[g])'
  <2>1. SendFits(writing'[g]) /\ OnSent(writing'[g])
    BY <1>2 DEF ContentInv
  <2>2. Contents!Wrote(Company)' <=> Contents!Wrote(Company)
    BY <1>3 DEF Contents!Wrote
  <2> QED
    BY <2>1, <2>2 DEF SendFits, OnSent, Contents!IsEmpty, Contents!Editing, Contents!Absent
<1> QED
  BY <1>1, <1>4, <1>5, <1>6, <1>7 DEF ContentInv

\* A request of a kind that meets another on a message is noted.
LEMMA Contends ==
  ASSUME NEW m, NEW kinds, NEW g \in Handler, writing[g].pc \in kinds, writing[g].on = m
  PROVE  m \in Contents!Contend(m, kinds)
  BY DEF Contents!Contend

LEMMA CreateMessageStep ==
  ASSUME ContentInv, NEW h \in Handler, NEW row \in Contents!MessageRow,
         Contents!CreateMessage(h, row)
  PROVE  ContentInv'
<1> PICK b \in BOOLEAN : b = FALSE
  OBVIOUS
<1> PICK l : l = [pc |-> "send", row |-> row, raced |-> b]
  OBVIOUS
<1>1. l \in Contents!HandlerState /\ l.pc = "send" /\ l.row = row
  BY WritingStates
<1>2. /\ writing[h] = Contents!Idle /\ writing' = [writing EXCEPT ![h] = l]
      /\ UNCHANGED <<content, pin, file, applied, contended, died>>
  BY DEF Contents!CreateMessage, Contents!Goto
<1>3. SendFits(l)
  <2>1. row.sender \in Contents!User
    BY MessageShape
  <2> QED
    BY <1>1, <2>1 DEF SendFits, Contents!CreateMessage, Contents!MayWrite, Contents!User
<1>4. OnSent(l)
  BY <1>1 DEF OnSent, Contents!Editing
<1> QED
  BY <1>1, <1>2, <1>3, <1>4, Enters DEF Contents!Editing

LEMMA UpdateMessageStep ==
  ASSUME ContentInv, NEW h \in Handler, NEW m \in MessageId, NEW text \in BOOLEAN,
         Contents!UpdateMessage(h, m, text)
  PROVE  ContentInv'
<1> PICK l : l = [pc |-> "update", on |-> m, text |-> text]
  OBVIOUS
<1>1. l \in Contents!HandlerState /\ l.pc = "update" /\ l.on = m /\ (l.text <=> text)
  BY WritingStates
<1>2. /\ writing[h] = Contents!Idle /\ writing' = [writing EXCEPT ![h] = l]
      /\ contended' = contended \cup ({"content"} \X Contents!Contend(m, Contents!Editing))
      /\ UNCHANGED <<content, pin, file, applied, died>>
  BY DEF Contents!UpdateMessage, Contents!Goto
<1>3. OnSent(l)
  BY <1>1, SentAre DEF OnSent, ContentInv, Contents!UpdateMessage
<1>4. EditFits(l)
  BY <1>1 DEF EditFits, Contents!UpdateMessage, Contents!MayUpdate
<1>5. <<"content", m>> \in contended' \/ \A g \in Handler : ~Edits(writing[g], m)
  BY <1>2, Contends DEF Edits
<1>6. contended \subseteq contended'
  BY <1>2
<1> QED
  BY <1>1, <1>2, <1>3, <1>4, <1>5, <1>6, Enters DEF SendFits

LEMMA RemoveAttachmentStep ==
  ASSUME ContentInv, NEW h \in Handler, NEW m \in MessageId, NEW x \in Item,
         Contents!RemoveAttachment(h, m, x)
  PROVE  ContentInv'
<1> PICK b \in BOOLEAN : b <=> Contents!LeavesNothing(m, x)
  OBVIOUS
<1> PICK l : l = [pc |-> "deleteFile", on |-> m, item |-> x, last |-> Contents!LeavesNothing(m, x)]
  OBVIOUS
<1>1. l \in Contents!HandlerState
  <2>1. Contents!LeavesNothing(m, x) \in BOOLEAN
    BY DEF Contents!LeavesNothing
  <2> QED
    BY <2>1, WritingStates
<1>2. /\ l.pc = "deleteFile" /\ l.on = m /\ l.item = x
      /\ l.last <=> Contents!LeavesNothing(m, x)
  OBVIOUS
<1>3. /\ writing[h] = Contents!Idle /\ writing' = [writing EXCEPT ![h] = l]
      /\ contended' = contended \cup ({"content"} \X Contents!Contend(m, Contents!Editing))
      /\ UNCHANGED <<content, pin, file, applied, died>>
  BY DEF Contents!RemoveAttachment, Contents!Goto
<1>4. m \in Contents!Sent /\ x \in content[m].media
  BY DEF Contents!RemoveAttachment
<1>5. OnSent(l)
  BY <1>2, <1>4, SentAre DEF OnSent, ContentInv
<1>6. EditFits(l)
  BY <1>2, <1>4 DEF EditFits, Contents!LeavesNothing
<1>7. <<"content", m>> \in contended' \/ \A g \in Handler : ~Edits(writing[g], m)
  BY <1>3, Contends DEF Edits
<1>8. contended \subseteq contended'
  BY <1>3
<1> QED
  BY <1>1, <1>2, <1>3, <1>5, <1>6, <1>7, <1>8, Enters DEF SendFits

LEMMA PinMessageStep ==
  ASSUME ContentInv, NEW h \in Handler, NEW m \in MessageId,
         NEW u \in Contents!User, NEW scope \in Contents!Scope,
         Contents!PinMessage(h, m, u, scope)
  PROVE  ContentInv'
<1> PICK l : l = [pc |-> "pin", on |-> m, user |-> u, scope |-> scope]
  OBVIOUS
<1>1. l \in Contents!HandlerState /\ l.pc = "pin" /\ l.on = m /\ l.user = u /\ l.scope = scope
  BY WritingStates
<1>2. /\ writing[h] = Contents!Idle /\ writing' = [writing EXCEPT ![h] = l]
      /\ contended' = contended \cup ({"pin"} \X Contents!Contend(m, {"pin"}))
      /\ UNCHANGED <<content, pin, file, applied, died>>
  BY DEF Contents!PinMessage, Contents!Goto
<1>3. OnSent(l)
  BY <1>1, SentAre DEF OnSent, ContentInv, Contents!PinMessage
<1>4. PinFits(pin[m], u, scope)
  BY DEF PinFits, Contents!PinMessage, Contents!MayPin, Contents!Others
<1>5. <<"pin", m>> \in contended' \/ \A g \in Handler : ~Pinning(writing[g], m)
  BY <1>2, Contends DEF Pinning
<1>6. contended \subseteq contended'
  BY <1>2
<1> QED
  BY <1>1, <1>2, <1>3, <1>4, <1>5, <1>6, Enters DEF SendFits, Contents!Editing

\* A request that goes on unchanged, or that ends.
LEMMA WriterWaits ==
  ASSUME NEW k, applied' => applied, Contents!Wrote(Company) => Contents!Wrote(Company)'
  PROVE  WriterStays(k, k)
  BY DEF WriterStays, SameEdit, SameSend

LEMMA WriterEnds ==
  ASSUME NEW k, NEW l, l.pc \notin Contents!Editing \cup {"pin", "send"}
  PROVE  WriterStays(k, l)
  BY DEF WriterStays

\* What a step keeps that changes no message.
LEMMA UnchangedContent ==
  ASSUME UNCHANGED content
  PROVE  /\ Contents!Sent' = Contents!Sent
         /\ Contents!Wrote(Company)' <=> Contents!Wrote(Company)
         /\ \A m \in MessageId : ContentStays(m)
  BY DEF ContentStays, Contents!Sent, Contents!Wrote, Contents!Absent, Contents!Removed

LEMMA ApplyStep ==
  ASSUME ContentInv, NEW h \in Handler, Contents!Apply(h)
  PROVE  ContentInv'
<1> PICK l : l = [pc |-> "cover"]
  OBVIOUS
<1>1. l \in Contents!HandlerState /\ l.pc = "cover"
  BY WritingStates
<1>2. /\ writing[h] = Contents!Idle /\ writing' = [Contents!Overtaken EXCEPT ![h] = l]
      /\ UNCHANGED <<content, pin, file, contended, died>>
  BY DEF Contents!Apply
<1>3. ContentTypes
  BY DEF ContentInv
<1>4. ContentTypes'
  BY <1>1, <1>2, <1>3, OvertakenAre DEF ContentTypes
<1>5. \A g \in Handler : writing'[g] = IF g = h THEN l ELSE Contents!Overtaken[g]
  BY <1>2, <1>3, OvertakenAre
<1>6. ASSUME NEW g \in Handler PROVE WriterStays(writing[g], writing'[g])
  <2>1. CASE g = h
    BY <1>1, <1>5, <2>1, WriterEnds DEF Contents!Editing
  <2>2. CASE g # h /\ writing[g].pc # "send"
    BY <1>3, <1>5, <2>2, OvertakenAre DEF WriterStays, SameEdit
  <2>3. CASE g # h /\ writing[g].pc = "send"
    <3> PICK k, o : k = writing[g] /\ o = Contents!Overtaken[g]
      OBVIOUS
    <3>1. /\ k.pc = "send" /\ o.pc = "send" /\ o.row = k.row /\ (k.raced => o.raced)
          /\ k.row.sender = Applicant => o.raced
      BY <1>3, <2>3, OvertakenAre
    <3>2. k.row.sender \in Contents!User
      BY <1>3, <3>1, WritingShapes, MessageShape DEF ContentTypes
    <3>3. writing'[g] = o
      BY <1>5, <2>3
    <3> QED
      BY <3>1, <3>2, <3>3 DEF WriterStays, SameSend, Contents!User, Contents!Editing
  <2> QED
    BY <2>1, <2>2, <2>3
<1>7. FilesStand'
  <2>1. FilesStand /\ writing[h].pc # "deleteRow"
    BY <1>2, WritingStates DEF ContentInv
  <2>2. \A g \in Handler : writing[g].pc = "deleteRow" => writing'[g] = writing[g]
    BY <1>3, <1>5, <2>1, OvertakenAre
  <2>3. Contents!Sent' = Contents!Sent
    BY <1>2, UnchangedContent
  <2> QED
    BY <1>2, <2>1, <2>2, <2>3, FilesStay
<1>8. \A m \in MessageId : ContentStays(m) /\ PinStays(m)
  BY <1>2, UnchangedContent DEF PinStays
<1> QED
  BY <1>2, <1>4, <1>6, <1>7, <1>8, PartsStay

\* A message is there from now on, with its attachments uploaded.
LEMMA NewMessageStep ==
  ASSUME ContentInv, NEW h \in Handler, NEW m \in MessageId, NEW row \in Contents!MessageRow,
         ~Contents!IsEmpty(row), Contents!NewMessage(m, row), Contents!Done(h),
         writing[h].pc # "deleteRow", UNCHANGED <<pin, applied, contended, died>>
  PROVE  ContentInv'
<1>1. ContentTypes /\ FilesStand
  BY DEF ContentInv
<1>2. /\ content[m] = Contents!Absent
      /\ \A n \in MessageId : content'[n] = IF n = m THEN row ELSE content[n]
      /\ \A g \in Handler : writing'[g] = IF g = h THEN Contents!Idle ELSE writing[g]
      /\ file' = file \cup ({m} \X row.media)
  BY <1>1 DEF ContentTypes, Contents!NewMessage, Contents!Done, Contents!Goto
<1>3. ContentTypes'
  BY <1>1, WritingStates
  DEF ContentTypes, Contents!NewMessage, Contents!Done, Contents!Goto, Contents!HandlerState, Contents!MessageRow, Contents!User
<1>4. Contents!Sent' = Contents!Sent \cup {m} /\ m \notin Contents!Sent
  BY <1>2, MessageShape DEF Contents!Sent, Contents!Absent, Contents!Removed
<1>5. Contents!Wrote(Company) => Contents!Wrote(Company)'
  BY <1>1, <1>2, <1>4, SentAre DEF Contents!Wrote
<1>6. \A g \in Handler : WriterStays(writing[g], writing'[g])
  BY <1>2, <1>5, WriterWaits, WriterEnds, WritingStates DEF Contents!Editing
<1>7. \A g \in Handler : ~Edits(writing'[g], m)
  BY <1>2, WritingStates DEF ContentInv, OnSent, Edits, Contents!Editing
<1>8. ASSUME NEW n \in MessageId
      PROVE  /\ ContentStays(n) /\ PinStays(n)
             /\ content[n] # Contents!Absent => content'[n] # Contents!Absent
  <2>1. ContentStays(n)
    BY <1>2, <1>7 DEF ContentStays, Contents!IsEmpty
  <2>2. PinStays(n)
    BY DEF PinStays
  <2> QED
    BY <1>2, <2>1, <2>2
<1>9. FilesStand'
  <2>1. \A n \in Contents!Sent' :
          \/ n \in Contents!Sent /\ content'[n].media \subseteq content[n].media
          \/ \A x \in content'[n].media : <<n, x>> \in file'
    BY <1>1, <1>2, <1>4, SentAre
  <2>2. \A g \in Handler : writing[g].pc = "deleteRow" => writing'[g] = writing[g]
    BY <1>2
  <2>3. file \subseteq file'
    BY <1>2
  <2> QED
    BY <1>1, <2>1, <2>2, <2>3, FilesStay
<1> QED
  BY <1>3, <1>6, <1>8, <1>9, PartsStay

LEMMA SendCoverLetterStep ==
  ASSUME ContentInv, NEW h \in Handler, NEW m \in MessageId, Contents!SendCoverLetter(h, m)
  PROVE  ContentInv'
<1> PICK b : b = TRUE
  OBVIOUS
<1> PICK row : row = [sender |-> Applicant, text |-> b, media |-> {}]
  OBVIOUS
<1>1. row \in Contents!MessageRow /\ (row.text <=> b)
  BY DEF Contents!MessageRow, Contents!User
<1>2. ~Contents!IsEmpty(row)
  BY <1>1 DEF Contents!IsEmpty
<1>3. /\ Contents!NewMessage(m, row) /\ Contents!Done(h) /\ writing[h].pc = "cover"
      /\ UNCHANGED <<pin, applied, contended, died>>
  BY DEF Contents!SendCoverLetter
<1> QED
  BY <1>1, <1>2, <1>3, NewMessageStep

LEMMA InsertMessageStep ==
  ASSUME ContentInv, NEW h \in Handler, NEW m \in MessageId, Contents!InsertMessage(h, m)
  PROVE  ContentInv'
<1>1. writing[h] \in Contents!HandlerState /\ SendFits(writing[h])
  BY DEF ContentInv, ContentTypes
<1>2. /\ writing[h].pc = "send" /\ Contents!NewMessage(m, writing[h].row) /\ Contents!Done(h)
      /\ UNCHANGED <<pin, applied, contended, died>>
  BY DEF Contents!InsertMessage
<1>3. writing[h].row \in Contents!MessageRow /\ ~Contents!IsEmpty(writing[h].row)
  BY <1>1, <1>2, WritingShapes DEF SendFits
<1> QED
  BY <1>2, <1>3, NewMessageStep

LEMMA WriteContentStep ==
  ASSUME ContentInv, NEW h \in Handler, Contents!WriteContent(h)
  PROVE  ContentInv'
<1> PICK k, m : k = writing[h] /\ m = k.on
  OBVIOUS
<1>1. ContentTypes /\ FilesStand /\ k \in Contents!HandlerState
  BY DEF ContentInv, ContentTypes
<1>2. /\ k.pc = "update" /\ m \in MessageId /\ k.text \in BOOLEAN
      /\ Edits(k, m) /\ UNCHANGED <<pin, file, applied, contended, died>>
      /\ \A g \in Handler : writing'[g] = IF g = h THEN Contents!Idle ELSE writing[g]
  BY <1>1, WritingShapes
  DEF Contents!WriteContent, Contents!Done, Contents!Goto, Edits, Contents!Editing, ContentTypes
<1>3. writing' \in [Handler -> Contents!HandlerState]
  BY <1>1, WritingStates DEF ContentTypes, Contents!WriteContent, Contents!Done, Contents!Goto
<1>4. CASE m \notin Contents!Sent
  <2>1. UNCHANGED content
    BY <1>4 DEF Contents!WriteContent
  <2>2. ContentTypes'
    BY <1>1, <1>2, <1>3, <2>1 DEF ContentTypes
  <2>3. \A g \in Handler : WriterStays(writing[g], writing'[g])
    BY <1>2, <2>1, UnchangedContent, WriterWaits, WriterEnds, WritingStates DEF Contents!Editing
  <2>4. \A n \in MessageId : ContentStays(n) /\ PinStays(n)
    BY <1>2, <2>1, UnchangedContent DEF PinStays
  <2>5. FilesStand'
    BY <1>1, <1>2, <2>1, UnchangedContent, FilesStay
  <2> QED
    BY <1>2, <2>1, <2>2, <2>3, <2>4, <2>5, PartsStay
<1>5. CASE m \in Contents!Sent
  <2> PICK row : row = [content[m] EXCEPT !.text = k.text]
    OBVIOUS
  <2>1. content[m] \in Contents!MessageRow
    BY <1>1, <1>5, SentAre
  <2>2. /\ row \in Contents!MessageRow /\ (row.text <=> k.text)
        /\ row.media = content[m].media /\ row.sender = content[m].sender
    BY <1>2, <2>1 DEF Contents!MessageRow
  <2>3. content' = [content EXCEPT ![m] = row]
    BY <1>5 DEF Contents!WriteContent
  <2>4. \A n \in MessageId : content'[n] = IF n = m THEN row ELSE content[n]
    BY <1>1, <2>3 DEF ContentTypes
  <2>5. ContentTypes'
    BY <1>1, <1>2, <1>3, <2>2, <2>3 DEF ContentTypes
  <2>6. Contents!Sent' = Contents!Sent
    BY <1>2, <1>5, <2>2, <2>4, MessageShape DEF Contents!Sent, Contents!Absent, Contents!Removed
  <2>7. Contents!Wrote(Company) => Contents!Wrote(Company)'
    <3>1. \A n \in Contents!Sent : content'[n].sender = content[n].sender
      BY <1>1, <2>2, <2>4, SentAre
    <3> QED
      BY <2>6, <3>1 DEF Contents!Wrote
  <2>8. \A g \in Handler : WriterStays(writing[g], writing'[g])
    BY <1>2, <2>7, WriterWaits, WriterEnds, WritingStates DEF Contents!Editing
  <2>9. ContentStays(m)
    <3> SUFFICES ASSUME <<"content", m>> \notin contended
                 PROVE  /\ ~Contents!IsEmpty(row)
                        /\ \A g \in Handler : ~Edits(writing'[g], m)
      BY <1>2, <2>4 DEF ContentStays, Contents!IsEmpty
    <3>1. EditFits(k) /\ \A g \in Handler : Edits(writing[g], m) => g = h
      BY <1>2 DEF ContentInv, MessagesStand
    <3>2. k.text \/ content[m].media # {}
      BY <1>2, <1>5, <3>1 DEF EditFits
    <3> QED
      BY <1>2, <2>2, <3>1, <3>2, WritingStates DEF Contents!IsEmpty, Edits, Contents!Editing
  <2>10. ASSUME NEW n \in MessageId
         PROVE  /\ ContentStays(n) /\ PinStays(n)
                /\ content[n] # Contents!Absent => content'[n] # Contents!Absent
    <3>1. ContentStays(n)
      BY <2>4, <2>9 DEF ContentStays
    <3>2. row # Contents!Absent
      BY <2>2, MessageShape
    <3> QED
      BY <1>2, <2>4, <3>1, <3>2 DEF PinStays
  <2>11. FilesStand'
    <3>1. \A n \in Contents!Sent' : n \in Contents!Sent /\ content'[n].media \subseteq content[n].media
      BY <1>1, <2>2, <2>4, <2>6, SentAre
    <3> QED
      BY <1>1, <1>2, <3>1, FilesStay
  <2> QED
    BY <1>2, <2>5, <2>8, <2>10, <2>11, PartsStay
<1> QED
  BY <1>4, <1>5

LEMMA ToRow ==
  \A k, m, x, b : k = [pc |-> "deleteFile", on |-> m, item |-> x, last |-> b] =>
    [k EXCEPT !.pc = "deleteRow"] = [pc |-> "deleteRow", on |-> m, item |-> x, last |-> b]
  OBVIOUS

\* The object of an attachment goes first, if it does.
LEMMA DeleteFileStep ==
  ASSUME ContentInv, NEW h \in Handler, Contents!DeleteFile(h)
  PROVE  ContentInv'
<1> PICK k : k = writing[h]
  OBVIOUS
<1>1. /\ ContentTypes /\ FilesStand /\ k \in Contents!HandlerState
      /\ k.pc = "deleteFile" /\ UNCHANGED <<content, pin, applied, contended, died>>
  BY DEF ContentInv, ContentTypes, Contents!DeleteFile
<1>2. Contents!Sent' = Contents!Sent
  BY <1>1, UnchangedContent
<1>3. \A n \in MessageId : ContentStays(n) /\ PinStays(n)
  BY <1>1, UnchangedContent DEF PinStays
<1>4. CASE Contents!Done(h) /\ UNCHANGED file
  <2>1. \A g \in Handler : writing'[g] = IF g = h THEN Contents!Idle ELSE writing[g]
    BY <1>1, <1>4 DEF Contents!Done, Contents!Goto, ContentTypes
  <2>2. ContentTypes'
    BY <1>1, <1>4, WritingStates DEF ContentTypes, Contents!Done, Contents!Goto
  <2>3. \A g \in Handler : WriterStays(writing[g], writing'[g])
    BY <1>1, <2>1, UnchangedContent, WriterWaits, WriterEnds, WritingStates DEF Contents!Editing
  <2>4. FilesStand'
    BY <1>1, <1>2, <1>4, <2>1, FilesStay
  <2> QED
    BY <1>1, <1>3, <2>2, <2>3, <2>4, PartsStay
<1>5. CASE /\ file' = file \ {<<k.on, k.item>>}
           /\ Contents!Goto(h, [k EXCEPT !.pc = "deleteRow"])
  <2>1. PICK l : l = [k EXCEPT !.pc = "deleteRow"]
    OBVIOUS
  <2>2. /\ l \in Contents!HandlerState /\ l.pc = "deleteRow"
        /\ l.on = k.on /\ l.item = k.item /\ l.last = k.last
    <3>1. PICK m \in MessageId, x \in Item :
            \E b \in BOOLEAN : k = [pc |-> "deleteFile", on |-> m, item |-> x, last |-> b]
      BY <1>1 DEF Contents!HandlerState, Contents!Idle
    <3> QED
      BY <2>1, <3>1, ToRow, WritingStates
  <2>3. \A g \in Handler : writing'[g] = IF g = h THEN l ELSE writing[g]
    BY <1>1, <1>5, <2>1 DEF Contents!Goto, ContentTypes
  <2>4. ContentTypes'
    BY <1>1, <1>5, <2>1, <2>2 DEF ContentTypes, Contents!Goto
  <2>5. \A g \in Handler : WriterStays(writing[g], writing'[g])
    <3>1. WriterStays(k, l)
      BY <1>1, <2>2 DEF WriterStays, SameEdit, Contents!Editing
    <3> QED
      BY <1>1, <2>3, <3>1, UnchangedContent, WriterWaits
  <2>6. FilesStand'
    <3> SUFFICES ASSUME ~died, NEW m \in Contents!Sent, NEW x \in content[m].media,
                        <<m, x>> \notin file'
                 PROVE  \E g \in Handler : /\ writing'[g].pc = "deleteRow"
                                           /\ <<m, x>> = <<writing'[g].on, writing'[g].item>>
      BY <1>1, <1>2 DEF FilesStand, Dropping
    <3>1. CASE <<m, x>> = <<k.on, k.item>>
      BY <2>2, <2>3, <3>1
    <3>2. CASE <<m, x>> \notin file
      <4>1. PICK g \in Handler : writing[g].pc = "deleteRow" /\ <<m, x>> = <<writing[g].on, writing[g].item>>
        BY <1>1, <3>2 DEF FilesStand, Dropping
      <4> QED
        BY <1>1, <2>3, <4>1
    <3> QED
      BY <1>5, <3>1, <3>2
  <2> QED
    BY <1>1, <1>3, <2>4, <2>5, <2>6, PartsStay
<1> QED
  BY <1>4, <1>5 DEF Contents!DeleteFile

\* Then its row, with the message if nothing else is left of it.
LEMMA DeleteRowStep ==
  ASSUME ContentInv, NEW h \in Handler, Contents!DeleteRow(h)
  PROVE  ContentInv'
<1> PICK k, m, x : k = writing[h] /\ m = k.on /\ x = k.item
  OBVIOUS
<1> PICK gone \in BOOLEAN : gone <=> k.last
  OBVIOUS
<1>1. ContentTypes /\ FilesStand /\ k \in Contents!HandlerState
  BY DEF ContentInv, ContentTypes
<1>2. /\ k.pc = "deleteRow" /\ m \in MessageId /\ x \in Item /\ Edits(k, m)
      /\ UNCHANGED <<file, applied, contended, died>>
  BY <1>1, WritingShapes DEF Contents!DeleteRow, Edits, Contents!Editing
<1>3. CASE ~(m \in Contents!Sent /\ x \in content[m].media)
  <2>1. Contents!Done(h) /\ UNCHANGED <<content, pin>>
    BY <1>3 DEF Contents!DeleteRow
  <2>2. \A g \in Handler : writing'[g] = IF g = h THEN Contents!Idle ELSE writing[g]
    BY <1>1, <2>1 DEF Contents!Done, Contents!Goto, ContentTypes
  <2>3. ContentTypes'
    BY <1>1, <2>1, WritingStates DEF ContentTypes, Contents!Done, Contents!Goto
  <2>4. \A g \in Handler : WriterStays(writing[g], writing'[g])
    BY <1>2, <2>1, <2>2, UnchangedContent, WriterWaits, WriterEnds, WritingStates DEF Contents!Editing
  <2>5. \A n \in MessageId : ContentStays(n) /\ PinStays(n)
    BY <2>1, UnchangedContent DEF PinStays
  <2>6. FilesStand'
    BY <1>1, <1>2, <1>3, <2>1, <2>2, UnchangedContent, FilesStay
  <2> QED
    BY <1>2, <2>1, <2>3, <2>4, <2>5, <2>6, PartsStay
<1>4. CASE m \in Contents!Sent /\ x \in content[m].media
  <2> PICK row : row = IF gone THEN Contents!Removed ELSE [content[m] EXCEPT !.media = @ \ {x}]
    OBVIOUS
  <2> PICK others : others = IF gone /\ content[m].sender = Company
                             THEN Contents!Overtaken ELSE writing
    OBVIOUS
  <2>1. content[m] \in Contents!MessageRow
    BY <1>1, <1>4, SentAre
  <2>2. /\ gone => row = Contents!Removed
        /\ ~gone => /\ row \in Contents!MessageRow /\ row.text = content[m].text
                    /\ row.media = content[m].media \ {x} /\ row.sender = content[m].sender
    BY <2>1 DEF Contents!MessageRow
  <2>3. row # Contents!Absent
    BY <2>2, MessageShape, RemovedIsNotAbsent
  <2>4. /\ content' = [content EXCEPT ![m] = row]
        /\ pin' = IF gone THEN [pin EXCEPT ![m] = [u \in Contents!User |-> "none"]] ELSE pin
        /\ writing' = [others EXCEPT ![h] = Contents!Idle]
    BY <1>4 DEF Contents!DeleteRow, Contents!PinsAfter
  <2>5. /\ others \in [Handler -> Contents!HandlerState]
        /\ \A g \in Handler : writing[g].pc # "send" => others[g] = writing[g]
    BY <1>1, OvertakenAre DEF ContentTypes
  <2>6. /\ \A n \in MessageId : content'[n] = IF n = m THEN row ELSE content[n]
        /\ \A g \in Handler : writing'[g] = IF g = h THEN Contents!Idle ELSE others[g]
    BY <1>1, <2>4, <2>5 DEF ContentTypes
  <2>7. ContentTypes'
    <3>1. content' \in [MessageId -> Contents!MessageRow \cup {Contents!Absent, Contents!Removed}]
      BY <1>1, <2>2, <2>4 DEF ContentTypes
    <3>2. pin' \in [MessageId -> [Contents!User -> {"none"} \cup Contents!Scope]]
      BY <1>1, <2>4 DEF ContentTypes
    <3>3. writing' \in [Handler -> Contents!HandlerState]
      BY <2>4, <2>5, WritingStates
    <3> QED
      BY <3>1, <3>2, <3>3 DEF ContentTypes, Contents!HandlerState, Contents!MessageRow, Contents!User
  <2>8. \A n \in Contents!Sent' :
          /\ n \in Contents!Sent /\ content'[n].media \subseteq content[n].media
          /\ content'[n].sender = content[n].sender
          /\ n = m => ~gone /\ content'[n].media = content[n].media \ {x}
    <3> SUFFICES ASSUME NEW n \in Contents!Sent'
                 PROVE  /\ n \in Contents!Sent /\ content'[n].media \subseteq content[n].media
                        /\ content'[n].sender = content[n].sender
                        /\ n = m => ~gone /\ content'[n].media = content[n].media \ {x}
      OBVIOUS
    <3>1. n \in MessageId /\ content'[n] \notin {Contents!Absent, Contents!Removed}
      BY DEF Contents!Sent, Contents!Absent, Contents!Removed
    <3>2. CASE n = m
      BY <1>4, <2>2, <2>6, <3>1, <3>2
    <3>3. CASE n # m
      BY <2>6, <3>1, <3>3 DEF Contents!Sent
    <3> QED
      BY <3>2, <3>3
  <2>9. \A n \in Contents!Sent : ~(n = m /\ gone) =>
          n \in Contents!Sent' /\ content'[n].sender = content[n].sender
    <3>1. ASSUME NEW n \in Contents!Sent, n # m
          PROVE  n \in Contents!Sent' /\ content'[n].sender = content[n].sender
      BY <1>1, <2>6, <3>1, SentAre DEF Contents!Sent, Contents!Absent, Contents!Removed
    <3>2. ~gone => m \in Contents!Sent' /\ content'[m].sender = content[m].sender
      BY <1>2, <2>2, <2>6, MessageShape DEF Contents!Sent, Contents!Absent, Contents!Removed
    <3> QED
      BY <3>1, <3>2
  <2>10. ~(gone /\ content[m].sender = Company) =>
           (Contents!Wrote(Company) => Contents!Wrote(Company)')
    BY <2>9 DEF Contents!Wrote
  <2>11. ASSUME NEW g \in Handler PROVE WriterStays(writing[g], writing'[g])
    <3>1. CASE g = h
      BY <2>6, <3>1, WriterEnds, WritingStates DEF Contents!Editing
    <3>2. CASE g # h /\ ~(gone /\ content[m].sender = Company)
      BY <1>2, <2>6, <2>10, <3>2, WriterWaits
    <3>3. CASE g # h /\ writing[g].pc # "send"
      BY <2>5, <2>6, <3>3 DEF WriterStays, SameEdit
    <3>4. CASE g # h /\ gone /\ content[m].sender = Company /\ writing[g].pc = "send"
      <4> PICK j, o : j = writing[g] /\ o = Contents!Overtaken[g]
        OBVIOUS
      <4>1. /\ j.pc = "send" /\ o.pc = "send" /\ o.row = j.row /\ (j.raced => o.raced)
            /\ j.row.sender = Applicant => o.raced
        BY <1>1, <3>4, OvertakenAre
      <4>2. j.row.sender \in Contents!User
        BY <1>1, <4>1, WritingShapes, MessageShape DEF ContentTypes
      <4>3. writing'[g] = o
        BY <2>6, <3>4
      <4> QED
        BY <4>1, <4>2, <4>3 DEF WriterStays, SameSend, Contents!User, Contents!Editing
    <3> QED
      BY <3>1, <3>2, <3>3, <3>4
  <2>12. ContentStays(m)
    <3> SUFFICES ASSUME <<"content", m>> \notin contended
                 PROVE  /\ m \in Contents!Sent' => ~Contents!IsEmpty(row)
                        /\ \A g \in Handler : ~Edits(writing'[g], m)
      BY <1>2, <2>6 DEF ContentStays, Contents!IsEmpty
    <3>1. EditFits(k) /\ \A g \in Handler : Edits(writing[g], m) => g = h
      BY <1>2 DEF ContentInv, MessagesStand
    <3>2. ~gone => content[m].text \/ content[m].media \ {x} # {}
      BY <1>2, <1>4, <3>1 DEF EditFits
    <3>3. m \in Contents!Sent' => ~Contents!IsEmpty(row)
      BY <2>2, <2>8, <3>2 DEF Contents!IsEmpty
    <3>4. \A g \in Handler : ~Edits(writing'[g], m)
      BY <2>6, <2>11, <3>1, WritingStates DEF WriterStays, SameEdit, Edits, Contents!Editing
    <3> QED
      BY <3>3, <3>4
  <2>13. \A n \in MessageId : PinStays(n)
    BY <1>1, <2>4 DEF PinStays, ContentTypes
  <2>14. \A n \in MessageId :
           /\ ContentStays(n)
           /\ content[n] # Contents!Absent => content'[n] # Contents!Absent
    BY <2>3, <2>6, <2>12 DEF ContentStays
  <2>15. FilesStand'
    <3>1. \A g \in Handler : writing[g].pc = "deleteRow" =>
            \/ writing'[g].pc = "deleteRow" /\ writing'[g] = writing[g]
            \/ writing[g].on \in Contents!Sent' => writing[g].item \notin content'[writing[g].on].media
      BY <2>5, <2>6, <2>8
    <3> QED
      BY <1>1, <1>2, <2>8, <3>1, FilesStay
  <2> QED
    BY <1>2, <2>7, <2>11, <2>13, <2>14, <2>15, PartsStay
<1> QED
  BY <1>3, <1>4

\* Pins come and go, and no message changes.
LEMMA OnlyPins ==
  ASSUME ContentInv, UNCHANGED <<content, file, applied, contended, died>>,
         pin' \in [MessageId -> [Contents!User -> {"none"} \cup Contents!Scope]],
         writing' \in [Handler -> Contents!HandlerState],
         \A g \in Handler : writing'[g] = writing[g] \/
           (writing[g].pc # "deleteRow" /\ writing'[g] = Contents!Idle),
         \A n \in MessageId : PinStays(n)
  PROVE  ContentInv'
<1>1. ContentTypes' /\ FilesStand
  BY DEF ContentInv, ContentTypes
<1>2. \A g \in Handler : WriterStays(writing[g], writing'[g])
  BY UnchangedContent, WriterWaits, WriterEnds, WritingStates DEF Contents!Editing
<1>3. FilesStand'
  BY <1>1, UnchangedContent, FilesStay
<1> QED
  BY <1>1, <1>2, <1>3, UnchangedContent, PartsStay

LEMMA UpsertPinStep ==
  ASSUME ContentInv, NEW h \in Handler, Contents!UpsertPin(h)
  PROVE  ContentInv'
<1> PICK k, m, u : k = writing[h] /\ m = k.on /\ u = k.user
  OBVIOUS
<1>1. ContentTypes /\ k \in Contents!HandlerState
  BY DEF ContentInv, ContentTypes
<1>2. /\ k.pc = "pin" /\ m \in MessageId /\ u \in Contents!User /\ k.scope \in Contents!Scope
      /\ Pinning(k, m) /\ UNCHANGED <<content, file, applied, contended, died>>
      /\ writing' = [writing EXCEPT ![h] = Contents!Idle]
  BY <1>1, WritingShapes
  DEF Contents!UpsertPin, Contents!Done, Contents!Goto, Pinning, Contents!Editing
<1>3. \A g \in Handler : writing'[g] = IF g = h THEN Contents!Idle ELSE writing[g]
  BY <1>1, <1>2 DEF ContentTypes
<1>4. \/ UNCHANGED pin
      \/ pin' = [pin EXCEPT ![m][u] = k.scope]
  BY DEF Contents!UpsertPin
<1>5. pin' \in [MessageId -> [Contents!User -> {"none"} \cup Contents!Scope]]
  BY <1>1, <1>2, <1>4 DEF ContentTypes
<1>6. \A n \in MessageId, v \in Contents!User :
        \/ pin'[n][v] = pin[n][v]
        \/ n = m /\ v = u /\ pin'[n][v] = k.scope
  BY <1>1, <1>2, <1>4 DEF ContentTypes
<1>7. PinStays(m)
  <2> SUFFICES ASSUME <<"pin", m>> \notin contended
               PROVE  \/ \A v \in Contents!User : pin'[m][v] = pin[m][v] \/ pin'[m][v] = "none"
                      \/ /\ PinsApart(pin'[m])
                         /\ \A g \in Handler : ~Pinning(writing'[g], m)
    BY <1>2 DEF PinStays, PinsApart, Contents!User
  <2>1. /\ \A g \in Handler : Pinning(writing[g], m) => g = h
        /\ PinFits(pin[m], u, k.scope) /\ PinsApart(pin[m])
    BY <1>2 DEF ContentInv, PinsStand
  <2>2. \A g \in Handler : ~Pinning(writing'[g], m)
    BY <1>3, <2>1, WritingStates DEF Pinning
  <2>3. PinsApart(pin'[m])
    BY <1>2, <1>6, <2>1 DEF PinsApart, PinFits, Contents!Scope
  <2> QED
    BY <2>2, <2>3
<1>8. \A n \in MessageId : PinStays(n)
  BY <1>6, <1>7 DEF PinStays
<1>9. writing' \in [Handler -> Contents!HandlerState]
  BY <1>1, <1>2, WritingStates DEF ContentTypes
<1> QED
  BY <1>2, <1>3, <1>5, <1>8, <1>9, OnlyPins

LEMMA UnpinStep ==
  ASSUME ContentInv, NEW m \in MessageId, NEW u \in Contents!User, Contents!Unpin(m, u)
  PROVE  ContentInv'
<1>1. ContentTypes
  BY DEF ContentInv
<1>2. pin' = [pin EXCEPT ![m][u] = "none"] /\ UNCHANGED <<content, file, applied, writing, contended, died>>
  BY DEF Contents!Unpin
<1>3. pin' \in [MessageId -> [Contents!User -> {"none"} \cup Contents!Scope]]
  BY <1>1, <1>2 DEF ContentTypes
<1>4. \A n \in MessageId : PinStays(n)
  BY <1>1, <1>2 DEF ContentTypes, PinStays
<1>5. writing' \in [Handler -> Contents!HandlerState]
  BY <1>1, <1>2 DEF ContentTypes
<1> QED
  BY <1>2, <1>3, <1>4, <1>5, OnlyPins

LEMMA ContentCrashStep ==
  ASSUME ContentInv, Contents!Crash
  PROVE  ContentInv'
<1>1. UNCHANGED <<content, pin, file, applied, contended>> /\ (died' <=> TRUE)
  BY DEF Contents!Crash
<1>2. \A g \in Handler : writing'[g] = Contents!Idle
  BY DEF Contents!Crash
<1>3. ContentTypes'
  BY <1>1, WritingStates DEF ContentInv, ContentTypes, Contents!Crash
<1>4. FilesStand'
  BY <1>1 DEF FilesStand
<1>5. \A g \in Handler : WriterStays(writing[g], writing'[g])
  BY <1>2, WriterEnds, WritingStates DEF Contents!Editing
<1>6. \A n \in MessageId : ContentStays(n) /\ PinStays(n)
  BY <1>1, UnchangedContent DEF PinStays
<1> QED
  BY <1>1, <1>3, <1>4, <1>5, <1>6, PartsStay

LEMMA InitContentInv == Contents!Init => ContentInv
<1> SUFFICES ASSUME Contents!Init PROVE ContentInv
  OBVIOUS
<1>1. /\ \A m \in MessageId : content[m] = Contents!Absent
      /\ \A h \in Handler : writing[h] = Contents!Idle
      /\ \A m \in MessageId, u \in Contents!User : pin[m][u] = "none"
      /\ contended = {}
  BY DEF Contents!Init
<1>2. ContentTypes
  BY WritingStates DEF Contents!Init, ContentTypes
<1>3. Contents!Sent = {}
  BY <1>1 DEF Contents!Sent
<1>4. \A h \in Handler : writing[h].pc = "idle"
  BY <1>1, WritingStates
<1>5. MessagesStand /\ PinsStand
  BY <1>1, <1>3, <1>4 DEF MessagesStand, PinsStand, PinsApart, Edits, Pinning, Contents!Editing
<1>6. FilesStand
  BY <1>3 DEF FilesStand
<1>7. \A h \in Handler : SendFits(writing[h]) /\ OnSent(writing[h])
  BY <1>4 DEF SendFits, OnSent, Contents!Editing
<1> QED
  BY <1>2, <1>5, <1>6, <1>7 DEF ContentInv

LEMMA NextContentInv == ContentInv /\ Contents!Next => ContentInv'
<1> SUFFICES ASSUME ContentInv, Contents!Next PROVE ContentInv'
  OBVIOUS
<1>1. ASSUME NEW h \in Handler, Contents!Apply(h) PROVE ContentInv'
  BY <1>1, ApplyStep
<1>2. ASSUME NEW h \in Handler, Contents!WriteContent(h) PROVE ContentInv'
  BY <1>2, WriteContentStep
<1>3. ASSUME NEW h \in Handler, Contents!DeleteFile(h) PROVE ContentInv'
  BY <1>3, DeleteFileStep
<1>4. ASSUME NEW h \in Handler, Contents!DeleteRow(h) PROVE ContentInv'
  BY <1>4, DeleteRowStep
<1>5. ASSUME NEW h \in Handler, Contents!UpsertPin(h) PROVE ContentInv'
  BY <1>5, UpsertPinStep
<1>6. ASSUME NEW h \in Handler, NEW row \in Contents!MessageRow, Contents!CreateMessage(h, row)
      PROVE  ContentInv'
  BY <1>6, CreateMessageStep
<1>7. ASSUME NEW h \in Handler, NEW m \in MessageId, Contents!SendCoverLetter(h, m)
      PROVE  ContentInv'
  BY <1>7, SendCoverLetterStep
<1>8. ASSUME NEW h \in Handler, NEW m \in MessageId, Contents!InsertMessage(h, m)
      PROVE  ContentInv'
  BY <1>8, InsertMessageStep
<1>9. ASSUME NEW h \in Handler, NEW m \in MessageId, NEW text \in BOOLEAN,
             Contents!UpdateMessage(h, m, text)
      PROVE  ContentInv'
  BY <1>9, UpdateMessageStep
<1>10. ASSUME NEW h \in Handler, NEW m \in MessageId, NEW x \in Item,
              Contents!RemoveAttachment(h, m, x)
       PROVE  ContentInv'
  BY <1>10, RemoveAttachmentStep
<1>11. ASSUME NEW h \in Handler, NEW m \in MessageId, NEW u \in Contents!User,
              NEW scope \in Contents!Scope, Contents!PinMessage(h, m, u, scope)
       PROVE  ContentInv'
  BY <1>11, PinMessageStep
<1>12. ASSUME NEW m \in MessageId, NEW u \in Contents!User, Contents!Unpin(m, u) PROVE ContentInv'
  BY <1>12, UnpinStep
<1>13. Contents!Crash => ContentInv'
  BY ContentCrashStep
<1> QED
  BY <1>1, <1>2, <1>3, <1>4, <1>5, <1>6, <1>7, <1>8, <1>9, <1>10, <1>11, <1>12, <1>13
  DEF Contents!Next

LEMMA QuietContent == ContentInv /\ UNCHANGED contentVars => ContentInv'
<1> SUFFICES ASSUME ContentInv, UNCHANGED contentVars PROVE ContentInv'
  OBVIOUS
<1>1. UNCHANGED <<content, pin, file, applied, writing, contended, died>>
  BY DEF contentVars
<1>2. pin' \in [MessageId -> [Contents!User -> {"none"} \cup Contents!Scope]]
      /\ writing' \in [Handler -> Contents!HandlerState]
  BY <1>1 DEF ContentInv, ContentTypes
<1>3. \A n \in MessageId : PinStays(n)
  BY <1>1 DEF PinStays
<1> QED
  BY <1>1, <1>2, <1>3, OnlyPins
-----------------------------------------------------------------------------
(* The dialog as a whole.                                                    *)

\* The invariant of the messages holds in every state of a dialog.
THEOREM ContentInvariance == ChatSpec => []ContentInv
<1>1. ChatInit => ContentInv
  BY InitContentInv DEF ChatInit
<1>2. ContentInv /\ [ReadStep \/ ContentStep]_<<vars, contentVars>> => ContentInv'
  <2>1. ContentInv /\ ContentStep => ContentInv'
    BY NextContentInv DEF ContentStep
  <2>2. ContentInv /\ (ReadStep \/ UNCHANGED <<vars, contentVars>>) => ContentInv'
    BY QuietContent DEF ReadStep
  <2> QED
    BY <2>1, <2>2
<1> QED
  BY <1>1, <1>2, PTL DEF ChatSpec

\* The reading is as it is by itself, whatever becomes of what the messages consist of.
LEMMA ReadsByThemselves == ChatSpec => Spec
<1>1. ChatInit => Init
  BY DEF ChatInit
<1>2. [ReadStep \/ ContentStep]_<<vars, contentVars>> => [Next]_vars
  BY DEF ReadStep, ContentStep
<1> QED
  BY <1>1, <1>2, PTL DEF ChatSpec, Spec

\* What holds of the cursor holds in the dialog as a whole.
THEOREM ReadsAreSafe == ChatSpec => [](NothingReadUnseen /\ SeenIsRead)
  BY ReadsByThemselves, NothingIsReadUnseen, SeenStaysRead, PTL

LEMMA ContentsCountAlike == \A S : Contents!Cardinality(S) = Cardinality(S)
  BY DEF Contents!Cardinality, Cardinality

\* updateMessage, removeAttachment, pinMessage: no message is left with nothing, every
\* attachment that is listed has its object, and nobody sees two pins on one message,
\* for any number of messages, attachments and requests, but for those that overlap.
THEOREM MessagesAlwaysStand == ChatSpec => []MessageStands
<1>1. ContentInv => MessageStands
  <2> SUFFICES ASSUME ContentInv PROVE MessageStands
    OBVIOUS
  <2>1. ContentTypes /\ Contents!Sent \subseteq MessageId
    BY SentAre DEF ContentInv
  <2>2. \A m \in Contents!Sent : <<"content", m>> \in contended \/ ~Contents!IsEmpty(content[m])
    BY <2>1 DEF ContentInv, MessagesStand
  <2>3. ASSUME NEW m \in Contents!Sent, <<"pin", m>> \notin contended, NEW u \in Contents!User
        PROVE  Cardinality({v \in Contents!User : <<m, v>> \in Contents!ListMessagePins(u)}) <= 1
    <3> PICK Shown : Shown = {v \in Contents!User : <<m, v>> \in Contents!ListMessagePins(u)}
      OBVIOUS
    <3>1. PinsApart(pin[m])
      BY <2>1, <2>3 DEF ContentInv, PinsStand
    <3>2. \A v \in Shown : pin[m][v] = "SHARED" \/ (v = u /\ pin[m][v] = "PERSONAL")
      BY DEF Contents!ListMessagePins
    <3>3. \A v, w \in Shown : v = w
      BY <3>1, <3>2 DEF PinsApart
    <3>4. Shown = {} \/ \E v : Shown = {v}
      BY <3>3
    <3>5. Cardinality(Shown) = 0 \/ Cardinality(Shown) = 1
      BY <3>4, FS_EmptySet, FS_Singleton, Zenon
    <3>6. Cardinality(Shown) <= 1
      BY <3>5
    <3> QED
      BY <3>6
  <2>4. ASSUME ~died, NEW a \in Contents!ListAttachments \ file PROVE Dropping(a)
    <3>1. PICK m \in Contents!Sent, x \in Item : a = <<m, x>> /\ x \in content[m].media
      BY <2>4 DEF Contents!ListAttachments
    <3> QED
      BY <2>4, <3>1 DEF ContentInv, FilesStand
  <2> QED
    BY <2>2, <2>3, <2>4, ContentsCountAlike DEF MessageStands, Contents!MessageStands, Dropping
<1> QED
  BY <1>1, ContentInvariance, PTL

\* getApplicantWriteBlockReason: who has applied waits for the company to write, but for
\* the cover letter and for what was on its way already.
THEOREM ApplicantAlwaysWaits == ChatSpec => ApplicantWaits
<1> DEFINE Waits(h) ==
      writing[h].pc = "send" /\ content' # content /\ writing'[h] = Contents!Idle =>
        \/ writing[h].raced
        \/ writing[h].row.sender = Company
        \/ ~applied
        \/ Contents!Wrote(Company)
<1>1. ContentInv => \A h \in Handler : Waits(h)
  BY DEF ContentInv, SendFits
<1>2. ContentInv => [\A h \in Handler : Waits(h)]_contentVars
  BY <1>1
<1> QED
  BY <1>2, ContentInvariance, PTL DEF ApplicantWaits, Contents!ApplicantWaits, contentVars, Contents!vars
=============================================================================

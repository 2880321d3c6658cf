------------------------- MODULE TaskCommentsProofs --------------------------
(* Safety of TaskComments, for every set of people, comments and files and   *)
(* any number of requests.  Inv is the inductive invariant: what a request   *)
(* in flight has looked at still holds when it writes, whatever the others   *)
(* wrote meanwhile.                                                          *)
EXTENDS TaskComments, TLAPS, NaturalsInduction, WellFoundedInduction

TypeOK ==
  /\ executor \in Executor \cup {None}
  /\ comment \in [CommentId -> CommentRow \cup {Absent}]
  /\ object \subseteq File
  /\ pinned \subseteq CommentId
  /\ clock \in Nat
  /\ cursor \in [User -> Nat]
  /\ heard \in [CommentId -> Event]
  /\ handler \in [Handler -> HandlerState]
  /\ seen \in [User -> SUBSET CommentId]
  /\ overtaken \in [User -> SUBSET Nat]
  /\ blind \subseteq User
  /\ doomed \subseteq CommentId
  /\ raced \subseteq CommentId

Working == {"announce", "edit", "announceEdit", "files", "announceDelete"}

\* A cursor at t is behind what has not been looked at, there or on its way, but for
\* what is known to have been overtaken.
Behind(t, saw, passed) ==
  /\ \A c \in Present \ saw : t < comment[c].at \/ comment[c].at \in passed
  /\ \A s \in OnTheirWay : t < s \/ s \in passed

\* What a request in flight has looked at still holds when it writes.
Fits(l) ==
  /\ l.pc \in {"reply", "insert", "commit"} => MayWrite(l.text, l.media)
  /\ l.pc = "commit" => l.at <= clock
  /\ l.pc \in Working => comment[l.on] # Absent
  /\ l.pc = "edit" => MayWrite(l.text, comment[l.on].media)
  /\ l.pc = "files" => /\ l.on \in doomed
                       /\ l.left \subseteq comment[l.on].media
                       /\ (comment[l.on].media \ l.left) \cap object = {}
  /\ l.pc = "mark" /\ l.saw # {} => l.at <= clock /\ Behind(l.at, l.saw, l.passed)

HandlersFit == \A h \in Handler : Fits(handler[h])

\* A file that is missing is one of a comment whose deletion was begun.
FilesFit ==
  /\ \A c \in Gone : comment[c].media \cap object = {}
  /\ pinned \subseteq Present
  /\ doomed \subseteq Present \cup Gone
  /\ \A f \in File \ object : \E d \in doomed : f \in comment[d].media

\* A comment that comes is later than every cursor, or was overtaken.
ReadsFit ==
  /\ \A c \in Present \cup Gone : comment[c].at <= clock
  /\ \A u \in User : cursor[u] <= clock
  /\ \A u \in User \ blind : Behind(cursor[u], seen[u], overtaken[u])

\* The room has heard what the table says.
Agrees(c) ==
  heard[c] = CASE c \in Present -> comment[c].text
               [] c \in Gone -> "deleted"
               [] OTHER -> "none"

\* What a request will tell is what the table says, or it has not written yet.
Tells(l) ==
  /\ l.pc \in {"announce", "announceEdit"} => l.on \in Present /\ comment[l.on].text = l.text
  /\ l.pc = "announceDelete" => l.on \in Gone
  /\ l.pc \in {"edit", "files"} => Agrees(l.on)

RoomFits(c) ==
  c \notin raced =>
    /\ \A g, h \in AtWork(c) : g = h
    /\ \A h \in AtWork(c) : Tells(handler[h])
    /\ AtWork(c) = {} => Agrees(c)

Inv ==
  /\ TypeOK
  /\ HandlersFit
  /\ NoEmptyComment
  /\ FilesFit
  /\ ReadsFit
  /\ \A c \in CommentId : RoomFits(c)
-----------------------------------------------------------------------------
(* Lemmas on the operators.                                                  *)

\* A row of the table, as what it is made of.
LEMMA RowShape ==
  /\ \A r \in CommentRow :
       /\ r.state \in {"present", "gone"} /\ r.author \in User /\ r.text \in Text
       /\ r.media \in SUBSET File /\ r.at \in Nat /\ r.replyTo \in CommentId \cup {None}
       /\ r # Absent
  /\ \A author \in User, text \in Text, media \in SUBSET File, at \in Nat,
        reply \in CommentId \cup {None} :
       [state |-> "present", author |-> author, text |-> text, media |-> media,
        at |-> at, replyTo |-> reply] \in CommentRow
  BY DEF CommentRow, Absent

\* An edit changes the text alone.
LEMMA EditRow ==
  ASSUME NEW r \in CommentRow, NEW text \in Text
  PROVE  LET e == [r EXCEPT !.text = text]
         IN  /\ e \in CommentRow /\ e.text = text
             /\ e.state = r.state /\ e.media = r.media /\ e.at = r.at /\ e.author = r.author
  BY DEF CommentRow

LEMMA ForgetReply ==
  ASSUME NEW r \in CommentRow
  PROVE  LET e == [r EXCEPT !.replyTo = None]
         IN  /\ e \in CommentRow /\ e.text = r.text
             /\ e.state = r.state /\ e.media = r.media /\ e.at = r.at /\ e.author = r.author
  BY DEF CommentRow

LEMMA GoneRow ==
  ASSUME NEW r \in CommentRow
  PROVE  LET e == [r EXCEPT !.state = "gone", !.replyTo = None]
         IN  /\ e \in CommentRow /\ e.text = r.text /\ e.state = "gone"
             /\ e.media = r.media /\ e.at = r.at /\ e.author = r.author
  BY DEF CommentRow

\* The program counter of a handler tells what it holds.
LEMMA Shape ==
  ASSUME NEW l \in HandlerState
  PROVE  /\ l.pc \in {"reply", "insert", "commit"} =>
              /\ l.user \in User /\ l.text \in Text /\ l.media \in SUBSET File
              /\ l.replyTo \in CommentId \cup {None}
         /\ l.pc \in Working => l.on \in CommentId
         /\ l.pc \in {"announce", "edit", "announceEdit"} => l.text \in Text
         /\ l.pc = "files" => l.left \in SUBSET File
         /\ l.pc = "pin" => l.on \in CommentId
         /\ l.pc \in {"latest", "mark"} => l.user \in User
         /\ l.pc = "commit" => l.at \in Nat
         /\ l.pc = "mark" => l.at \in Nat /\ l.saw \in SUBSET CommentId /\ l.passed \in SUBSET Nat
  BY DEF HandlerState, Idle, Working

\* Goto moves one handler.
LEMMA GotoMoves ==
  ASSUME TypeOK, NEW h \in Handler, NEW l \in HandlerState, Goto(h, l)
  PROVE  /\ handler' \in [Handler -> HandlerState]
         /\ handler'[h] = l
         /\ \A g \in Handler \ {h} : handler'[g] = handler[g]
  BY DEF TypeOK, Goto
\* And the other way round.
LEMMA Shapes ==
  /\ Idle \in HandlerState
  /\ \A pc \in {"reply", "insert"}, u \in User, t \in Text, m \in SUBSET File,
        r \in CommentId \cup {None} :
       [pc |-> pc, user |-> u, text |-> t, media |-> m, replyTo |-> r] \in HandlerState
  /\ \A u \in User, t \in Text, m \in SUBSET File, r \in CommentId \cup {None}, at \in Nat :
       [pc |-> "commit", user |-> u, text |-> t, media |-> m, replyTo |-> r, at |-> at]
         \in HandlerState
  /\ \A pc \in {"announce", "edit", "announceEdit"}, c \in CommentId, t \in Text :
       [pc |-> pc, on |-> c, text |-> t] \in HandlerState
  /\ \A c \in CommentId, left \in SUBSET File :
       [pc |-> "files", on |-> c, left |-> left] \in HandlerState
  /\ \A pc \in {"announceDelete", "pin"}, c \in CommentId :
       [pc |-> pc, on |-> c] \in HandlerState
  /\ \A u \in User : [pc |-> "latest", user |-> u] \in HandlerState
  /\ \A u \in User, at \in Nat, saw \in SUBSET CommentId, passed \in SUBSET Nat :
       [pc |-> "mark", user |-> u, at |-> at, saw |-> saw, passed |-> passed] \in HandlerState
  BY DEF HandlerState

\* A comment that is there has a row, another has none.
LEMMA Rows ==
  ASSUME TypeOK
  PROVE  /\ \A c \in CommentId : comment[c] # Absent <=> comment[c] \in CommentRow
         /\ \A c \in CommentId : comment[c] # Absent <=> c \in Present \cup Gone
         /\ Present \cup Gone \subseteq CommentId /\ Present \cap Gone = {}
<1>1. Absent.state = "absent"
  BY DEF Absent
<1>2. \A c \in CommentId : comment[c] \in CommentRow \cup {Absent}
  BY DEF TypeOK
<1> QED
  BY <1>1, <1>2, RowShape DEF Present, Gone
-----------------------------------------------------------------------------
(* What a step leaves alone.                                                 *)

\* A comment keeps its files and its time; one that comes was on its way; no object
\* comes back.
CommentsStay ==
  /\ \A c \in CommentId : comment[c] # Absent =>
       /\ comment'[c] # Absent
       /\ comment'[c].media = comment[c].media
       /\ comment'[c].at = comment[c].at
  /\ \A c \in Present' : c \in Present \/ comment'[c].at \in OnTheirWay
  /\ object' \subseteq object
  /\ doomed \subseteq doomed'
  /\ clock <= clock'

\* What sets out is later than any.
WayStays == \A t \in OnTheirWay' : t \in OnTheirWay \/ clock < t

LEMMA WayTimes ==
  ASSUME TypeOK
  PROVE  OnTheirWay \subseteq Nat
<1>1. \A g \in Handler : handler[g].pc = "commit" => handler[g].at \in Nat
  BY Shape DEF TypeOK
<1> QED
  BY <1>1 DEF OnTheirWay

LEMMA WayTimesNext ==
  ASSUME TypeOK'
  PROVE  OnTheirWay' \subseteq Nat
<1>1. \A g \in Handler : handler'[g].pc = "commit" => handler'[g].at \in Nat
  BY Shape DEF TypeOK
<1> QED
  BY <1>1 DEF OnTheirWay

\* A cursor stays behind what it was behind.
LEMMA BehindStays ==
  ASSUME TypeOK, TypeOK', CommentsStay, WayStays, NEW t \in Nat, t <= clock,
         NEW saw, NEW passed, Behind(t, saw, passed)
  PROVE  Behind(t, saw, passed)'
<1>1. clock \in Nat /\ OnTheirWay' \subseteq Nat
  BY WayTimesNext DEF TypeOK
<1>2. ASSUME NEW c \in Present' \ saw PROVE t < comment'[c].at \/ comment'[c].at \in passed
  <2>1. CASE c \in Present
    <3>1. comment'[c].at = comment[c].at
      BY <2>1, Rows DEF CommentsStay
    <3> QED
      BY <2>1, <3>1 DEF Behind
  <2>2. CASE comment'[c].at \in OnTheirWay
    BY <2>2 DEF Behind
  <2> QED
    BY <2>1, <2>2 DEF CommentsStay
<1>3. ASSUME NEW s \in OnTheirWay' PROVE t < s \/ s \in passed
  BY <1>1 DEF Behind, WayStays
<1> QED
  BY <1>2, <1>3 DEF Behind

\* So what a request has looked at still holds.
LEMMA FitsStay ==
  ASSUME TypeOK, TypeOK', CommentsStay, WayStays, NEW l \in HandlerState, Fits(l)
  PROVE  Fits(l)'
<1>1. l.pc \in Working => l.on \in CommentId /\ comment'[l.on] # Absent
  BY Shape DEF Fits, CommentsStay
<1>2. l.pc \in {"edit", "files"} => l.pc \in Working /\ comment'[l.on].media = comment[l.on].media
  BY Shape DEF Fits, CommentsStay, Working
<1>3. clock \in Nat /\ clock' \in Nat /\ clock <= clock'
  BY DEF TypeOK, CommentsStay
<1>4. l.pc = "mark" /\ l.saw # {} => l.at <= clock' /\ Behind(l.at, l.saw, l.passed)'
  <2> SUFFICES ASSUME l.pc = "mark", l.saw # {}
               PROVE  l.at <= clock' /\ Behind(l.at, l.saw, l.passed)'
    OBVIOUS
  <2>1. PICK at, saw, passed :
          at \in Nat /\ at = l.at /\ saw = l.saw /\ passed = l.passed
    BY Shape
  <2>2. at <= clock /\ Behind(at, saw, passed)
    BY <2>1 DEF Fits
  <2>3. Behind(at, saw, passed)'
    BY <2>1, <2>2, BehindStays
  <2> QED
    BY <1>3, <2>1, <2>2, <2>3
<1>5. l.pc = "commit" => l.at <= clock'
  BY <1>3, Shape DEF Fits
<1> QED
  BY <1>1, <1>2, <1>4, <1>5 DEF Fits, CommentsStay, MayWrite

\* A handler that moves sets out on no comment, or on one later than any.
LEMMA WayStep ==
  ASSUME TypeOK, NEW h \in Handler, NEW l \in HandlerState, Goto(h, l),
         l.pc = "commit" => clock < l.at
  PROVE  WayStays
<1>1. handler'[h] = l /\ \A g \in Handler \ {h} : handler'[g] = handler[g]
  BY GotoMoves
<1>2. SUFFICES ASSUME NEW g \in Handler, handler'[g].pc = "commit"
               PROVE  handler'[g].at \in OnTheirWay \/ clock < handler'[g].at
  BY DEF WayStays, OnTheirWay
<1>3. CASE g = h
  BY <1>1, <1>2, <1>3
<1>4. CASE g # h
  BY <1>1, <1>2, <1>4 DEF OnTheirWay
<1> QED
  BY <1>3, <1>4

\* A step of one handler.
LEMMA HandlersStep ==
  ASSUME Inv, TypeOK', CommentsStay, NEW h \in Handler, NEW l \in HandlerState,
         Goto(h, l), Fits(l)', l.pc = "commit" => clock < l.at
  PROVE  HandlersFit'
<1>0. WayStays
  BY WayStep DEF Inv
<1>1. handler'[h] = l /\ \A g \in Handler \ {h} : handler'[g] = handler[g]
  BY GotoMoves DEF Inv
<1>2. ASSUME NEW g \in Handler \ {h} PROVE Fits(handler[g])'
  <2>1. PICK k \in HandlerState : k = handler[g]
    BY DEF Inv, TypeOK
  <2>2. Fits(k)
    BY <2>1 DEF Inv, HandlersFit
  <2>3. Fits(k)'
    BY <1>0, <2>2, FitsStay DEF Inv
  <2>4. handler'[g] = k
    BY <1>1, <2>1
  <2> QED
    BY <2>3, <2>4
<1> QED
  BY <1>1, <1>2 DEF HandlersFit

\* The room of a comment that no handler turns to or from.
LEMMA RoomStays ==
  ASSUME NEW c \in CommentId, RoomFits(c),
         AtWork(c)' = AtWork(c), \A g \in AtWork(c) : handler'[g] = handler[g],
         c \in Present <=> c \in Present', c \in Gone <=> c \in Gone',
         c \in Present => comment'[c].text = comment[c].text,
         heard'[c] = heard[c], c \in raced => c \in raced'
  PROVE  RoomFits(c)'
<1> SUFFICES ASSUME c \notin raced'
             PROVE  /\ \A g, h \in AtWork(c)' : g = h
                    /\ \A h \in AtWork(c)' : Tells(handler[h])'
                    /\ AtWork(c)' = {} => Agrees(c)'
  BY DEF RoomFits
<1>1. /\ \A g, h \in AtWork(c) : g = h
      /\ \A h \in AtWork(c) : Tells(handler[h])
      /\ AtWork(c) = {} => Agrees(c)
  BY DEF RoomFits
<1>2. Agrees(c)' = Agrees(c)
  BY DEF Agrees
<1>3. ASSUME NEW h \in AtWork(c) PROVE Tells(handler[h])'
  <2>1. handler[h].on = c /\ Tells(handler[h]) /\ handler'[h] = handler[h]
    BY <1>1 DEF AtWork
  <2> QED
    BY <1>2, <2>1 DEF Tells
<1> QED
  BY <1>1, <1>2, <1>3

\* The room of the comment that one handler works on.
LEMMA RoomStep ==
  ASSUME TypeOK, NEW c \in CommentId, NEW h \in Handler, RoomFits(c),
         \A g \in Handler \ {h} : handler'[g] = handler[g],
         c \notin raced' => /\ c \notin raced /\ AtWork(c) \subseteq {h}
                            /\ IF h \in AtWork(c)' THEN Tells(handler[h])' ELSE Agrees(c)'
  PROVE  RoomFits(c)'
<1> SUFFICES ASSUME c \notin raced' PROVE RoomFits(c)'
  BY DEF RoomFits
<1>1. AtWork(c)' \subseteq {h}
  BY DEF AtWork
<1> QED
  BY <1>1 DEF RoomFits

\* Who works on a comment does so alone, unless it is raced for.
LEMMA WorksAlone ==
  ASSUME Inv, NEW h \in Handler, handler[h].pc \in Working, handler[h].on \in CommentId \ raced
  PROVE  AtWork(handler[h].on) \subseteq {h} /\ Tells(handler[h])
<1>1. h \in AtWork(handler[h].on)
  BY DEF AtWork, Working
<1> QED
  BY <1>1 DEF Inv, RoomFits
\* A handler that neither was nor will be at work on a comment leaves its room.
LEMMA Elsewhere ==
  ASSUME TypeOK, NEW h \in Handler, NEW l \in HandlerState, Goto(h, l), NEW c \in CommentId,
         handler[h].pc \notin Working \/ handler[h].on # c, l.pc \notin Working \/ l.on # c
  PROVE  AtWork(c)' = AtWork(c) /\ \A g \in AtWork(c) : handler'[g] = handler[g]
<1>1. handler'[h] = l /\ \A g \in Handler \ {h} : handler'[g] = handler[g]
  BY GotoMoves
<1>2. h \notin AtWork(c) /\ h \notin AtWork(c)'
  BY <1>1 DEF AtWork, Working
<1>3. \A g \in Handler \ {h} : g \in AtWork(c)' <=> g \in AtWork(c)
  BY <1>1 DEF AtWork
<1>4. AtWork(c) \subseteq Handler /\ AtWork(c)' \subseteq Handler
  BY DEF AtWork
<1> QED
  BY <1>1, <1>2, <1>3, <1>4

\* The comments stay when their rows do.
LEMMA SameComments ==
  ASSUME Inv, UNCHANGED <<comment, clock>>, object' \subseteq object, doomed \subseteq doomed'
  PROVE  CommentsStay /\ Present' = Present /\ Gone' = Gone
  BY DEF CommentsStay, Present, Gone, Inv, TypeOK

\* The cursors stay behind what they were behind.
LEMMA ReadsStay ==
  ASSUME Inv, TypeOK', CommentsStay, WayStays, UNCHANGED <<cursor, seen, overtaken, blind>>,
         Gone' \subseteq Present \cup Gone
  PROVE  ReadsFit'
<1>1. /\ clock \in Nat /\ clock' \in Nat /\ clock <= clock'
      /\ \A u \in User : cursor[u] \in Nat /\ cursor[u] <= clock
  BY DEF Inv, TypeOK, CommentsStay, ReadsFit
<1>2. OnTheirWay \subseteq 0..clock
  <2>1. \A g \in Handler : handler[g].pc = "commit" =>
          handler[g].at \in Nat /\ handler[g].at <= clock
    BY Shape DEF Inv, TypeOK, HandlersFit, Fits
  <2> QED
    BY <1>1, <2>1 DEF OnTheirWay
<1>3. \A c \in Present \cup Gone :
        c \in CommentId /\ comment[c].at \in Nat /\ comment[c].at <= clock
        /\ comment'[c].at = comment[c].at
  BY Rows, RowShape DEF Inv, ReadsFit, CommentsStay
<1>4. ASSUME NEW c \in Present' \cup Gone' PROVE comment'[c].at <= clock'
  <2>1. CASE c \in Present \cup Gone
    BY <1>1, <1>3, <2>1
  <2>2. CASE comment'[c].at \in OnTheirWay
    <3>1. PICK n \in 0..clock : n = comment'[c].at
      BY <1>2, <2>2
    <3> QED
      BY <1>1, <3>1
  <2> QED
    BY <2>1, <2>2 DEF CommentsStay
<1>5. \A u \in User : cursor'[u] <= clock'
  BY <1>1
<1>6. ASSUME NEW u \in User \ blind'
      PROVE  Behind(cursor[u], seen[u], overtaken[u])'
  <2>1. PICK t, saw, passed :
          /\ t \in Nat /\ t <= clock
          /\ t = cursor[u] /\ saw = seen[u] /\ passed = overtaken[u]
    BY <1>1
  <2>2. Behind(t, saw, passed)
    BY <1>6, <2>1 DEF Inv, ReadsFit
  <2>3. Behind(t, saw, passed)'
    BY <2>1, <2>2, BehindStays DEF Inv
  <2> QED
    BY <2>1, <2>3
<1> QED
  BY <1>4, <1>5, <1>6 DEF ReadsFit

LEMMA SameReads ==
  ASSUME Inv, TypeOK', WayStays, object' \subseteq object, doomed \subseteq doomed',
         UNCHANGED <<comment, clock, cursor, seen, overtaken, blind>>
  PROVE  NoEmptyComment' /\ ReadsFit'
<1>1. CommentsStay /\ Present' = Present /\ Gone' = Gone
  BY SameComments
<1> QED
  BY <1>1, ReadsStay DEF Inv, NoEmptyComment

LEMMA SameRooms ==
  ASSUME Inv, UNCHANGED <<comment, heard>>, NEW h \in Handler, NEW l \in HandlerState,
         Goto(h, l), NEW c \in CommentId,
         handler[h].pc \notin Working \/ handler[h].on # c, l.pc \notin Working \/ l.on # c,
         c \in raced => c \in raced'
  PROVE  RoomFits(c)'
<1>1. AtWork(c)' = AtWork(c) /\ \A g \in AtWork(c) : handler'[g] = handler[g]
  BY Elsewhere DEF Inv
<1>2. Present' = Present /\ Gone' = Gone
  BY DEF Present, Gone
<1>3. RoomFits(c)
  BY DEF Inv
<1> QED
  BY <1>1, <1>2, <1>3, RoomStays
-----------------------------------------------------------------------------
(* Steps of one request that change no comment.                              *)

LEMMA WritesNoComment ==
  ASSUME Inv, NEW h \in Handler, NEW l \in HandlerState, Goto(h, l), Fits(l),
         UNCHANGED <<executor, store, cursor, seen, overtaken, blind>>, heard' \in [CommentId -> Event],
         doomed' \in SUBSET CommentId, raced' \in SUBSET CommentId,
         doomed \subseteq doomed', raced \subseteq raced', doomed' \subseteq Present \cup Gone,
         l.pc # "commit", \A c \in CommentId : RoomFits(c)'
  PROVE  Inv'
<1>1. UNCHANGED <<comment, object, pinned, clock>>
  BY DEF store
<1>2. CommentsStay /\ Present' = Present /\ Gone' = Gone
  BY <1>1, SameComments
<1>3. TypeOK'
  BY <1>1, GotoMoves DEF Inv, TypeOK
<1>4. Fits(l)'
  BY <1>2, <1>3, WayStep, FitsStay DEF Inv
<1>5. HandlersFit'
  BY <1>2, <1>3, <1>4, HandlersStep
<1>6. NoEmptyComment' /\ ReadsFit'
  BY <1>1, <1>3, WayStep, SameReads DEF Inv
<1>7. FilesFit'
  BY <1>1, <1>2 DEF Inv, FilesFit
<1> QED
  BY <1>3, <1>5, <1>6, <1>7 DEF Inv

\* Nor has it to do with what is told.
LEMMA QuietStep ==
  ASSUME Inv, NEW h \in Handler, NEW l \in HandlerState, Goto(h, l), Fits(l),
         handler[h].pc \notin Working, l.pc \notin Working, l.pc # "commit",
         UNCHANGED <<executor, store, cursor, heard, history>>
  PROVE  Inv'
<1>1. UNCHANGED <<comment, seen, overtaken, blind, doomed, raced>>
  BY DEF store, history
<1>2. \A c \in CommentId : RoomFits(c)'
  BY <1>1, SameRooms
<1>3. /\ doomed \in SUBSET CommentId /\ raced \in SUBSET CommentId
      /\ doomed \subseteq Present \cup Gone /\ heard \in [CommentId -> Event]
  BY DEF Inv, TypeOK, FilesFit
<1> QED
  BY <1>1, <1>2, <1>3, WritesNoComment

LEMMA IdleFits ==
  Idle \in HandlerState /\ Idle.pc \notin Working /\ Idle.pc # "commit" /\ Fits(Idle)
  BY Shapes DEF Idle, Fits, Working

\* A request that is refused or finished writes nothing.
LEMMA GivesUp ==
  ASSUME Inv, NEW h \in Handler, Done(h), handler[h].pc \notin Working,
         UNCHANGED <<executor, store, cursor, heard, history>>
  PROVE  Inv'
  BY QuietStep, IdleFits DEF Done

LEMMA CreateCommentInv ==
  ASSUME Inv, NEW h \in Handler, NEW u \in User, NEW text \in Text, NEW media \in SUBSET File,
         NEW reply \in CommentId \cup {None}, CreateComment(h, u, text, media, reply)
  PROVE  Inv'
<1>1. PICK pc \in {"reply", "insert"} : pc = IF reply = None THEN "insert" ELSE "reply"
  OBVIOUS
<1> DEFINE l == [pc |-> pc, user |-> u, text |-> text, media |-> media, replyTo |-> reply]
<1>2. /\ handler[h] = Idle /\ MayWrite(text, media) /\ Goto(h, l)
      /\ UNCHANGED <<executor, store, cursor, heard, history>>
  BY <1>1 DEF CreateComment
<1>3. l \in HandlerState /\ l.pc \notin Working /\ l.pc # "commit"
  BY Shapes DEF Working
<1>4. Fits(l)
  BY <1>2 DEF Fits, Working
<1> HIDE DEF l
<1> QED
  BY <1>2, <1>3, <1>4, IdleFits, QuietStep

LEMMA FindReplyInv ==
  ASSUME Inv, NEW h \in Handler, FindReply(h)
  PROVE  Inv'
<1>1. PICK k \in HandlerState : k = handler[h]
  BY DEF Inv, TypeOK
<1>2. k.pc = "reply" /\ Fits(k) /\ k.pc \notin Working
  BY <1>1 DEF FindReply, Inv, HandlersFit, Working
<1>3. CASE k.replyTo \notin Present
  BY <1>1, <1>2, <1>3, GivesUp DEF FindReply
<1>4. CASE k.replyTo \in Present
  <2>1. PICK l : l = [k EXCEPT !.pc = "insert"]
    OBVIOUS
  <2>2. /\ l \in HandlerState /\ l.pc = "insert" /\ l.text = k.text /\ l.media = k.media
    BY <1>2, <2>1 DEF HandlerState, Idle
  <2>3. Fits(l) /\ l.pc \notin Working
    BY <1>2, <2>2 DEF Fits, Working
  <2>4. Goto(h, l) /\ UNCHANGED <<executor, store, cursor, heard, history>>
    BY <1>1, <1>4, <2>1 DEF FindReply
  <2> QED
    BY <1>1, <1>2, <2>2, <2>3, <2>4, QuietStep
<1> QED
  BY <1>3, <1>4

LEMMA InsertFailsInv ==
  ASSUME Inv, NEW h \in Handler, InsertFails(h)
  PROVE  Inv'
  BY GivesUp DEF InsertFails, Working

LEMMA PinCommentInv ==
  ASSUME Inv, NEW h \in Handler, NEW u \in User, NEW c \in CommentId, PinComment(h, u, c)
  PROVE  Inv'
<1> DEFINE l == [pc |-> "pin", on |-> c]
<1>1. l \in HandlerState /\ l.pc \notin Working /\ l.pc # "commit" /\ Fits(l)
  BY Shapes DEF Working, Fits
<1>2. /\ handler[h] = Idle /\ Goto(h, l)
      /\ UNCHANGED <<executor, store, cursor, heard, history>>
  BY DEF PinComment
<1> HIDE DEF l
<1> QED
  BY <1>1, <1>2, IdleFits, QuietStep

LEMMA MarkReadInv ==
  ASSUME Inv, NEW h \in Handler, NEW u \in User, MarkRead(h, u)
  PROVE  Inv'
<1> DEFINE l == [pc |-> "latest", user |-> u]
<1>1. l \in HandlerState /\ l.pc \notin Working /\ l.pc # "commit" /\ Fits(l)
  BY Shapes DEF Working, Fits
<1>2. /\ handler[h] = Idle /\ Goto(h, l)
      /\ UNCHANGED <<executor, store, cursor, heard, history>>
  BY DEF MarkRead
<1> HIDE DEF l
<1> QED
  BY <1>1, <1>2, IdleFits, QuietStep
-----------------------------------------------------------------------------
(* The last comment.                                                         *)

LEMMA Maximum ==
  ASSUME NEW n \in Nat, NEW T, T # {}, T \subseteq 0..n
  PROVE  \E m \in T : \A t \in T : t <= m
<1> DEFINE D == {d \in 0..n : n - d \in T}
           R == OpToRel(<, Nat)
<1>1. \A t \in T : t \in Nat /\ n - t \in 0..n /\ n - (n - t) = t
  OBVIOUS
<1>2. D \subseteq Nat /\ \A t \in T : n - t \in D
  BY <1>1
<1>3. IsWellFoundedOn(R, Nat)
  BY NatLessThanWellFounded
<1> HIDE DEF R
<1>4. PICK d \in D : \A e \in D : <<e, d>> \notin R
  <2>1. D # {}
    BY <1>2
  <2> HIDE DEF D
  <2> QED
    BY <1>2, <1>3, <2>1, WFMin
<1>5. d \in 0..n /\ n - d \in T
  OBVIOUS
<1>6. \A e \in D : ~(e < d)
  BY <1>2, <1>4 DEF R, OpToRel
<1>7. ASSUME NEW t \in T PROVE t <= n - d
  <2>1. ~(n - t < d)
    BY <1>2, <1>6
  <2> QED
    BY <1>1, <1>5, <2>1
<1> QED
  BY <1>5, <1>7

LEMMA LatestIsLast ==
  ASSUME TypeOK, ReadsFit
  PROVE  /\ Latest \in Nat /\ Latest <= clock
         /\ \A c \in Present : comment[c].at <= Latest
<1>1. clock \in Nat
  BY DEF TypeOK
<1>2. CASE Present = {}
  BY <1>1, <1>2 DEF Latest
<1>3. CASE Present # {}
  <2> DEFINE T == {comment[c].at : c \in Present}
  <2>1. \A c \in Present : comment[c].at \in Nat /\ comment[c].at <= clock
    BY Rows, RowShape DEF ReadsFit
  <2>2. T \subseteq 0..clock /\ T # {}
    BY <1>1, <1>3, <2>1
  <2>3. \E m \in T : \A t \in T : t <= m
    <3> HIDE DEF T
    <3> QED
      BY <1>1, <2>2, Maximum
  <2>4. \E m \in T : \A c \in Present : comment[c].at <= m
    BY <2>3
  <2>5. Latest = CHOOSE t \in T : \A c \in Present : comment[c].at <= t
    BY <1>3 DEF Latest
  <2>6. Latest \in T /\ \A c \in Present : comment[c].at <= Latest
    <3> HIDE DEF T
    <3> QED
      BY <2>4, <2>5
  <2> QED
    BY <1>1, <2>2, <2>6
<1> QED
  BY <1>2, <1>3

\* Nothing is later than what is found last, but what comes after.
LEMMA FindLatestInv ==
  ASSUME Inv, NEW h \in Handler, FindLatest(h)
  PROVE  Inv'
<1>1. PICK u \in User : u = handler[h].user
  BY Shape DEF Inv, TypeOK, FindLatest
<1>2. PICK at \in Nat, saw \in SUBSET CommentId, passed \in SUBSET Nat :
        at = Latest /\ saw = Present /\ passed = {t \in OnTheirWay : t <= Latest}
  BY LatestIsLast, Rows, WayTimes DEF Inv
<1> DEFINE l == [pc |-> "mark", user |-> u, at |-> at, saw |-> saw, passed |-> passed]
<1>3. /\ Goto(h, l) /\ handler[h].pc = "latest"
      /\ UNCHANGED <<executor, store, cursor, heard, history>>
  BY <1>1, <1>2 DEF FindLatest
<1>4. l \in HandlerState /\ l.pc \notin Working /\ l.pc # "commit"
  BY Shapes DEF Working
<1>5. Fits(l)
  <2>1. at <= clock /\ Behind(at, saw, passed)
    BY <1>2, LatestIsLast, WayTimes DEF Inv, Behind
  <2> QED
    BY <2>1 DEF Fits, Working
<1> HIDE DEF l
<1> QED
  BY <1>3, <1>4, <1>5, QuietStep DEF Working
-----------------------------------------------------------------------------
(* Steps that begin to write, and that tell.                                 *)

\* A request turns to a comment: it is raced for, or the request is alone with it.
LEMMA Begins ==
  ASSUME Inv, NEW h \in Handler, NEW l \in HandlerState, NEW c \in CommentId, Goto(h, l),
         handler[h] = Idle, l.pc \in Working, l.on = c, UNCHANGED <<comment, heard>>,
         raced' = IF AtWork(c) = {} THEN raced ELSE raced \cup {c},
         c \in Present \cup Gone, Agrees(c) => Tells(l)
  PROVE  \A d \in CommentId : RoomFits(d)'
<1>1. handler'[h] = l /\ \A g \in Handler \ {h} : handler'[g] = handler[g]
  BY GotoMoves DEF Inv
<1>2. ASSUME NEW d \in CommentId, d # c PROVE RoomFits(d)'
  BY <1>2, IdleFits, SameRooms
<1>3. RoomFits(c)'
  <2>1. RoomFits(c)
    BY DEF Inv
  <2>2. ASSUME c \notin raced'
        PROVE  c \notin raced /\ AtWork(c) \subseteq {h} /\ Tells(l)'
    <3>1. c \notin raced /\ AtWork(c) = {}
      BY <2>2
    <3>2. Tells(l)
      BY <2>1, <3>1 DEF RoomFits
    <3>3. Tells(l)' = Tells(l)
      BY DEF Tells, Agrees, Present, Gone
    <3> QED
      BY <3>1, <3>2, <3>3
  <2>3. h \in AtWork(c)'
    BY <1>1 DEF AtWork, Working
  <2> QED
    BY <1>1, <2>1, <2>2, <2>3, RoomStep DEF Inv
<1> QED
  BY <1>2, <1>3
LEMMA UpdateCommentInv ==
  ASSUME Inv, NEW h \in Handler, NEW u \in User, NEW c \in CommentId, NEW text \in Text,
         UpdateComment(h, u, c, text)
  PROVE  Inv'
<1> DEFINE l == [pc |-> "edit", on |-> c, text |-> text]
<1>1. /\ handler[h] = Idle /\ c \in Present /\ MayWrite(text, comment[c].media) /\ Goto(h, l)
      /\ raced' = IF AtWork(c) = {} THEN raced ELSE raced \cup {c}
      /\ UNCHANGED <<executor, store, cursor, heard, seen, overtaken, blind, doomed>>
  BY DEF UpdateComment
<1>2. l \in HandlerState /\ l.pc \in Working /\ l.pc # "commit" /\ l.on = c
  BY Shapes DEF Working
<1>3. Fits(l) /\ (Agrees(c) => Tells(l))
  BY <1>1, Rows DEF Fits, Tells, Inv
<1> HIDE DEF l
<1>4. \A d \in CommentId : RoomFits(d)'
  BY <1>1, <1>2, <1>3, Begins DEF store
<1> QED
  BY <1>1, <1>2, <1>3, <1>4, WritesNoComment DEF Inv, TypeOK, FilesFit

LEMMA DeleteCommentInv ==
  ASSUME Inv, NEW h \in Handler, NEW u \in User, NEW c \in CommentId, DeleteComment(h, u, c)
  PROVE  Inv'
<1>1. c \in Present /\ comment[c] \in CommentRow
  BY Rows DEF DeleteComment, Inv
<1>2. PICK media \in SUBSET File : media = comment[c].media
  BY <1>1, RowShape
<1> DEFINE l == [pc |-> "files", on |-> c, left |-> media]
<1>3. /\ handler[h] = Idle /\ Goto(h, l) /\ doomed' = doomed \cup {c}
      /\ raced' = IF AtWork(c) = {} THEN raced ELSE raced \cup {c}
      /\ UNCHANGED <<executor, store, cursor, heard, seen, overtaken, blind>>
  BY <1>2 DEF DeleteComment
<1>4. l \in HandlerState /\ l.pc \in Working /\ l.on = c
  BY Shapes DEF Working
<1>5. Agrees(c) => Tells(l)
  BY DEF Tells
<1>6. l.pc = "files" /\ l.pc # "commit" /\ l.left = media
  OBVIOUS
<1> HIDE DEF l
<1>7. \A d \in CommentId : RoomFits(d)'
  BY <1>1, <1>3, <1>4, <1>5, Begins DEF store
<1>8. UNCHANGED <<comment, object, pinned, clock>>
  BY <1>3 DEF store
<1>9. TypeOK'
  BY <1>3, <1>4, <1>8, GotoMoves DEF Inv, TypeOK
<1>10. CommentsStay /\ Present' = Present /\ Gone' = Gone
  BY <1>3, <1>8, SameComments
<1>11. Fits(l)'
  BY <1>1, <1>2, <1>3, <1>4, <1>6, <1>8, Rows DEF Fits, Inv
<1>12. HandlersFit'
  BY <1>3, <1>4, <1>6, <1>9, <1>10, <1>11, HandlersStep
<1>13. NoEmptyComment' /\ ReadsFit'
  BY <1>3, <1>4, <1>6, <1>8, <1>9, WayStep, SameReads DEF Inv
<1>14. FilesFit'
  BY <1>1, <1>3, <1>8, <1>10 DEF Inv, FilesFit
<1> QED
  BY <1>7, <1>9, <1>12, <1>13, <1>14 DEF Inv

\* The room has heard what the table says when a request is done with a comment.
LEMMA Ends ==
  ASSUME Inv, NEW h \in Handler, Goto(h, Idle), handler[h].pc \in Working,
         NEW c \in CommentId, c = handler[h].on, UNCHANGED <<executor, store, cursor, history>>,
         NEW event \in Event, heard' \in {heard, [heard EXCEPT ![c] = event]},
         c \notin raced => Agrees(c)'
  PROVE  Inv'
<1>1. UNCHANGED <<comment, seen, overtaken, blind, doomed, raced>>
  BY DEF store, history
<1>2. heard' \in [CommentId -> Event] /\ \A d \in CommentId \ {c} : heard'[d] = heard[d]
  BY DEF Inv, TypeOK
<1>3. handler'[h] = Idle /\ \A g \in Handler \ {h} : handler'[g] = handler[g]
  BY IdleFits, GotoMoves DEF Inv
<1>4. ASSUME NEW d \in CommentId, d # c PROVE RoomFits(d)'
  <2>1. AtWork(d)' = AtWork(d) /\ \A g \in AtWork(d) : handler'[g] = handler[g]
    BY <1>4, IdleFits, Elsewhere DEF Inv
  <2>2. RoomFits(d) /\ Present' = Present /\ Gone' = Gone
    BY <1>1 DEF Inv, Present, Gone
  <2> QED
    BY <1>1, <1>2, <1>4, <2>1, <2>2, RoomStays
<1>5. RoomFits(c)'
  <2>1. h \notin AtWork(c)'
    BY <1>3, IdleFits DEF AtWork, Working
  <2>2. c \notin raced' => c \notin raced /\ AtWork(c) \subseteq {h}
    BY <1>1, WorksAlone
  <2> QED
    BY <1>1, <1>3, <2>1, <2>2, RoomStep DEF Inv
<1>6. \A d \in CommentId : RoomFits(d)'
  BY <1>4, <1>5
<1>7. /\ doomed \in SUBSET CommentId /\ raced \in SUBSET CommentId
      /\ doomed \subseteq Present \cup Gone
  BY DEF Inv, TypeOK, FilesFit
<1> QED
  BY <1>1, <1>2, <1>6, <1>7, IdleFits, WritesNoComment

\* What is at work is at work on some comment, which has a row.
LEMMA WorksOn ==
  ASSUME Inv, NEW h \in Handler, handler[h].pc \in Working
  PROVE  /\ handler[h] \in HandlerState /\ Fits(handler[h])
         /\ handler[h].on \in CommentId /\ handler[h].on \in Present \cup Gone
<1>1. handler[h] \in HandlerState /\ Fits(handler[h])
  BY DEF Inv, TypeOK, HandlersFit
<1> QED
  BY <1>1, Shape, Rows DEF Inv, Fits

LEMMA AnnounceInv ==
  ASSUME Inv, NEW h \in Handler, Announce(h) \/ AnnounceEdit(h)
  PROVE  Inv'
<1>1. /\ handler[h].pc \in {"announce", "announceEdit"} /\ handler[h].pc \in Working
      /\ heard' = [heard EXCEPT ![handler[h].on] = handler[h].text] /\ Goto(h, Idle)
      /\ UNCHANGED <<executor, store, cursor, history>>
  BY DEF Announce, AnnounceEdit, Tell, Done, Working
<1>2. PICK c \in CommentId, t \in Text : c = handler[h].on /\ t = handler[h].text
  BY <1>1, WorksOn, Shape
<1>3. t \in Event /\ heard' = [heard EXCEPT ![c] = t]
  BY <1>1, <1>2 DEF Event
<1>4. ASSUME c \notin raced PROVE Agrees(c)'
  <2>1. c \in Present /\ comment[c].text = t
    BY <1>1, <1>2, <1>4, WorksAlone DEF Tells
  <2>2. comment' = comment /\ heard'[c] = t
    BY <1>1, <1>3 DEF store, Inv, TypeOK
  <2> QED
    BY <2>1, <2>2 DEF Agrees, Present, Gone
<1> QED
  BY <1>1, <1>2, <1>3, <1>4, Ends

LEMMA AnnounceDeleteInv ==
  ASSUME Inv, NEW h \in Handler, AnnounceDelete(h)
  PROVE  Inv'
<1>1. /\ handler[h].pc = "announceDelete" /\ handler[h].pc \in Working
      /\ heard' = [heard EXCEPT ![handler[h].on] = "deleted"] /\ Goto(h, Idle)
      /\ UNCHANGED <<executor, store, cursor, history>>
  BY DEF AnnounceDelete, Tell, Done, Working
<1>2. PICK c \in CommentId : c = handler[h].on
  BY <1>1, WorksOn
<1>3. "deleted" \in Event /\ heard' = [heard EXCEPT ![c] = "deleted"]
  BY <1>1, <1>2 DEF Event
<1>4. ASSUME c \notin raced PROVE Agrees(c)'
  <2>1. c \in Gone
    BY <1>1, <1>2, <1>4, WorksAlone DEF Tells
  <2>2. comment' = comment /\ heard'[c] = "deleted"
    BY <1>1, <1>3 DEF store, Inv, TypeOK
  <2> QED
    BY <2>1, <2>2 DEF Agrees, Gone, Present
<1> QED
  BY <1>1, <1>2, <1>3, <1>4, Ends

\* The storage refuses, and the room has nothing to hear.
LEMMA DeleteFileFailsInv ==
  ASSUME Inv, NEW h \in Handler, DeleteFileFails(h)
  PROVE  Inv'
<1>1. /\ handler[h].pc = "files" /\ handler[h].pc \in Working /\ Goto(h, Idle)
      /\ UNCHANGED <<executor, store, cursor, heard, history>>
  BY DEF DeleteFileFails, Done, Working
<1>2. PICK c \in CommentId : c = handler[h].on
  BY <1>1, WorksOn
<1>3. c \notin raced => Agrees(c)'
  <2>1. c \notin raced => Agrees(c)
    BY <1>1, <1>2, WorksAlone DEF Tells
  <2> QED
    BY <1>1, <2>1 DEF Agrees, Present, Gone, store
<1> QED
  BY <1>1, <1>2, <1>3, Ends DEF Event
-----------------------------------------------------------------------------
(* Steps that change a comment, or its files.                                *)

\* A file that goes is one of a comment whose deletion was begun.
LEMMA DeleteFileInv ==
  ASSUME Inv, NEW h \in Handler, NEW f \in File, DeleteFile(h, f)
  PROVE  Inv'
<1>1. PICK k \in HandlerState : k = handler[h]
  BY DEF Inv, TypeOK
<1>2. k.pc = "files" /\ k.pc \in Working /\ f \in k.left /\ k.left \in SUBSET File
  BY <1>1, Shape DEF DeleteFile, Working
<1>3. PICK l : l = [k EXCEPT !.left = k.left \ {f}]
  OBVIOUS
<1>4. /\ l \in HandlerState /\ l.pc = "files" /\ l.left = k.left \ {f} /\ l.on = k.on
  BY <1>2, <1>3 DEF HandlerState, Idle
<1>5. /\ Goto(h, l) /\ object' = object \ {f}
      /\ UNCHANGED <<executor, comment, pinned, clock, cursor, heard, seen, overtaken, blind, doomed, raced>>
  BY <1>1, <1>3 DEF DeleteFile, history
<1>6. CommentsStay /\ Present' = Present /\ Gone' = Gone
  BY <1>5, SameComments
<1>7. TypeOK'
  BY <1>4, <1>5, GotoMoves DEF Inv, TypeOK
<1>8. k.on \in CommentId /\ k.on \in Present \cup Gone /\ Fits(k)
  BY <1>1, <1>2, WorksOn
<1>9. Fits(l)'
  <2>1. /\ k.on \in doomed /\ k.left \subseteq comment[k.on].media
        /\ (comment[k.on].media \ k.left) \cap object = {} /\ comment[k.on] # Absent
    BY <1>2, <1>8 DEF Fits
  <2>2. /\ l.left \subseteq comment'[k.on].media
        /\ (comment'[k.on].media \ l.left) \cap object' = {}
    BY <1>4, <1>5, <2>1
  <2> QED
    BY <1>4, <1>5, <2>1, <2>2 DEF Fits
<1>10. HandlersFit'
  BY <1>4, <1>5, <1>6, <1>7, <1>9, HandlersStep
<1>11. NoEmptyComment' /\ ReadsFit'
  BY <1>4, <1>5, <1>7, WayStep, SameReads DEF Inv
<1>12. FilesFit'
  <2>1. k.on \in doomed /\ f \in comment[k.on].media
    BY <1>2, <1>8 DEF Fits
  <2>2. \A e \in File \ object' : \E d \in doomed' : e \in comment'[d].media
    BY <1>5, <2>1 DEF Inv, FilesFit
  <2> QED
    BY <1>5, <1>6, <2>2 DEF Inv, FilesFit
<1>13. ASSUME NEW d \in CommentId PROVE RoomFits(d)'
  <2>1. CASE d # k.on
    BY <1>1, <1>4, <1>5, <2>1, SameRooms
  <2>2. CASE d = k.on
    <3>1. handler'[h] = l /\ \A g \in Handler \ {h} : handler'[g] = handler[g]
      BY <1>4, <1>5, GotoMoves DEF Inv
    <3>2. RoomFits(d) /\ h \in AtWork(d)'
      BY <1>4, <2>2, <3>1 DEF Inv, AtWork
    <3>3. ASSUME d \notin raced'
          PROVE  d \notin raced /\ AtWork(d) \subseteq {h} /\ Tells(l)'
      <4>1. d \notin raced /\ AtWork(d) \subseteq {h} /\ Tells(k)
        BY <1>1, <1>2, <1>5, <2>2, <3>3, WorksAlone
      <4>2. Agrees(d)' = Agrees(d)
        BY <1>5, <1>6 DEF Agrees
      <4> QED
        BY <1>2, <1>4, <2>2, <4>1, <4>2 DEF Tells
    <3> QED
      BY <3>1, <3>2, <3>3, RoomStep DEF Inv
  <2> QED
    BY <2>1, <2>2
<1> QED
  BY <1>7, <1>10, <1>11, <1>12, <1>13 DEF Inv

\* A comment is stamped later than any.
LEMMA StampCommentInv ==
  ASSUME Inv, NEW h \in Handler, StampComment(h)
  PROVE  Inv'
<1>1. PICK k \in HandlerState : k = handler[h]
  BY DEF Inv, TypeOK
<1>2. /\ k.pc = "insert" /\ k.pc \notin Working /\ MayWrite(k.text, k.media)
      /\ k.user \in User /\ k.text \in Text /\ k.media \in SUBSET File
      /\ k.replyTo \in CommentId \cup {None}
  BY <1>1, Shape DEF StampComment, Working, Inv, HandlersFit, Fits
<1>3. PICK n \in Nat : clock \in Nat /\ n = clock + 1 /\ clock' = n
  BY DEF Inv, TypeOK, StampComment
<1> DEFINE l == [pc |-> "commit", user |-> k.user, text |-> k.text, media |-> k.media,
                 replyTo |-> k.replyTo, at |-> n]
<1>4. /\ Goto(h, l)
      /\ UNCHANGED <<executor, comment, object, pinned, cursor, heard, seen, overtaken, blind,
                     doomed, raced>>
  BY <1>1, <1>3 DEF StampComment, history
<1>5. /\ l \in HandlerState /\ l.pc = "commit" /\ l.pc \notin Working /\ l.at = n
      /\ MayWrite(l.text, l.media)
  BY <1>2, <1>3, Shapes DEF Working
<1> HIDE DEF l
<1>6. TypeOK'
  BY <1>3, <1>4, <1>5, GotoMoves DEF Inv, TypeOK
<1>7. WayStays
  BY <1>3, <1>4, <1>5, WayStep DEF Inv
<1>8. CommentsStay /\ Present' = Present /\ Gone' = Gone
  BY <1>3, <1>4 DEF CommentsStay, Present, Gone
<1>9. Fits(l)'
  BY <1>3, <1>5 DEF Fits, Working, MayWrite
<1>10. HandlersFit'
  BY <1>3, <1>4, <1>5, <1>6, <1>8, <1>9, HandlersStep
<1>11. NoEmptyComment' /\ FilesFit'
  BY <1>4, <1>8 DEF Inv, NoEmptyComment, FilesFit
<1>12. ReadsFit'
  BY <1>4, <1>6, <1>7, <1>8, ReadsStay
<1>13. \A d \in CommentId : RoomFits(d)'
  BY <1>1, <1>2, <1>4, <1>5, SameRooms
<1> QED
  BY <1>6, <1>10, <1>11, <1>12, <1>13 DEF Inv

\* A comment that comes has something in it, and was on its way.
LEMMA InsertCommentInv ==
  ASSUME Inv, NEW h \in Handler, NEW c \in CommentId, InsertComment(h, c)
  PROVE  Inv'
<1>1. PICK k \in HandlerState : k = handler[h]
  BY DEF Inv, TypeOK
<1>2. /\ k.pc = "commit" /\ k.pc \notin Working /\ MayWrite(k.text, k.media)
      /\ k.user \in User /\ k.text \in Text /\ k.media \in SUBSET File
      /\ k.replyTo \in CommentId \cup {None} /\ k.at \in Nat /\ k.at \in OnTheirWay
  BY <1>1, Shape DEF InsertComment, Working, Inv, HandlersFit, Fits, OnTheirWay
<1>3. clock \in Nat /\ comment[c] = Absent
  BY DEF Inv, TypeOK, InsertComment
<1> DEFINE r == [state |-> "present", author |-> k.user, text |-> k.text, media |-> k.media,
                 at |-> k.at, replyTo |-> k.replyTo]
           l == [pc |-> "announce", on |-> c, text |-> k.text]
<1>4. /\ comment' = [comment EXCEPT ![c] = r] /\ Goto(h, l)
      /\ UNCHANGED <<executor, object, pinned, clock, cursor, heard, seen, overtaken, blind, doomed, raced>>
  BY <1>1 DEF InsertComment, history
<1>5. /\ r \in CommentRow /\ r.state = "present" /\ r.text = k.text /\ r.media = k.media
      /\ r.at = k.at
  BY <1>2, <1>3, <1>4, RowShape
<1>6. /\ l \in HandlerState /\ l.pc = "announce" /\ l.pc \in Working /\ l.on = c /\ l.text = k.text
  BY <1>2, Shapes DEF Working
<1> HIDE DEF r, l
<1>7. comment'[c] = r /\ \A d \in CommentId \ {c} : comment'[d] = comment[d]
  BY <1>4 DEF Inv, TypeOK
<1>8. TypeOK'
  BY <1>3, <1>4, <1>5, <1>6, GotoMoves DEF Inv, TypeOK
<1>9. c \notin Present \cup Gone /\ Present' = Present \cup {c} /\ Gone' = Gone
  BY <1>3, <1>5, <1>7 DEF Present, Gone, Absent
<1>10. r # Absent
  BY <1>5, RowShape
<1>11. CommentsStay
  BY <1>2, <1>3, <1>4, <1>5, <1>7, <1>9, <1>10 DEF CommentsStay
<1>12. Fits(l)'
  BY <1>6, <1>7, <1>10 DEF Fits
<1>13. HandlersFit'
  BY <1>4, <1>6, <1>8, <1>11, <1>12, HandlersStep
<1>14. NoEmptyComment'
  <2>1. \A d \in Present : d \in CommentId \ {c}
    BY <1>9 DEF Present
  <2> QED
    BY <1>2, <1>5, <1>7, <1>9, <2>1 DEF Inv, NoEmptyComment, MayWrite
<1>15. FilesFit'
  <2>1. \A d \in Gone \cup doomed : comment'[d] = comment[d]
    BY <1>7, <1>9 DEF Inv, FilesFit, Present, Gone
  <2> QED
    BY <1>4, <1>9, <2>1 DEF Inv, FilesFit
<1>16. ReadsFit'
  BY <1>4, <1>6, <1>8, <1>9, <1>11, WayStep, ReadsStay DEF Inv
<1>17. ASSUME NEW d \in CommentId PROVE RoomFits(d)'
  <2>1. CASE d # c
    <3>1. AtWork(d)' = AtWork(d) /\ \A g \in AtWork(d) : handler'[g] = handler[g]
      BY <1>1, <1>2, <1>4, <1>6, <2>1, Elsewhere DEF Inv
    <3>2. RoomFits(d) /\ comment'[d] = comment[d]
      BY <1>7, <2>1 DEF Inv
    <3> QED
      BY <1>4, <1>9, <2>1, <3>1, <3>2, RoomStays
  <2>2. CASE d = c
    <3>1. handler'[h] = l /\ \A g \in Handler \ {h} : handler'[g] = handler[g]
      BY <1>4, <1>6, GotoMoves DEF Inv
    <3>2. AtWork(c) = {}
      BY <1>3 DEF AtWork, Inv, HandlersFit, Fits, Working
    <3>3. Tells(l)'
      BY <1>5, <1>6, <1>7, <1>9 DEF Tells
    <3>4. RoomFits(c) /\ raced' = raced /\ h \in AtWork(c)'
      BY <1>4, <1>6, <3>1 DEF Inv, AtWork
    <3> QED
      BY <2>2, <3>1, <3>2, <3>3, <3>4, RoomStep DEF Inv
  <2> QED
    BY <2>1, <2>2
<1> QED
  BY <1>8, <1>13, <1>14, <1>15, <1>16, <1>17 DEF Inv

\* The room of a comment that is worked on by one handler, when its row changes.
LEMMA Rewritten ==
  ASSUME Inv, NEW h \in Handler, NEW l \in HandlerState, Goto(h, l), NEW c \in CommentId,
         handler[h].pc \in Working, handler[h].on = c, l.pc \in Working, l.on = c, Tells(l)',
         \A d \in CommentId \ {c} : /\ d \in Present <=> d \in Present'
                                    /\ d \in Gone <=> d \in Gone'
                                    /\ d \in Present => comment'[d].text = comment[d].text,
         UNCHANGED <<heard, raced>>
  PROVE  \A d \in CommentId : RoomFits(d)'
<1>1. ASSUME NEW d \in CommentId \ {c} PROVE RoomFits(d)'
  <2>1. AtWork(d)' = AtWork(d) /\ \A g \in AtWork(d) : handler'[g] = handler[g]
    BY Elsewhere DEF Inv
  <2>2. RoomFits(d)
    BY DEF Inv
  <2> QED
    BY <2>1, <2>2, RoomStays
<1>2. RoomFits(c)'
  <2>1. handler'[h] = l /\ \A g \in Handler \ {h} : handler'[g] = handler[g]
    BY GotoMoves DEF Inv
  <2>2. RoomFits(c) /\ h \in AtWork(c)'
    BY <2>1 DEF Inv, AtWork, Working
  <2>3. c \notin raced => AtWork(c) \subseteq {h}
    BY WorksAlone
  <2> QED
    BY <2>1, <2>2, <2>3, RoomStep DEF Inv
<1> QED
  BY <1>1, <1>2

\* An edit changes the text alone, to one that may be written beside the files.
LEMMA WriteEditInv ==
  ASSUME Inv, NEW h \in Handler, WriteEdit(h)
  PROVE  Inv'
<1>1. PICK k \in HandlerState : k = handler[h]
  BY DEF Inv, TypeOK
<1>2. k.pc = "edit" /\ k.pc \in Working /\ k.text \in Text
  BY <1>1, Shape DEF WriteEdit, Working
<1>3. PICK c \in CommentId : c = k.on
  BY <1>2, Shape
<1>4. Fits(k)
  BY <1>1, <1>2, WorksOn
<1>5. CASE c \notin Present
  <2>1. Goto(h, Idle) /\ UNCHANGED <<executor, store, cursor, heard, history>>
    BY <1>1, <1>3, <1>5 DEF WriteEdit, Done, store
  <2>2. c \notin raced => Agrees(c)
    BY <1>1, <1>2, <1>3, WorksAlone DEF Tells
  <2>3. c \notin raced => Agrees(c)'
    BY <2>1, <2>2 DEF Agrees, Present, Gone, store
  <2> QED
    BY <1>1, <1>2, <1>3, <2>1, <2>3, Ends DEF Event
<1>6. CASE c \in Present
  <2>1. PICK l : l = [k EXCEPT !.pc = "announceEdit"]
    OBVIOUS
  <2>2. /\ l \in HandlerState /\ l.pc = "announceEdit" /\ l.on = c /\ l.text = k.text
    BY <1>2, <1>3, <2>1 DEF HandlerState, Idle
  <2>3. PICK row \in CommentRow : row = comment[c]
    BY <1>6, Rows DEF Inv
  <2>4. PICK e : e = [row EXCEPT !.text = k.text]
    OBVIOUS
  <2>5. /\ e \in CommentRow /\ e.text = k.text
        /\ e.state = row.state /\ e.media = row.media /\ e.at = row.at /\ e # Absent
    BY <1>2, <2>4, EditRow, RowShape
  <2>6. /\ comment' = [comment EXCEPT ![c] = e] /\ Goto(h, l)
        /\ UNCHANGED <<executor, object, pinned, clock, cursor, heard, seen, overtaken, blind, doomed, raced>>
    BY <1>1, <1>3, <1>6, <2>1, <2>3, <2>4 DEF WriteEdit, history
  <2>7. comment'[c] = e /\ \A d \in CommentId \ {c} : comment'[d] = comment[d]
    BY <2>6 DEF Inv, TypeOK
  <2>8. TypeOK'
    BY <2>2, <2>5, <2>6, GotoMoves DEF Inv, TypeOK
  <2>9. Present' = Present /\ Gone' = Gone
    BY <2>3, <2>5, <2>7 DEF Present, Gone
  <2>10. \A d \in CommentId : /\ comment[d] # Absent => comment'[d] # Absent
                              /\ comment'[d].media = comment[d].media
                              /\ comment'[d].at = comment[d].at
    BY <2>3, <2>5, <2>7
  <2>11. CommentsStay
    BY <2>6, <2>9, <2>10 DEF CommentsStay, Inv, TypeOK
  <2>12. Fits(l)'
    BY <1>2, <1>3, <1>4, <2>2, <2>5, <2>7 DEF Fits
  <2>13. HandlersFit'
    BY <2>2, <2>6, <2>8, <2>11, <2>12, HandlersStep
  <2>14. MayWrite(k.text, row.media)
    BY <1>2, <1>3, <1>4, <2>3 DEF Fits
  <2>15. NoEmptyComment'
    BY <2>5, <2>7, <2>9, <2>14 DEF Inv, NoEmptyComment, MayWrite, Present
  <2>16. FilesFit'
    BY <2>6, <2>9, <2>10 DEF Inv, FilesFit, TypeOK, Present, Gone
  <2>17. ReadsFit'
    BY <2>2, <2>6, <2>8, <2>9, <2>11, WayStep, ReadsStay DEF Inv
  <2>18. Tells(l)'
    BY <1>6, <2>2, <2>5, <2>7, <2>9 DEF Tells
  <2>19. \A d \in CommentId : RoomFits(d)'
    BY <1>1, <1>2, <1>3, <2>2, <2>6, <2>7, <2>9, <2>18, Rewritten DEF Working
  <2> QED
    BY <2>8, <2>13, <2>15, <2>16, <2>17, <2>19 DEF Inv
<1> QED
  BY <1>5, <1>6
\* A row that is removed keeps what it says; so do the answers to it.
LEMMA RemoveRowKeeps ==
  ASSUME TypeOK, NEW c \in Present, RemoveRow(c)
  PROVE  /\ comment' \in [CommentId -> CommentRow \cup {Absent}]
         /\ \A d \in CommentId :
              /\ comment[d] = Absent => comment'[d] = Absent
              /\ comment[d] # Absent =>
                   /\ comment'[d] \in CommentRow
                   /\ comment'[d].media = comment[d].media
                   /\ comment'[d].at = comment[d].at
                   /\ comment'[d].text = comment[d].text
                   /\ comment'[d].state = IF d = c THEN "gone" ELSE comment[d].state
<1> DEFINE Row(d) ==
             IF d = c THEN [comment[c] EXCEPT !.state = "gone", !.replyTo = None]
             ELSE IF d \in Present /\ comment[d].replyTo = c
                  THEN [comment[d] EXCEPT !.replyTo = None] ELSE comment[d]
<1>1. comment' = [d \in CommentId |-> Row(d)]
  BY DEF RemoveRow
<1>2. c \in CommentId /\ comment[c] \in CommentRow
  BY Rows
<1>3. ASSUME NEW d \in CommentId, comment[d] # Absent
      PROVE  /\ Row(d) \in CommentRow /\ Row(d).media = comment[d].media
             /\ Row(d).at = comment[d].at /\ Row(d).text = comment[d].text
             /\ Row(d).state = IF d = c THEN "gone" ELSE comment[d].state
  <2>1. PICK r \in CommentRow : r = comment[d]
    BY <1>3, Rows
  <2>2. CASE d = c
    BY <2>1, <2>2, GoneRow
  <2>3. CASE d # c /\ d \in Present /\ comment[d].replyTo = c
    BY <2>1, <2>3, ForgetReply
  <2>4. CASE d # c /\ ~(d \in Present /\ comment[d].replyTo = c)
    BY <2>1, <2>4
  <2> QED
    BY <2>2, <2>3, <2>4
<1>4. ASSUME NEW d \in CommentId, comment[d] = Absent PROVE Row(d) = Absent
  <2>1. d # c /\ d \notin Present
    BY <1>2, <1>4, RowShape DEF Present, Absent
  <2> QED
    BY <1>4, <2>1
<1> HIDE DEF Row
<1> QED
  BY <1>1, <1>3, <1>4

\* No file is left, nor a pin, when the row goes.
LEMMA DeleteRowInv ==
  ASSUME Inv, NEW h \in Handler, DeleteRow(h)
  PROVE  Inv'
<1>1. PICK k \in HandlerState : k = handler[h]
  BY DEF Inv, TypeOK
<1>2. k.pc = "files" /\ k.pc \in Working /\ k.left = {}
  BY <1>1, Shape DEF DeleteRow, Working
<1>3. PICK c \in CommentId : c = k.on
  BY <1>2, Shape
<1>4. Fits(k)
  BY <1>1, <1>2, WorksOn
<1>5. CASE c \notin Present
  <2>1. Goto(h, Idle) /\ UNCHANGED <<executor, store, cursor, heard, history>>
    BY <1>1, <1>3, <1>5 DEF DeleteRow, Done, store
  <2>2. c \notin raced => Agrees(c)
    BY <1>1, <1>2, <1>3, WorksAlone DEF Tells
  <2>3. c \notin raced => Agrees(c)'
    BY <2>1, <2>2 DEF Agrees, Present, Gone, store
  <2> QED
    BY <1>1, <1>2, <1>3, <2>1, <2>3, Ends DEF Event
<1>6. CASE c \in Present
  <2> DEFINE l == [pc |-> "announceDelete", on |-> c]
  <2>1. /\ RemoveRow(c) /\ Goto(h, l) /\ pinned' = pinned \ {c}
        /\ UNCHANGED <<executor, object, clock, cursor, heard, seen, overtaken, blind, doomed, raced>>
    BY <1>1, <1>3, <1>6 DEF DeleteRow, RemoveRow, history
  <2>2. l \in HandlerState /\ l.pc = "announceDelete" /\ l.on = c
    BY Shapes
  <2> HIDE DEF l
  <2>3. /\ comment' \in [CommentId -> CommentRow \cup {Absent}]
        /\ \A d \in CommentId :
             /\ comment[d] = Absent => comment'[d] = Absent
             /\ comment[d] # Absent =>
                  /\ comment'[d] # Absent
                  /\ comment'[d].media = comment[d].media
                  /\ comment'[d].at = comment[d].at
                  /\ comment'[d].text = comment[d].text
                  /\ comment'[d].state = IF d = c THEN "gone" ELSE comment[d].state
    BY <1>6, <2>1, RemoveRowKeeps, RowShape DEF Inv
  <2>4. TypeOK'
    BY <2>1, <2>2, <2>3, GotoMoves DEF Inv, TypeOK
  <2>5. /\ \A d \in CommentId \ {c} : (d \in Present <=> d \in Present') /\ (d \in Gone <=> d \in Gone')
        /\ c \notin Present' /\ c \in Gone' /\ c \notin Gone
    <3>1. comment[c] # Absent
      BY <1>6, Rows DEF Inv
    <3> QED
      BY <1>6, <2>3, <3>1 DEF Present, Gone, Absent
  <2>6. Present' = Present \ {c} /\ Gone' = Gone \cup {c}
    BY <2>5 DEF Present, Gone
  <2>7. \A d \in Present \cup Gone : d \in CommentId /\ comment[d] # Absent
    BY Rows DEF Inv
  <2>8. CommentsStay
    BY <2>1, <2>3, <2>6 DEF CommentsStay, Inv, TypeOK
  <2>9. Fits(l)'
    BY <1>2, <1>3, <1>4, <2>2, <2>3 DEF Fits
  <2>10. HandlersFit'
    BY <2>1, <2>2, <2>4, <2>8, <2>9, HandlersStep
  <2>11. NoEmptyComment'
    BY <2>3, <2>6, <2>7 DEF Inv, NoEmptyComment
  <2>12. FilesFit'
    <3>1. comment[c].media \cap object = {}
      BY <1>2, <1>3, <1>4 DEF Fits
    <3>2. \A d \in Gone' : comment'[d].media \cap object' = {}
      BY <1>6, <2>1, <2>3, <2>6, <2>7, <3>1 DEF Inv, FilesFit
    <3>3. pinned' \subseteq Present' /\ doomed' \subseteq Present' \cup Gone'
      BY <2>1, <2>6 DEF Inv, FilesFit
    <3>4. \A f \in File \ object' : \E d \in doomed' : f \in comment'[d].media
      BY <2>1, <2>3, <2>7 DEF Inv, FilesFit
    <3> QED
      BY <3>2, <3>3, <3>4 DEF FilesFit
  <2>13. ReadsFit'
    BY <1>6, <2>1, <2>2, <2>4, <2>6, <2>8, WayStep, ReadsStay DEF Inv
  <2>14. Tells(l)'
    BY <2>2, <2>6 DEF Tells
  <2>15. \A d \in Present : comment'[d].text = comment[d].text
    BY <2>3, <2>7
  <2>16. \A d \in CommentId : RoomFits(d)'
    BY <1>1, <1>2, <1>3, <2>1, <2>2, <2>5, <2>14, <2>15, Rewritten DEF Working
  <2> QED
    BY <2>4, <2>10, <2>11, <2>12, <2>13, <2>16 DEF Inv
<1> QED
  BY <1>5, <1>6
-----------------------------------------------------------------------------
(* Pins, cursors, executors, and the death of the process.                   *)

\* A pin is of a comment that is there.
LEMMA WritePinInv ==
  ASSUME Inv, NEW h \in Handler, WritePin(h)
  PROVE  Inv'
<1>1. /\ handler[h].pc = "pin" /\ handler[h].pc \notin Working /\ Goto(h, Idle)
      /\ pinned' \subseteq pinned \cup Present
      /\ UNCHANGED <<executor, comment, object, clock, cursor, heard, seen, overtaken, blind, doomed, raced>>
  BY DEF WritePin, Done, Working, history
<1>2. CommentsStay /\ Present' = Present /\ Gone' = Gone
  BY <1>1, SameComments
<1>3. pinned' \subseteq Present /\ Present \subseteq CommentId
  BY <1>1, Rows DEF Inv, FilesFit
<1>4. TypeOK'
  BY <1>1, <1>3, IdleFits, GotoMoves DEF Inv, TypeOK
<1>5. HandlersFit'
  <2>1. Fits(Idle)'
    BY DEF Fits, Idle, Working
  <2> QED
    BY <1>1, <1>2, <1>4, <2>1, IdleFits, HandlersStep
<1>6. NoEmptyComment' /\ ReadsFit' /\ FilesFit'
  <2>1. WayStays
    BY <1>1, IdleFits, WayStep DEF Inv
  <2> QED
    BY <1>1, <1>2, <1>3, <1>4, <2>1, SameReads DEF Inv, FilesFit
<1>7. \A d \in CommentId : RoomFits(d)'
  BY <1>1, IdleFits, SameRooms
<1> QED
  BY <1>4, <1>5, <1>6, <1>7 DEF Inv

\* The handlers and what is told are as they were.
LEMMA NobodyMoves ==
  ASSUME Inv, TypeOK', CommentsStay, UNCHANGED <<comment, handler, heard, raced>>
  PROVE  WayStays /\ HandlersFit' /\ \A d \in CommentId : RoomFits(d)'
<1>0. WayStays
  BY DEF WayStays, OnTheirWay
<1>1. ASSUME NEW g \in Handler PROVE Fits(handler[g])'
  <2>1. PICK k \in HandlerState : k = handler[g]
    BY DEF Inv, TypeOK
  <2>2. Fits(k)'
    BY <1>0, <2>1, FitsStay DEF Inv, HandlersFit
  <2> QED
    BY <2>1, <2>2
<1>2. ASSUME NEW d \in CommentId PROVE RoomFits(d)'
  <2>1. RoomFits(d) /\ AtWork(d)' = AtWork(d) /\ Present' = Present /\ Gone' = Gone
    BY DEF Inv, AtWork, Present, Gone
  <2> QED
    BY <2>1, RoomStays
<1> QED
  BY <1>0, <1>1, <1>2 DEF HandlersFit

LEMMA UnpinCommentInv ==
  ASSUME Inv, NEW u \in User, NEW c \in CommentId, UnpinComment(u, c)
  PROVE  Inv'
<1>1. /\ pinned' = pinned \ {c}
      /\ UNCHANGED <<executor, comment, object, clock, cursor, heard, handler, seen, overtaken, blind,
                     doomed, raced>>
  BY DEF UnpinComment, history
<1>2. CommentsStay /\ Present' = Present /\ Gone' = Gone
  BY <1>1, SameComments
<1>3. TypeOK'
  BY <1>1 DEF Inv, TypeOK
<1>4. NoEmptyComment' /\ ReadsFit' /\ FilesFit'
  BY <1>1, <1>2, <1>3, NobodyMoves, SameReads DEF Inv, FilesFit
<1> QED
  BY <1>1, <1>2, <1>3, <1>4, NobodyMoves DEF Inv

LEMMA ChangeExecutorInv ==
  ASSUME Inv, NEW e \in Executor, ChangeExecutor(e)
  PROVE  Inv'
<1>1. /\ executor' = e
      /\ UNCHANGED <<comment, object, pinned, clock, cursor, heard, handler, seen, overtaken, blind,
                     doomed, raced>>
  BY DEF ChangeExecutor, history, store
<1>2. CommentsStay /\ Present' = Present /\ Gone' = Gone
  BY <1>1, SameComments
<1>3. TypeOK'
  BY <1>1 DEF Inv, TypeOK
<1>4. NoEmptyComment' /\ ReadsFit' /\ FilesFit'
  BY <1>1, <1>2, <1>3, NobodyMoves, SameReads DEF Inv, FilesFit
<1> QED
  BY <1>1, <1>2, <1>3, <1>4, NobodyMoves DEF Inv

\* A cursor goes to what was last of what was found.
LEMMA WriteReadInv ==
  ASSUME Inv, NEW h \in Handler, WriteRead(h)
  PROVE  Inv'
<1>1. PICK k \in HandlerState : k = handler[h]
  BY DEF Inv, TypeOK
<1>2. /\ k.pc = "mark" /\ k.pc \notin Working /\ Fits(k)
      /\ k.user \in User /\ k.at \in Nat /\ k.saw \in SUBSET CommentId
      /\ k.passed \in SUBSET Nat
  BY <1>1, Shape DEF WriteRead, Inv, HandlersFit, Working
<1>3. PICK t \in ReadAt(h) : cursor' = [cursor EXCEPT ![k.user] = t]
  BY <1>1 DEF WriteRead
<1>4. /\ seen' = [seen EXCEPT ![k.user] = @ \cup k.saw]
      /\ overtaken' = [overtaken EXCEPT ![k.user] = @ \cup k.passed]
      /\ blind' = IF k.saw = {} THEN blind \cup {k.user} ELSE blind
      /\ Goto(h, Idle)
      /\ UNCHANGED <<executor, comment, object, pinned, clock, heard, doomed, raced>>
  BY <1>1 DEF WriteRead, Done, store
<1>5. CommentsStay /\ Present' = Present /\ Gone' = Gone
  BY <1>4, SameComments
<1>6. /\ clock \in Nat /\ t \in Nat /\ t <= clock
      /\ k.saw # {} => Behind(t, k.saw, k.passed)
  <2>1. CASE k.saw = {}
    BY <1>1, <1>2, <1>3, <2>1 DEF ReadAt, Inv, TypeOK
  <2>2. CASE k.saw # {}
    BY <1>1, <1>2, <1>3, <2>2 DEF ReadAt, Inv, TypeOK, Fits
  <2> QED
    BY <2>1, <2>2
<1>7. /\ cursor' \in [User -> Nat] /\ cursor'[k.user] = t
      /\ \A u \in User \ {k.user} : cursor'[u] = cursor[u]
  BY <1>2, <1>3, <1>6 DEF Inv, TypeOK
<1>8. /\ seen' \in [User -> SUBSET CommentId] /\ seen'[k.user] = seen[k.user] \cup k.saw
      /\ \A u \in User \ {k.user} : seen'[u] = seen[u]
      /\ overtaken' \in [User -> SUBSET Nat]
      /\ overtaken'[k.user] = overtaken[k.user] \cup k.passed
      /\ \A u \in User \ {k.user} : overtaken'[u] = overtaken[u]
  BY <1>2, <1>4 DEF Inv, TypeOK
<1>9. TypeOK'
  BY <1>2, <1>4, <1>7, <1>8, IdleFits, GotoMoves DEF Inv, TypeOK
<1>10. HandlersFit'
  <2>1. Fits(Idle)'
    BY DEF Fits, Idle, Working
  <2> QED
    BY <1>4, <1>5, <1>9, <2>1, IdleFits, HandlersStep
<1>11. NoEmptyComment' /\ FilesFit'
  BY <1>4, <1>5 DEF Inv, NoEmptyComment, FilesFit
<1>12. ReadsFit'
  <2>1. ASSUME NEW u \in User PROVE cursor'[u] <= clock
    BY <1>6, <1>7 DEF Inv, ReadsFit
  <2>2. \A s \in OnTheirWay' : s \in OnTheirWay
    BY <1>4, IdleFits, GotoMoves DEF OnTheirWay, Inv
  <2>3. ASSUME NEW u \in User \ blind'
        PROVE  Behind(cursor'[u], seen'[u], overtaken'[u])
    <3>1. CASE u = k.user
      BY <1>4, <1>6, <1>7, <1>8, <3>1 DEF Behind
    <3>2. CASE u # k.user
      BY <1>4, <1>7, <1>8, <3>2 DEF Inv, ReadsFit
    <3> QED
      BY <3>1, <3>2
  <2>4. ASSUME NEW u \in User \ blind' PROVE Behind(cursor[u], seen[u], overtaken[u])'
    BY <1>4, <1>5, <2>2, <2>3 DEF Behind
  <2> QED
    BY <1>4, <1>5, <2>1, <2>4 DEF Inv, ReadsFit
<1>13. \A d \in CommentId : RoomFits(d)'
  BY <1>1, <1>2, <1>4, IdleFits, SameRooms
<1> QED
  BY <1>9, <1>10, <1>11, <1>12, <1>13 DEF Inv

\* What was worked on when the process died counts as raced for.
LEMMA CrashInv ==
  ASSUME Inv, Crash
  PROVE  Inv'
<1>1. /\ handler' = [h \in Handler |-> Idle]
      /\ raced' = raced \cup {c \in CommentId : AtWork(c) # {}}
      /\ UNCHANGED <<executor, comment, object, pinned, clock, cursor, heard, seen, overtaken, blind, doomed>>
  BY DEF Crash, store
<1>2. CommentsStay /\ Present' = Present /\ Gone' = Gone
  BY <1>1, SameComments
<1>3. TypeOK'
  BY <1>1, IdleFits DEF Inv, TypeOK
<1>4. NoEmptyComment' /\ ReadsFit' /\ FilesFit'
  <2>1. WayStays
    BY <1>1, IdleFits DEF WayStays, OnTheirWay
  <2> QED
    BY <1>1, <1>2, <1>3, <2>1, SameReads DEF Inv, FilesFit
<1>5. HandlersFit'
  <2>1. Fits(Idle)'
    BY DEF Fits, Idle, Working
  <2> QED
    BY <1>1, <2>1 DEF HandlersFit
<1>6. ASSUME NEW d \in CommentId, d \notin raced'
      PROVE  AtWork(d)' = {} /\ Agrees(d)'
  <2>1. AtWork(d) = {} /\ d \notin raced
    BY <1>1, <1>6
  <2>2. Agrees(d)
    BY <2>1 DEF Inv, RoomFits
  <2> QED
    BY <1>1, <1>2, <2>2, IdleFits DEF Agrees, AtWork, Working
<1>7. \A d \in CommentId : RoomFits(d)'
  BY <1>6 DEF RoomFits
<1> QED
  BY <1>3, <1>4, <1>5, <1>7 DEF Inv
-----------------------------------------------------------------------------
LEMMA InitInv == Init => Inv
<1> SUFFICES ASSUME Init PROVE Inv
  OBVIOUS
<1>1. Absent.state = "absent" /\ \A c \in CommentId : comment[c] = Absent
  BY DEF Init, Absent
<1>2. Present = {} /\ Gone = {}
  BY <1>1 DEF Present, Gone
<1>3. \A h \in Handler : handler[h] = Idle
  BY DEF Init
<1>4. TypeOK
  BY IdleFits, Shapes DEF Init, TypeOK, Event
<1>5. HandlersFit
  BY <1>3 DEF HandlersFit, Fits, Idle, Working
<1>6. NoEmptyComment
  BY <1>2 DEF NoEmptyComment
<1>7. FilesFit
  BY <1>2 DEF Init, FilesFit
<1>8. ReadsFit
  <2>1. OnTheirWay = {}
    BY <1>3, IdleFits DEF OnTheirWay
  <2> QED
    BY <1>2, <2>1 DEF Init, ReadsFit, Behind
<1>9. \A c \in CommentId : RoomFits(c)
  <2>1. \A c \in CommentId : AtWork(c) = {}
    BY <1>3 DEF AtWork, Idle
  <2>2. \A c \in CommentId : Agrees(c)
    BY <1>2 DEF Init, Agrees
  <2> QED
    BY <2>1, <2>2 DEF RoomFits
<1> QED
  BY <1>4, <1>5, <1>6, <1>7, <1>8, <1>9 DEF Inv

LEMMA RequestInv ==
  ASSUME Inv, NEW h \in Handler, Request(h)
  PROVE  Inv'
<1>1. Present \subseteq CommentId
  BY DEF Present
<1>2. PICK u \in User :
        \/ \E t \in Text, m \in SUBSET File, r \in Present \cup {None} :
             CreateComment(h, u, t, m, r)
        \/ \E c \in CommentId, t \in Text : UpdateComment(h, u, c, t)
        \/ \E c \in CommentId : DeleteComment(h, u, c)
        \/ \E c \in CommentId : PinComment(h, u, c)
        \/ MarkRead(h, u)
  BY DEF Request
<1>3. CASE \E t \in Text, m \in SUBSET File, r \in Present \cup {None} :
             CreateComment(h, u, t, m, r)
  BY <1>1, <1>3, CreateCommentInv
<1>4. CASE \E c \in CommentId, t \in Text : UpdateComment(h, u, c, t)
  BY <1>4, UpdateCommentInv
<1>5. CASE \E c \in CommentId : DeleteComment(h, u, c)
  BY <1>5, DeleteCommentInv
<1>6. CASE \E c \in CommentId : PinComment(h, u, c)
  BY <1>6, PinCommentInv
<1>7. CASE MarkRead(h, u)
  BY <1>7, MarkReadInv
<1> QED
  BY <1>2, <1>3, <1>4, <1>5, <1>6, <1>7

LEMMA StepInv ==
  ASSUME Inv, NEW h \in Handler, Step(h)
  PROVE  Inv'
<1>1. CASE \/ FindReply(h) \/ StampComment(h) \/ InsertFails(h)
           \/ \E c \in CommentId : InsertComment(h, c)
  BY <1>1, FindReplyInv, StampCommentInv, InsertFailsInv, InsertCommentInv
<1>2. CASE Announce(h) \/ AnnounceEdit(h) \/ AnnounceDelete(h) \/ WriteEdit(h)
  BY <1>2, AnnounceInv, AnnounceDeleteInv, WriteEditInv
<1>3. CASE DeleteFileFails(h) \/ DeleteRow(h) \/ \E f \in File : DeleteFile(h, f)
  BY <1>3, DeleteFileFailsInv, DeleteRowInv, DeleteFileInv
<1>4. CASE WritePin(h) \/ FindLatest(h) \/ WriteRead(h)
  BY <1>4, WritePinInv, FindLatestInv, WriteReadInv
<1> QED
  BY <1>1, <1>2, <1>3, <1>4 DEF Step

LEMMA NextInv == Inv /\ [Next]_vars => Inv'
<1> SUFFICES ASSUME Inv, [Next]_vars PROVE Inv'
  OBVIOUS
<1>1. CASE UNCHANGED vars
  <2>1. UNCHANGED <<executor, comment, object, pinned, clock, cursor, heard, handler, seen,
                    overtaken, blind, doomed, raced>>
    BY <1>1 DEF vars
  <2>2. CommentsStay /\ Present' = Present /\ Gone' = Gone
    BY <2>1, SameComments
  <2>3. TypeOK'
    BY <2>1 DEF Inv, TypeOK
  <2>4. NoEmptyComment' /\ ReadsFit' /\ FilesFit'
    BY <2>1, <2>2, <2>3, NobodyMoves, SameReads DEF Inv, FilesFit
  <2> QED
    BY <2>1, <2>2, <2>3, <2>4, NobodyMoves DEF Inv
<1>2. CASE \E e \in Executor : ChangeExecutor(e)
  BY <1>2, ChangeExecutorInv
<1>3. CASE \E u \in User, c \in CommentId : UnpinComment(u, c)
  BY <1>3, UnpinCommentInv
<1>4. CASE \E h \in Handler : Request(h) \/ Step(h)
  BY <1>4, RequestInv, StepInv
<1>5. CASE Crash
  BY <1>5, CrashInv
<1> QED
  BY <1>1, <1>2, <1>3, <1>4, <1>5 DEF Next

\* What holds of the comments and of the requests in flight, in every state.
THEOREM Invariance == Spec => []Inv
<1> QED
  BY InitInv, NextInv, PTL DEF Spec

\* No comment is empty, however the edits of it overlap (tasks.service.ts, createComment
\* and updateComment: each looks at the files it read before it writes the text).
THEOREM CommentsAreNotEmpty == Spec => []NoEmptyComment
<1>1. Inv => NoEmptyComment
  BY DEF Inv
<1> QED
  BY <1>1, Invariance, PTL

\* Whatever the storage refuses and whenever the process dies, a comment that is gone
\* left no file and no pin, and a file that is missing is one of a comment whose
\* deletion was begun (deleteComment: the files go first).
THEOREM FilesGo == Spec => []FilesGoWithComment
<1>1. ASSUME Inv PROVE FilesGoWithComment
  <2>1. \A c \in Gone : comment[c].media \cap object = {}
    BY <1>1 DEF Inv, FilesFit
  <2>2. \A p \in ListCommentPins : p[2] = "present"
    <3> SUFFICES ASSUME NEW p \in ListCommentPins PROVE p[2] = "present"
      OBVIOUS
    <3>1. PICK c \in pinned : p = <<c, comment[c].state>>
      BY DEF ListCommentPins
    <3>2. c \in Present
      BY <1>1 DEF Inv, FilesFit
    <3> QED
      BY <3>1, <3>2 DEF Present
  <2>3. ASSUME NEW a \in ListCommentAttachments
        PROVE  a[2] \in object \/ \E d \in doomed : a[2] \in comment[d].media
    <3>1. a[2] \in File
      BY DEF ListCommentAttachments
    <3> QED
      BY <1>1, <3>1 DEF Inv, FilesFit
  <2> QED
    BY <2>1, <2>2, <2>3 DEF FilesGoWithComment
<1> QED
  BY <1>1, Invariance, PTL

\* Who is the other side of the other side.
LEMMA PeersMeet ==
  ASSUME TypeOK, NEW u \in Participant, NEW c \in Present, comment[c].author = Peer(u)
  PROVE  u \in User /\ Peer(Peer(u)) = u
<1>1. Owner \notin Executor /\ None \notin User
  BY OwnerAssumption DEF User
<1>2. u \in {Owner, executor} /\ u # None /\ executor \in Executor \cup {None}
  BY DEF Participant, TypeOK
<1>3. comment[c].author \in User
  BY Rows, RowShape
<1>4. CASE u = Owner
  BY <1>1, <1>2, <1>3, <1>4 DEF Peer, User
<1>5. CASE u # Owner
  BY <1>1, <1>2, <1>5 DEF Peer, User
<1> QED
  BY <1>4, <1>5

\* What no look-up of a participant covered is unread to him and, for its author, by
\* him, whatever is committed between the look at the last comment and the write of the
\* cursor (markTaskCommentsAsRead); but not what a look-up passed over, stamped before
\* the comment it found and committed after.
THEOREM NothingIsReadUnseen == Spec => []NothingReadUnseen
<1>1. ASSUME Inv PROVE NothingReadUnseen
  <2> SUFFICES ASSUME NEW u \in Participant \ blind, NEW c \in Present \ seen[u],
                      comment[c].at \notin overtaken[u]
               PROVE  /\ comment[c].author # u => c \in Unread(u)
                      /\ comment[c].author = Peer(u) =>
                           [comment |-> c, isRead |-> FALSE] \in SearchComments(Peer(u), Text)
    BY DEF NothingReadUnseen
  <2>1. u \in User
    BY <1>1 DEF Inv, TypeOK, Participant, User
  <2>2. cursor[u] < comment[c].at
    BY <1>1, <2>1 DEF Inv, ReadsFit, Behind
  <2>3. comment[c].author # u => c \in Unread(u)
    BY <2>2 DEF Unread
  <2>4. ASSUME comment[c].author = Peer(u)
        PROVE  [comment |-> c, isRead |-> FALSE] \in SearchComments(Peer(u), Text)
    <3>1. Peer(Peer(u)) = u /\ u # None
      BY <1>1, <2>4, PeersMeet DEF Inv, Participant
    <3>2. cursor[u] \in Nat /\ comment[c].at \in Nat /\ comment[c].text \in Text
      BY <1>1, <2>1, Rows, RowShape DEF Inv, TypeOK
    <3>3. ~(comment[c].at <= cursor[u])
      BY <2>2, <3>2
    <3>4. IsRead(c, Peer(u)) = FALSE
      BY <2>4, <3>1, <3>3 DEF IsRead, LastReadAt
    <3>5. c \in {d \in Present : comment[d].text \in Text}
      BY <3>2
    <3> QED
      BY <3>4, <3>5 DEF SearchComments
  <2> QED
    BY <2>3, <2>4
<1> QED
  BY <1>1, Invariance, PTL

\* Once no request works on a comment, the room has heard what the table says, whatever
\* became of the notifications, unless two requests overlapped on it or one was cut off.
THEOREM TheRoomAgrees == Spec => []RoomAgrees
<1>1. Inv => RoomAgrees
  BY DEF Inv, RoomFits, RoomAgrees, Agrees
<1> QED
  BY <1>1, Invariance, PTL
=============================================================================

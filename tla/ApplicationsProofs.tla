------------------------- MODULE ApplicationsProofs -------------------------
(* What overlapping handlers leave of the promises about applications, for   *)
(* every set of applicants, tasks and handlers: one task hangs on an         *)
(* application, of its own post; where no two conflicting handlers have      *)
(* overlapped, decisions are final and make one task, and templates are     *)
(* private.                                                                  *)
EXTENDS Applications, TLAPS

\* "raced" knows every overlap: two handlers that contend for a row are noted.
OverlapsAreNoted ==
  \A g, h \in Handler : g # h => Writes(handler[g]) \cap Writes(handler[h]) \subseteq raced

\* What a handler read of an application is still so, unless it was raced.
StillCurrent(l) ==
  /\ l.pc = "withdraw" /\ l.on \notin raced => application[l.on] \in {"NEW", "VIEWED"}
  /\ l.pc = "subscription" /\ l.on \notin raced => application[l.on] \in {"NEW", "VIEWED"}
  /\ l.pc = "decide" /\ l.on \notin raced => /\ application[l.on] \in {"NEW", "VIEWED"}
                                             /\ l.status # "VIEWED" \/ application[l.on] = "NEW"
  /\ l.pc = "decide" /\ l.createTask => l.status = "ACCEPTED"

ReadingsAreCurrent == \A h \in Handler : StillCurrent(handler[h])

\* A task goes back to an acceptance that stands, or fell with the post.
MadeByAcceptance ==
  \A t \in TaskId : tasks[t] # Absent /\ tasks[t].madeFrom \notin raced =>
    \/ application[tasks[t].madeFrom] = "ACCEPTED"
    \/ post = Deleted

\* With a post goes everything that hangs on it, and nothing comes after.
DeletedIsEmpty ==
  post = Deleted =>
    /\ \A a \in Applicant : application[a] = "absent"
    /\ \A t \in TaskId : tasks[t] # Absent => tasks[t].application = None

Rows == LinkedOnce /\ LinkedTaskKeepsPost /\ MadeByAcceptance /\ OneTaskPerApplication
          /\ DeletedIsEmpty

Inv == TypeOK /\ OverlapsAreNoted /\ ReadingsAreCurrent /\ Rows
-----------------------------------------------------------------------------
(* Lemmas on the operators.                                                  *)

AboutOne == {"apply", "withdraw", "subscription", "decide"}

\* What a handler carries, by where it is.
LEMMA HandlerShape ==
  ASSUME NEW l \in HandlerState
  PROVE  /\ l.pc \in AboutOne => l.on \in Applicant
         /\ l.pc = "decide" => l.status \in OwnerAllowedStatuses /\ l.createTask \in BOOLEAN
         /\ l.pc = "updatePost" => l.patch \in UpdatePostDto
         /\ l.pc = "move" => l.task \in TaskId /\ l.to \in {Here, Elsewhere}
  BY DEF HandlerState, AboutOne, Idle

\* The rows it writes.
LEMMA WritesOf ==
  ASSUME NEW l
  PROVE  /\ l.pc \in AboutOne => Writes(l) = {l.on}
         /\ l.pc = "removePost" => Writes(l) = {Here} \cup Applicant \cup TaskId
         /\ l.pc = "idle" => Writes(l) = {}
         /\ l.pc = "updatePost" => Writes(l) = {Here}
         /\ l.pc = "move" => Writes(l) = {l.task}
  BY DEF Writes, AboutOne

\* A row that is there is no absent or deleted one.
LEMMA RowIsThere ==
  /\ \A t \in TaskRow : t # Absent
  /\ \A p \in PostRow : p # Deleted
  BY NoneAssumption DEF TaskRow, Absent, PostRow, Deleted

\* What the table of transitions says.
LEMMA Transitions ==
  ASSUME NEW s \in ApplicationStatus, NEW t \in OwnerTransitions[s]
  PROVE  /\ s \in {"NEW", "VIEWED"}
         /\ t # "VIEWED" \/ s = "NEW"
  BY DEF OwnerTransitions, ApplicationStatus
-----------------------------------------------------------------------------
(* The admission of a request.                                               *)

\* A request is admitted on a reading that is current, and its overlaps are
\* noted: nothing else changes.
LEMMA EnterInv ==
  ASSUME Inv, NEW h \in Handler, NEW l \in HandlerState, StillCurrent(l), Enter(h, l),
         UNCHANGED <<post, application, tasks, prime>>
  PROVE  Inv'
<1> DEFINE noted == UNION {Writes(l) \cap Writes(handler[g]) : g \in Handler \ {h}}
<1>1. /\ handler' \in [Handler -> HandlerState] /\ handler'[h] = l
      /\ \A g \in Handler \ {h} : handler'[g] = handler[g]
  BY DEF Enter, Goto, Inv, TypeOK
<1>2. raced' = raced \cup noted
  BY DEF Enter
<1>3. \A g \in Handler \ {h} : Writes(l) \cap Writes(handler[g]) \subseteq noted
  OBVIOUS
<1>4. Writes(l) \subseteq Applicant \cup TaskId \cup {Here}
  BY HandlerShape DEF Writes, AboutOne
<1>5. noted \subseteq Applicant \cup TaskId \cup {Here}
  BY <1>4
<1> HIDE DEF noted
<1>6. TypeOK'
  BY <1>1, <1>2, <1>5 DEF Inv, TypeOK
<1>7. OverlapsAreNoted'
  <2> SUFFICES ASSUME NEW f \in Handler, NEW g \in Handler, f # g
               PROVE  Writes(handler'[f]) \cap Writes(handler'[g]) \subseteq raced'
    BY DEF OverlapsAreNoted, Writes
  <2>1. CASE f = h
    BY <2>1, <1>1, <1>2, <1>3
  <2>2. CASE g = h
    BY <2>2, <1>1, <1>2, <1>3
  <2>3. CASE f # h /\ g # h
    BY <2>3, <1>1, <1>2 DEF Inv, OverlapsAreNoted
  <2> QED
    BY <2>1, <2>2, <2>3
<1>8. ReadingsAreCurrent'
  <2> SUFFICES ASSUME NEW g \in Handler
               PROVE  StillCurrent(handler[g])'
    BY DEF ReadingsAreCurrent
  <2>1. StillCurrent(handler'[g])
    BY <1>1 DEF Inv, ReadingsAreCurrent
  <2> QED
    BY <2>1, <1>2 DEF StillCurrent
<1>9. Rows'
  BY <1>2 DEF Inv, Rows, LinkedOnce, TasksOf, LinkedTaskKeepsPost, MadeByAcceptance,
              OneTaskPerApplication, DeletedIsEmpty
<1> QED
  BY <1>6, <1>7, <1>8, <1>9 DEF Inv

\* An application is admitted on the flags of the post.
LEMMA ApplyInv ==
  ASSUME Inv, NEW h \in Handler, NEW a \in Applicant, Apply(h, a)
  PROVE  Inv'
<1> DEFINE l == [pc |-> "apply", on |-> a]
<1>1. l \in HandlerState /\ StillCurrent(l)
  BY DEF HandlerState, StillCurrent
<1>2. Enter(h, l) /\ UNCHANGED <<post, application, tasks, prime>>
  BY DEF Apply
<1> HIDE DEF l
<1> QED
  BY <1>1, <1>2, EnterInv

\* A withdrawal is admitted on a status that was not decided.
LEMMA WithdrawInv ==
  ASSUME Inv, NEW h \in Handler, NEW a \in Applicant, Withdraw(h, a)
  PROVE  Inv'
<1> DEFINE l == [pc |-> "withdraw", on |-> a]
<1>1. l \in HandlerState /\ StillCurrent(l)
  BY DEF HandlerState, StillCurrent, Withdraw, MayWithdraw
<1>2. Enter(h, l) /\ UNCHANGED <<post, application, tasks, prime>>
  BY DEF Withdraw
<1> HIDE DEF l
<1> QED
  BY <1>1, <1>2, EnterInv

\* So is a decision, whose status the table allows from the one read.
LEMMA UpdateStatusInv ==
  ASSUME Inv, NEW h \in Handler, NEW a \in Applicant, NEW s \in OwnerAllowedStatuses,
         UpdateStatus(h, a, s)
  PROVE  Inv'
<1> DEFINE ask == [pc |-> "subscription", on |-> a]
           decide == [pc |-> "decide", on |-> a, status |-> s, createTask |-> FALSE]
<1>1. /\ application[a] \in {"NEW", "VIEWED"}
      /\ s # "VIEWED" \/ application[a] = "NEW"
  BY Transitions DEF UpdateStatus, Inv, TypeOK
<1>2. ask \in HandlerState /\ StillCurrent(ask)
  BY <1>1 DEF HandlerState, StillCurrent
<1>3. decide \in HandlerState /\ StillCurrent(decide)
  BY <1>1 DEF HandlerState, StillCurrent
<1>4. Enter(h, ask) \/ Enter(h, decide)
  BY DEF UpdateStatus
<1>5. UNCHANGED <<post, application, tasks, prime>>
  BY DEF UpdateStatus
<1> HIDE DEF ask, decide
<1> QED
  BY <1>2, <1>3, <1>4, <1>5, EnterInv

\* The move of a task is admitted on no application.
LEMMA MoveTaskInv ==
  ASSUME Inv, NEW h \in Handler, NEW t \in TaskId, NEW p \in {Here, Elsewhere},
         MoveTask(h, t, p)
  PROVE  Inv'
<1> DEFINE l == [pc |-> "move", task |-> t, to |-> p]
<1>1. l \in HandlerState /\ StillCurrent(l)
  BY DEF HandlerState, StillCurrent
<1>2. Enter(h, l) /\ UNCHANGED <<post, application, tasks, prime>>
  BY DEF MoveTask
<1> HIDE DEF l
<1> QED
  BY <1>1, <1>2, EnterInv

\* The patch of a post is admitted with the flags it will write.
LEMMA UpdatePostInv ==
  ASSUME Inv, NEW h \in Handler, NEW dto \in PostDto, UpdatePost(h, dto)
  PROVE  Inv'
<1> DEFINE l == [pc |-> "updatePost", patch |-> PostPatch(dto)]
<1>1. PostPatch(dto) \in UpdatePostDto
  BY DtoAssumption DEF PostPatch, UpdatePostDto
<1>2. l \in HandlerState /\ StillCurrent(l)
  BY <1>1 DEF HandlerState, StillCurrent
<1>3. Enter(h, l) /\ UNCHANGED <<post, application, tasks, prime>>
  BY DEF UpdatePost
<1> HIDE DEF l
<1> QED
  BY <1>2, <1>3, EnterInv

\* The deletion of a post is admitted.
LEMMA RemovePostInv ==
  ASSUME Inv, NEW h \in Handler, RemovePost(h)
  PROVE  Inv'
<1>1. [pc |-> "removePost"] \in HandlerState /\ StillCurrent([pc |-> "removePost"])
  BY DEF HandlerState, StillCurrent
<1> QED
  BY <1>1, EnterInv DEF RemovePost

\* Between admission and write: the subscription is read, nothing else changes.
LEMMA ReadSubscriptionInv ==
  ASSUME Inv, NEW h \in Handler, ReadSubscription(h)
  PROVE  Inv'
<1> DEFINE a == handler[h].on
           l == [pc |-> "decide", on |-> a, status |-> "ACCEPTED", createTask |-> prime]
<1>1. handler[h] \in HandlerState /\ handler[h].pc = "subscription" /\ prime \in BOOLEAN
  BY DEF ReadSubscription, Inv, TypeOK
<1>2. a \in Applicant
  BY <1>1, HandlerShape DEF AboutOne
<1>3. l \in HandlerState
  BY <1>1, <1>2 DEF HandlerState, OwnerAllowedStatuses
<1>4. StillCurrent(l)
  BY <1>1 DEF Inv, ReadingsAreCurrent, StillCurrent
<1>5. Writes(l) = Writes(handler[h])
  BY <1>1, WritesOf DEF AboutOne
<1>6. handler' = [handler EXCEPT ![h] = l]
  BY DEF ReadSubscription, Goto
<1> HIDE DEF l
<1>7. /\ handler' \in [Handler -> HandlerState] /\ handler'[h] = l
      /\ \A g \in Handler \ {h} : handler'[g] = handler[g]
  BY <1>3, <1>6 DEF Inv, TypeOK
<1>8. UNCHANGED <<post, application, tasks, prime, raced>>
  BY DEF ReadSubscription
<1>9. TypeOK'
  BY <1>7, <1>8 DEF Inv, TypeOK
<1>10. OverlapsAreNoted'
  <2> SUFFICES ASSUME NEW f \in Handler, NEW g \in Handler, f # g
               PROVE  Writes(handler'[f]) \cap Writes(handler'[g]) \subseteq raced
    BY <1>8 DEF OverlapsAreNoted, Writes
  <2>1. \A e \in Handler : Writes(handler'[e]) = Writes(handler[e])
    BY <1>5, <1>7
  <2> QED
    BY <2>1 DEF Inv, OverlapsAreNoted
<1>11. ReadingsAreCurrent'
  <2>1. \A g \in Handler : StillCurrent(handler'[g])
    BY <1>4, <1>7 DEF Inv, ReadingsAreCurrent
  <2> QED
    BY <2>1, <1>8 DEF ReadingsAreCurrent, StillCurrent
<1>12. Rows'
  BY <1>8 DEF Inv, Rows, LinkedOnce, TasksOf, LinkedTaskKeepsPost, MadeByAcceptance,
              OneTaskPerApplication, DeletedIsEmpty
<1> QED
  BY <1>9, <1>10, <1>11, <1>12 DEF Inv
-----------------------------------------------------------------------------
(* The write that ends a request.                                            *)

\* It is enough that the rows stay right and that it writes the applications it
\* is known to write: the readings of the others are then raced or current.
LEMMA WriteStep ==
  ASSUME Inv, NEW h \in Handler, Done(h), raced' = raced, prime' = prime,
         post' \in PostRow \cup {Deleted},
         application' \in [Applicant -> ApplicationStatus \cup {"absent"}],
         tasks' \in [TaskId -> TaskRow \cup {Absent}],
         \A a \in Applicant : application'[a] # application[a] => a \in Writes(handler[h]),
         Rows'
  PROVE  Inv'
<1>1. /\ handler' \in [Handler -> HandlerState] /\ handler'[h] = Idle
      /\ \A g \in Handler \ {h} : handler'[g] = handler[g]
  BY DEF Done, Goto, Inv, TypeOK, HandlerState
<1>2. TypeOK'
  BY <1>1 DEF Inv, TypeOK
<1>3. OverlapsAreNoted'
  <2> SUFFICES ASSUME NEW f \in Handler, NEW g \in Handler, f # g
               PROVE  Writes(handler'[f]) \cap Writes(handler'[g]) \subseteq raced
    BY DEF OverlapsAreNoted, Writes
  <2>1. Writes(Idle) = {}
    BY WritesOf DEF Idle
  <2> QED
    BY <2>1, <1>1 DEF Inv, OverlapsAreNoted
<1>4. ReadingsAreCurrent'
  <2> SUFFICES ASSUME NEW g \in Handler
               PROVE  StillCurrent(handler[g])'
    BY DEF ReadingsAreCurrent
  <2>1. CASE g = h
    BY <2>1, <1>1 DEF StillCurrent, Idle
  <2>2. CASE g # h
    <3> DEFINE l == handler[g]
    <3>1. l \in HandlerState /\ handler'[g] = l /\ StillCurrent(l)
      BY <2>2, <1>1 DEF Inv, TypeOK, ReadingsAreCurrent
    <3>2. ASSUME l.pc \in AboutOne, l.on \notin raced
          PROVE  application'[l.on] = application[l.on]
      <4>1. l.on \in Applicant /\ Writes(l) = {l.on}
        BY <3>1, <3>2, HandlerShape, WritesOf
      <4>2. l.on \notin Writes(handler[h])
        BY <2>2, <3>2, <4>1 DEF Inv, OverlapsAreNoted
      <4> QED
        BY <4>1, <4>2
    <3> HIDE DEF l
    <3> QED
      BY <3>1, <3>2 DEF StillCurrent, AboutOne
  <2> QED
    BY <2>1, <2>2
<1> QED
  BY <1>2, <1>3, <1>4 DEF Inv

\* A handler that ends without a write.
LEMMA NoWrite ==
  ASSUME Inv, NEW h \in Handler, Done(h), UNCHANGED <<post, application, tasks, prime, raced>>
  PROVE  Inv'
<1>1. Rows'
  BY DEF Inv, Rows, LinkedOnce, TasksOf, LinkedTaskKeepsPost, MadeByAcceptance,
         OneTaskPerApplication, DeletedIsEmpty
<1>2. /\ post' \in PostRow \cup {Deleted}
      /\ application' \in [Applicant -> ApplicationStatus \cup {"absent"}]
      /\ tasks' \in [TaskId -> TaskRow \cup {Absent}]
  BY DEF Inv, TypeOK
<1> QED
  BY <1>1, <1>2, WriteStep

\* The insert of an application: it was absent, so no task stands on it.
LEMMA InsertApplicationInv ==
  ASSUME Inv, NEW h \in Handler, InsertApplication(h)
  PROVE  Inv'
<1> DEFINE a == handler[h].on
<1>1. a \in Applicant /\ Writes(handler[h]) = {a}
  BY HandlerShape, WritesOf DEF InsertApplication, AboutOne, Inv, TypeOK
<1>2. Done(h) /\ UNCHANGED <<post, tasks, prime, raced>>
  BY DEF InsertApplication
<1>3. CASE application' = application
  BY <1>2, <1>3, NoWrite
<1>4. CASE /\ post # Deleted /\ application[a] = "absent"
           /\ application' = [application EXCEPT ![a] = "NEW"]
  <2>1. /\ application' \in [Applicant -> ApplicationStatus \cup {"absent"}]
        /\ \A b \in Applicant : application'[b] = IF b = a THEN "NEW" ELSE application[b]
    BY <1>1, <1>4 DEF Inv, TypeOK, ApplicationStatus
  <2>2. \A t \in TaskId : tasks[t] # Absent => tasks[t].madeFrom \in Applicant
    BY DEF Inv, TypeOK, TaskRow
  <2>3. MadeByAcceptance'
    BY <1>2, <1>4, <2>1, <2>2 DEF Inv, Rows, MadeByAcceptance
  <2>4. Rows'
    BY <1>2, <1>4, <2>3 DEF Inv, Rows, LinkedOnce, TasksOf, LinkedTaskKeepsPost,
                            OneTaskPerApplication, DeletedIsEmpty
  <2>5. post' \in PostRow \cup {Deleted} /\ tasks' \in [TaskId -> TaskRow \cup {Absent}]
    BY <1>2 DEF Inv, TypeOK
  <2> QED
    BY <1>1, <1>2, <2>1, <2>4, <2>5, WriteStep
<1> QED
  BY <1>3, <1>4 DEF InsertApplication

\* The write of a withdrawal: of an accepted application only if raced.
LEMMA WriteWithdrawnInv ==
  ASSUME Inv, NEW h \in Handler, WriteWithdrawn(h)
  PROVE  Inv'
<1> DEFINE a == handler[h].on
<1>1. a \in Applicant /\ Writes(handler[h]) = {a}
  BY HandlerShape, WritesOf DEF WriteWithdrawn, AboutOne, Inv, TypeOK
<1>2. Done(h) /\ UNCHANGED <<post, tasks, prime, raced>>
  BY DEF WriteWithdrawn
<1>3. CASE application' = application
  BY <1>2, <1>3, NoWrite
<1>4. CASE /\ application[a] # "absent"
           /\ application' = [application EXCEPT ![a] = "WITHDRAWN"]
  <2>1. /\ application' \in [Applicant -> ApplicationStatus \cup {"absent"}]
        /\ \A b \in Applicant : application'[b] = IF b = a THEN "WITHDRAWN" ELSE application[b]
    BY <1>1, <1>4 DEF Inv, TypeOK, ApplicationStatus
  <2>2. \A t \in TaskId : tasks[t] # Absent => tasks[t].madeFrom \in Applicant
    BY DEF Inv, TypeOK, TaskRow
  <2>3. a \notin raced => application[a] # "ACCEPTED"
    BY DEF Inv, ReadingsAreCurrent, StillCurrent, WriteWithdrawn
  <2>4. MadeByAcceptance'
    BY <1>2, <2>1, <2>2, <2>3 DEF Inv, Rows, MadeByAcceptance
  <2>5. Rows'
    BY <1>1, <1>2, <1>4, <2>4 DEF Inv, Rows, LinkedOnce, TasksOf, LinkedTaskKeepsPost,
                            OneTaskPerApplication, DeletedIsEmpty
  <2>6. post' \in PostRow \cup {Deleted} /\ tasks' \in [TaskId -> TaskRow \cup {Absent}]
    BY <1>2 DEF Inv, TypeOK
  <2> QED
    BY <1>1, <1>2, <2>1, <2>5, <2>6, WriteStep
<1> QED
  BY <1>3, <1>4 DEF WriteWithdrawn

\* The decision, with the task it makes.
LEMMA WriteStatusInv ==
  ASSUME Inv, NEW h \in Handler, WriteStatus(h)
  PROVE  Inv'
<1> DEFINE l == handler[h]
           a == l.on
<1>1. /\ a \in Applicant /\ Writes(l) = {a} /\ l.status \in ApplicationStatus
      /\ l.createTask \in BOOLEAN
  BY HandlerShape, WritesOf
  DEF WriteStatus, AboutOne, Inv, TypeOK, OwnerAllowedStatuses, ApplicationStatus
<1>2. /\ Done(h) /\ UNCHANGED <<post, prime, raced>>
      /\ l.createTask => l.status = "ACCEPTED"
      /\ a \notin raced => application[a] \in {"NEW", "VIEWED"}
  BY DEF WriteStatus, Inv, ReadingsAreCurrent, StillCurrent
<1>3. post' \in PostRow \cup {Deleted}
  BY <1>2 DEF Inv, TypeOK
<1>4. \A t \in TaskId : tasks[t] # Absent => tasks[t].madeFrom \in Applicant
  BY DEF Inv, TypeOK, TaskRow
<1> SUFFICES ASSUME application[a] # "absent",
                    application' = [application EXCEPT ![a] = l.status]
             PROVE  Inv'
  BY <1>2, NoWrite DEF WriteStatus
<1>5. /\ application' \in [Applicant -> ApplicationStatus \cup {"absent"}]
      /\ \A b \in Applicant : application'[b] = IF b = a THEN l.status ELSE application[b]
  BY <1>1 DEF Inv, TypeOK
<1>6. post # Deleted
  BY <1>1 DEF Inv, Rows, DeletedIsEmpty
<1>7. CASE tasks' = tasks
  <2>1. MadeByAcceptance'
    BY <1>2, <1>4, <1>5, <1>6, <1>7 DEF Inv, Rows, MadeByAcceptance
  <2>2. Rows'
    BY <1>2, <1>6, <1>7, <2>1 DEF Inv, Rows, LinkedOnce, TasksOf, LinkedTaskKeepsPost,
                            OneTaskPerApplication, DeletedIsEmpty
  <2>3. tasks' \in [TaskId -> TaskRow \cup {Absent}]
    BY <1>7 DEF Inv, TypeOK
  <2> QED
    BY <1>1, <1>2, <1>3, <1>5, <2>2, <2>3, WriteStep
<1>8. ASSUME l.createTask, ~HasTask(a), InsertTask(a) PROVE Inv'
  <2> DEFINE row == [application |-> a, post |-> Here, madeFrom |-> a]
  <2>1. row \in TaskRow /\ row # Absent
    BY <1>1, RowIsThere DEF TaskRow
  <2>2. PICK t \in TaskId : tasks[t] = Absent /\ tasks' = [tasks EXCEPT ![t] = row]
    BY <1>8 DEF InsertTask
  <2>3. row.application = a /\ row.post = Here /\ row.madeFrom = a
    OBVIOUS
  <2> HIDE DEF row
  <2>4. /\ tasks' \in [TaskId -> TaskRow \cup {Absent}]
        /\ \A u \in TaskId : tasks'[u] = IF u = t THEN row ELSE tasks[u]
    BY <2>1, <2>2 DEF Inv, TypeOK
  <2>5. LinkedOnce'
    BY <1>8, <2>3, <2>4 DEF Inv, Rows, LinkedOnce, TasksOf, HasTask
  <2>6. LinkedTaskKeepsPost'
    BY <2>3, <2>4 DEF Inv, Rows, LinkedTaskKeepsPost
  <2>7. MadeByAcceptance'
    BY <1>1, <1>2, <1>4, <1>5, <1>6, <1>8, <2>3, <2>4 DEF Inv, Rows, MadeByAcceptance
  <2>8. OneTaskPerApplication'
    <3>1. a \notin raced => \A u \in TaskId : tasks[u] # Absent => tasks[u].madeFrom # a
      BY <1>2, <1>6 DEF Inv, Rows, MadeByAcceptance
    <3> QED
      BY <3>1, <1>2, <2>3, <2>4 DEF Inv, Rows, OneTaskPerApplication
  <2>9. DeletedIsEmpty'
    BY <1>2, <1>6 DEF DeletedIsEmpty
  <2> QED
    BY <1>1, <1>2, <1>3, <1>5, <2>4, <2>5, <2>6, <2>7, <2>8, <2>9, WriteStep DEF Rows
<1> QED
  BY <1>1, <1>7, <1>8 DEF WriteStatus

\* A move disconnects the application, and leaves where the task came from.
LEMMA WriteMoveInv ==
  ASSUME Inv, NEW h \in Handler, WriteMove(h)
  PROVE  Inv'
<1> DEFINE t == handler[h].task
           p == handler[h].to
<1>1. t \in TaskId /\ p \in {Here, Elsewhere}
  BY HandlerShape DEF WriteMove, Inv, TypeOK
<1>2. Done(h) /\ UNCHANGED <<post, application, prime, raced>>
  BY DEF WriteMove
<1>3. CASE tasks' = tasks
  BY <1>2, <1>3, NoWrite
<1>4. CASE /\ tasks[t] # Absent
           /\ tasks' = [tasks EXCEPT ![t] = Moved(t, p)]
  <2>1. tasks[t] \in TaskRow
    BY <1>1, <1>4 DEF Inv, TypeOK
  <2>2. /\ Moved(t, p) \in TaskRow /\ Moved(t, p).application = None
        /\ Moved(t, p).madeFrom = tasks[t].madeFrom
    BY <1>1, <2>1 DEF Moved, TaskRow
  <2>3. /\ tasks' \in [TaskId -> TaskRow \cup {Absent}]
        /\ \A u \in TaskId : tasks'[u] = IF u = t THEN Moved(t, p) ELSE tasks[u]
    BY <1>1, <1>4, <2>2 DEF Inv, TypeOK
  <2>4. LinkedOnce' /\ LinkedTaskKeepsPost'
    BY <2>2, <2>3, NoneAssumption DEF Inv, Rows, LinkedOnce, TasksOf, LinkedTaskKeepsPost
  <2>5. MadeByAcceptance' /\ OneTaskPerApplication'
    BY <1>1, <1>2, <1>4, <2>2, <2>3 DEF Inv, Rows, MadeByAcceptance, OneTaskPerApplication
  <2>6. DeletedIsEmpty'
    BY <1>2, <2>2, <2>3 DEF Inv, Rows, DeletedIsEmpty
  <2>7. /\ post' \in PostRow \cup {Deleted}
        /\ application' \in [Applicant -> ApplicationStatus \cup {"absent"}]
        /\ \A a \in Applicant : application'[a] = application[a]
    BY <1>2 DEF Inv, TypeOK
  <2> QED
    BY <1>2, <2>3, <2>4, <2>5, <2>6, <2>7, WriteStep DEF Rows
<1> QED
  BY <1>3, <1>4 DEF WriteMove

\* A patch does not bring a deleted post back.
LEMMA WritePostInv ==
  ASSUME Inv, NEW h \in Handler, WritePost(h)
  PROVE  Inv'
<1> DEFINE p == handler[h].patch
<1>1. p \in UpdatePostDto
  BY HandlerShape DEF WritePost, Inv, TypeOK
<1>2. Done(h) /\ UNCHANGED <<application, tasks, prime, raced>>
  BY DEF WritePost
<1>3. CASE post = Deleted
  BY <1>2, <1>3, NoWrite DEF WritePost
<1>4. CASE post # Deleted
  <2>1. post \in PostRow
    BY <1>4 DEF Inv, TypeOK
  <2>2. post' \in PostRow
    BY <1>1, <1>4, <2>1 DEF WritePost, PostRow, UpdatePostDto, Merge
  <2>3. post' # Deleted
    BY <2>2, RowIsThere
  <2>4. Rows'
    BY <1>2, <1>4, <2>3 DEF Inv, Rows, LinkedOnce, TasksOf, LinkedTaskKeepsPost,
                            MadeByAcceptance, OneTaskPerApplication, DeletedIsEmpty
  <2>5. /\ application' \in [Applicant -> ApplicationStatus \cup {"absent"}]
        /\ tasks' \in [TaskId -> TaskRow \cup {Absent}]
        /\ \A a \in Applicant : application'[a] = application[a]
    BY <1>2 DEF Inv, TypeOK
  <2> QED
    BY <1>2, <2>2, <2>4, <2>5, WriteStep
<1> QED
  BY <1>3, <1>4

\* The delete of a post takes the applications, and the tasks but those moved.
LEMMA DeletePostInv ==
  ASSUME Inv, NEW h \in Handler, DeletePost(h)
  PROVE  Inv'
<1>1. Done(h) /\ UNCHANGED <<prime, raced>> /\ post' = Deleted
  BY DEF DeletePost
<1>2. Applicant \subseteq Writes(handler[h])
  BY WritesOf DEF DeletePost
<1>3. \A a \in Applicant : application'[a] = "absent"
  BY DEF DeletePost
<1>4. application' \in [Applicant -> ApplicationStatus \cup {"absent"}]
  BY DEF DeletePost
<1>5. \A t \in TaskId :
        /\ tasks'[t] \in {tasks[t], Absent}
        /\ tasks'[t] # Absent => tasks'[t] = tasks[t] /\ tasks'[t].application = None
  BY DEF DeletePost
<1>6. tasks' \in [TaskId -> TaskRow \cup {Absent}]
  BY DEF DeletePost, Inv, TypeOK
<1>7. LinkedOnce' /\ LinkedTaskKeepsPost'
  BY <1>5, NoneAssumption DEF LinkedOnce, TasksOf, LinkedTaskKeepsPost
<1>8. MadeByAcceptance' /\ OneTaskPerApplication'
  BY <1>1, <1>5 DEF Inv, Rows, MadeByAcceptance, OneTaskPerApplication
<1>9. DeletedIsEmpty'
  BY <1>3, <1>5 DEF DeletedIsEmpty
<1> QED
  BY <1>1, <1>2, <1>4, <1>6, <1>7, <1>8, <1>9, WriteStep DEF Rows
-----------------------------------------------------------------------------
(* The specification.                                                        *)

\* A new post, that nobody applied to.
LEMMA InitInv == Init => Inv
<1> SUFFICES ASSUME Init PROVE Inv
  OBVIOUS
<1>1. post \in PostRow /\ post # Deleted
  BY RowIsThere DEF Init
<1>2. \A h \in Handler : handler[h] = Idle
  BY DEF Init
<1>3. \A t \in TaskId : tasks[t] = Absent
  BY DEF Init
<1>4. TypeOK
  BY <1>1 DEF Init, TypeOK, HandlerState
<1>5. OverlapsAreNoted
  BY <1>2, WritesOf DEF OverlapsAreNoted, Idle
<1>6. ReadingsAreCurrent
  BY <1>2 DEF ReadingsAreCurrent, StillCurrent, Idle
<1>7. Rows
  BY <1>1, <1>3 DEF Rows, LinkedOnce, TasksOf, LinkedTaskKeepsPost, MadeByAcceptance,
                    OneTaskPerApplication, DeletedIsEmpty
<1> QED
  BY <1>4, <1>5, <1>6, <1>7 DEF Inv

\* A step that touches neither the rows nor the handlers: the subscription
\* turns, or nothing happens.
LEMMA RowsUntouched ==
  ASSUME Inv, prime' \in BOOLEAN, UNCHANGED <<post, application, tasks, handler, raced>>
  PROVE  Inv'
<1>1. TypeOK'
  BY DEF Inv, TypeOK
<1>2. OverlapsAreNoted' /\ ReadingsAreCurrent'
  BY DEF Inv, OverlapsAreNoted, Writes, ReadingsAreCurrent, StillCurrent
<1>3. Rows'
  BY DEF Inv, Rows, LinkedOnce, TasksOf, LinkedTaskKeepsPost, MadeByAcceptance,
         OneTaskPerApplication, DeletedIsEmpty
<1> QED
  BY <1>1, <1>2, <1>3 DEF Inv

\* Every step of a handler, of the subscription, and no step, keeps it.
LEMMA NextInv == Inv /\ [Next]_vars => Inv'
<1> SUFFICES ASSUME Inv, [Next]_vars PROVE Inv'
  OBVIOUS
<1>1. ASSUME NEW h \in Handler, Receive(h) PROVE Inv'
  BY <1>1, ApplyInv, WithdrawInv, UpdateStatusInv, MoveTaskInv, UpdatePostInv, RemovePostInv
  DEF Receive
<1>2. ASSUME NEW h \in Handler, Continue(h) PROVE Inv'
  BY <1>2, InsertApplicationInv, WriteWithdrawnInv, ReadSubscriptionInv, WriteStatusInv,
     WriteMoveInv, WritePostInv, DeletePostInv
  DEF Continue
<1>3. ASSUME NEW h \in Handler, Fail(h) PROVE Inv'
  BY <1>3, NoWrite DEF Fail
<1>4. CASE SubscriptionTurns
  BY <1>4, RowsUntouched DEF SubscriptionTurns, Inv, TypeOK
<1>5. CASE UNCHANGED vars
  BY <1>5, RowsUntouched DEF vars, Inv, TypeOK
<1> QED
  BY <1>1, <1>2, <1>3, <1>4, <1>5 DEF Next

\* The invariant the rest follows from.
THEOREM Invariance == Spec => []Inv
  BY InitInv, NextInv, PTL DEF Spec

\* Every variable holds a row, or a local state, of its type.
THEOREM TypeCorrect == Spec => []TypeOK
  BY Invariance, PTL DEF Inv

\* However many acceptances overlap, at most one task hangs on an application.
THEOREM OneTaskLinked == Spec => []LinkedOnce
  BY Invariance, PTL DEF Inv, Rows

\* A task that hangs on an application is one made from it, in its post.
THEOREM LinkedTaskStays == Spec => []LinkedTaskKeepsPost
  BY Invariance, PTL DEF Inv, Rows

\* Where nothing overlapped, an application makes one task in its life.
THEOREM OneTaskMade == Spec => []OneTaskPerApplication
  BY Invariance, PTL DEF Inv, Rows

\* Where nothing overlapped, a task hangs on an accepted application only.
THEOREM TaskNeedsAcceptance == Spec => []TaskOnlyWhileAccepted
<1>1. Inv => TaskOnlyWhileAccepted
  BY NoneAssumption DEF Inv, Rows, TaskOnlyWhileAccepted, TasksOf, LinkedTaskKeepsPost,
                        MadeByAcceptance, DeletedIsEmpty
<1> QED
  BY <1>1, Invariance, PTL

\* A decision no overlap touches is changed by the deletion of its post alone.
LEMMA DecidedStays ==
  ASSUME Inv, [Next]_vars, NEW a \in Applicant \ raced, application[a] \in Decided
  PROVE  application'[a] \in {application[a], "absent"}
<1>1. application \in [Applicant -> ApplicationStatus \cup {"absent"}]
  BY DEF Inv, TypeOK
<1>2. ASSUME NEW h \in Handler, Continue(h) PROVE application'[a] \in {application[a], "absent"}
  <2>1. StillCurrent(handler[h])
    BY DEF Inv, ReadingsAreCurrent
  <2>2. CASE InsertApplication(h)
    BY <2>2, <1>1 DEF InsertApplication, Decided
  <2>3. CASE WriteWithdrawn(h)
    BY <2>3, <2>1, <1>1 DEF WriteWithdrawn, StillCurrent, Decided
  <2>4. CASE WriteStatus(h)
    BY <2>4, <2>1, <1>1 DEF WriteStatus, StillCurrent, Decided
  <2>5. CASE DeletePost(h)
    BY <2>5 DEF DeletePost
  <2>6. CASE ReadSubscription(h) \/ WriteMove(h) \/ WritePost(h)
    BY <2>6 DEF ReadSubscription, WriteMove, WritePost
  <2> QED
    BY <1>2, <2>2, <2>3, <2>4, <2>5, <2>6 DEF Continue
<1>3. ASSUME NEW h \in Handler, Receive(h) \/ Fail(h) PROVE application' = application
  BY <1>3 DEF Receive, Fail, Apply, Withdraw, UpdateStatus, MoveTask, UpdatePost, RemovePost
<1>4. CASE SubscriptionTurns \/ UNCHANGED vars
  BY <1>4 DEF SubscriptionTurns, vars
<1> QED
  BY <1>2, <1>3, <1>4 DEF Next

\* Where nothing overlapped, a decision on an application is final.
THEOREM DecisionsAreFinal == Spec => DecisionIsFinal
<1>1. Inv /\ [Next]_vars =>
        [\A a \in Applicant \ raced : application[a] \in Decided =>
           application'[a] \in {application[a], "absent"}]_vars
  BY DecidedStays
<1> QED
  BY <1>1, Invariance, PTL DEF Spec, DecisionIsFinal
-----------------------------------------------------------------------------
(* Templates.                                                                *)

\* A patch on its way was computed from the flags the post still has, unless
\* the post was raced: written now, it leaves no template public.
LeavesPrivate(p) ==
  Merge(post.template, p.template) = TRUE => Merge(post.private, p.private) = TRUE

PatchesArePrivate ==
  \A h \in Handler : handler[h].pc = "updatePost" /\ Here \notin raced /\ post # Deleted =>
                       LeavesPrivate(handler[h].patch)

TemplateInv == TemplateIsPrivate /\ PatchesArePrivate

\* The patch is computed so that it leaves no template public.
LEMMA PatchLeavesPrivate ==
  ASSUME post \in PostRow, NEW dto \in UpdatePostDto
  PROVE  LeavesPrivate(PostPatch(dto))
<1>1. /\ dto = [archived |-> dto.archived, private |-> dto.private, template |-> dto.template]
      /\ dto.template \in BOOLEAN \cup {Keep}
  BY DEF UpdatePostDto
<1>2. post.template \in BOOLEAN
  BY DEF PostRow
<1>3. CASE dto.template = FALSE
  <2>1. PostPatch(dto).template = FALSE
    BY <1>1, <1>3 DEF PostPatch
  <2> QED
    BY <2>1, KeepAssumption DEF LeavesPrivate, Merge
<1>4. CASE dto.template # FALSE /\ (post.template \/ dto.template = TRUE)
  <2>1. PostPatch(dto).private = TRUE
    BY <1>1, <1>4 DEF PostPatch
  <2> QED
    BY <2>1, KeepAssumption DEF LeavesPrivate, Merge
<1>5. CASE dto.template # FALSE /\ ~(post.template \/ dto.template = TRUE)
  <2>1. PostPatch(dto) = dto
    BY <1>5 DEF PostPatch
  <2>2. dto.template = Keep /\ post.template = FALSE
    BY <1>1, <1>2, <1>5
  <2> QED
    BY <2>1, <2>2 DEF LeavesPrivate, Merge
<1> QED
  BY <1>3, <1>4, <1>5

\* A step that leaves the post and brings no new patch on its way.
LEMMA PostUntouched ==
  ASSUME TemplateInv, post' = post, raced \subseteq raced',
         \A g \in Handler : handler'[g].pc = "updatePost" => handler'[g] = handler[g]
  PROVE  TemplateInv'
<1>1. TemplateIsPrivate'
  BY DEF TemplateInv, TemplateIsPrivate
<1>2. PatchesArePrivate'
  BY DEF TemplateInv, PatchesArePrivate, LeavesPrivate, Merge
<1> QED
  BY <1>1, <1>2 DEF TemplateInv

\* A request on something else is admitted, or goes on, or ends.
LEMMA NoNewPatch ==
  ASSUME Inv, TemplateInv, NEW h \in Handler, NEW l, l.pc # "updatePost", Goto(h, l),
         post' = post, raced \subseteq raced'
  PROVE  TemplateInv'
<1>1. \A g \in Handler : handler'[g] = IF g = h THEN l ELSE handler[g]
  BY DEF Goto, Inv, TypeOK
<1> QED
  BY <1>1, PostUntouched

\* The patch of a post is admitted with what it leaves private.
LEMMA UpdatePostKeepsTemplates ==
  ASSUME Inv, TemplateInv, NEW h \in Handler, NEW dto \in PostDto, UpdatePost(h, dto)
  PROVE  TemplateInv'
<1> DEFINE l == [pc |-> "updatePost", patch |-> PostPatch(dto)]
<1>1. LeavesPrivate(PostPatch(dto))
  BY PatchLeavesPrivate, DtoAssumption DEF UpdatePost, Inv, TypeOK
<1>2. \A g \in Handler : handler'[g] = IF g = h THEN l ELSE handler[g]
  BY DEF UpdatePost, Enter, Goto, Inv, TypeOK
<1>3. post' = post /\ raced \subseteq raced'
  BY DEF UpdatePost, Enter
<1>4. l.patch = PostPatch(dto)
  OBVIOUS
<1> HIDE DEF l
<1>5. TemplateIsPrivate'
  BY <1>3 DEF TemplateInv, TemplateIsPrivate
<1>6. PatchesArePrivate'
  <2> SUFFICES ASSUME NEW g \in Handler, handler'[g].pc = "updatePost", Here \notin raced',
                      post' # Deleted
               PROVE  LeavesPrivate(handler[g].patch)'
    BY DEF PatchesArePrivate, LeavesPrivate, Merge
  <2>1. LeavesPrivate(handler'[g].patch)
    BY <1>1, <1>2, <1>3, <1>4 DEF TemplateInv, PatchesArePrivate
  <2> QED
    BY <2>1, <1>3 DEF LeavesPrivate, Merge
<1> QED
  BY <1>5, <1>6 DEF TemplateInv

\* The write of a patch: another one on its way would have raced it.
LEMMA WritePostKeepsTemplates ==
  ASSUME Inv, TemplateInv, NEW h \in Handler, WritePost(h)
  PROVE  TemplateInv'
<1>1. /\ handler[h].pc = "updatePost" /\ raced' = raced
      /\ post' = IF post = Deleted THEN Deleted
                 ELSE [archived |-> Merge(post.archived, handler[h].patch.archived),
                       private  |-> Merge(post.private, handler[h].patch.private),
                       template |-> Merge(post.template, handler[h].patch.template)]
  BY DEF WritePost
<1>2. \A g \in Handler : handler'[g] = IF g = h THEN Idle ELSE handler[g]
  BY DEF WritePost, Done, Goto, Inv, TypeOK
<1>3. TemplateIsPrivate'
  <2> SUFFICES ASSUME Here \notin raced, post # Deleted, post'.template PROVE post'.private
    BY <1>1 DEF TemplateIsPrivate
  <2>1. /\ post'.template = Merge(post.template, handler[h].patch.template)
        /\ post'.private = Merge(post.private, handler[h].patch.private)
    BY <1>1
  <2>2. LeavesPrivate(handler[h].patch)
    BY <1>1 DEF TemplateInv, PatchesArePrivate
  <2>3. post' \in PostRow
    BY <1>1, HandlerShape DEF Inv, TypeOK, PostRow, UpdatePostDto, Merge
  <2>4. post'.template = TRUE
    BY <2>3 DEF PostRow
  <2> QED
    BY <2>1, <2>2, <2>4 DEF LeavesPrivate
<1>4. PatchesArePrivate'
  <2>1. ASSUME NEW g \in Handler, handler'[g].pc = "updatePost" PROVE Here \in raced
    <3>1. g # h /\ handler[g].pc = "updatePost"
      BY <1>2, <2>1 DEF Idle
    <3>2. Here \in Writes(handler[g]) \cap Writes(handler[h])
      BY <1>1, <3>1, WritesOf
    <3> QED
      BY <3>1, <3>2 DEF Inv, OverlapsAreNoted
  <2> QED
    BY <1>1, <2>1 DEF PatchesArePrivate
<1> QED
  BY <1>3, <1>4 DEF TemplateInv

\* No step leaves a template public where nothing overlapped on the post.
LEMMA NextTemplateInv == Inv /\ TemplateInv /\ [Next]_vars => TemplateInv'
<1> SUFFICES ASSUME Inv, TemplateInv, [Next]_vars PROVE TemplateInv'
  OBVIOUS
<1>1. ASSUME NEW h \in Handler, NEW a \in Applicant, Apply(h, a) \/ Withdraw(h, a)
      PROVE  TemplateInv'
  BY <1>1, NoNewPatch DEF Apply, Withdraw, Enter
<1>2. ASSUME NEW h \in Handler, NEW a \in Applicant, NEW s \in OwnerAllowedStatuses,
             UpdateStatus(h, a, s)
      PROVE  TemplateInv'
  BY <1>2, NoNewPatch DEF UpdateStatus, Enter
<1>3. ASSUME NEW h \in Handler, NEW t \in TaskId, NEW p \in {Here, Elsewhere},
             MoveTask(h, t, p)
      PROVE  TemplateInv'
  BY <1>3, NoNewPatch DEF MoveTask, Enter
<1>4. ASSUME NEW h \in Handler, RemovePost(h) PROVE TemplateInv'
  BY <1>4, NoNewPatch DEF RemovePost, Enter
<1>5. ASSUME NEW h \in Handler, ReadSubscription(h) PROVE TemplateInv'
  BY <1>5, NoNewPatch DEF ReadSubscription
<1>6. ASSUME NEW h \in Handler,
             InsertApplication(h) \/ WriteWithdrawn(h) \/ WriteStatus(h) \/ WriteMove(h) \/ Fail(h)
      PROVE  TemplateInv'
  BY <1>6, NoNewPatch
  DEF InsertApplication, WriteWithdrawn, WriteStatus, WriteMove, Fail, Done, Idle
<1>7. ASSUME NEW h \in Handler, DeletePost(h) PROVE TemplateInv'
  BY <1>7 DEF DeletePost, TemplateInv, TemplateIsPrivate, PatchesArePrivate
<1>8. CASE SubscriptionTurns \/ UNCHANGED vars
  BY <1>8, PostUntouched DEF SubscriptionTurns, vars
<1> QED
  BY <1>1, <1>2, <1>3, <1>4, <1>5, <1>6, <1>7, <1>8, UpdatePostKeepsTemplates,
     WritePostKeepsTemplates
  DEF Next, Receive, Continue

\* Where no two requests overlapped on the post, a template is private.
THEOREM TemplatesArePrivate == Spec => []TemplateIsPrivate
<1>1. Init => TemplateInv
  BY DEF Init, PostRow, TemplateInv, TemplateIsPrivate, PatchesArePrivate, Idle
<1>2. TemplateInv => TemplateIsPrivate
  BY DEF TemplateInv
<1> QED
  BY <1>1, <1>2, NextTemplateInv, Invariance, PTL DEF Spec
=============================================================================

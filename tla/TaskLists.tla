------------------------------ MODULE TaskLists ------------------------------
(***************************************************************************)
(* What the lists, the counters and the feeds of src/src/tasks/tasks.      *)
(* service.ts show of one task, while it moves from one state to the next. *)
(* Every list filters row by row: what it shows of one task does not       *)
(* depend on the others (the cutting into pages is in Paging).             *)
(*                                                                         *)
(* A filter of the database is an object: a function from columns to the   *)
(* values they may have, and from "OR" to a set of alternatives, of which  *)
(* one must match.  The code puts objects together by spreading them one   *)
(* after the other: a key that is there already is overwritten.            *)
(*                                                                         *)
(* Posts, assignees and periods of createdAt and updatedAt are filters of  *)
(* the same kind as those here, on columns nothing else refers to; they    *)
(* are left out.                                                           *)
(*                                                                         *)
(* A definition marked "mutant" is one below it with a mistake in it; it   *)
(* is used nowhere.                                                        *)
(***************************************************************************)
EXTENDS Naturals, Sequences, FiniteSets

CONSTANTS
  Owner,      \* the profile the task belongs to
  Executor,   \* the profiles that may be its executor
  None,       \* null
  NotGiven,        \* a parameter the query does not give
  MaxComment  \* bounds how many comments are written

VARIABLES
  task,     \* the Task row
  comments, \* the authors of its comments, in the order of createdAt
  cursor,   \* lastReadAt, as the number of comments up to it; 0 for none
  viewer    \* the profile that looks at its lists, and what it asks for

vars == <<task, comments, cursor, viewer>>
-----------------------------------------------------------------------------
User == Executor \cup {Owner}

TaskStatus == {"PREPARING", "PENDING_APPROVAL", "IN_PROGRESS", "CHECKING",
               "REVISION", "COMPLETED", "ANNULLED"}
Terminal == {"COMPLETED", "ANNULLED"}

\* A Boolean column, and a Boolean parameter, as the address of a query has it.
Flag == {"true", "false"}
Approval == Flag \cup {"null"}

\* Where the deadline lies from here, in the order in which time passes.
Deadline == <<"later", "laterToday", "earlierToday", "past">>

TaskRow ==
  [ownerId: {Owner}, executorId: Executor \cup {None}, status: TaskStatus,
   isExecutorApprove: Approval, isCompanyAction: Flag, urgent: Flag,
   isArchived: Flag, finalDate: {"null"} \cup {Deadline[i] : i \in 1..4}]

Role == {"owner", "executor", NotGiven}

\* The parameters of GET /tasks/stats.  A period is one of finalDate, on which the
\* counters ask for it unless they are told otherwise, and of this day.
Parameters ==
  [role: Role, executorId: User \cup {NotGiven}, ownerId: User \cup {NotGiven},
   period: {"today", NotGiven}]

IsParticipant(u) == u \in {task.ownerId, task.executorId}

Peer(u) == IF u = Owner THEN task.executorId ELSE Owner
-----------------------------------------------------------------------------
(* The task moves: PATCH /tasks/:id (updates in full are in TaskLifecycle), *)
(* an annulment that is agreed upon, and the time that passes.              *)

Init ==
  /\ task \in {row \in TaskRow : /\ row.status = "PREPARING"
                                /\ row.isExecutorApprove = "null"
                                /\ row.isCompanyAction = "false" /\ row.isArchived = "false"
                                /\ row.finalDate \in {"null", "later"}}
  /\ comments = <<>>
  /\ cursor = [u \in User |-> 0]
  /\ viewer = NotGiven

Sets(column, value) ==
  /\ task[column] # value
  /\ task' = [task EXCEPT ![column] = value]

SetExecutor(e) ==
  /\ task.executorId # e
  /\ task' = [task EXCEPT !.executorId = e, !.isExecutorApprove = "null"]

Archive ==
  /\ \/ task.status \in Terminal
     \/ task.status = "PREPARING" /\ task.isExecutorApprove # "true"
  /\ Sets("isArchived", "true")

Update ==
  /\ \/ \E e \in Executor : SetExecutor(e)
     \/ \E a \in Flag : Sets("isExecutorApprove", a)
     \/ \E s \in TaskStatus \ {"ANNULLED"} : Sets("status", s)
     \/ \E b \in Flag : Sets("isCompanyAction", b)
     \/ Archive \/ Sets("isArchived", "false")
  /\ UNCHANGED <<comments, cursor, viewer>>

Annul ==
  /\ task.executorId # None
  /\ Sets("status", "ANNULLED")
  /\ UNCHANGED <<comments, cursor, viewer>>

TimePasses ==
  /\ \E i \in 1..3 : task.finalDate = Deadline[i] /\ Sets("finalDate", Deadline[i + 1])
  /\ UNCHANGED <<comments, cursor, viewer>>

CreateComment(u) ==
  /\ IsParticipant(u)
  /\ Len(comments) < MaxComment
  /\ comments' = Append(comments, u)
  /\ UNCHANGED <<task, cursor, viewer>>

\* listComments marks what there is as read, unless it is asked not to.
ListComments(u) ==
  /\ IsParticipant(u)
  /\ cursor' = [cursor EXCEPT ![u] = Len(comments)]
  /\ UNCHANGED <<task, comments, viewer>>

\* The dashboard of a profile: from here on it is shown its lists, its counters and its
\* feeds, of the task as it is by then.
Look(u, query) ==
  /\ viewer = NotGiven
  /\ viewer' = [user |-> u, query |-> query]
  /\ UNCHANGED <<task, comments, cursor>>

Next ==
  \/ Update \/ Annul \/ TimePasses
  \/ \E u \in User : CreateComment(u) \/ ListComments(u) \/ \E query \in Parameters : Look(u, query)

Spec == Init /\ [][Next]_vars
-----------------------------------------------------------------------------
(* Filters                                                                  *)

Nothing == [column \in {} |-> {}]

OneOf(column, values) == [c \in {column} |-> values]

\* { ...first, ...second }
Spread(first, second) ==
  [column \in DOMAIN first \cup DOMAIN second |->
     IF column \in DOMAIN second THEN second[column] ELSE first[column]]

\* ...(condition && object)
When(condition, object) == IF condition THEN object ELSE Nothing

\* The objects of a sequence spread one after the other: the last to have a column
\* says what it may be.
Object(parts) ==
  LET Last(column) ==
        LET places == {i \in DOMAIN parts : column \in DOMAIN parts[i]}
        IN  CHOOSE i \in places : \A j \in places : j <= i
  IN  [column \in UNION {DOMAIN parts[i] : i \in DOMAIN parts} |-> parts[Last(column)][column]]

MatchesColumns(row, where) ==
  \A column \in DOMAIN where \ {"OR"} : row[column] \in where[column]

Matches(row, where) ==
  /\ MatchesColumns(row, where)
  /\ "OR" \in DOMAIN where =>
       \E alternative \in where["OR"] : MatchesColumns(row, alternative)

\* What findMany and count make of filters that must all match.
Listed(wheres) == \A where \in wheres : Matches(task, where)

Is(column, value) == OneOf(column, {value})
Either(first, second) == OneOf("OR", {first, second})

NotNull == OneOf("executorId", User \ {None})
Answered == OneOf("isExecutorApprove", Flag)
Unanswered == Is("isExecutorApprove", "null")
ActiveStatus == OneOf("status", TaskStatus \ Terminal)
Overdue == OneOf("finalDate", {"past", "earlierToday"})
Today == OneOf("finalDate", {"earlierToday", "laterToday"})

\* buildParticipantTaskWhere
Participant(u, role) ==
  CASE role = "owner"    -> Is("ownerId", u)
    [] role = "executor" -> Is("executorId", u)
    [] role = NotGiven   -> Either(Is("ownerId", u), Is("executorId", u))
-----------------------------------------------------------------------------
(* GET /tasks and GET /tasks/pending-approval                               *)

Given(parameter) == parameter # NotGiven

\* A query without parameters.  `q` is found in the title or in the post.
Query ==
  [route |-> "tasks", role |-> NotGiven, status |-> NotGiven, active |-> NotGiven,
   excludeCompleted |-> NotGiven, ownerId |-> NotGiven, executorId |-> NotGiven,
   isCompanyAction |-> NotGiven, isExecutorApprove |-> NotGiven, unassigned |-> NotGiven,
   overdue |-> NotGiven, urgent |-> NotGiven, isArchived |-> NotGiven,
   deadlineDate |-> NotGiven, period |-> NotGiven,
   q |-> NotGiven, personQ |-> NotGiven, personField |-> NotGiven]

Pending(query) == query.route = "pending-approval"

\* forceExecutorRole
RoleOf(query) == IF Pending(query) THEN "executor" ELSE query.role

StatusFilter(query) ==
  LET excluded == IF query.active = "true" THEN Terminal
                  ELSE {s \in {"COMPLETED"} : query.excludeCompleted = "true"}
      explicit == IF Given(query.status) THEN {query.status} ELSE TaskStatus
  IN  When(Given(query.status) \/ excluded # {}, OneOf("status", explicit \ excluded))

\* A parameter that asks for one value of the column of its name.
Equal(query, column) == When(Given(query[column]), Is(column, query[column]))

\* dateFrom and dateTo, with finalDate as dateField.
Period(query) == When(query.period = "today", Today)

\* Somebody's name is looked for: here, everybody has it.
PersonSearch(query) ==
  LET field == IF Given(query.personField) THEN query.personField
               ELSE IF query.role = "owner" THEN "executor" ELSE "owner"
  IN  When(Given(query.personQ) /\ field = "executor", NotNull)

Answer(query) ==
  When(Given(query.isExecutorApprove) /\ ~Pending(query),
       Spread(Is("isExecutorApprove", query.isExecutorApprove),
              When(query.isExecutorApprove = "null" /\ query.unassigned # "true", NotNull)))

Unassigned(u, role) ==
  CASE role = "executor" -> OneOf("executorId", {})
    [] role = "owner"    -> Spread(Is("executorId", None), Unanswered)
    [] role = NotGiven   -> Object(<<Is("ownerId", u), Is("executorId", None), Unanswered>>)

\* A task whose title, or whose post, has the words looked for.
Search == Either(Nothing, Nothing)

\* buildListWhere: the keys in the order of the code.
ListParts(u, query) ==
  <<Participant(u, RoleOf(query)),
    When(Pending(query), Unanswered),
    StatusFilter(query),
    Equal(query, "ownerId"),
    Equal(query, "executorId"),
    When(query.deadlineDate = "today", Today),
    Period(query),
    When(Given(query.q), Search),
    PersonSearch(query),
    Equal(query, "isCompanyAction"),
    Answer(query),
    Equal(query, "urgent"),
    Is("isArchived", IF query.isArchived = "true" THEN "true" ELSE "false"),
    When(query.overdue = "true", Overdue),
    When(query.unassigned = "true", Unassigned(u, RoleOf(query))) >>

ListWhere(u, query) == Object(ListParts(u, query))

List(u, query) == Listed({ListWhere(u, query)})
-----------------------------------------------------------------------------
(* GET /tasks/stats                                                         *)

\* buildStatsBaseWhere
StatsBase(u, query) ==
  Object(<<Participant(u, query.role), Equal(query, "executorId"), Equal(query, "ownerId"),
           Is("isArchived", "false"), Period(query)>>)

\* Whose turn it is.
TurnOf(role) == Is("isCompanyAction", IF role = "owner" THEN "true" ELSE "false")

AwaitingActionUnanswered(u, role, active) ==  \* mutant
  IF role # NotGiven THEN {Spread(active, TurnOf(role))}
  ELSE {active, Either(Spread(Is("ownerId", u), TurnOf("owner")),
                       Spread(Is("executorId", u), TurnOf("executor")))}

\* buildAwaitingActionWhere
AwaitingAction(u, role, active) ==
  LET mine(r) == Spread(TurnOf(r), Answered)
  IN  IF role # NotGiven THEN {Spread(active, mine(role))}
      ELSE {active, Either(Spread(Is("ownerId", u), mine("owner")),
                           Spread(Is("executorId", u), mine("executor")))}

Stats(u, query) ==
  LET base == StatsBase(u, query)
      active == Spread(base, ActiveStatus)
  IN  [awaitingAction       |-> Listed(AwaitingAction(u, query.role, active)),
       awaitingConfirmation |-> Listed({active, Spread(Unanswered, NotNull)}),
       unassigned           |-> /\ query.role # "executor" /\ ~Given(query.executorId)
                                /\ Listed({Object(<<active, Is("ownerId", u),
                                             Is("executorId", None), Unanswered>>)}),
       overdue              |-> Listed({Spread(active, Overdue)}),
       urgent               |-> Listed({Spread(active, Is("urgent", "true"))}),
       underReview          |-> Listed({Spread(base, Is("status", "CHECKING"))}),
       cancelled            |-> Listed({Spread(base, Is("status", "ANNULLED"))})]
-----------------------------------------------------------------------------
(* The calendar, and the feeds of comments and activities                   *)

Calendar(u, role) == Listed({Spread(Participant(u, role), Is("isArchived", "false"))})

\* findById, and everything under /tasks/:id: by taskId, a feed asks the same.
Opens(u) == IsParticipant(u)

\* listAllActivities, listAllComments: archived tasks too.
InFeed(u, role) == Listed({Participant(u, role)})

\* toCommentResponse, mapCommentsWithReadState: the numbers of the comments shown
\* as unread, one's own by what the other side has read.
ShownUnread(u) ==
  {i \in 1..Len(comments) :
     LET reader == IF comments[i] = u THEN Peer(u) ELSE u
     IN  reader = None \/ cursor[reader] < i}

AllComments(u, role) ==
  IF InFeed(u, role) THEN [shown |-> 1..Len(comments), unread |-> ShownUnread(u)]
  ELSE [shown |-> {}, unread |-> {}]

CountUnreadOfAll(u) == Len(comments) - cursor[u]  \* mutant

\* countUnreadCommentsByTask
CountUnread(u) == Cardinality({i \in cursor[u] + 1..Len(comments) : comments[i] # u})

\* buildTasksWithCommentsWhere
TasksWithComments(u, role) == Spread(Participant(u, role), Is("isArchived", "false"))

\* listTasksWithComments: the groups by task of the comments found.
WithComments(u, role) ==
  IF comments # <<>> /\ Listed({TasksWithComments(u, role)})
  THEN [found |-> TRUE, commentsCount |-> Len(comments), lastComment |-> Len(comments),
        unreadCount |-> CountUnread(u)]
  ELSE [found |-> FALSE]
-----------------------------------------------------------------------------
(* Properties                                                               *)

\* The list that is given what the counters are given.
Asked(query) ==
  [Query EXCEPT !.role = query.role, !.executorId = query.executorId,
                !.ownerId = query.ownerId, !.period = query.period]

\* What waits for an answer: the executor has a route of its own for it, since a
\* filter on the answer overwrites the one on the executor.
Confirmation(u, query) ==
  IF query.role = "executor"
  THEN List(u, [Asked(query) EXCEPT !.route = "pending-approval", !.active = "true"])
  ELSE List(u, [Asked(query) EXCEPT !.active = "true", !.isExecutorApprove = "null"])

\* What waits for the viewer, in a role of his: answered, and his side's turn.
Turn(u, query) ==
  \E r \in {"owner", "executor"}, a \in Flag :
    /\ query.role \in {r, NotGiven}
    /\ List(u, [Asked(query) EXCEPT !.active = "true", !.role = r, !.isExecutorApprove = a,
                       !.isCompanyAction = IF r = "owner" THEN "true" ELSE "false"])

\* Every counter of the dashboard counts what the list behind it shows when it is given
\* the same parameters, in every role, for any owner, executor or period, wherever the
\* task has got to (getStats builds its filters apart from buildListWhere,
\* tasks.service.ts:425 and :682) - but where a filter overwrites a parameter in the one
\* and not in the other:
\*   the lists of tasks without an executor, and of the owner's without an answer, drop
\*     the executor asked for (:774, :892), and show what is counted without it; the
\*     counter of tasks without an executor is 0 then (:463);
\*   this counter drops the owner asked for (:468), its list in the role of the owner
\*     does not (:887);
\*   without a role, the list of a role drops that it is the viewer's (:744) where
\*     somebody else is asked for, and shows at least what is counted.
CountsAreListed ==
  viewer # NotGiven =>
    LET u == viewer.user
        query == viewer.query
        stats == Stats(u, query)
        ofAnyone == Stats(u, [query EXCEPT !.executorId = NotGiven])
        active == [Asked(query) EXCEPT !.active = "true"]
        owned == query.ownerId \in {u, NotGiven}
        executed == query.executorId \in {u, NotGiven}
    IN  /\ stats.overdue <=> List(u, [active EXCEPT !.overdue = "true"])
        /\ stats.urgent <=> List(u, [active EXCEPT !.urgent = "true"])
        /\ stats.underReview <=> List(u, [Asked(query) EXCEPT !.status = "CHECKING"])
        /\ stats.cancelled <=> List(u, [Asked(query) EXCEPT !.status = "ANNULLED"])
        /\ stats.unassigned <=> ofAnyone.unassigned /\ ~Given(query.executorId)
        /\ owned \/ query.role # "owner" =>
             (ofAnyone.unassigned <=> List(u, [active EXCEPT !.unassigned = "true"]))
        /\ LET confirmed == IF query.role = "executor" THEN stats ELSE ofAnyone
           IN  confirmed.awaitingConfirmation <=> Confirmation(u, query)
        /\ stats.awaitingAction => Turn(u, query)
        /\ query.role # NotGiven \/ (owned /\ executed) =>
             (Turn(u, query) => stats.awaitingAction)

\* The task is in the calendar, in the list and in the feeds of exactly those who
\* may open it, and the badge on it counts the comments its feed shows as unread,
\* whoever was its executor when they were read and written (countUnreadCommentsByTask
\* and toCommentResponse work it out apart, tasks.service.ts:1028 and :4136).
FeedsAgree ==
  viewer # NotGiven =>
    LET u == viewer.user
        summary == WithComments(u, NotGiven)
        feed == AllComments(u, NotGiven)
    IN  /\ InFeed(u, NotGiven) <=> Opens(u)
        /\ Calendar(u, NotGiven) <=> Opens(u) /\ task.isArchived = "false"
        /\ List(u, Query) <=> Calendar(u, NotGiven)
        /\ Opens(u) <=> \E r \in {"owner", "executor"} : InFeed(u, r)
        /\ summary.found =>
             /\ summary.unreadCount
                  = Cardinality({i \in feed.unread : comments[i] # u})
             /\ summary.lastComment \in feed.shown

\* Violated: tasks.controller.ts:70 says of GET /tasks that it lists the tasks of
\* which the user is the owner or the executor; the OR of `q` overwrites that of the
\* participants, and the filter on the answer the one on the executor.
ListedTakesPart ==
  \A u \in User :
    \A query \in {[Query EXCEPT !.q = "word"],
                  [Query EXCEPT !.role = "executor", !.isExecutorApprove = "null"],
                  [Query EXCEPT !.role = "executor", !.personQ = "name",
                                !.personField = "executor"]} :
      List(u, query) => IsParticipant(u)
=============================================================================
